SPECIFICATION Spec
CONSTANTS
  Module = {m1, m2}
  Rva = {1, 2}
  short = short
  long = long
  Version <- Versions
  Size <- Sizes
  Generator = {g1, g2}
  None = None
  Unknown = Unknown
  MaxFrames = 2
INVARIANTS
  FramesStayInPlace
  OneReadingPerModule
  FinishedFilesAreWhole
  CleanReadsAreWhole
SYMMETRY Symmetry
CHECK_DEADLOCK FALSE
