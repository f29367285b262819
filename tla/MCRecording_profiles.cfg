SPECIFICATION RecordingSpec
CONSTANTS
  libA = libA
  libB = libB
  id = id
  Name <- Names
  Id <- Ids
  ElfFile <- ElfFiles
  MachFile <- MachFiles
  MaxAddr = 2
  MaxPlacements = 2
  Bad = Bad
  ThreadId = {t1, t2}
  ModuleInfo <- Infos
  Rva <- Addresses
  None = None
  U32 = 4
  MaxSamples = 2
  MaxFrames = 2
  MaxOutputs = 2
SYMMETRY Symmetry
INVARIANTS
  TablesConsistent
  ProfilesDecode
  ExportKeepsStacks
PROPERTY IndicesNeverChange
CHECK_DEADLOCK FALSE
