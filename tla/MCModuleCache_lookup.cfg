SPECIFICATION Spec
CONSTANTS
  libA = libA
  libB = libB
  id1 = id1
  id2 = id2
  Name <- Names
  Id <- Ids
  ElfFile <- ElfFiles
  MachFile <- MachFiles
  MaxAddr = 2
  MaxPlacements = 3
  None = None
  Bad = Bad
INVARIANTS
  RangesWithinImages
  AnswersAgree
  AnswersWereRight
  PanicsOnlyOnUnreadable
PROPERTY RangesOnlyGrow
CHECK_DEADLOCK FALSE
