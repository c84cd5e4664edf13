SPECIFICATION Spec
CONSTANTS
  a = a
  b = b
  t = t
  u = u
  NClusters = 4
  NSlots = 3
  FatPerSector = 4
  Names <- MCNames
  Texts <- MCTexts
  MaxSize = 2
  MaxDepth = 2
  MaxNesting = 4
  Requests <- MishapRequests
  MaxFaults = 1
  MaxCrashes = 1
INVARIANTS TreeSound NothingLost FilesWhole UniqueNames DiskSound FatOnDisk
PROPERTY SuccessKept
CONSTRAINT Unharmed
