SPECIFICATION FairSpec
CONSTANTS
  a = a
  b = b
  t = t
  u = u
  NClusters = 4
  NSlots = 3
  FatPerSector = 8
  Names <- MCNames
  Texts <- MCTexts
  MaxSize = 2
  MaxDepth = 2
  MaxNesting = 4
  Requests <- LostCwdRequests
  MaxFaults = 0
  MaxCrashes = 0
INVARIANT ChainsEnd
PROPERTY OperationsEnd
