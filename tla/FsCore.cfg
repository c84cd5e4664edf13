SPECIFICATION Spec
CONSTANTS
  a = a
  b = b
  t = t
  u = u
  NClusters = 5
  NSlots = 3
  FatPerSector = 8
  Names <- MCNames
  Texts <- MCTexts
  MaxSize = 2
  MaxDepth = 1
  MaxNesting = 3
  Requests <- CoreRequests
  MaxFaults = 0
  MaxCrashes = 0
INVARIANTS TypeOK TreeSound NothingLost RecursionFits
CONSTRAINT Unharmed
