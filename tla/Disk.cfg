SPECIFICATION Spec
CONSTANTS
  Lbas = {1, 2}
  Values = {x, y}
  Blank = Blank
  RamLbas = {1}
  MaxFaults = 2
  MaxCrashes = 2
INVARIANTS TypeOK AckedStays
PROPERTY ImplementsStore
