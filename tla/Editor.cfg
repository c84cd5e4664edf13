SPECIFICATION Spec
CONSTANTS
  a = a
  NL = NL
  Tab = Tab
  Absent = Absent
  Damaged = Damaged
  Chars = {a}
  MaxSize = 4
  MaxLines = 4
  Rows = 2
  Cols = 2
  Files <- SomeFiles
  MaxFaults = 2
INVARIANTS TypeOK CleanMeansSaved CursorShown
PROPERTY VerticalByLine
