SPECIFICATION FairSpec
CONSTANTS
  NPorts = 2
  CmdSize = 4
  CtrlSize = 5
  IntrSize = 3
  EvtSize = 3
  Keys = {a}
  MaxReports = 2
  MaxErrors = 1
  MaxPortEvents = 1
INVARIANTS TypeOK RingsAgree FoundRight NoneFound
PROPERTIES OnceInOrder 
