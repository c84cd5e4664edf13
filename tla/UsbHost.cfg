SPECIFICATION Spec
CONSTANTS
  NPorts = 3
  Keys = {a}
  MaxReports = 3
  MaxErrors = 1
INVARIANTS TypeOK HidAnswers OncePerReport
