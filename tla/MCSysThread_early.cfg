SPECIFICATION Spec
CONSTANTS
  gui = gui
  executor = executor
  Callers = {executor}
  Calls = {"Pause", "Resume"}
  Patient = FALSE
  MayFail = FALSE
  MaxTokens = 2
INVARIANTS ReturnMeansSuspended
CHECK_DEADLOCK FALSE
