SPECIFICATION Spec
CONSTANTS
  gui = gui
  executor = executor
  Callers = {executor}
  Calls = {"Suspend", "Resume"}
  Patient = TRUE
  MayFail = FALSE
  MaxTokens = 2
INVARIANTS SuspendAssumes
CHECK_DEADLOCK FALSE
