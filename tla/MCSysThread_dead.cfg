SPECIFICATION Spec
CONSTANTS
  gui = gui
  executor = executor
  Callers = {executor}
  Calls = {"Pause", "Resume"}
  Patient = TRUE
  MayFail = TRUE
  MaxTokens = 2
INVARIANTS NoThreadMode
CHECK_DEADLOCK FALSE
