SPECIFICATION FairSpec
CONSTANTS
  gui = gui
  executor = executor
  Callers = {gui, executor}
  Calls = {"Suspend", "Pause", "Resume"}
  Patient = TRUE
  MayFail = FALSE
  MaxTokens = 2
PROPERTIES ChangeAnswered
CHECK_DEADLOCK FALSE
