SPECIFICATION FairSpec
CONSTANTS
  gui = gui
  executor = executor
  Callers = {gui, executor}
  Calls = {"Suspend", "SuspendAsync", "Pause", "Resume", "Reset", "Upload", "Cancel"}
  Patient = FALSE
  MayFail = TRUE
  MaxTokens = 1
INVARIANTS SafelyPaused RunsOpen
PROPERTIES ResumeRuns
CHECK_DEADLOCK FALSE
