SPECIFICATION FairSpec
CONSTANTS
  gui = gui
  executor = executor
  Callers = {executor}
  Calls = {"Suspend", "SuspendAsync", "Pause", "Resume", "Reset", "Upload", "Cancel"}
  Patient = TRUE
  MayFail = TRUE
  MaxTokens = 2
INVARIANTS ReturnMeansSuspended ResetBeforeRun UploadExclusive
PROPERTIES CallsReturn
CHECK_DEADLOCK FALSE
