SPECIFICATION FairSpec
CONSTANTS
  gui = gui
  core = core
  Posters = {gui, core}
  Quitters = {gui}
  Kinds <- KindsOf
  MaxEvents = 1
PROPERTY ResumeOnlyIfAllowed
CHECK_DEADLOCK FALSE
