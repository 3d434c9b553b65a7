SPECIFICATION FairSpec
CONSTANTS
  gui = gui
  core = core
  Posters = {gui, core}
  Quitters = {gui}
  Kinds <- KindsOf
  MaxEvents = 2
INVARIANTS WokenForWork AnswerMeansDone ScopesHold
PROPERTIES TaskRefinement CallsReturn EventsRun
CHECK_DEADLOCK FALSE
