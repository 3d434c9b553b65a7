SPECIFICATION AgreedFairSpec
CONSTANTS
  FifoQuads = 2
  Packets <- MCMatched
  Modes = {"CHAIN", "NORMAL"}
  Ttes = {TRUE, FALSE}
  MayStop = TRUE
  Mapped = {TRUE, FALSE}
INVARIANTS AgreedInStep Accounted IopServed
PROPERTIES StreamRefinement WholeLoopEnds
