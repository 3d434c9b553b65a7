SPECIFICATION AgreedFairSpec
CONSTANTS
  FifoQuads = 2
  Packets <- MCAny
  Modes = {"CHAIN", "NORMAL"}
  NormalQwc = {0, 2}
  MayStop = TRUE
  Mapped = {TRUE, FALSE}
INVARIANTS AgreedInStep Accounted
PROPERTIES StreamRefinement LoopEnds
