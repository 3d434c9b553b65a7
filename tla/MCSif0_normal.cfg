SPECIFICATION AgreedSpec
CONSTANTS
  FifoQuads = 3
  Packets <- MCMatched
  Modes = {"NORMAL"}
  NormalQwc = {3}
  MayStop = FALSE
  Mapped = {TRUE}
INVARIANT NormalEnds
