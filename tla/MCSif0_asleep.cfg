SPECIFICATION AgreedSpec
CONSTANTS
  FifoQuads = 3
  Packets <- MCMatched
  Modes = {"CHAIN"}
  NormalQwc = {}
  MayStop = FALSE
  Mapped = {TRUE}
INVARIANT EeServed
