SPECIFICATION AgreedFairSpec
CONSTANTS
  FifoQuads = 2
  Packets <- MCUneven
  Modes = {"CHAIN"}
  Ttes = {FALSE}
  MayStop = FALSE
  Mapped = {TRUE}
PROPERTY LoopEnds
