SPECIFICATION AgreedSpec
CONSTANTS
  FifoQuads = 2
  Packets <- MCUneven
  Modes = {"CHAIN"}
  Ttes = {FALSE}
  MayStop = FALSE
  Mapped = {TRUE}
INVARIANT InStep
