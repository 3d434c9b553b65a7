SPECIFICATION AgreedSpec
CONSTANTS
  FifoQuads = 2
  Packets <- MCLong
  Modes = {"CHAIN"}
  Ttes = {FALSE}
  MayStop = TRUE
  Mapped = {TRUE}
PROPERTY FreshStart
