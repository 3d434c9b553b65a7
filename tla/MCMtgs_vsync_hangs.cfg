SPECIFICATION FairSpec
CONSTANTS
  RingBufferSize = 7
  SpinLimit = 1
  TallyLimit = 2
  VsyncQueueSize = 1
  FrameLimited = TRUE
  DisableOutputs = {FALSE}
  SynchronousMTGS = FALSE
  PacketSizes = {2}
  VsyncQwc = 1
  Calls = {"vsync"}
  MaxEvents = 1
PROPERTIES VsyncWakes
CHECK_DEADLOCK FALSE
