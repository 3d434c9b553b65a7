SPECIFICATION Spec
CONSTANTS
  RingBufferSize = 5
  SpinLimit = 1
  TallyLimit = 2
  VsyncQueueSize = 2
  FrameLimited = TRUE
  DisableOutputs = {TRUE}
  SynchronousMTGS = FALSE
  PacketSizes = {2}
  VsyncQwc = 1
  Calls = {"vsync"}
  MaxEvents = 1
INVARIANTS FrameCount
CHECK_DEADLOCK FALSE
