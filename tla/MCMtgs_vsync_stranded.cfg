SPECIFICATION FairSpec
CONSTANTS
  RingBufferSize = 5
  SpinLimit = 1
  TallyLimit = 2
  VsyncQueueSize = 2
  FrameLimited = FALSE
  DisableOutputs = {FALSE}
  SynchronousMTGS = FALSE
  PacketSizes = {2}
  VsyncQwc = 1
  Calls = {"vsync"}
  MaxEvents = 1
PROPERTIES VsyncStartsGS
CHECK_DEADLOCK FALSE
