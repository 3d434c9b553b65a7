SPECIFICATION FairSpec
CONSTANTS
  RingBufferSize = 4
  SpinLimit = 1
  TallyLimit = 2
  VsyncQueueSize = 2
  FrameLimited = TRUE
  DisableOutputs = {FALSE}
  SynchronousMTGS = FALSE
  PacketSizes = {2}
  VsyncQwc = 1
  Calls = {"simple", "wait"}
  MaxEvents = 1
PROPERTIES WaitReturns
