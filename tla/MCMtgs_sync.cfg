SPECIFICATION Spec
CONSTANTS
  RingBufferSize = 4
  SpinLimit = 1
  TallyLimit = 2
  VsyncQueueSize = 2
  FrameLimited = TRUE
  DisableOutputs = {TRUE, FALSE}
  SynchronousMTGS = TRUE
  PacketSizes = {2}
  VsyncQwc = 1
  Calls = {"data", "simple", "freeze", "wait"}
  MaxEvents = 1
INVARIANTS SyncLockstep
