SPECIFICATION Spec
CONSTANTS
  RingBufferSize = 5
  SpinLimit = 2
  TallyLimit = 2
  VsyncQueueSize = 1
  FrameLimited = TRUE
  DisableOutputs = {FALSE}
  SynchronousMTGS = FALSE
  PacketSizes = {2}
  VsyncQwc = 1
  Calls = {"vsync", "simple", "reset"}
  MaxEvents = 1
INVARIANTS VsyncHandshake FrameCount
CHECK_DEADLOCK FALSE
