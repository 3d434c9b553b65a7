SPECIFICATION FairSpec
CONSTANTS
  RingBufferSize = 5
  SpinLimit = 1
  TallyLimit = 2
  VsyncQueueSize = 2
  FrameLimited = TRUE
  DisableOutputs = {FALSE}
  SynchronousMTGS = FALSE
  PacketSizes = {2}
  VsyncQwc = 1
  Calls = {"data"}
  MaxEvents = 1
INVARIANTS RoomHeld SignalHandshake
PROPERTIES PublishedStable QueueRefinement StallEnds
