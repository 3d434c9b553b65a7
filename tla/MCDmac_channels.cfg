SPECIFICATION FairSpec
CONSTANTS
  Channels = {SPR0, SPR1}
  Chains <- MCChains
  Saves <- MCSaves
  MaxRestarts = 1
INVARIANTS NothingLost StoppedIsSilent QueuedNotBegun TagsOfChain
PROPERTIES EndsComplete TransfersEnd
