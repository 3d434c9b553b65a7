SPECIFICATION Spec
CONSTANTS
  Channels = {SPR0}
  Chains <- MCChains
  Saves <- MCSaves
  MaxRestarts = 1
INVARIANT QueuedStarts
