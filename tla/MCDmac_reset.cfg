SPECIFICATION Spec
CONSTANTS
  Channels = {SPR0, SPR1}
  Chains <- MCChains
  Saves <- MCSaves
  MaxRestarts = 1
INVARIANT QueueIsOfStarts
