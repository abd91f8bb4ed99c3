SPECIFICATION FairSpec
CONSTANTS
  None = None
  d1 = d1
  d2 = d2
  d3 = d3
  exact = exact
  rolling = rolling
  Demands = {d1, d2, d3}
  Scopes = {exact, rolling}
  ScopesOf <- MCScopesOf
  Rolling = {rolling}
  Chunks = 2
  MaxPending = 1
  MaxCallbacks = 1
  MaxOutcomes = 1
  MaxGeneration = 1
INVARIANTS
  NoOrphanSubscriber
  NoFutileFetch
PROPERTIES
  DemandsAnswered
