SPECIFICATION FairSpec
CONSTANTS
  Loops = {l1, l2}
  Services = {s1}
  MaxRestarts = 2
INVARIANTS
  NoOverlap
  LeaseCoversRuntime
  EveryOwnerStopped
PROPERTIES
  ShutdownEnds
  LoopsRestarted
