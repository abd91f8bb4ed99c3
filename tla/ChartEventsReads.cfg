SPECIFICATION Spec
CONSTANTS
  None = None
  Keys = {k1}
  Writers = {w1, w2}
  Readers = {r1, r2}
  Publishers = {q1}
  Watchers = {}
  StableWaiters = {}
  MaxEvents = 1
  MaxRefreshKeys = 1
  MaxGenerationKeys = 1
  MaxVersions = 3
SYMMETRY CommitSymmetry
INVARIANTS
  ReadsValidated
  GuardOwnsGeneration
  EffectsCurrent
