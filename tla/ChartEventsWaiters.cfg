SPECIFICATION Spec
CONSTANTS
  None = None
  Keys = {k1, k2, k3}
  Writers = {w1}
  Readers = {}
  Publishers = {}
  Watchers = {u1}
  StableWaiters = {s1}
  MaxEvents = 2
  MaxRefreshKeys = 1
  MaxGenerationKeys = 2
  MaxVersions = 2
INVARIANTS
  NoSilentGap
  NoLostWakeup
