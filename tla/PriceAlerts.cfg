SPECIFICATION FairSpec
CONSTANTS
  None = None
  fixed = fixed
  dynamic = dynamic
  Level <- LevelOf
  Alerts = {a1, a2, a3}
  Dynamic = {a3}
  Commanders = {c1}
  Loops = {"quotes", "monitor", "delivery"}
  BatchSize = 1
  MaxClock = 3
  MaxFailures = 1
  MaxRestarts = 1
CHECK_DEADLOCK FALSE
INVARIANTS
  NoDuplicateSend
  SentMeansSent
  IntentKept
  RegistryIsCurrent
PROPERTIES
  IntentIsSent
