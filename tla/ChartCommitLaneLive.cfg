SPECIFICATION FairSpec
CONSTANTS
  None = None
  Revisions = {a, b}
  Slots = {1}
  DedupeTail = 1
  QueueLimit = 2
  MaxLive = 2
  MaxHistory = 1
  MaxUncertain = 1
PROPERTIES
  LaneDrains
