SPECIFICATION Spec
CONSTANTS
  None = None
  Revisions = {a, b}
  Slots = {1, 2}
  DedupeTail = 1
  QueueLimit = 2
  MaxLive = 3
  MaxHistory = 1
  MaxUncertain = 1
SYMMETRY RevisionSymmetry
INVARIANTS
  RevisionsOrdered
  HistoryIsNewest
PROPERTIES
  NothingLost
