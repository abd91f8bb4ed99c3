SPECIFICATION FairSpec
CONSTANTS
  Procs = {p1, p2}
  Conns = {c1}
  MaxSessions = 3
INVARIANTS
  TypeOK
  FencedWriters
PROPERTIES
  AuthorityRefinement
  LossLatched
  WritesSettle
