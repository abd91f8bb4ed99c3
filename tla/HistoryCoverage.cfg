SPECIFICATION CoverageSpec
CONSTANTS
  MaxTime = 4
  MaxSpan = 2
  Demands = {d1, d2}
  MaxCommits = 4
SYMMETRY DemandSymmetry
INVARIANTS
  CoverageIsExact
  GapsAreExact
  RepairsAreNews
