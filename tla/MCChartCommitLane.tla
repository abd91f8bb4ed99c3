------------------------ MODULE MCChartCommitLane ------------------------
EXTENDS ChartCommitLane, TLC

RevisionSymmetry == Permutations(Revisions)
==========================================================================
