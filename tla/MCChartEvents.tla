--------------------------- MODULE MCChartEvents ---------------------------
(* Small instances of the generation registry.                              *)
EXTENDS ChartEvents, TLC

CommitSymmetry == Permutations(Keys) \cup Permutations(Writers)
============================================================================
