------------------------ MODULE MCHistoryCoverage ------------------------
EXTENDS HistoryCoverage

DemandSymmetry == Permutations(Demands)
==========================================================================
