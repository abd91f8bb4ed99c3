----------------------- MODULE MCCanonicalWriterLease -----------------------
(* Two stores, two pooled connections each, up to three lease holders.      *)
EXTENDS CanonicalWriterLease, TLC

StoreSymmetry == Permutations(Procs) \cup Permutations(Conns)
=============================================================================
