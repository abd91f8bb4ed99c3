---------------------------- MODULE MCChartStream ----------------------------
(* Slot 1 is old, slot 2 is in the tail of every checkpoint; the provider    *)
(* reports both.                                                             *)
EXTENDS ChartStream
=============================================================================
