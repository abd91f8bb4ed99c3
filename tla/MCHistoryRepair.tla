-------------------------- MODULE MCHistoryRepair --------------------------
(* Three calls about a chart whose provider answers with a rolling window;   *)
(* one of them may instead walk back chunk by chunk.                         *)
EXTENDS HistoryRepair, TLC

CONSTANTS d1, d2, d3, exact, rolling

MCScopesOf == d1 :> {exact, rolling} @@ d2 :> {rolling} @@ d3 :> {rolling}
============================================================================
