---------------------------- MODULE MCAlertQuotes ----------------------------
(* One alert that looks for a rise and one for any crossing.                *)
EXTENDS AlertQuotes

CONSTANTS a1, a2

MCDirection == [a \in Alerts |-> IF a = a1 THEN "above" ELSE "any"]
=============================================================================
