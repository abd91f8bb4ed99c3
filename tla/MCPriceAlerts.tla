---------------------------- MODULE MCPriceAlerts ----------------------------
(* Fixed alerts whose prices agree to two decimals: those that fire in one   *)
(* pass have one message.  An EMA or VSA alert is of another kind.           *)
EXTENDS PriceAlerts
CONSTANTS fixed, dynamic
LevelOf ==
    [f \in Alerts \X (0..MaxClock) |-> IF f[1] \in Dynamic THEN dynamic ELSE fixed]
=============================================================================
