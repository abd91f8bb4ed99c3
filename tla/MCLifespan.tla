------------------------------ MODULE MCLifespan ------------------------------
(* Two background loops and one service behind the lease.                     *)
EXTENDS Lifespan
=============================================================================
