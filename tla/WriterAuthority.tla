-------------------------- MODULE WriterAuthority --------------------------
(* What the canonical writer lease promises the database, with the locks,   *)
(* connections and processes left out: writer authority is handed on in one *)
(* direction only, and every committed canonical mutation is made under the *)
(* authority that is current at that moment.                                *)
EXTENDS Naturals

VARIABLES epoch,    \* the authority established last; 0 before the first one
          written   \* the authority the last committed mutation was made under

AuthInit == epoch = 0 /\ written = 0

Establish == /\ epoch' \in Nat
             /\ epoch' > epoch
             /\ UNCHANGED written

Mutate == /\ epoch # 0
          /\ written' = epoch
          /\ UNCHANGED epoch

AuthNext == Establish \/ Mutate

AuthSpec == AuthInit /\ [][AuthNext]_<<epoch, written>>
=============================================================================
