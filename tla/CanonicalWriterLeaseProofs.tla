--------------------- MODULE CanonicalWriterLeaseProofs ---------------------
(* Proofs about the canonical writer lease, for any number of processes,    *)
(* pooled connections and sessions.                                         *)
EXTENDS CanonicalWriterLease, TLAPS

-----------------------------------------------------------------------------
(* The inductive invariant.                                                 *)

(* An acquire call under way owns a session, and owns it alone.             *)
SessionsDisjoint ==
  /\ \A p \in Procs : acqStep[p] = "idle" <=> acq[p] = 0
  /\ \A p, q \in Procs : conn[p] # 0 => conn[p] # acq[q]
  /\ \A p, q \in Procs : p # q /\ acq[p] # 0 => acq[p] # acq[q]

(* The holder of L has passed the barrier, or is the newcomer that has not. *)
LeaderEstablished ==
  /\ \A p \in Procs : conn[p] # 0 /\ conn[p] = leader => established = leader
  /\ \A p \in Procs : acqStep[p] = "fence" /\ acq[p] = leader => established = leader
  /\ \A p \in Procs : acqStep[p] = "leader" /\ acq[p] = leader => established < leader

(* F is held exclusively by the leader alone, and never with a shared one.  *)
BarrierExclusive ==
  barrier # 0 => /\ barrier = leader
                 /\ \A p \in Procs : conn[p] # barrier
                 /\ ~FenceShared

(* FencedWriters, for sessions that exist.                                  *)
WritersStamped ==
  \A p \in Procs, c \in Conns :
    phase[p][c] \in Mutable => stamp[p][c] = established /\ stamp[p][c] # 0

LeaseInv == /\ TypeOK
            /\ SessionsDisjoint
            /\ LeaderEstablished
            /\ BarrierExclusive
            /\ WritersStamped

(* What closing a session may do to the locks of the server.                *)
LEMMA CloseSessionLocks ==
  ASSUME TypeOK, BarrierExclusive, NEW s \in 0 .. sessions, CloseSession(s)
  PROVE  /\ leader' \in {0, leader}
         /\ barrier' \in {0, barrier}
         /\ leader' = 0 => barrier' = 0
BY DEF CloseSession, Without, BarrierExclusive, TypeOK, Session

(* A raising verification keeps the types of what it changes.               *)
LEMMA VerifyRaisesTypes ==
  ASSUME TypeOK, NEW p \in Procs, VerifyRaises(p)
  PROVE  /\ sessions' = sessions
         /\ leader' \in 0 .. sessions
         /\ barrier' \in 0 .. sessions
         /\ conn' \in [Procs -> 0 .. sessions]
         /\ lease' \in [Procs -> LeaseStates]
         /\ acq' = acq
         /\ acqStep' = acqStep
<1>1. CASE conn[p] = 0
  BY <1>1, MaxSessionsAssumption DEF TypeOK, Session, VerifyRaises
<1>2. CASE conn[p] # 0
  <2>1. LatchLoss(p)
    BY <1>2 DEF VerifyRaises
  <2> QED
    BY <2>1, MaxSessionsAssumption
    DEF TypeOK, Session, LeaseStates, VerifyRaises, LatchLoss, CloseSession, Without
<1> QED
  BY <1>1, <1>2

(* Type correctness: every step keeps every variable in its type.           *)
LEMMA TypeStep == TypeOK /\ [Next]_vars => TypeOK'
<1> SUFFICES ASSUME TypeOK, [Next]_vars PROVE TypeOK'
  OBVIOUS
<1> USE MaxSessionsAssumption DEF TypeOK, Session, LeaseStates, AcquireSteps,
        Phases, server, store, txns
<1>1. CASE SessionDrop
  BY <1>1 DEF SessionDrop, Without
<1>2. ASSUME NEW p \in Procs, AcquireLeader(p) PROVE TypeOK'
  BY <1>2 DEF AcquireLeader
<1>3. ASSUME NEW p \in Procs, AcquireBarrier(p) PROVE TypeOK'
  BY <1>3 DEF AcquireBarrier
<1>4. ASSUME NEW p \in Procs, AcquireComplete(p) PROVE TypeOK'
  BY <1>4 DEF AcquireComplete
<1>5. ASSUME NEW p \in Procs, AbandonAcquire(p) PROVE TypeOK'
  BY <1>5 DEF AbandonAcquire, CloseSession, Without
<1>6. ASSUME NEW p \in Procs, VerifyLease(p) PROVE TypeOK'
  BY <1>6, VerifyRaisesTypes DEF VerifyLease
<1>7. ASSUME NEW p \in Procs, ReleaseLease(p) PROVE TypeOK'
  BY <1>7 DEF ReleaseLease, CloseSession, Without
<1>8. ASSUME NEW p \in Procs, Crash(p) PROVE TypeOK'
  <2>1. \A c \in Conns : Orphaned(phase[p][c]) \in Phases
    BY DEF Orphaned
  <2> QED
    BY <1>8, <2>1 DEF Crash
<1>9. ASSUME NEW p \in Procs, NEW c \in Conns, BeginWrite(p, c) PROVE TypeOK'
  BY <1>9 DEF BeginWrite, SetPhase
<1>10. ASSUME NEW p \in Procs, NEW c \in Conns, RequestFence(p, c) PROVE TypeOK'
  BY <1>10 DEF RequestFence, SetPhase
<1>11. ASSUME NEW p \in Procs, NEW c \in Conns, GrantFence(p, c) PROVE TypeOK'
  BY <1>11 DEF GrantFence, SetPhase
<1>12. ASSUME NEW p \in Procs, NEW c \in Conns, VerifyFenced(p, c) PROVE TypeOK'
  BY <1>12 DEF VerifyFenced, SetPhase
<1>13. ASSUME NEW p \in Procs, NEW c \in Conns, RejectWrite(p, c) PROVE TypeOK'
  BY <1>13, VerifyRaisesTypes DEF RejectWrite, SetPhase
<1>14. ASSUME NEW p \in Procs, NEW c \in Conns, CommitWrite(p, c) PROVE TypeOK'
  BY <1>14 DEF CommitWrite, SetPhase
<1>15. ASSUME NEW p \in Procs, NEW c \in Conns, RollbackWrite(p, c) PROVE TypeOK'
  BY <1>15 DEF RollbackWrite, SetPhase
<1>16. CASE UNCHANGED vars
  BY <1>16 DEF vars
<1> QED
  BY <1>1, <1>2, <1>3, <1>4, <1>5, <1>6, <1>7, <1>8, <1>9, <1>10, <1>11,
     <1>12, <1>13, <1>14, <1>15, <1>16
  DEF Next, LeaseStep, AcquireStep, WriteStep, AcquireRefused, AcquireError

LEMMA TypeInit == Init => TypeOK
BY MaxSessionsAssumption
DEF Init, TypeOK, Session, LeaseStates, AcquireSteps, Phases

(* The variables of the lease, of its server and of its transactions always *)
(* have their types, for any number of processes and sessions.              *)
THEOREM TypeInvariant == Spec => []TypeOK
BY TypeInit, TypeStep, PTL DEF Spec

-----------------------------------------------------------------------------
(* LeaseInv is inductive.                                                   *)

LEMMA LeaseInit == Init => LeaseInv
<1> SUFFICES ASSUME Init PROVE LeaseInv
  OBVIOUS
<1>1. TypeOK
  BY TypeInit
<1> QED
  BY <1>1 DEF LeaseInv, Init, SessionsDisjoint, LeaderEstablished,
              BarrierExclusive, WritersStamped, Mutable

(* A raising verification only ever takes locks and connections away.       *)
LEMMA VerifyRaisesEffect ==
  ASSUME LeaseInv, NEW p \in Procs, VerifyRaises(p)
  PROVE  /\ leader' \in {0, leader}
         /\ barrier' \in {0, barrier}
         /\ leader' = 0 => barrier' = 0
         /\ \A q \in Procs : conn'[q] \in {0, conn[q]}
         /\ acq' = acq /\ acqStep' = acqStep
<1>1. CASE conn[p] = 0
  BY <1>1 DEF LeaseInv, TypeOK, BarrierExclusive, VerifyRaises
<1>2. CASE conn[p] # 0
  <2>1. LatchLoss(p) /\ conn[p] \in 0 .. sessions
    BY <1>2 DEF VerifyRaises, LeaseInv, TypeOK
  <2>2. \A q \in Procs : conn'[q] \in {0, conn[q]}
    BY <2>1 DEF LatchLoss, LeaseInv, TypeOK
  <2> QED
    BY <2>1, <2>2, CloseSessionLocks DEF LatchLoss, VerifyRaises, LeaseInv
<1> QED
  BY <1>1, <1>2

(* Ending a transaction, or starting one, lets no new one hold the fence.   *)
LEMMA SetPhaseShrinks ==
  ASSUME TypeOK, NEW p \in Procs, NEW c \in Conns,
         NEW ph \in {"idle", "begun", "waiting"}, SetPhase(p, c, ph)
  PROVE  \A q \in Procs, d \in Conns :
            /\ phase'[q][d] \in Shared => phase[q][d] \in Shared
            /\ phase'[q][d] \in Mutable => phase[q][d] \in Mutable
BY DEF TypeOK, SetPhase, Shared, Mutable

LEMMA LeaseInvStep == LeaseInv /\ [Next]_vars => LeaseInv'
<1> SUFFICES ASSUME LeaseInv, [Next]_vars PROVE LeaseInv'
  OBVIOUS
<1> DEFINE Rest == /\ SessionsDisjoint
                   /\ LeaderEstablished
                   /\ BarrierExclusive
                   /\ WritersStamped
<1> SUFFICES Rest'
  BY TypeStep DEF LeaseInv
<1> USE MaxSessionsAssumption DEF LeaseInv, TypeOK, Session
<1>1. CASE SessionDrop
  BY <1>1 DEF SessionDrop, Without, store, txns, SessionsDisjoint,
     LeaderEstablished, BarrierExclusive, WritersStamped, FenceShared
<1>2. ASSUME NEW p \in Procs, AcquireLeader(p) PROVE Rest'
  BY <1>2 DEF AcquireLeader, LockFree, txns, SessionsDisjoint, LeaderEstablished,
     BarrierExclusive, WritersStamped, FenceShared, AcquireSteps
<1>3. ASSUME NEW p \in Procs, AcquireBarrier(p) PROVE Rest'
  BY <1>3 DEF AcquireBarrier, txns, SessionsDisjoint, LeaderEstablished,
     BarrierExclusive, WritersStamped, FenceShared, AcquireSteps, Mutable, Shared
<1>4. ASSUME NEW p \in Procs, AcquireComplete(p) PROVE Rest'
  BY <1>4 DEF AcquireComplete, txns, SessionsDisjoint, LeaderEstablished,
     BarrierExclusive, WritersStamped, FenceShared, AcquireSteps
<1>5. ASSUME NEW p \in Procs, AbandonAcquire(p) PROVE Rest'
  BY <1>5, CloseSessionLocks DEF AbandonAcquire, txns, SessionsDisjoint,
     LeaderEstablished, BarrierExclusive, WritersStamped, FenceShared, AcquireSteps
<1>6. ASSUME NEW p \in Procs, VerifyLease(p) PROVE Rest'
  BY <1>6, VerifyRaisesEffect DEF VerifyLease, txns, SessionsDisjoint,
     LeaderEstablished, BarrierExclusive, WritersStamped, FenceShared
<1>7. ASSUME NEW p \in Procs, ReleaseLease(p) PROVE Rest'
  BY <1>7, CloseSessionLocks DEF ReleaseLease, txns,
     SessionsDisjoint, LeaderEstablished, BarrierExclusive, WritersStamped, FenceShared
<1>8. ASSUME NEW p \in Procs, Crash(p) PROVE Rest'
  BY <1>8 DEF Crash, Orphaned, server, SessionsDisjoint, LeaderEstablished,
     BarrierExclusive, WritersStamped, FenceShared, AcquireSteps, Mutable, Shared, Phases
<1>9. ASSUME NEW p \in Procs, NEW c \in Conns,
             BeginWrite(p, c) \/ RequestFence(p, c) PROVE Rest'
  BY <1>9, SetPhaseShrinks DEF BeginWrite, RequestFence, server, store,
     SessionsDisjoint, LeaderEstablished, BarrierExclusive, WritersStamped, FenceShared
<1>10. ASSUME NEW p \in Procs, NEW c \in Conns, GrantFence(p, c) PROVE Rest'
  BY <1>10 DEF GrantFence, SetPhase, server, store, SessionsDisjoint,
     LeaderEstablished, BarrierExclusive, WritersStamped, Mutable
<1>11. ASSUME NEW p \in Procs, NEW c \in Conns, VerifyFenced(p, c) PROVE Rest'
  BY <1>11 DEF VerifyFenced, Verifies, SetPhase, server, store, SessionsDisjoint,
     LeaderEstablished, BarrierExclusive, WritersStamped, FenceShared, Shared, Mutable
<1>12. ASSUME NEW p \in Procs, NEW c \in Conns, RejectWrite(p, c) PROVE Rest'
  BY <1>12, VerifyRaisesEffect, SetPhaseShrinks DEF RejectWrite, SessionsDisjoint,
     LeaderEstablished, BarrierExclusive, WritersStamped, FenceShared
<1>13. ASSUME NEW p \in Procs, NEW c \in Conns,
              CommitWrite(p, c) \/ RollbackWrite(p, c) PROVE Rest'
  BY <1>13, SetPhaseShrinks DEF CommitWrite, RollbackWrite, server, store,
     SessionsDisjoint, LeaderEstablished, BarrierExclusive, WritersStamped, FenceShared
<1>14. CASE UNCHANGED vars
  BY <1>14 DEF vars, SessionsDisjoint, LeaderEstablished, BarrierExclusive,
     WritersStamped, FenceShared
<1> QED
  BY <1>1, <1>2, <1>3, <1>4, <1>5, <1>6, <1>7, <1>8, <1>9, <1>10, <1>11, <1>12,
     <1>13, <1>14
  DEF Next, LeaseStep, AcquireStep, WriteStep, AcquireRefused, AcquireError

LEMMA LeaseInvariant == Spec => []LeaseInv
BY LeaseInit, LeaseInvStep, PTL DEF Spec

(* Fencing: whatever crashes, drops and releases happen, a transaction that *)
(* may still commit was verified under the session established last.        *)
THEOREM FencedWritersTheorem == Spec => []FencedWriters
<1>1. LeaseInv => FencedWriters
  BY DEF LeaseInv, WritersStamped, FencedWriters
<1> QED
  BY <1>1, LeaseInvariant, PTL

-----------------------------------------------------------------------------
(* Refinement of WriterAuthority.                                           *)

(* Passing the barrier moves authority forward; a commit uses the current   *)
(* authority; no other step touches either.                                 *)
LEMMA AuthorityStep ==
  LeaseInv /\ [Next]_vars => [Authority!AuthNext]_<<established, written>>
<1> SUFFICES ASSUME LeaseInv, [Next]_vars
             PROVE  Authority!AuthNext \/ UNCHANGED <<established, written>>
  OBVIOUS
<1>1. ASSUME NEW p \in Procs, AcquireBarrier(p)
      PROVE  Authority!AuthNext
  BY <1>1, MaxSessionsAssumption DEF AcquireBarrier, LeaseInv, TypeOK, Session,
     LeaderEstablished, Authority!AuthNext, Authority!Establish
<1>2. ASSUME NEW p \in Procs, NEW c \in Conns, CommitWrite(p, c)
      PROVE  Authority!AuthNext
  BY <1>2 DEF CommitWrite, LeaseInv, WritersStamped, Authority!AuthNext, Authority!Mutate
<1>3. CASE SessionDrop
  BY <1>3 DEF SessionDrop
<1>4. ASSUME NEW p \in Procs,
             \/ AcquireLeader(p) \/ AcquireComplete(p) \/ AbandonAcquire(p)
             \/ VerifyLease(p) \/ ReleaseLease(p) \/ Crash(p)
      PROVE  UNCHANGED <<established, written>>
  BY <1>4 DEF AcquireLeader, AcquireComplete, AbandonAcquire, VerifyLease,
     ReleaseLease, Crash
<1>5. ASSUME NEW p \in Procs, NEW c \in Conns,
             \/ BeginWrite(p, c) \/ RequestFence(p, c) \/ GrantFence(p, c)
             \/ VerifyFenced(p, c) \/ RejectWrite(p, c) \/ RollbackWrite(p, c)
      PROVE  UNCHANGED <<established, written>>
  BY <1>5 DEF BeginWrite, RequestFence, GrantFence, VerifyFenced, RejectWrite,
     RollbackWrite
<1>6. CASE UNCHANGED vars
  BY <1>6 DEF vars
<1> QED
  BY <1>1, <1>2, <1>3, <1>4, <1>5, <1>6
  DEF Next, LeaseStep, AcquireStep, WriteStep, AcquireRefused, AcquireError

(* The lease implements WriterAuthority: sessions pass the barrier in       *)
(* increasing order, and every committed canonical mutation is made under   *)
(* the session that passed it last.                                         *)
THEOREM AuthorityTheorem == Spec => AuthorityRefinement
<1>1. Init => Authority!AuthInit
  BY DEF Init, Authority!AuthInit
<1> QED
  BY <1>1, AuthorityStep, LeaseInvariant, PTL
  DEF Spec, AuthorityRefinement, Authority!AuthSpec

-----------------------------------------------------------------------------
(* The latch.                                                               *)

(* A store that lost its lease has neither a session nor an acquire call.   *)
LostIsBare ==
  \A p \in Procs : lease[p] = "lost" => conn[p] = 0 /\ LockFree(p)

LEMMA LostIsBareStep == TypeOK /\ LostIsBare /\ [Next]_vars => LostIsBare'
<1> SUFFICES ASSUME TypeOK, LostIsBare, [Next]_vars PROVE LostIsBare'
  OBVIOUS
<1> USE DEF TypeOK, LostIsBare, LockFree
<1>1. CASE SessionDrop
  BY <1>1 DEF SessionDrop, store
<1>2. ASSUME NEW p \in Procs,
             \/ AcquireLeader(p) \/ AcquireBarrier(p) \/ AcquireComplete(p)
             \/ AbandonAcquire(p) \/ ReleaseLease(p) \/ Crash(p)
      PROVE  LostIsBare'
  BY <1>2 DEF AcquireLeader, AcquireBarrier, AcquireComplete, AbandonAcquire,
     ReleaseLease, Crash
<1>3. ASSUME NEW p \in Procs, VerifyRaises(p) PROVE LostIsBare'
  BY <1>3 DEF VerifyRaises, LatchLoss
<1>4. ASSUME NEW p \in Procs, NEW c \in Conns,
             \/ BeginWrite(p, c) \/ RequestFence(p, c) \/ GrantFence(p, c)
             \/ VerifyFenced(p, c) \/ CommitWrite(p, c) \/ RollbackWrite(p, c)
      PROVE  LostIsBare'
  BY <1>4 DEF BeginWrite, RequestFence, GrantFence, VerifyFenced, CommitWrite,
     RollbackWrite, store
<1>5. CASE UNCHANGED vars
  BY <1>5 DEF vars
<1> QED
  BY <1>1, <1>2, <1>3, <1>4, <1>5
  DEF Next, LeaseStep, AcquireStep, WriteStep, AcquireRefused, AcquireError,
      VerifyLease, RejectWrite

(* What the latch forbids in one step.                                      *)
Latched(p) ==
  lease[p] = "lost" =>
    /\ lease'[p] \in {"lost", "unacquired"}
    /\ conn'[p] = 0
    /\ \A c \in Conns : phase'[p][c] = "verified" => phase[p][c] = "verified"

LEMMA LatchStep ==
  ASSUME TypeOK, LostIsBare, [Next]_vars, NEW p \in Procs
  PROVE  Latched(p)
<1> SUFFICES ASSUME lease[p] = "lost"
             PROVE  /\ lease'[p] \in {"lost", "unacquired"}
                    /\ conn'[p] = 0
                    /\ \A c \in Conns : phase'[p][c] = "verified" => phase[p][c] = "verified"
  BY DEF Latched
<1>0. conn[p] = 0 /\ acqStep[p] = "idle"
  BY DEF LostIsBare, LockFree
<1> USE <1>0 DEF TypeOK
<1>1. CASE SessionDrop
  BY <1>1 DEF SessionDrop, store, txns
<1>2. ASSUME NEW q \in Procs,
             \/ AcquireLeader(q) \/ AcquireBarrier(q) \/ AcquireComplete(q)
             \/ AbandonAcquire(q) \/ ReleaseLease(q)
      PROVE  lease'[p] = "lost" /\ conn'[p] = 0 /\ phase' = phase
  BY <1>2 DEF AcquireLeader, AcquireBarrier, AcquireComplete, AbandonAcquire,
     ReleaseLease, txns
<1>3. ASSUME NEW q \in Procs, VerifyRaises(q)
      PROVE  lease'[p] = "lost" /\ conn'[p] = 0
  BY <1>3 DEF VerifyRaises, LatchLoss
<1>4. ASSUME NEW q \in Procs, Crash(q)
      PROVE  /\ lease'[p] \in {"lost", "unacquired"}
             /\ conn'[p] = 0
             /\ \A c \in Conns : phase'[p][c] = "verified" => phase[p][c] = "verified"
  BY <1>4 DEF Crash, Orphaned, Mutable
<1>5. ASSUME NEW q \in Procs, NEW d \in Conns,
             \/ BeginWrite(q, d) \/ RequestFence(q, d) \/ GrantFence(q, d)
             \/ CommitWrite(q, d) \/ RollbackWrite(q, d)
      PROVE  /\ lease'[p] = "lost" /\ conn'[p] = 0
             /\ \A c \in Conns : phase'[p][c] = "verified" => phase[p][c] = "verified"
  BY <1>5 DEF BeginWrite, RequestFence, GrantFence, CommitWrite, RollbackWrite,
     SetPhase, store
<1>6. ASSUME NEW q \in Procs, NEW d \in Conns, VerifyFenced(q, d)
      PROVE  /\ lease'[p] = "lost" /\ conn'[p] = 0
             /\ \A c \in Conns : phase'[p][c] = "verified" => phase[p][c] = "verified"
  BY <1>6 DEF VerifyFenced, Verifies, SetPhase, store
<1>7. ASSUME NEW q \in Procs, NEW d \in Conns, SetPhase(q, d, "idle")
      PROVE  \A c \in Conns : phase'[p][c] = "verified" => phase[p][c] = "verified"
  BY <1>7 DEF SetPhase
<1>8. CASE UNCHANGED vars
  BY <1>8 DEF vars
<1> QED
  BY <1>1, <1>2, <1>3, <1>4, <1>5, <1>6, <1>7, <1>8
  DEF Next, LeaseStep, AcquireStep, WriteStep, AcquireRefused, AcquireError,
      VerifyLease, RejectWrite, txns

(* A lost lease is lost for the life of the process, and takes the right to *)
(* verify another transaction with it.                                      *)
THEOREM LossLatchedTheorem == Spec => LossLatched
<1>1. Init => LostIsBare
  BY DEF Init, LostIsBare
<1>2. TypeOK /\ LostIsBare /\ [Next]_vars => [\A p \in Procs : Latched(p)]_vars
  BY LatchStep
<1>3. (\A p \in Procs : Latched(p)) <=>
       \A p \in Procs :
         lease[p] = "lost" =>
           /\ lease'[p] \in {"lost", "unacquired"}
           /\ conn'[p] = 0
           /\ \A c \in Conns : phase'[p][c] = "verified" => phase[p][c] = "verified"
  BY DEF Latched
<1> QED
  BY <1>1, <1>2, <1>3, LostIsBareStep, TypeInvariant, PTL DEF Spec, LossLatched
=============================================================================
