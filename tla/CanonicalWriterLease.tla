------------------------ MODULE CanonicalWriterLease ------------------------
(* The canonical-writer lease of PostgresStore (storage/repos/connection.py).*)
(*                                                                           *)
(* Every process that may write canonical data keeps one dedicated           *)
(* PostgreSQL session holding the session-level advisory lock L (the lease   *)
(* key).  A canonical transaction runs on a pooled connection and takes the  *)
(* advisory lock F (the fence key) in shared mode for its duration; a new    *)
(* lease holder takes F exclusively once, as a barrier against transactions  *)
(* of the holder before it.                                                  *)
(*                                                                           *)
(* A dedicated session is named by the number of sessions that obtained L    *)
(* before it, plus one; a session that never obtained L has no effect and is *)
(* not represented.  Session numbers are bounded by MaxSessions.             *)
EXTENDS Naturals

CONSTANTS Procs,        \* store instances, one per process
          Conns,        \* pooled connections of one store
          MaxSessions   \* bound on dedicated sessions that obtain L

ASSUME MaxSessionsAssumption == MaxSessions \in Nat

VARIABLES
  (* PostgreSQL *)
  sessions,      \* sessions that have obtained L so far
  leader,        \* the session holding L, 0 when it is free
  barrier,       \* the session holding F exclusively, 0 when none does
  (* the stores *)
  conn,          \* conn[p]: _canonical_writer_lease_connection, 0 for None
  lease,         \* lease[p]: _canonical_writer_lease_state
  acq,           \* acq[p]: the session of an acquire call under way, else 0
  acqStep,       \* acqStep[p]: how far that call has come
  (* canonical transactions *)
  phase,         \* phase[p][c]: progress of the transaction on connection c
  stamp,         \* stamp[p][c]: the session its last verification saw
  (* history *)
  established,   \* the session that passed the exclusive barrier last
  written        \* the session of the last committed canonical mutation

server == <<sessions, leader, barrier>>
store  == <<conn, lease, acq, acqStep>>
txns   == <<phase, stamp>>
vars   == <<sessions, leader, barrier, conn, lease, acq, acqStep,
            phase, stamp, established, written>>

Session == 0 .. MaxSessions
LeaseStates == {"unacquired", "held", "lost", "released"}
AcquireSteps == {"idle", "leader", "fence"}
(* "detached" and "doomed" are transactions whose process died: the first  *)
(* had finished its statements, so a commit may already be on the wire; the *)
(* second can only be rolled back when the server notices.                  *)
Phases == {"idle", "begun", "waiting", "fenced", "verified",
           "detached", "doomed"}
Mutable == {"verified", "detached"}
Shared == {"fenced", "verified", "detached", "doomed"}

(* One type per variable; the sessions in use are ones already allotted.    *)
TypeOK ==
  /\ sessions \in Session
  /\ leader \in 0 .. sessions
  /\ barrier \in 0 .. sessions
  /\ conn \in [Procs -> 0 .. sessions]
  /\ lease \in [Procs -> LeaseStates]
  /\ acq \in [Procs -> 0 .. sessions]
  /\ acqStep \in [Procs -> AcquireSteps]
  /\ phase \in [Procs -> [Conns -> Phases]]
  /\ stamp \in [Procs -> [Conns -> 0 .. sessions]]
  /\ established \in 0 .. sessions
  /\ written \in 0 .. sessions

Init ==
  /\ sessions = 0
  /\ leader = 0
  /\ barrier = 0
  /\ conn = [p \in Procs |-> 0]
  /\ lease = [p \in Procs |-> "unacquired"]
  /\ acq = [p \in Procs |-> 0]
  /\ acqStep = [p \in Procs |-> "idle"]
  /\ phase = [p \in Procs |-> [c \in Conns |-> "idle"]]
  /\ stamp = [p \in Procs |-> [c \in Conns |-> 0]]
  /\ established = 0
  /\ written = 0

-----------------------------------------------------------------------------
(* Lock state of the server.                                                *)

FenceShared == \E p \in Procs, c \in Conns : phase[p][c] \in Shared

Without(holder, s) == IF holder = s THEN 0 ELSE holder

(* connection.close(): the server drops the session's locks now, or keeps   *)
(* them until it notices (SessionDrop).                                     *)
CloseSession(s) ==
  \/ leader' = Without(leader, s) /\ barrier' = Without(barrier, s)
  \/ UNCHANGED <<leader, barrier>>

(* The server ends the dedicated session that holds L, whoever owns it.     *)
SessionDrop ==
  /\ leader # 0
  /\ leader' = 0
  /\ barrier' = Without(barrier, leader)
  /\ UNCHANGED <<sessions, store, txns, established, written>>

-----------------------------------------------------------------------------
(* acquire_canonical_writer_lease.  The whole call holds the store's lease  *)
(* lock, so acqStep[p] # "idle" also means that lock is taken.  A call that *)
(* finds L taken closes its connection and changes nothing.                 *)

LockFree(p) == acqStep[p] = "idle"

(* Mutant: the latched loss is not consulted. *)
MutantAcquireIgnoresLoss(p) ==
  /\ LockFree(p)
  /\ conn[p] = 0
  /\ leader = 0
  /\ sessions < MaxSessions
  /\ sessions' = sessions + 1
  /\ leader' = sessions + 1
  /\ acq' = [acq EXCEPT ![p] = sessions + 1]
  /\ acqStep' = [acqStep EXCEPT ![p] = "leader"]
  /\ UNCHANGED <<barrier, conn, lease, txns, established, written>>

AcquireLeader(p) ==
  /\ LockFree(p)
  /\ lease[p] # "lost"
  /\ conn[p] = 0
  /\ leader = 0
  /\ sessions < MaxSessions
  /\ sessions' = sessions + 1
  /\ leader' = sessions + 1
  /\ acq' = [acq EXCEPT ![p] = sessions + 1]
  /\ acqStep' = [acqStep EXCEPT ![p] = "leader"]
  /\ UNCHANGED <<barrier, conn, lease, txns, established, written>>

(* Mutant: the new leader does not wait for fenced transactions. *)
MutantBarrierIgnoresWriters(p) ==
  /\ acqStep[p] = "leader"
  /\ leader = acq[p]
  /\ barrier' = acq[p]
  /\ established' = acq[p]
  /\ acqStep' = [acqStep EXCEPT ![p] = "fence"]
  /\ UNCHANGED <<sessions, leader, conn, lease, acq, txns, written>>

AcquireBarrier(p) ==
  /\ acqStep[p] = "leader"
  /\ leader = acq[p]
  /\ ~FenceShared
  /\ barrier' = acq[p]
  /\ established' = acq[p]
  /\ acqStep' = [acqStep EXCEPT ![p] = "fence"]
  /\ UNCHANGED <<sessions, leader, conn, lease, acq, txns, written>>

AcquireComplete(p) ==
  /\ acqStep[p] = "fence"
  /\ leader = acq[p]
  /\ barrier' = 0
  /\ conn' = [conn EXCEPT ![p] = acq[p]]
  /\ lease' = [lease EXCEPT ![p] = "held"]
  /\ acq' = [acq EXCEPT ![p] = 0]
  /\ acqStep' = [acqStep EXCEPT ![p] = "idle"]
  /\ UNCHANGED <<sessions, leader, txns, established, written>>

AbandonAcquire(p) ==
  /\ CloseSession(acq[p])
  /\ acq' = [acq EXCEPT ![p] = 0]
  /\ acqStep' = [acqStep EXCEPT ![p] = "idle"]
  /\ UNCHANGED <<sessions, conn, lease, txns, established, written>>

(* Mutant: pg_advisory_lock instead of pg_try_advisory_lock on the fence. *)
MutantFenceBlocks(p) ==
  /\ acqStep[p] # "idle" /\ leader # acq[p]
  /\ AbandonAcquire(p)

(* The fence is busy, or the dedicated session is gone.                     *)
AcquireRefused(p) ==
  /\ \/ acqStep[p] = "leader" /\ FenceShared
     \/ acqStep[p] # "idle" /\ leader # acq[p]
  /\ AbandonAcquire(p)

(* Any statement of the call may raise although the session is alive.       *)
AcquireError(p) ==
  /\ acqStep[p] # "idle"
  /\ AbandonAcquire(p)

-----------------------------------------------------------------------------
(* _verify_canonical_writer_lease_locked: it returns, or it raises; a raise *)
(* with a connection in place latches the loss.                             *)

(* Mutant: a connection object is taken for the lease itself. *)
MutantVerifiesLocally(p) == LockFree(p) /\ conn[p] # 0

Verifies(p) ==
  /\ LockFree(p)
  /\ conn[p] # 0
  /\ conn[p] = leader

LatchLoss(p) ==
  /\ conn' = [conn EXCEPT ![p] = 0]
  /\ lease' = [lease EXCEPT ![p] = "lost"]
  /\ CloseSession(conn[p])

VerifyRaises(p) ==
  /\ LockFree(p)
  /\ IF conn[p] # 0 THEN LatchLoss(p)
                    ELSE UNCHANGED <<conn, lease, leader, barrier>>
  /\ UNCHANGED <<sessions, acq, acqStep>>

(* A verification outside a transaction: lifespan startup, readiness.       *)
VerifyLease(p) ==
  /\ conn[p] # 0
  /\ VerifyRaises(p)
  /\ UNCHANGED <<txns, established, written>>

(* Mutant: the state is left at "releasing" when the unlock succeeds. *)
MutantReleaseUnfinished(p) ==
  /\ LockFree(p)
  /\ conn[p] # 0
  /\ conn' = [conn EXCEPT ![p] = 0]
  /\ leader = conn[p]
  /\ leader' = 0
  /\ lease' = [lease EXCEPT ![p] = "releasing"]
  /\ UNCHANGED <<sessions, barrier, acq, acqStep, txns, established, written>>

(* release_canonical_writer_lease: "lost" when the unlock fails or reports  *)
(* that L was not owned.                                                    *)
ReleaseLease(p) ==
  /\ LockFree(p)
  /\ conn[p] # 0
  /\ conn' = [conn EXCEPT ![p] = 0]
  /\ \/ /\ leader = conn[p]
        /\ leader' = 0
        /\ lease' = [lease EXCEPT ![p] = "released"]
        /\ UNCHANGED barrier
     \/ /\ lease' = [lease EXCEPT ![p] = "lost"]
        /\ CloseSession(conn[p])
  /\ UNCHANGED <<sessions, acq, acqStep, txns, established, written>>

-----------------------------------------------------------------------------
(* One canonical transaction: _canonical_write_cursor with                  *)
(* _acquire_canonical_writer_fence_on_cursor.                               *)

SetPhase(p, c, ph) == phase' = [phase EXCEPT ![p][c] = ph]

BeginWrite(p, c) ==
  /\ phase[p][c] = "idle"
  /\ Verifies(p)
  /\ SetPhase(p, c, "begun")
  /\ UNCHANGED <<server, store, stamp, established, written>>

RequestFence(p, c) ==
  /\ phase[p][c] = "begun"
  /\ Verifies(p)
  /\ SetPhase(p, c, "waiting")
  /\ UNCHANGED <<server, store, stamp, established, written>>

GrantFence(p, c) ==
  /\ phase[p][c] = "waiting"
  /\ barrier = 0
  /\ SetPhase(p, c, "fenced")
  /\ UNCHANGED <<server, store, stamp, established, written>>

VerifyFenced(p, c) ==
  /\ phase[p][c] = "fenced"
  /\ Verifies(p)
  /\ SetPhase(p, c, "verified")
  /\ stamp' = [stamp EXCEPT ![p][c] = conn[p]]
  /\ UNCHANGED <<server, store, established, written>>

(* The verification of RequestFence or VerifyFenced raises: roll back.      *)
RejectWrite(p, c) ==
  /\ phase[p][c] \in {"begun", "fenced"}
  /\ VerifyRaises(p)
  /\ SetPhase(p, c, "idle")
  /\ UNCHANGED <<stamp, established, written>>

(* The mutations of the body become visible with the commit.                *)
CommitWrite(p, c) ==
  /\ phase[p][c] \in Mutable
  /\ written' = stamp[p][c]
  /\ SetPhase(p, c, "idle")
  /\ UNCHANGED <<server, store, stamp, established>>

(* The body raises, a statement is cancelled, or the connection dies.       *)
RollbackWrite(p, c) ==
  /\ phase[p][c] # "idle"
  /\ SetPhase(p, c, "idle")
  /\ UNCHANGED <<server, store, stamp, established, written>>

-----------------------------------------------------------------------------
(* The process dies and starts again.  Its sessions are cut off: the        *)
(* dedicated one keeps its locks until SessionDrop.                         *)
Orphaned(ph) == CASE ph \in Mutable -> "detached"
                  [] ph \in {"fenced", "doomed"} -> "doomed"
                  [] OTHER -> "idle"

Crash(p) ==
  /\ conn' = [conn EXCEPT ![p] = 0]
  /\ lease' = [lease EXCEPT ![p] = "unacquired"]
  /\ acq' = [acq EXCEPT ![p] = 0]
  /\ acqStep' = [acqStep EXCEPT ![p] = "idle"]
  /\ phase' = [phase EXCEPT ![p] = [c \in Conns |-> Orphaned(phase[p][c])]]
  /\ UNCHANGED <<server, stamp, established, written>>

AcquireStep(p) == \/ AcquireBarrier(p)
                  \/ AcquireComplete(p)
                  \/ AcquireRefused(p)

WriteStep(p, c) == \/ RequestFence(p, c)
                   \/ GrantFence(p, c)
                   \/ VerifyFenced(p, c)
                   \/ RejectWrite(p, c)
                   \/ CommitWrite(p, c)

LeaseStep(p) == \/ AcquireLeader(p)
                \/ AcquireStep(p)
                \/ AcquireError(p)
                \/ VerifyLease(p)
                \/ ReleaseLease(p)
                \/ Crash(p)

Next ==
  \/ SessionDrop
  \/ \E p \in Procs : LeaseStep(p)
  \/ \E p \in Procs, c \in Conns : \/ BeginWrite(p, c)
                                   \/ WriteStep(p, c)
                                   \/ RollbackWrite(p, c)

Spec == Init /\ [][Next]_vars

(* A call that has begun is executed: the steps of an acquire call and of a *)
(* transaction each run on a thread of their own.  Beginning anything, and  *)
(* every failure, stays optional.  The server eventually notices that the   *)
(* client of a session is gone: it ends a dedicated session no store owns   *)
(* and rolls back a transaction of a dead process.                          *)
Unowned(s) == \A p \in Procs : conn[p] # s /\ acq[p] # s

Fairness ==
  /\ WF_vars(Unowned(leader) /\ SessionDrop)
  /\ \A p \in Procs : WF_vars(AcquireStep(p))
  /\ \A p \in Procs, c \in Conns :
       /\ WF_vars(WriteStep(p, c))
       /\ WF_vars(phase[p][c] = "doomed" /\ RollbackWrite(p, c))

FairSpec == Spec /\ Fairness

-----------------------------------------------------------------------------
(* Properties                                                               *)

(* The comment in _acquire_canonical_writer_fence_on_cursor promises that   *)
(* the second verification "closes the race" with a replacement leader: a   *)
(* transaction that may still mutate was verified under the session that    *)
(* passed the barrier last, even when that session, its lease or its whole  *)
(* process is gone by now.                                                  *)
FencedWriters ==
  \A p \in Procs, c \in Conns :
    phase[p][c] \in Mutable => stamp[p][c] = established

(* The lease implements writer authority: sessions pass the barrier in      *)
(* order and every commit happens under the one that passed it last.        *)
Authority == INSTANCE WriterAuthority WITH epoch <- established
AuthorityRefinement == Authority!AuthSpec

(* _canonical_writer_lease_loss is a latch: a store that lost its lease     *)
(* never holds one again in the same process (acquire raises), and none of  *)
(* its transactions passes another verification.                            *)
LossLatched ==
  [][\A p \in Procs :
       lease[p] = "lost" =>
         /\ lease'[p] \in {"lost", "unacquired"}
         /\ conn'[p] = 0
         /\ \A c \in Conns : phase'[p][c] = "verified" => phase[p][c] = "verified"]_vars

(* Acquire holds the store's lease lock while it wants the fence, and a     *)
(* fenced transaction holds the fence while it wants the lease lock: the    *)
(* try-lock of acquire keeps the two from waiting on each other, so every   *)
(* transaction ends.                                                        *)
WritesSettle ==
  \A p \in Procs, c \in Conns :
    phase[p][c] \in {"waiting", "fenced"} ~> phase[p][c] \in {"idle", "verified"}
=============================================================================
