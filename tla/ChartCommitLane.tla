-------------------------- MODULE ChartCommitLane --------------------------
(* One lane of ChartCommitRuntime (runtime/chart_commits.py): the single    *)
(* task that writes live bars and provider history of one chart scope, the  *)
(* admission of both, shutdown and rearming, and the rows the lane writes   *)
(* (storage/repos/bars.py, storage/repos/history_commits.py).               *)
(*                                                                          *)
(* A slot is a bar timestamp, a revision one possible content of its bar.   *)
(* The code between two awaits of the lane task is one step.  Nothing else  *)
(* writes the scope, so its generation changes only here.                   *)
EXTENDS Integers, Sequences, FiniteSets

CONSTANTS Slots,          \* timestamps, a set of numbers
          Revisions,      \* contents of a bar (bar_ingress_revision_signature)
          None,           \* no bar
          DedupeTail,     \* CHART_COMMIT_DEDUPE_TAIL
          QueueLimit,     \* HISTORY_COMMIT_QUEUE_LIMIT
          MaxLive,        \* bound on accepted live bars
          MaxHistory,     \* bound on admitted history commits
          MaxUncertain    \* bound on storage attempts with an unknown outcome

ASSUME LaneAssumption ==
  /\ IsFiniteSet(Slots) /\ Slots \subseteq Nat
  /\ None \notin Revisions
  /\ DedupeTail \in Nat \ {0} /\ QueueLimit \in Nat
  /\ MaxLive \in Nat /\ MaxHistory \in Nat /\ MaxUncertain \in Nat

VARIABLES
  pending,     \* pending[s]: live bar waiting to be written
  seqs,        \* revision_sequences[s]; 0 when none is assigned
  committed,   \* committed[s]: revision the lane knows to be settled
  history,     \* history_pending
  turn,        \* history_turn
  step,        \* where lane.task awaits; "none" when there is no task
  work, wseq,  \* live batch (or snapshot being sequenced) and its sequence
  accepting, deadline,
  sequence,    \* canonical_bar_revision_sequence, last value handed out
  generation,  \* canonical generation of the scope
  stored,      \* rows of the scope
  coverage,    \* coverage[s]: sequence of the newest exact snapshot over s,
               \* 0 when no receipt covers s
  lives, admitted, uncertain      \* bounded counts

queues  == <<pending, seqs, history, turn>>
runtime == <<accepting, deadline>>
counts  == <<lives, admitted, uncertain>>
storage == <<sequence, stored, coverage>>
vars == <<queues, committed, step, work, wseq, runtime, storage, generation, counts>>

Bars == [Slots -> Revisions \cup {None}]
NoBars == [s \in Slots |-> None]
NoRow == [bar |-> None, seq |-> 0]
Filled(bars) == {s \in Slots : bars[s] # None}
Only(bars, S) == [s \in Slots |-> IF s \in S THEN bars[s] ELSE None]

Sequence == 0 .. MaxLive + MaxHistory
Generation == 0 .. MaxLive + MaxHistory + MaxUncertain
Steps == {"none", "loop", "reserve", "store", "backoff",
          "hreserve", "hstore", "hbackoff"}

(* Provider results: the bars of a half-open range, with the exact coverage *)
(* receipt of that range, or bars without authority over absence.           *)
Ranges == {{s \in Slots : a <= s /\ s <= b} : a, b \in Slots} \ {{}}
Requests == {[bars |-> Only(b, r), covered |-> r] : b \in Bars, r \in Ranges}
            \cup {[bars |-> b, covered |-> {}] : b \in Bars \ {NoBars}}

Item == [request : Requests, gen : Generation, seq : Sequence]

TypeOK ==
  /\ pending \in Bars /\ work \in Bars
  /\ committed \in Bars /\ Cardinality(Filled(committed)) <= DedupeTail
  /\ seqs \in [Slots -> Sequence]
  /\ history \in Seq(Item) /\ Len(history) <= QueueLimit
  /\ turn \in BOOLEAN /\ accepting \in BOOLEAN
  /\ step \in Steps
  /\ wseq \in Sequence /\ sequence \in Sequence
  /\ deadline \in {"none", "grace", "passed"}
  /\ generation \in Generation
  /\ stored \in [Slots -> [bar : Revisions \cup {None}, seq : Sequence]]
  /\ coverage \in [Slots -> Sequence]
  /\ lives \in 0 .. MaxLive /\ admitted \in 0 .. MaxHistory
  /\ uncertain \in 0 .. MaxUncertain

Init ==
  /\ pending = NoBars /\ committed = NoBars /\ work = NoBars
  /\ seqs = [s \in Slots |-> 0]
  /\ history = <<>> /\ turn = FALSE
  /\ step = "none" /\ wseq = 0
  /\ accepting = TRUE /\ deadline = "none"
  /\ sequence = 0 /\ generation = 0
  /\ stored = [s \in Slots |-> NoRow]
  /\ coverage = [s \in Slots |-> 0]
  /\ lives = 0 /\ admitted = 0 /\ uncertain = 0

HasWork == Filled(pending) # {} \/ history # <<>>

(* _start_lane_task, unless a task is running.                              *)
StartTask == step' = IF step = "none" THEN "loop" ELSE step

-----------------------------------------------------------------------------
(* Rows.                                                                    *)

(* The upsert of _write_bars_on_cursor: a new row, or a newer sequence with *)
(* other values.  An identical row keeps its sequence.                      *)
Upsert(rows, bars, q) ==
  [s \in Slots |->
     IF bars[s] # None /\ (rows[s].bar = None
                           \/ (q > rows[s].seq /\ rows[s].bar # bars[s]))
     THEN [bar |-> bars[s], seq |-> q] ELSE rows[s]]

(* canonical_bar_commit_receipt: the row read back is the submitted one, or *)
(* a newer one; anything else raises and rolls the transaction back.        *)
Ordered(rows, bars, q) ==
  \A s \in Filled(bars) : rows[s].bar = bars[s] \/ rows[s].seq > q

(* _reconcile_exact_history_snapshot_on_cursor                              *)
Reconcile(rows, covered, bars, q) ==
  [s \in Slots |-> IF s \in covered /\ bars[s] = None /\ rows[s].seq <= q
                   THEN NoRow ELSE rows[s]]

SnapshotExact(rows, covered, bars) == \A s \in covered : rows[s].bar = bars[s]

(* remember_committed for every bar of a batch: at most DedupeTail slots    *)
(* are kept, the newest ones.                                               *)
Newest(S) == {s \in S : Cardinality({t \in S : t > s}) < DedupeTail}

Remember(bars) ==
  [s \in Slots |-> IF s \notin Newest(Filled(committed) \cup Filled(bars)) THEN None
                   ELSE IF bars[s] # None THEN bars[s] ELSE committed[s]]

-----------------------------------------------------------------------------
(* Admission.                                                               *)

(* submit() drops the bar: its revision is settled or already waiting.      *)
Dropped(s, b) == committed[s] = b \/ pending[s] = b

(* Mutant: a correction inherits the sequence of the bar it replaces. *)
MutantSubmitKeepsSequence(s, b) ==
  /\ accepting /\ lives < MaxLive
  /\ ~Dropped(s, b)
  /\ pending' = [pending EXCEPT ![s] = b]
  /\ work' = [work EXCEPT ![s] = IF step = "reserve" THEN None ELSE @]
  /\ lives' = lives + 1
  /\ StartTask
  /\ UNCHANGED <<seqs, committed, history, turn, wseq, runtime, storage, generation,
                 admitted, uncertain>>

(* submit() accepts the bar.  A bar that replaces one whose sequence is     *)
(* being reserved is not part of that batch.                                *)
Submit(s, b) ==
  /\ accepting /\ lives < MaxLive
  /\ ~Dropped(s, b)
  /\ pending' = [pending EXCEPT ![s] = b]
  /\ seqs' = [seqs EXCEPT ![s] = 0]
  /\ work' = [work EXCEPT ![s] = IF step = "reserve" THEN None ELSE @]
  /\ lives' = lives + 1
  /\ StartTask
  /\ UNCHANGED <<committed, history, turn, wseq, runtime, storage, generation,
                 admitted, uncertain>>

(* submit_history_commit, with the generation the repair captured before    *)
(* its provider call.  A full queue settles the request at once.            *)
SubmitHistory(r, g) ==
  /\ accepting /\ admitted < MaxHistory
  /\ Len(history) < QueueLimit
  /\ history' = Append(history, [request |-> r, gen |-> g, seq |-> 0])
  /\ turn' = TRUE
  /\ admitted' = admitted + 1
  /\ StartTask
  /\ UNCHANGED <<pending, seqs, committed, work, wseq, runtime, storage, generation,
                 lives, uncertain>>

-----------------------------------------------------------------------------
(* The lane task: _drain and _drain_lane_once.                              *)

HistoryFirst == history # <<>> /\ (Filled(pending) = {} \/ turn)

(* No work is left, or the shutdown deadline has passed.                    *)
EndTask ==
  /\ step = "loop"
  /\ ~HasWork \/ deadline = "passed"
  /\ step' = "none"
  /\ UNCHANGED <<queues, committed, work, wseq, runtime, storage, generation, counts>>

(* _retry_live_commit, _retry_history_commit: no retry once shutdown began. *)
Retry(kind) == step' = IF deadline = "none" THEN kind ELSE "none"

(* _wait_to_retry returns: the delay has passed or shutdown woke the lane.  *)
Wake ==
  /\ step \in {"backoff", "hbackoff"}
  /\ step' = IF deadline = "none" THEN "loop" ELSE "none"
  /\ turn' = IF step = "hbackoff" /\ deadline = "none" THEN FALSE ELSE turn
  /\ UNCHANGED <<pending, seqs, committed, history, work, wseq, runtime, storage,
                 generation, counts>>

-----------------------------------------------------------------------------
(* Live batches.                                                            *)

LiveTurn == step = "loop" /\ HasWork /\ ~HistoryFirst /\ deadline # "passed"

Assigned == {seqs[s] : s \in Filled(pending)} \ {0}

(* _pop_live_commit_batch of the bars holding sequence q.                   *)
PopBatch(q, sqs) ==
  LET slots == {s \in Filled(pending) : sqs[s] = q}
  IN /\ work' = Only(pending, slots)
     /\ wseq' = q
     /\ pending' = Only(pending, Slots \ slots)
     /\ seqs' = [s \in Slots |-> IF s \in slots THEN 0 ELSE sqs[s]]
     /\ step' = IF slots = {} THEN "loop" ELSE "store"

(* A batch that was requeued keeps its sequence and goes first; otherwise a *)
(* new sequence is reserved for all pending bars.                           *)
TakeLive ==
  /\ LiveTurn
  /\ \/ \E q \in Assigned : (\A p \in Assigned : q <= p) /\ PopBatch(q, seqs)
     \/ /\ Assigned = {}
        /\ step' = "reserve" /\ work' = pending
        /\ UNCHANGED <<pending, seqs, wseq>>
  /\ UNCHANGED <<committed, history, turn, runtime, storage, generation, counts>>

(* _live_commit_sequence: only bars still pending unchanged get it.         *)
ReserveLive ==
  /\ step = "reserve"
  /\ sequence' = sequence + 1
  /\ PopBatch(sequence', [s \in Slots |-> IF work[s] # None THEN sequence' ELSE seqs[s]])
  /\ UNCHANGED <<committed, history, turn, runtime, stored, coverage, generation, counts>>

(* The store factory or the reservation raises.                             *)
LiveUnavailable ==
  /\ LiveTurn \/ step = "reserve"
  /\ Retry("backoff")
  /\ UNCHANGED <<queues, committed, work, wseq, runtime, storage, generation, counts>>

(* Mutant: the failed batch replaces bars that arrived meanwhile. *)
MutantRequeueReplaces(bars) ==
  /\ pending' = [s \in Slots |-> IF bars[s] # None THEN bars[s] ELSE pending[s]]
  /\ seqs' = [s \in Slots |-> IF bars[s] # None THEN wseq ELSE seqs[s]]

(* _requeue_live_commit_batch: a newer pending bar of the slot stays.       *)
Requeue(bars) ==
  LET back == Filled(bars) \ Filled(pending)
  IN /\ pending' = [s \in Slots |-> IF s \in back THEN bars[s] ELSE pending[s]]
     /\ seqs' = [s \in Slots |-> IF s \in back THEN wseq ELSE seqs[s]]

(* The route changed, or the generation registry refuses the write guard:   *)
(* nothing reached storage.                                                 *)
LiveRefused ==
  /\ step = "store"
  /\ Requeue(work)
  /\ Retry("backoff")
  /\ UNCHANGED <<committed, history, turn, work, wseq, runtime, storage, generation, counts>>

(* Mutant: the failed attempt leaves the generation alone. *)
MutantUncertainKeepsGeneration ==
  /\ step = "store" /\ uncertain < MaxUncertain
  /\ \/ stored' = stored
     \/ stored' = Upsert(stored, work, wseq) /\ Ordered(stored', work, wseq)
  /\ uncertain' = uncertain + 1
  /\ Requeue(work)
  /\ Retry("backoff")
  /\ UNCHANGED <<committed, history, turn, work, wseq, runtime, sequence, coverage,
                 generation, lives, admitted>>

(* The attempt raises, with the transaction committed or not, or its        *)
(* receipt is refused: invalidate_chart_bars_write advances the generation. *)
LiveUncertain ==
  /\ step = "store" /\ uncertain < MaxUncertain
  /\ \/ stored' = stored
     \/ stored' = Upsert(stored, work, wseq) /\ Ordered(stored', work, wseq)
  /\ generation' = generation + 1
  /\ uncertain' = uncertain + 1
  /\ Requeue(work)
  /\ Retry("backoff")
  /\ UNCHANGED <<committed, history, turn, work, wseq, runtime, sequence, coverage,
                 lives, admitted>>

(* Mutant: the acknowledged bars of a batch are requeued with the missing   *)
(* ones.                                                                    *)
MutantLiveCommitsRequeuesAll(done) ==
  LET bars == Only(work, done) IN
  /\ step = "store"
  /\ stored' = Upsert(stored, bars, wseq)
  /\ Ordered(stored', bars, wseq)
  /\ generation' = IF stored' # stored THEN generation + 1 ELSE generation
  /\ committed' = Remember(bars)
  /\ Requeue(work)
  /\ IF Filled(work) \subseteq done
     THEN step' = "loop" /\ turn' = (history # <<>>)
     ELSE Retry("backoff") /\ turn' = turn
  /\ UNCHANGED <<history, work, wseq, runtime, sequence, coverage, counts>>

(* _finalize_live_commit_receipt: the bars in done are acknowledged or      *)
(* superseded, the missing ones are requeued under the same sequence.       *)
LiveCommits(done) ==
  LET bars == Only(work, done) IN
  /\ step = "store"
  /\ stored' = Upsert(stored, bars, wseq)
  /\ Ordered(stored', bars, wseq)
  /\ generation' = IF stored' # stored THEN generation + 1 ELSE generation
  /\ committed' = Remember(bars)
  /\ Requeue(Only(work, Slots \ done))
  /\ IF Filled(work) \subseteq done
     THEN step' = "loop" /\ turn' = (history # <<>>)
     ELSE Retry("backoff") /\ turn' = turn
  /\ UNCHANGED <<history, work, wseq, runtime, sequence, coverage, counts>>

-----------------------------------------------------------------------------
(* History commits: _drain_history_once.                                    *)

HistoryTurn == step = "loop" /\ HistoryFirst /\ deadline # "passed"
Front == Head(history)

(* The front item is popped and its completion set; live work is next.      *)
Settle ==
  /\ history' = Tail(history)
  /\ turn' = FALSE
  /\ step' = "loop"

(* _history_commit_scope_is_current, or a terminal failure before storage.  *)
HistorySettlesEarly ==
  /\ HistoryTurn \/ step \in {"hreserve", "hstore"}
  /\ Settle
  /\ UNCHANGED <<pending, seqs, committed, work, wseq, runtime, storage, generation, counts>>

(* _prepare_history_commit up to the reservation.                           *)
TakeHistory ==
  /\ HistoryTurn
  /\ Front.gen = generation
  /\ step' = IF Front.seq = 0 THEN "hreserve" ELSE "hstore"
  /\ UNCHANGED <<queues, committed, work, wseq, runtime, storage, generation, counts>>

(* _reserve_history_revision_sequence                                       *)
ReserveHistory ==
  /\ step = "hreserve"
  /\ sequence' = sequence + 1
  /\ history' = [history EXCEPT ![1].seq = sequence']
  /\ step' = "hstore"
  /\ UNCHANGED <<pending, seqs, turn, committed, work, wseq, runtime, stored, coverage,
                 generation, counts>>

(* The store factory fails, the reservation fails for now, or an effect is  *)
(* being published on the scope: the item stays at the front.               *)
HistoryUnavailable ==
  /\ (HistoryTurn /\ Front.gen = generation) \/ step \in {"hreserve", "hstore"}
  /\ Retry("hbackoff")
  /\ UNCHANGED <<queues, committed, work, wseq, runtime, storage, generation, counts>>

HistoryRows ==
  Reconcile(Upsert(stored, Front.request.bars, Front.seq),
            Front.request.covered, Front.request.bars, Front.seq)

(* The transaction of commit_history_result can commit.                     *)
HistoryStores ==
  /\ step = "hstore"
  /\ Front.gen = generation
  /\ Ordered(Upsert(stored, Front.request.bars, Front.seq), Front.request.bars, Front.seq)
  /\ SnapshotExact(HistoryRows, Front.request.covered, Front.request.bars)
  /\ stored' = HistoryRows
  /\ coverage' = [s \in Slots |-> IF s \in Front.request.covered THEN Front.seq
                                  ELSE coverage[s]]

(* _finalize_history_storage_attempt: COMMITTED when rows or the coverage   *)
(* union changed, else NO_CHANGE.                                           *)
HistoryCommits ==
  /\ HistoryStores
  /\ LET mutated == stored' # stored
                    \/ \E s \in Front.request.covered : coverage[s] = 0
     IN generation' = IF mutated THEN generation + 1 ELSE generation
  /\ committed' = Remember(Front.request.bars)
  /\ Settle
  /\ UNCHANGED <<pending, seqs, work, wseq, runtime, sequence, counts>>

(* The storage call raises, or its receipt is refused: the generation       *)
(* advances and the item fails; it is never retried.                        *)
HistoryUncertain ==
  /\ step = "hstore" /\ uncertain < MaxUncertain
  /\ Front.gen = generation
  /\ \/ HistoryStores /\ committed' \in {committed, Remember(Front.request.bars)}
     \/ UNCHANGED <<stored, coverage, committed>>
  /\ generation' = generation + 1
  /\ uncertain' = uncertain + 1
  /\ Settle
  /\ UNCHANGED <<pending, seqs, work, wseq, runtime, sequence, lives, admitted>>

-----------------------------------------------------------------------------
(* shutdown() and start().                                                  *)

(* shutdown() may be called again and then renews the deadline.             *)
Shutdown ==
  /\ accepting' = FALSE
  /\ deadline' = "grace"
  /\ UNCHANGED <<queues, committed, step, work, wseq, storage, generation, counts>>

DeadlinePasses ==
  /\ deadline = "grace"
  /\ deadline' = "passed"
  /\ UNCHANGED <<queues, committed, step, work, wseq, accepting, storage, generation, counts>>

(* start() after a shutdown whose tasks are done rearms pending work.       *)
Start ==
  /\ ~accepting /\ step = "none"
  /\ accepting' = TRUE /\ deadline' = "none"
  /\ step' = IF HasWork THEN "loop" ELSE "none"
  /\ UNCHANGED <<queues, committed, work, wseq, storage, generation, counts>>

-----------------------------------------------------------------------------
LaneStep == EndTask \/ Wake \/ TakeLive \/ ReserveLive \/ TakeHistory \/ ReserveHistory

Next ==
  \/ \E s \in Slots, b \in Revisions : Submit(s, b)
  \/ \E r \in Requests, g \in 0 .. generation : SubmitHistory(r, g)
  \/ LaneStep
  \/ LiveUnavailable \/ LiveRefused \/ LiveUncertain
  \/ \E done \in SUBSET Filled(work) : LiveCommits(done)
  \/ HistorySettlesEarly \/ HistoryUnavailable \/ HistoryCommits \/ HistoryUncertain
  \/ Shutdown \/ DeadlinePasses \/ Start

Spec == Init /\ [][Next]_vars

(* The event loop runs the lane task and every physical attempt ends, well  *)
(* or badly (statement and lock timeouts); a stale item settles without     *)
(* I/O.  Failures are retried (every 5 s at the latest), and history        *)
(* attempts do not fail forever.                                            *)
LiveAttemptEnds ==
  LiveRefused \/ LiveUncertain \/ \E done \in SUBSET Filled(work) : LiveCommits(done)

HistoryFairness ==
  /\ WF_vars(LaneStep) /\ WF_vars(LiveAttemptEnds)
  /\ WF_vars(HistorySettlesEarly /\ HistoryTurn /\ Front.gen # generation)
  /\ SF_vars(TakeHistory) /\ SF_vars(ReserveHistory) /\ SF_vars(HistoryCommits)

(* Live attempts do not fail forever either.                                *)
LiveFairness ==
  /\ SF_vars(TakeLive) /\ SF_vars(ReserveLive) /\ SF_vars(LiveCommits(Filled(work)))

FairSpec == Spec /\ HistoryFairness /\ LiveFairness

-----------------------------------------------------------------------------
(* Properties                                                               *)

(* The live revision the lane still owes to storage for slot s.             *)
Held(s) == IF pending[s] # None THEN pending[s]
           ELSE IF step = "store" THEN work[s] ELSE None

(* Whatever fails, is retried, requeued or rearmed after a shutdown: an     *)
(* accepted live revision leaves the lane only when its row holds it or a   *)
(* newer row supersedes it, and only a later submission replaces it.        *)
NothingLost ==
  [][\A s \in Slots : Held(s) # None /\ Held(s)' # Held(s) =>
       \/ Held(s)' = None /\ (stored'[s].bar = Held(s) \/ stored'[s].seq > wseq)
       \/ Held(s)' # None /\ lives' = lives + 1]_vars

(* CANONICAL_BAR_REVISION_ORDER_VIOLATION cannot be raised for a live       *)
(* batch: a sequence never stands for two revisions of a slot, also when a  *)
(* correction replaces a requeued bar that was stored after all.            *)
RevisionsOrdered ==
  step = "store" => Ordered(Upsert(stored, work, wseq), work, wseq)

(* HISTORY_COMMIT_EXACT_SNAPSHOT_MISMATCH cannot be raised: a history       *)
(* commit that finds its generation unchanged meets no row newer than its   *)
(* own sequence, however long ago it was reserved.                          *)
HistoryIsNewest ==
  step = "hstore" /\ Front.gen = generation =>
    SnapshotExact(HistoryRows, Front.request.covered, Front.request.bars)

(* The lane owes work: live bars that wait or are on their way to storage,  *)
(* or history commits, of which the one at work is the front of the queue.  *)
Owes == history # <<>> \/ \E s \in Slots : Held(s) # None

(* Admitted work is finished, live and history both, unless the runtime     *)
(* shuts down first: a batch that is taken, fails and is requeued again and *)
(* again is owed all the time.                                              *)
LaneDrains == Owes /\ accepting ~> ~Owes \/ ~accepting
=============================================================================
