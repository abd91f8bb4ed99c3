---------------------------- MODULE HistoryRepair ----------------------------
(***************************************************************************)
(* The history repair orchestrator: one provider lane that fetches missing *)
(* ranges chunk by chunk (data/history_repair.py).                         *)
(*                                                                         *)
(* A demand is one call of schedule() with a completion callback.  An      *)
(* envelope of `target` chunks is walked from chunk 1, the newest, to      *)
(* chunk `target`.  The canonical generation of a scope moves through the  *)
(* lane's own commits and through other writers.  Lanes of different       *)
(* providers share only the lock, so one lane is modelled.                 *)
(***************************************************************************)
EXTENDS Naturals, Sequences, FiniteSets, SequencesExt

CONSTANTS Demands,        \* calls of schedule()
          Scopes,         \* charts of the provider
          ScopesOf,       \* bound: the charts each call may be about
          Rolling,        \* scopes whose provider answers with a rolling window
          Chunks,         \* chunks of the largest envelope
          MaxPending,     \* _MAX_PENDING_REPAIRS_PER_PROVIDER
          MaxCallbacks,   \* _MAX_COMPLETION_CALLBACKS_PER_REPAIR
          MaxOutcomes,    \* _MAX_RETAINED_HISTORY_REPAIR_OUTCOMES
          MaxGeneration,  \* bound on the generation of a scope
          None            \* no request

ASSUME HistoryRepairAssumption ==
    /\ Rolling \subseteq Scopes
    /\ ScopesOf \in [Demands -> SUBSET Scopes]
    /\ {Chunks, MaxPending, MaxCallbacks, MaxOutcomes} \subseteq Nat \ {0}
    /\ MaxGeneration \in Nat

VARIABLES
    gen,        \* canonical generation of each scope
    plan,       \* the planned intent of each demand, None before and after
    heard,      \* what each demand knows: "new", "planned", "waiting",
                \* "refused" or the status of the outcome it was called with
    running,    \* the request whose task runs, with its stage, or None
    pending,    \* _pending of the provider: keys with priorities, in order
    callbacks,  \* _callbacks: the demands subscribed to each key
    awaiting,   \* _awaiting_generation: cursor and generation
    throttled,  \* keys whose _next_allowed lies in the future
    outcomes,   \* _outcomes, oldest first
    futile      \* cursors and generations that ended without progress (history)

vars == <<gen, plan, heard, running, pending, callbacks, awaiting, throttled,
          outcomes, futile>>

Foreground == 0
Background == 1

\* _repair_key without the fields that are constant for a chart.
Keys == {k \in [scope : Scopes, target : 1..Chunks, chunk : 1..Chunks,
                generation : 0..MaxGeneration] : k.chunk <= k.target}

\* _repair_cursor_key: the same range at any generation.
Cursor(k) == <<k.scope, k.target, k.chunk>>

Failures == {"FETCH_FAILED", "STORAGE_FAILED", "COMMIT_FAILED",
             "COMMIT_QUEUE_FULL", "MALFORMED"}
Statuses == Failures \cup {"COMMITTED", "NO_CHANGE", "INCOMPLETE", "CANCELLED",
                           "STALE_GENERATION", "STALE_ROUTE", "SUPERSEDED"}

Stages == {"lookup", "fetch", "fetched", "commit"}
Requests == [key : Keys, priority : {Foreground, Background}]

Runs == [key : Keys, priority : {Foreground, Background}, stage : Stages]

ASSUME NoneIsNoRequest == None \notin Requests \cup Runs

TypeOK ==
    /\ gen \in [Scopes -> 0..MaxGeneration]
    /\ plan \in [Demands -> Requests \cup {None}]
    /\ heard \in [Demands -> Statuses \cup {"new", "planned", "waiting", "refused"}]
    /\ running \in Runs \cup {None}
    /\ pending \in BoundedSeq(Requests, MaxPending)
    /\ callbacks \in [Keys -> SUBSET Demands]
    /\ awaiting \in SUBSET [scope : Scopes, target : 1..Chunks, chunk : 1..Chunks,
                            generation : 0..MaxGeneration]
    /\ throttled \subseteq Keys
    /\ outcomes \in BoundedSeq([key : Keys, status : Statuses], MaxOutcomes)
    /\ futile \subseteq Keys

Init ==
    /\ gen = [s \in Scopes |-> 0]
    /\ plan = [d \in Demands |-> None]
    /\ heard = [d \in Demands |-> "new"]
    /\ running = None
    /\ pending = <<>>
    /\ callbacks = [k \in Keys |-> {}]
    /\ awaiting = {}
    /\ throttled = {}
    /\ outcomes = <<>>
    /\ futile = {}

-----------------------------------------------------------------------------
(* Tables of the orchestrator *)

PendingKeys == {pending[i].key : i \in DOMAIN pending}
RunningKeys == IF running = None THEN {} ELSE {running.key}

\* outcomes without the entry of key k
Forget(os, k) == SelectSeq(os, LAMBDA o : o.key /= k)

\* _remember_outcome_locked: the newest outcome last, the oldest dropped.
Remember(os, k, status) ==
    LET kept == Append(Forget(os, k), [key |-> k, status |-> status])
    IN  IF Len(kept) > MaxOutcomes THEN Tail(kept) ELSE kept

Ahead(q, i, j) ==
    q[i].priority < q[j].priority \/ (q[i].priority = q[j].priority /\ i < j)

\* _prioritize_pending: the stable sort by priority (there is exactly one).
Prioritized(q) ==
    {[n \in DOMAIN q |-> q[order[n]]] :
        order \in {o \in Bijection(DOMAIN q, DOMAIN q) :
                      \A m, n \in DOMAIN q : m < n => Ahead(q, o[m], o[n])}}

\* _subscribe_locked succeeds while the list of the key has room.
Subscribes(cbs, k) == Cardinality(cbs[k]) < MaxCallbacks

\* Every demand in D hears the status.
Told(D, status) == [d \in Demands |-> IF d \in D THEN status ELSE heard[d]]

Start(r) == [key |-> r.key, priority |-> r.priority, stage |-> "lookup"]

-----------------------------------------------------------------------------
(* Demands *)

\* A chart load or a maintenance pass plans the newest chunk of an envelope
\* from the generation it has read (select_history_repair_intent).
PlanDemand(d, s, n, p) ==
    /\ heard[d] = "new"
    /\ heard' = [heard EXCEPT ![d] = "planned"]
    /\ plan' = [plan EXCEPT ![d] =
                   [key |-> [scope |-> s, target |-> n, chunk |-> 1,
                             generation |-> gen[s]],
                    priority |-> p]]
    /\ UNCHANGED <<gen, running, pending, callbacks, awaiting, throttled,
                   outcomes, futile>>

\* Generations the demand has overtaken no longer block its chart.
Unblocked(k) ==
    {a \in awaiting : ~(a.scope = k.scope /\ a.generation < k.generation)}

Blocked(k) ==
    \E a \in Unblocked(k) : /\ <<a.scope, a.target, a.chunk>> = Cursor(k)
                            /\ k.generation <= a.generation

\* The admission ends; the demand waits for its outcome if it is subscribed.
Admit(d, k, cbs) ==
    /\ plan' = [plan EXCEPT ![d] = None]
    /\ IF Subscribes(cbs, k)
       THEN /\ callbacks' = [cbs EXCEPT ![k] = @ \cup {d}]
            /\ heard' = [heard EXCEPT ![d] = "waiting"]
       ELSE /\ callbacks' = cbs
            /\ heard' = [heard EXCEPT ![d] = "refused"]

Refuse(d) ==
    /\ plan' = [plan EXCEPT ![d] = None]
    /\ heard' = [heard EXCEPT ![d] = "refused"]
    /\ UNCHANGED <<running, pending, callbacks, outcomes>>

\* AWAITING_GENERATION_ADVANCE
ScheduleBlocked(d) ==
    /\ plan[d] /= None
    /\ Blocked(plan[d].key)
    /\ awaiting' = Unblocked(plan[d].key)
    /\ Refuse(d)
    /\ UNCHANGED <<gen, throttled, futile>>

\* RUNNING: the same key is in flight.
ScheduleRunning(d) ==
    /\ plan[d] /= None
    /\ ~Blocked(plan[d].key)
    /\ plan[d].key \in RunningKeys
    /\ awaiting' = Unblocked(plan[d].key)
    /\ Admit(d, plan[d].key, callbacks)
    /\ UNCHANGED <<gen, running, pending, throttled, outcomes, futile>>

\* QUEUED again: the queued request is promoted to the better priority.
SchedulePending(d) ==
    /\ plan[d] /= None
    /\ ~Blocked(plan[d].key)
    /\ plan[d].key \in PendingKeys \ RunningKeys
    /\ awaiting' = Unblocked(plan[d].key)
    /\ pending' \in Prioritized([i \in DOMAIN pending |->
                      IF /\ pending[i].key = plan[d].key
                         /\ plan[d].priority < pending[i].priority
                      THEN plan[d] ELSE pending[i]])
    /\ Admit(d, plan[d].key, callbacks)
    /\ UNCHANGED <<gen, running, throttled, outcomes, futile>>

Fresh(d) ==
    /\ plan[d] /= None
    /\ ~Blocked(plan[d].key)
    /\ plan[d].key \notin PendingKeys \cup RunningKeys

\* THROTTLED
ScheduleThrottled(d) ==
    /\ Fresh(d)
    /\ plan[d].key \in throttled
    /\ awaiting' = Unblocked(plan[d].key)
    /\ Refuse(d)
    /\ UNCHANGED <<gen, throttled, futile>>

\* SCHEDULED: the lane is idle and the task starts at once.
ScheduleIdle(d) ==
    /\ Fresh(d)
    /\ plan[d].key \notin throttled
    /\ running = None
    /\ awaiting' = Unblocked(plan[d].key)
    /\ Admit(d, plan[d].key, callbacks)
    /\ outcomes' = Forget(outcomes, plan[d].key)
    /\ running' = Start(plan[d])
    /\ UNCHANGED <<gen, pending, throttled, futile>>

\* QUEUED behind the running request.
ScheduleQueued(d) ==
    /\ Fresh(d)
    /\ plan[d].key \notin throttled
    /\ running /= None
    /\ Len(pending) < MaxPending
    /\ awaiting' = Unblocked(plan[d].key)
    /\ Admit(d, plan[d].key, callbacks)
    /\ outcomes' = Forget(outcomes, plan[d].key)
    /\ pending' \in Prioritized(Append(pending, plan[d]))
    /\ UNCHANGED <<gen, running, throttled, futile>>

\* The last background request of a full queue, which a foreground one evicts.
Evictable == {i \in DOMAIN pending : pending[i].priority = Background}

\* QUEUED in the place of an evicted background request.
ScheduleEvicting(d) ==
    /\ Fresh(d)
    /\ plan[d].key \notin throttled
    /\ running /= None
    /\ Len(pending) >= MaxPending
    /\ plan[d].priority = Foreground
    /\ Evictable /= {}
    /\ awaiting' = Unblocked(plan[d].key)
    /\ \E i \in Evictable :
          LET k == plan[d].key
              gone == pending[i].key
              told == Told(callbacks[gone], "SUPERSEDED")
          IN  /\ \A j \in Evictable : j <= i
              /\ pending' \in Prioritized(Append(RemoveAt(pending, i), plan[d]))
              /\ outcomes' = Forget(Remember(outcomes, gone, "SUPERSEDED"), k)
              /\ callbacks' = [callbacks EXCEPT ![gone] = {}, ![k] = {d}]
              /\ heard' = [told EXCEPT ![d] = "waiting"]
    /\ plan' = [plan EXCEPT ![d] = None]
    /\ UNCHANGED <<gen, running, throttled, futile>>

\* QUEUE_FULL
ScheduleFull(d) ==
    /\ Fresh(d)
    /\ plan[d].key \notin throttled
    /\ running /= None
    /\ Len(pending) >= MaxPending
    /\ plan[d].priority = Background \/ Evictable = {}
    /\ awaiting' = Unblocked(plan[d].key)
    /\ Refuse(d)
    /\ UNCHANGED <<gen, throttled, futile>>

-----------------------------------------------------------------------------
(* The running request *)

\* _continuation_request: the next older chunk after one that made progress.
Continues(status) ==
    /\ running.key.scope \notin Rolling
    /\ status = "COMMITTED"
    /\ running.key.chunk < running.key.target

NextChunk(g) ==
    [key |-> [running.key EXCEPT !.chunk = @ + 1, !.generation = g],
     priority |-> running.priority]

\* _terminal_no_progress
NoProgress(status, written) ==
    /\ status \in {"NO_CHANGE", "INCOMPLETE", "MALFORMED"}
    /\ ~written

\* Mutant of Finish: the queue is not served after the last chunk.
MutantFinish(status, written, g) ==
    LET k == running.key
    IN  /\ outcomes' = Remember(outcomes, k, status)
        /\ heard' = Told(callbacks[k], status)
        /\ callbacks' = [callbacks EXCEPT ![k] = {}]
        /\ running' = IF Continues(status) THEN Start(NextChunk(g)) ELSE None
        /\ UNCHANGED <<plan, pending, awaiting, throttled, futile>>

\* The finally block of _run_request after an outcome: remember it, block the
\* range or back off, call the subscribers, and start the continuation or the
\* first pending request.  g is the generation after the attempt.
Finish(status, written, g) ==
    LET k == running.key
    IN  /\ outcomes' = Remember(outcomes, k, status)
        /\ heard' = Told(callbacks[k], status)
        /\ callbacks' = [callbacks EXCEPT ![k] = {}]
        /\ IF NoProgress(status, written)
           THEN /\ awaiting' = {a \in awaiting :
                                   <<a.scope, a.target, a.chunk>> /= Cursor(k)}
                               \cup {k}
                /\ futile' = futile \cup {k}
           ELSE UNCHANGED <<awaiting, futile>>
        /\ throttled' = IF status \in Failures THEN throttled \cup {k}
                                               ELSE throttled \ {k}
        /\ IF Continues(status)
           THEN running' = Start(NextChunk(g)) /\ UNCHANGED pending
           ELSE IF pending = <<>>
                THEN running' = None /\ UNCHANGED pending
                ELSE running' = Start(Head(pending)) /\ pending' = Tail(pending)
        /\ UNCHANGED plan

AtStage(stage) == running /= None /\ running.stage = stage

Proceed(stage) ==
    /\ running' = [running EXCEPT !.stage = stage]
    /\ UNCHANGED <<plan, heard, pending, callbacks, awaiting, throttled,
                   outcomes, futile>>

Current == gen[running.key.scope] = running.key.generation

\* Mutant of LookUp: the captured generation is not compared.
MutantLookUp ==
    /\ AtStage("lookup")
    /\ UNCHANGED gen
    /\ \/ \E status \in {"STORAGE_FAILED", "STALE_ROUTE"} :
             Finish(status, FALSE, gen[running.key.scope])
       \/ Proceed("fetch")

\* The store and the persisted route are looked up on a thread; then the
\* captured generation is compared before the provider is asked.
LookUp ==
    /\ AtStage("lookup")
    /\ UNCHANGED gen
    /\ \/ \E status \in {"STORAGE_FAILED", "STALE_ROUTE"} :
             Finish(status, FALSE, gen[running.key.scope])
       \/ /\ ~Current
          /\ Finish("STALE_GENERATION", FALSE, gen[running.key.scope])
       \/ /\ Current
          /\ Proceed("fetch")

\* The provider answers, fails or answers with something malformed.
Fetch ==
    /\ AtStage("fetch")
    /\ UNCHANGED gen
    /\ \/ \E status \in {"FETCH_FAILED", "MALFORMED"} :
             Finish(status, FALSE, gen[running.key.scope])
       \/ Proceed("fetched")

\* Route and generation are compared again; an answer without bars that is no
\* complete snapshot ends here.
Recheck ==
    /\ AtStage("fetched")
    /\ UNCHANGED gen
    /\ \/ \E status \in {"STORAGE_FAILED", "STALE_ROUTE"} :
             Finish(status, FALSE, gen[running.key.scope])
       \/ /\ ~Current
          /\ Finish("STALE_GENERATION", FALSE, gen[running.key.scope])
       \/ /\ Current
          /\ \/ Finish("MALFORMED", FALSE, gen[running.key.scope])
             \/ Finish("INCOMPLETE", FALSE, gen[running.key.scope])
             \/ /\ running.key.scope \in Rolling
                /\ Finish("NO_CHANGE", FALSE, gen[running.key.scope])
             \/ Proceed("commit")

\* The commit owner writes nothing: no change, a full queue, a failure or a
\* generation that moved.
CommitNothing ==
    /\ AtStage("commit")
    /\ UNCHANGED gen
    /\ \/ /\ Current
          /\ \E status \in {"NO_CHANGE", "INCOMPLETE"} :
                Finish(status, FALSE, gen[running.key.scope])
       \/ \E status \in {"COMMIT_QUEUE_FULL", "COMMIT_FAILED", "STALE_ROUTE"} :
             Finish(status, FALSE, gen[running.key.scope])
       \/ /\ ~Current
          /\ Finish("STALE_GENERATION", FALSE, gen[running.key.scope])

\* The commit owner changes bars or extends the coverage, completely, in part
\* or with an outcome it could not confirm: the generation moves.
CommitMutation ==
    /\ AtStage("commit")
    /\ Current
    /\ gen[running.key.scope] < MaxGeneration
    /\ LET g == gen[running.key.scope] + 1
       IN  /\ gen' = [gen EXCEPT ![running.key.scope] = g]
           /\ \E status \in {"COMMITTED", "INCOMPLETE", "COMMIT_FAILED"} :
                 Finish(status, TRUE, g)

\* Mutants of Cancel: subscribers of the queue are forgotten; the queue stays.
MutantCancelForgets ==
    /\ running /= None
    /\ heard' = Told(callbacks[running.key], "CANCELLED")
    /\ callbacks' = [callbacks EXCEPT ![running.key] = {}]
    /\ outcomes' = Remember(outcomes, running.key, "CANCELLED")
    /\ throttled' = throttled \ RunningKeys
    /\ running' = None
    /\ pending' = <<>>
    /\ UNCHANGED <<gen, plan, awaiting, futile>>

\* The loop shuts down and cancels the running task: its subscribers and those
\* of the whole queue hear of it.
Cancel ==
    /\ running /= None
    /\ LET gone == RunningKeys \cup PendingKeys
           all == <<running.key>> \o [i \in DOMAIN pending |-> pending[i].key]
       IN  /\ heard' = Told(UNION {callbacks[k] : k \in gone}, "CANCELLED")
           /\ callbacks' = [k \in Keys |-> IF k \in gone THEN {} ELSE callbacks[k]]
           /\ outcomes' = FoldLeft(LAMBDA os, k : Remember(os, k, "CANCELLED"),
                                   outcomes, all)
           /\ throttled' = throttled \ RunningKeys
    /\ running' = None
    /\ pending' = <<>>
    /\ UNCHANGED <<gen, plan, awaiting, futile>>

-----------------------------------------------------------------------------
(* Surroundings *)

\* Another writer commits bars of the scope.
OtherCommit(s) ==
    /\ gen[s] < MaxGeneration
    /\ gen' = [gen EXCEPT ![s] = @ + 1]
    /\ UNCHANGED <<plan, heard, running, pending, callbacks, awaiting,
                   throttled, outcomes, futile>>

\* The failure backoff of a key is over.
BackoffEnds(k) ==
    /\ k \in throttled
    /\ throttled' = throttled \ {k}
    /\ UNCHANGED <<gen, plan, heard, running, pending, callbacks, awaiting,
                   outcomes, futile>>

\* All demands are answered and nothing is left to do.
Quiet ==
    /\ \A d \in Demands : heard[d] \notin {"new", "planned"}
    /\ running = None
    /\ UNCHANGED vars

\* The depths worth asking for: a rolling window is never continued.
Envelopes(s) == IF s \in Rolling THEN {1} ELSE 1..Chunks

Schedule(d) ==
    \/ ScheduleBlocked(d)
    \/ ScheduleRunning(d)
    \/ SchedulePending(d)
    \/ ScheduleThrottled(d)
    \/ ScheduleIdle(d)
    \/ ScheduleQueued(d)
    \/ ScheduleEvicting(d)
    \/ ScheduleFull(d)

RunStep == LookUp \/ Fetch \/ Recheck \/ CommitNothing \/ CommitMutation

Next ==
    \/ \E d \in Demands :
          \/ \E s \in ScopesOf[d] : \E n \in Envelopes(s), p \in {Foreground, Background} :
                PlanDemand(d, s, n, p)
          \/ Schedule(d)
    \/ RunStep
    \/ Cancel
    \/ \E s \in Scopes : OtherCommit(s)
    \/ \E k \in Keys : BackoffEnds(k)
    \/ Quiet

Spec == Init /\ [][Next]_vars

\* The task runs on: every lookup, fetch and commit ends, because each has a
\* timeout of its own.
FairSpec == Spec /\ WF_vars(RunStep)

-----------------------------------------------------------------------------
(* Properties *)

\* A callback that schedule() accepted is still attached to a request that runs
\* or is queued: no path (promotion, eviction, continuation, cancellation)
\* forgets a subscriber, and none is waiting on a finished key.
NoOrphanSubscriber ==
    /\ \A k \in Keys : callbacks[k] /= {} => k \in RunningKeys \cup PendingKeys
    /\ \A d \in Demands : heard[d] = "waiting" <=> \E k \in Keys : d \in callbacks[k]

\* A range that ended without progress is not fetched again before its
\* generation has moved, although entries of _awaiting_generation are dropped
\* as soon as any demand of the chart has seen a newer generation; a key in failure
\* backoff is not fetched either, whether it comes from the queue, from a
\* continuation or from a new demand.
NoFutileFetch == AtStage("fetch") => running.key \notin futile \cup throttled

\* Every subscribed demand hears an outcome: walks end and the queue is served.
DemandsAnswered ==
    \A d \in Demands : heard[d] = "waiting" ~> heard[d] /= "waiting"
=============================================================================
