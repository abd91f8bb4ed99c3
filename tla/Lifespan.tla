------------------------------- MODULE Lifespan -------------------------------
(***************************************************************************)
(* The life of the application process: the lifespan that acquires and     *)
(* releases the canonical writer lease (ui/app.py), the start and stop     *)
(* sequences of the runtime owners (ui/bootstrap.py), the registry that    *)
(* supervises the background loops (ui/services/background_tasks.py) and    *)
(* the rule that cancellation waits for physical work                      *)
(* (runtime/async_tasks.py).                                               *)
(*                                                                         *)
(* Other owners are seen through the outcome of their stop call.  A loop   *)
(* alternates between waiting and a physical call on a thread.  Time shows *)
(* only as restart delays and restart windows that pass.                   *)
(***************************************************************************)
EXTENDS Naturals, Sequences, FiniteSets

CONSTANTS Loops,        \* BACKGROUND_LOOP_NAMES
          Services,     \* loops of the indicator services
          MaxRestarts   \* max_restarts_per_window

ASSUME LifespanAssumption ==
    /\ Loops \cap Services = {}
    /\ MaxRestarts \in Nat \ {0}

Names == Loops \cup Services

\* Owners with a start and a stop call of their own.
Owners == {"requests", "tick", "analysis", "commit", "interactive", "paper"}

\* The nested try/finally of stop_server_alert_monitor.
StopOrder == <<"loops", "requests", "tick", "analysis", "services", "commit",
               "interactive", "paper">>

Startup == <<"initialize", "verify", "routes", "verify again", "settings">>

VARIABLES
    pc,         \* where the lifespan is
    at,         \* position in Startup or in StopOrder
    lease,      \* "none", "held" or "released"
    cancelled,  \* a cancellation of the lifespan is deferred
    failed,     \* stop_server_alert_monitor will raise
    owner,      \* "off", "on", "stopped" or "undrained"
    tasks,      \* names whose latest task is in _tasks
    policies,   \* names in _policies
    timers,     \* names in _restart_timers
    history,    \* restarts of each name within its window
    stopping,   \* names in _stopping
    loop,       \* what the latest task of each name does
    deferred,   \* names whose task has a deferred cancellation
    physical    \* physical calls in progress, of the latest task or older ones

lifespanVars == <<pc, at, lease, cancelled, failed, owner>>
registryVars == <<tasks, policies, timers, history, stopping>>
loopVars == <<loop, deferred, physical>>
vars == <<lifespanVars, registryVars, loopVars>>

TypeOK ==
    /\ pc \in {"acquire", "startup", "starting", "telegram", "up", "stopping",
               "release", "ended"}
    /\ at \in 0..Len(StopOrder)
    /\ lease \in {"none", "held", "released"}
    /\ cancelled \in BOOLEAN
    /\ failed \in BOOLEAN
    /\ owner \in [Owners -> {"off", "on", "stopped", "undrained"}]
    /\ tasks \subseteq Names
    /\ policies \subseteq Names
    /\ timers \subseteq Names
    /\ history \in [Names -> 0..MaxRestarts]
    /\ stopping \subseteq Names
    /\ loop \in [Names -> {"none", "waiting", "calling", "failed", "cancelled"}]
    /\ deferred \subseteq Names
    /\ physical \in [Names -> 0..2]

Init ==
    /\ pc = "acquire" /\ at = 0 /\ lease = "none"
    /\ cancelled = FALSE /\ failed = FALSE
    /\ owner = [o \in Owners |-> "off"]
    /\ tasks = {} /\ policies = {} /\ timers = {} /\ stopping = {}
    /\ history = [n \in Names |-> 0]
    /\ loop = [n \in Names |-> "none"]
    /\ deferred = {}
    /\ physical = [n \in Names |-> 0]

Alive(n) == loop[n] \in {"waiting", "calling"}
Done(n) == loop[n] \in {"failed", "cancelled"}

-----------------------------------------------------------------------------
(* The lifespan up to the start of the runtime *)

\* The server cancels the lifespan; the settled call in progress goes on.
CancelLifespan ==
    /\ pc \in {"acquire", "startup", "starting", "telegram", "stopping", "release"}
    /\ ~cancelled
    /\ cancelled' = TRUE
    /\ UNCHANGED <<pc, at, lease, failed, owner, registryVars, loopVars>>

\* The finally block: nothing has to be stopped before a start was attempted.
Unwind(attempted) ==
    IF attempted THEN pc' = "stopping" /\ at' = 1
                 ELSE pc' = "release" /\ at' = 0

\* Acquire ends; a deferred cancellation is raised after the lease is noted.
Acquire ==
    /\ pc = "acquire"
    /\ \/ /\ lease' = "held"
          /\ IF cancelled THEN Unwind(FALSE) ELSE pc' = "startup" /\ at' = 1
       \/ /\ UNCHANGED lease
          /\ Unwind(FALSE)
    /\ UNCHANGED <<cancelled, failed, owner, registryVars, loopVars>>

\* One settled startup call ends, well or with an error.
StartupStep ==
    /\ pc = "startup"
    /\ \/ Unwind(FALSE)
       \/ /\ ~cancelled
          /\ IF at < Len(Startup) THEN at' = at + 1 /\ UNCHANGED pc
                                  ELSE at' = 0 /\ pc' = "starting"
    /\ UNCHANGED <<lease, cancelled, failed, owner, registryVars, loopVars>>

\* ensure() of a name whose task is missing or done: policy and a new task.
Ensured(S) ==
    /\ stopping' = stopping \ S
    /\ policies' = policies \cup S
    /\ tasks' = tasks \cup S
    /\ loop' = [n \in Names |-> IF n \in S /\ ~Alive(n) THEN "waiting" ELSE loop[n]]

\* start_server_alert_monitor up to its second await: the request owners, the
\* analysis process, the commit runtime, then all loops without an await.
StartRuntime ==
    /\ pc = "starting"
    /\ \/ /\ pc' = "telegram"
          /\ owner' = [owner EXCEPT !["requests"] = "on", !["analysis"] = "on",
                                    !["commit"] = "on"]
          /\ Ensured(Names)
          /\ at' = 0
       \/ /\ owner' = [owner EXCEPT !["requests"] = "on"]
          /\ Unwind(TRUE)
          /\ UNCHANGED <<stopping, policies, tasks, loop>>
    /\ UNCHANGED <<lease, cancelled, failed, timers, history, deferred, physical>>

\* The Telegram workers are started one after the other; then the application
\* serves, or unwinds when a start failed or a cancellation was deferred.
StartTelegram ==
    /\ pc = "telegram"
    /\ \/ /\ owner["paper"] = "off"
          /\ owner' = [owner EXCEPT !["paper"] = "on"]
          /\ UNCHANGED <<pc, at>>
       \/ /\ owner["paper"] = "on"
          /\ owner' = [owner EXCEPT !["interactive"] = "on"]
          /\ IF cancelled THEN Unwind(TRUE) ELSE pc' = "up" /\ at' = 0
       \/ Unwind(TRUE) /\ UNCHANGED owner
    /\ UNCHANGED <<lease, cancelled, failed, registryVars, loopVars>>

\* Tick ingestion is started by its restore loop or by a request.
StartTick ==
    /\ pc \in {"telegram", "up"}
    /\ owner["tick"] = "off"
    /\ owner' = [owner EXCEPT !["tick"] = "on"]
    /\ UNCHANGED <<pc, at, lease, cancelled, failed, registryVars, loopVars>>

\* The server leaves the yield, normally or with an exception.
Leave ==
    /\ pc = "up"
    /\ Unwind(TRUE)
    /\ UNCHANGED <<lease, cancelled, failed, owner, registryVars, loopVars>>

-----------------------------------------------------------------------------
(* The loops *)

\* Mutant of Interrupted: the task does not wait for its physical call.
MutantInterrupted(n) ==
    /\ loop' = [loop EXCEPT ![n] = "cancelled"]
    /\ UNCHANGED deferred

\* task.cancel(): a waiting task ends, one in a physical call remembers it
\* (settle_physical_task).
Interrupted(n) ==
    IF loop[n] = "calling"
    THEN deferred' = deferred \cup {n} /\ UNCHANGED loop
    ELSE loop' = [loop EXCEPT ![n] = "cancelled"] /\ UNCHANGED deferred

\* A loop enters a physical call on a thread or an executor.
Call(n) ==
    /\ loop[n] = "waiting"
    /\ loop' = [loop EXCEPT ![n] = "calling"]
    /\ physical' = [physical EXCEPT ![n] = @ + 1]
    /\ UNCHANGED <<deferred, lifespanVars, registryVars>>

\* Mutant of Return: the deferred cancellation is dropped with the outcome.
MutantReturn(n) ==
    /\ physical[n] > 0
    /\ physical' = [physical EXCEPT ![n] = @ - 1]
    /\ deferred' = deferred \ {n}
    /\ IF loop[n] = "calling"
       THEN \E next \in {"waiting", "failed"} : loop' = [loop EXCEPT ![n] = next]
       ELSE UNCHANGED loop
    /\ UNCHANGED <<lifespanVars, registryVars>>

\* A physical call ends.  Its task, if it still waits for it, raises the
\* deferred cancellation, fails with the call, or goes on.
Return(n) ==
    /\ physical[n] > 0
    /\ physical' = [physical EXCEPT ![n] = @ - 1]
    /\ deferred' = deferred \ {n}
    /\ CASE loop[n] = "calling" /\ n \in deferred ->
              loop' = [loop EXCEPT ![n] = "cancelled"]
         [] loop[n] = "calling" /\ n \notin deferred ->
              \E next \in {"waiting", "failed"} : loop' = [loop EXCEPT ![n] = next]
         [] OTHER -> UNCHANGED loop
    /\ UNCHANGED <<lifespanVars, registryVars>>

\* A loop crashes, returns or is cancelled by somebody else.
Exit(n) ==
    /\ loop[n] = "waiting"
    /\ \E how \in {"failed", "cancelled"} : loop' = [loop EXCEPT ![n] = how]
    /\ UNCHANGED <<deferred, physical, lifespanVars, registryVars>>

StrayCancel(n) ==
    /\ loop[n] = "calling"
    /\ n \notin deferred
    /\ Interrupted(n)
    /\ UNCHANGED <<physical, lifespanVars, registryVars>>

-----------------------------------------------------------------------------
(* The registry *)

Supervises(n) == n \in tasks /\ n \notin stopping /\ n \in policies

\* Mutants of HandleDone: a cancelled task is not restarted; one restart more.
MutantHandleDoneCancelled(n) ==
    /\ Done(n)
    /\ loop' = [loop EXCEPT ![n] = "none"]
    /\ IF Supervises(n) /\ history[n] < MaxRestarts /\ loop[n] = "failed"
       THEN /\ history' = [history EXCEPT ![n] = @ + 1]
            /\ timers' = timers \cup {n}
       ELSE UNCHANGED <<history, timers>>
    /\ UNCHANGED <<tasks, policies, stopping, deferred, physical, lifespanVars>>

\* _handle_done: a supervised task that ended is restarted after a delay as
\* long as its budget lasts.
HandleDone(n) ==
    /\ Done(n)
    /\ loop' = [loop EXCEPT ![n] = "none"]
    /\ IF Supervises(n) /\ history[n] < MaxRestarts
       THEN /\ history' = [history EXCEPT ![n] = @ + 1]
            /\ timers' = timers \cup {n}
       ELSE UNCHANGED <<history, timers>>
    /\ UNCHANGED <<tasks, policies, stopping, deferred, physical, lifespanVars>>

\* _restart_task and _start_task, when the delay is over.
Restart(n) ==
    /\ n \in timers
    /\ timers' = timers \ {n}
    /\ IF n \in stopping \/ Alive(n) \/ n \notin policies
       THEN UNCHANGED <<tasks, loop>>
       ELSE /\ tasks' = tasks \cup {n}
            /\ loop' = [loop EXCEPT ![n] = "waiting"]
    /\ UNCHANGED <<policies, history, stopping, deferred, physical, lifespanVars>>

\* The oldest restart of a name leaves its window.
WindowPasses(n) ==
    /\ history[n] > 0
    /\ history' = [history EXCEPT ![n] = @ - 1]
    /\ UNCHANGED <<tasks, policies, timers, stopping, loopVars, lifespanVars>>

-----------------------------------------------------------------------------
(* The stop sequence *)

\* The names cancelled at a stage of the stop sequence.
Cancels(stage) == CASE stage = "loops" -> Loops
                    [] stage = "services" -> Services
                    [] OTHER -> {}

AtStop == pc = "stopping"
Stage == StopOrder[at]

\* A stage is over: the next one, or the end of stop_server_alert_monitor, which
\* marks the runtime drained unless it raises.
NextStage(raises) ==
    /\ failed' = (failed \/ raises)
    /\ IF at < Len(StopOrder)
       THEN at' = at + 1 /\ UNCHANGED pc
       ELSE at' = 0 /\ pc' = "release"

\* cancel(): mark the name, drop its timer, take its task out of the table and
\* cancel it.  cancel_all awaits one name after the other.
CancelBegins(n) ==
    /\ AtStop
    /\ n \in Cancels(Stage) \cap policies
    /\ stopping = {}
    /\ timers' = timers \ {n}
    /\ tasks' = tasks \ {n}
    /\ IF n \in tasks
       THEN /\ stopping' = stopping \cup {n}
            /\ UNCHANGED <<policies, history>>
            /\ IF Alive(n) THEN Interrupted(n) ELSE UNCHANGED <<loop, deferred>>
       ELSE /\ policies' = policies \ {n}
            /\ history' = [history EXCEPT ![n] = 0]
            /\ UNCHANGED <<stopping, loop, deferred>>
    /\ UNCHANGED <<physical, lifespanVars>>

\* The awaited task is done and cancel() forgets the name.
CancelEnds(n) ==
    /\ AtStop
    /\ n \in stopping
    /\ ~Alive(n)
    /\ policies' = policies \ {n}
    /\ history' = [history EXCEPT ![n] = 0]
    /\ stopping' = stopping \ {n}
    /\ UNCHANGED <<tasks, timers, loopVars, lifespanVars>>

CancelledAll ==
    /\ AtStop
    /\ Stage \in {"loops", "services"}
    /\ Cancels(Stage) \cap policies = {}
    /\ NextStage(FALSE)
    /\ UNCHANGED <<lease, cancelled, owner, registryVars, loopVars>>

\* Mutant of StopOwner: a failure skips the owners that are left.
MutantStopOwner ==
    /\ AtStop
    /\ Stage \in Owners
    /\ \/ /\ owner' = [owner EXCEPT ![Stage] = "stopped"]
          /\ NextStage(FALSE)
       \/ /\ owner' = [owner EXCEPT ![Stage] = "undrained"]
          /\ failed' = TRUE /\ at' = 0 /\ pc' = "release"
    /\ UNCHANGED <<lease, cancelled, registryVars, loopVars>>

\* An owner is stopped; one that did not drain makes the sequence raise, after
\* the owners behind it were stopped too.
StopOwner ==
    /\ AtStop
    /\ Stage \in Owners
    /\ \/ /\ owner' = [owner EXCEPT ![Stage] = "stopped"]
          /\ NextStage(FALSE)
       \/ /\ owner' = [owner EXCEPT ![Stage] = "undrained"]
          /\ NextStage(TRUE)
    /\ UNCHANGED <<lease, cancelled, registryVars, loopVars>>

\* Mutant of Release: the lease is released whether the runtime drained or not.
MutantRelease ==
    /\ pc = "release"
    /\ pc' = "ended"
    /\ lease' = IF lease = "held" THEN "released" ELSE lease
    /\ UNCHANGED <<at, cancelled, failed, owner, registryVars, loopVars>>

\* The lease is released only after the runtime was drained.
Release ==
    /\ pc = "release"
    /\ pc' = "ended"
    /\ lease' = IF lease = "held" /\ ~failed THEN "released" ELSE lease
    /\ UNCHANGED <<at, cancelled, failed, owner, registryVars, loopVars>>

\* The process is about to exit.
Ended == pc = "ended" /\ UNCHANGED vars

LoopStep(n) == Call(n) \/ Return(n) \/ Exit(n) \/ StrayCancel(n)

LifespanStep ==
    \/ Acquire \/ StartupStep \/ StartRuntime \/ StartTelegram
    \/ CancelledAll \/ StopOwner \/ Release
    \/ \E n \in Names : CancelBegins(n) \/ CancelEnds(n)

Next ==
    \/ LifespanStep
    \/ CancelLifespan
    \/ StartTick
    \/ Leave
    \/ \E n \in Names :
          LoopStep(n) \/ HandleDone(n) \/ Restart(n) \/ WindowPasses(n)
    \/ Ended

Spec == Init /\ [][Next]_vars

\* The lifespan goes on, physical calls end (they carry timeouts of their own),
\* done callbacks run and restart delays pass.
FairSpec ==
    /\ Spec
    /\ WF_vars(LifespanStep)
    /\ \A n \in Names : /\ WF_vars(Return(n))
                        /\ WF_vars(HandleDone(n))
                        /\ WF_vars(Restart(n))

-----------------------------------------------------------------------------
(* Properties *)

\* "A replacement loop never overlaps work left by its predecessor": a name has
\* at most one physical call in progress, through crashes, stray cancellations,
\* restarts and the stop sequence.
NoOverlap == \A n \in Names : physical[n] <= 1

\* Nothing of the runtime is left when the lease is given up: no loop, no timer
\* that will start one, no physical call and no owner that did not drain.
LeaseCoversRuntime ==
    lease = "released" =>
        /\ \A n \in Names : ~Alive(n) /\ physical[n] = 0 /\ n \notin timers
        /\ \A o \in Owners : owner[o] \notin {"on", "undrained"}

\* The stop sequence reaches every owner and every loop that was started,
\* whichever of its steps fail.
EveryOwnerStopped ==
    pc \in {"release", "ended"} =>
        /\ \A o \in Owners : owner[o] /= "on"
        /\ policies = {} /\ stopping = {}

\* A supervised loop that ends, by a crash, a return or a stray cancellation,
\* runs again as long as its restart budget lasts, unless the runtime stops.
LoopsRestarted ==
    \A n \in Names :
        Done(n) /\ Supervises(n) /\ history[n] < MaxRestarts
            ~> Alive(n) \/ pc \notin {"telegram", "up"}

\* Shutdown ends, also when loops crash, are restarted or sit in a physical call
\* while they are cancelled.
ShutdownEnds == pc = "stopping" ~> pc = "ended"
=============================================================================
