---------------------------- MODULE LifespanProofs ----------------------------
(***************************************************************************)
(* Proofs about the life of the process, for any sets of loops and any     *)
(* restart budget.                                                         *)
(***************************************************************************)
EXTENDS Lifespan, TLAPS

-----------------------------------------------------------------------------
(* The inductive invariant *)

\* The task of a name waits for its physical call, whatever happens to it: the
\* call in progress is the one of the latest task.
CallsAwaited ==
    \A n \in Names :
        /\ physical[n] = (IF loop[n] = "calling" THEN 1 ELSE 0)
        /\ n \in deferred => loop[n] = "calling"

\* What the registry knows: a task or a timer belongs to a name with a policy, a
\* name that is being cancelled has neither, and no loop runs unknown to it.
RegistryKnows ==
    /\ tasks \subseteq policies
    /\ stopping \subseteq policies
    /\ timers \subseteq tasks
    /\ stopping \cap tasks = {}
    /\ \A n \in Names : Alive(n) => n \in tasks \cup stopping

\* Before the runtime starts there is nothing to stop.
NothingStarted ==
    pc \in {"acquire", "startup", "starting"} =>
        /\ policies = {}
        /\ \A n \in Names : ~Alive(n)
        /\ \A o \in Owners : owner[o] = "off"

\* What the stages before stage k have left.
StoppedBefore(k) ==
    \A i \in 1..Len(StopOrder) : i < k =>
        /\ Cancels(StopOrder[i]) \cap policies = {}
        /\ StopOrder[i] \in Owners => owner[StopOrder[i]] /= "on"

\* The stop sequence is where it says it is.
StopProgress ==
    /\ pc = "stopping" => at \in 1..Len(StopOrder) /\ StoppedBefore(at)
    /\ pc \in {"release", "ended"} => StoppedBefore(Len(StopOrder) + 1)

\* The lease outlives an owner that did not drain.
LeaseKept ==
    /\ lease = "released" => pc = "ended" /\ ~failed
    /\ \A o \in Owners : owner[o] = "undrained" => failed

LifespanInv ==
    /\ TypeOK
    /\ CallsAwaited
    /\ RegistryKnows
    /\ NothingStarted
    /\ StopProgress
    /\ LeaseKept

-----------------------------------------------------------------------------
(* Facts about the stop sequence *)

\* Eight stages, two of which cancel loops; the others are the owners.
LEMMA Stages ==
    /\ Len(StopOrder) = 8
    /\ StopOrder[1] = "loops" /\ StopOrder[2] = "requests" /\ StopOrder[3] = "tick"
    /\ StopOrder[4] = "analysis" /\ StopOrder[5] = "services" /\ StopOrder[6] = "commit"
    /\ StopOrder[7] = "interactive" /\ StopOrder[8] = "paper"
    /\ Len(Startup) = 5
BY DEF StopOrder, Startup

\* When every stage is behind, no loop has a policy and no owner is on.
LEMMA AllStopped ==
    ASSUME StoppedBefore(Len(StopOrder) + 1), policies \subseteq Names
    PROVE  policies = {} /\ \A o \in Owners : owner[o] /= "on"
<1>1. /\ Loops \cap policies = {} /\ Services \cap policies = {}
      /\ \A o \in Owners : owner[o] /= "on"
  BY Stages DEF StoppedBefore, Cancels, Owners
<1> QED
  BY <1>1 DEF Names

\* A stage that has done its part is one of the stages behind.
LEMMA StageDone ==
    ASSUME TypeOK, NEW k \in 1..Len(StopOrder), StoppedBefore(k),
           policies' \subseteq policies,
           Cancels(StopOrder[k]) \cap policies' = {},
           \A o \in Owners : owner'[o] = "on" => owner[o] = "on",
           StopOrder[k] \in Owners => owner'[StopOrder[k]] /= "on"
    PROVE  StoppedBefore(k + 1)'
<1> SUFFICES ASSUME NEW i \in 1..Len(StopOrder), i < k + 1
             PROVE  /\ Cancels(StopOrder[i]) \cap policies' = {}
                    /\ StopOrder[i] \in Owners => owner'[StopOrder[i]] /= "on"
  BY DEF StoppedBefore, Cancels
<1>1. CASE i = k
  BY <1>1
<1>2. CASE i < k
  BY <1>2 DEF StoppedBefore
<1> QED
  BY <1>1, <1>2, Stages

\* Fewer policies and owners on, and what was stopped stays stopped.
LEMMA StaysStopped ==
    ASSUME NEW k \in Nat, StoppedBefore(k), policies' \subseteq policies,
           \A o \in Owners : owner'[o] = "on" => owner[o] = "on"
    PROVE  StoppedBefore(k)'
BY DEF StoppedBefore, Cancels

-----------------------------------------------------------------------------
(* The conjuncts of LifespanInv, one at a time *)

LEMMA LifespanTypeStep == LifespanInv /\ [Next]_vars => TypeOK'
<1> SUFFICES ASSUME LifespanInv, [Next]_vars PROVE TypeOK'
  OBVIOUS
<1> USE LifespanAssumption DEF LifespanInv, TypeOK, lifespanVars, registryVars, loopVars
<1>1. CASE Acquire \/ StartupStep \/ CancelLifespan \/ Leave \/ Release
  <2>1. at' \in 0..Len(StopOrder)
    BY <1>1, Stages DEF Acquire, StartupStep, CancelLifespan, Leave, Release, Unwind
  <2>2. lease' \in {"none", "held", "released"}
    BY <1>1 DEF Acquire, StartupStep, CancelLifespan, Leave, Release
  <2>3. /\ pc' \in {"acquire", "startup", "starting", "telegram", "up", "stopping",
                     "release", "ended"}
        /\ cancelled' \in BOOLEAN
    BY <1>1 DEF Acquire, StartupStep, CancelLifespan, Leave, Release, Unwind
  <2> QED
    BY <1>1, <2>1, <2>2, <2>3 DEF Acquire, StartupStep, CancelLifespan, Leave, Release
<1>2. CASE StartRuntime
  <2>1. owner' \in [Owners -> {"off", "on", "stopped", "undrained"}]
    BY <1>2 DEF StartRuntime
  <2>2. loop' \in [Names -> {"none", "waiting", "calling", "failed", "cancelled"}]
    BY <1>2 DEF StartRuntime, Ensured
  <2> QED
    BY <1>2, <2>1, <2>2, Stages DEF StartRuntime, Ensured, Unwind
<1>3. CASE StartTelegram \/ StartTick
  BY <1>3, Stages DEF StartTelegram, StartTick, Unwind
<1>4. CASE CancelledAll \/ StopOwner
  <2>1. owner' \in [Owners -> {"off", "on", "stopped", "undrained"}]
    BY <1>4 DEF CancelledAll, StopOwner
  <2>2. failed' \in BOOLEAN
    BY <1>4 DEF CancelledAll, StopOwner, NextStage
  <2>3. pc' \in {"stopping", "release"} /\ at' \in 0..Len(StopOrder)
    BY <1>4, Stages DEF CancelledAll, StopOwner, NextStage, AtStop
  <2> QED
    BY <1>4, <2>1, <2>2, <2>3 DEF CancelledAll, StopOwner
<1>5. ASSUME NEW n \in Names, Call(n) \/ Return(n)
      PROVE  TypeOK'
  <2>1. physical'[n] \in 0..2 /\ physical' = [physical EXCEPT ![n] = physical'[n]]
    BY <1>5 DEF Call, Return, CallsAwaited
  <2>2. loop' \in [Names -> {"none", "waiting", "calling", "failed", "cancelled"}]
    BY <1>5 DEF Call, Return
  <2> QED
    BY <1>5, <2>1, <2>2 DEF Call, Return
<1>6. ASSUME NEW n \in Names, Exit(n) \/ StrayCancel(n)
      PROVE  TypeOK'
  BY <1>6 DEF Exit, StrayCancel, Interrupted
<1>7. ASSUME NEW n \in Names, CancelBegins(n) \/ CancelEnds(n)
      PROVE  TypeOK'
  BY <1>7 DEF CancelBegins, CancelEnds, Interrupted
<1>8. ASSUME NEW n \in Names, HandleDone(n) \/ Restart(n) \/ WindowPasses(n)
      PROVE  TypeOK'
  BY <1>8 DEF HandleDone, Restart, WindowPasses
<1>9. CASE UNCHANGED vars
  BY <1>9 DEF vars
<1> QED
  BY <1>1, <1>2, <1>3, <1>4, <1>5, <1>6, <1>7, <1>8, <1>9
  DEF Next, LifespanStep, LoopStep, Ended

\* A task never leaves its physical call behind.
LEMMA CallsStep == LifespanInv /\ [Next]_vars => CallsAwaited'
<1> SUFFICES ASSUME LifespanInv, [Next]_vars PROVE CallsAwaited'
  OBVIOUS
<1> USE DEF LifespanInv, TypeOK, CallsAwaited, lifespanVars, registryVars, loopVars
<1>1. CASE \/ Acquire \/ StartupStep \/ CancelLifespan \/ Leave \/ Release
           \/ StartTelegram \/ StartTick \/ CancelledAll \/ StopOwner
  BY <1>1 DEF Acquire, StartupStep, CancelLifespan, Leave, Release, StartTelegram,
              StartTick, CancelledAll, StopOwner
<1>2. CASE StartRuntime
  <2>1. UNCHANGED <<deferred, physical>>
    BY <1>2 DEF StartRuntime
  <2>2. \/ loop' = loop
        \/ loop' = [n \in Names |-> IF n \in Names /\ ~Alive(n) THEN "waiting" ELSE loop[n]]
    BY <1>2 DEF StartRuntime, Ensured
  <2>3. \A n \in Names : loop'[n] = "calling" <=> loop[n] = "calling"
    BY <2>2 DEF Alive
  <2> QED
    BY <2>1, <2>3
<1>3. ASSUME NEW n \in Names, Call(n) \/ Return(n) \/ Exit(n)
      PROVE  CallsAwaited'
  BY <1>3 DEF Call, Return, Exit
<1>4. ASSUME NEW n \in Names, StrayCancel(n) \/ CancelBegins(n) \/ CancelEnds(n)
      PROVE  CallsAwaited'
  BY <1>4 DEF StrayCancel, CancelBegins, CancelEnds, Interrupted, Alive
<1>5. ASSUME NEW n \in Names, HandleDone(n) \/ Restart(n) \/ WindowPasses(n)
      PROVE  CallsAwaited'
  BY <1>5 DEF HandleDone, Restart, WindowPasses, Done, Alive
<1>6. CASE UNCHANGED vars
  BY <1>6 DEF vars
<1> QED
  BY <1>1, <1>2, <1>3, <1>4, <1>5, <1>6 DEF Next, LifespanStep, LoopStep, Ended

\* No loop, timer or task escapes the registry.
LEMMA KnowsStep == LifespanInv /\ [Next]_vars => RegistryKnows'
<1> SUFFICES ASSUME LifespanInv, [Next]_vars PROVE RegistryKnows'
  OBVIOUS
<1> USE DEF LifespanInv, TypeOK, RegistryKnows, Alive, lifespanVars, registryVars, loopVars
<1>1. CASE \/ Acquire \/ StartupStep \/ CancelLifespan \/ Leave \/ Release
           \/ StartTelegram \/ StartTick \/ CancelledAll \/ StopOwner
  BY <1>1 DEF Acquire, StartupStep, CancelLifespan, Leave, Release, StartTelegram,
              StartTick, CancelledAll, StopOwner
<1>2. CASE StartRuntime
  BY <1>2 DEF StartRuntime, Ensured
<1>3. ASSUME NEW n \in Names, Call(n) \/ Return(n) \/ Exit(n) \/ StrayCancel(n)
      PROVE  RegistryKnows'
  BY <1>3 DEF Call, Return, Exit, StrayCancel, Interrupted, CallsAwaited
<1>4. ASSUME NEW n \in Names, CancelBegins(n)
      PROVE  RegistryKnows'
  BY <1>4 DEF CancelBegins, Interrupted
<1>5. ASSUME NEW n \in Names, CancelEnds(n)
      PROVE  RegistryKnows'
  BY <1>5 DEF CancelEnds
<1>6. ASSUME NEW n \in Names, HandleDone(n) \/ Restart(n) \/ WindowPasses(n)
      PROVE  RegistryKnows'
  BY <1>6 DEF HandleDone, Restart, WindowPasses, Supervises
<1>7. CASE UNCHANGED vars
  BY <1>7 DEF vars
<1> QED
  BY <1>1, <1>2, <1>3, <1>4, <1>5, <1>6, <1>7 DEF Next, LifespanStep, LoopStep, Ended

\* Nothing runs before StartRuntime.
LEMMA StartedStep == LifespanInv /\ [Next]_vars => NothingStarted'
<1> SUFFICES ASSUME LifespanInv, [Next]_vars PROVE NothingStarted'
  OBVIOUS
<1> USE DEF LifespanInv, TypeOK, NothingStarted, Alive, lifespanVars, registryVars, loopVars
<1>1. CASE Acquire \/ StartupStep \/ StartRuntime \/ StartTelegram
  BY <1>1 DEF Acquire, StartupStep, StartRuntime, StartTelegram, Unwind
<1>2. CASE CancelLifespan \/ Leave \/ Release \/ StartTick
  BY <1>2 DEF CancelLifespan, Leave, Release, StartTick, Unwind
<1>3. CASE CancelledAll \/ StopOwner
  BY <1>3 DEF CancelledAll, StopOwner, NextStage, AtStop
<1>4. ASSUME NEW n \in Names, Call(n) \/ Return(n) \/ Exit(n) \/ StrayCancel(n)
      PROVE  NothingStarted'
  BY <1>4 DEF Call, Return, Exit, StrayCancel, Interrupted, CallsAwaited
<1>5. ASSUME NEW n \in Names, CancelBegins(n) \/ CancelEnds(n)
      PROVE  NothingStarted'
  BY <1>5 DEF CancelBegins, CancelEnds, AtStop
<1>6. ASSUME NEW n \in Names, HandleDone(n) \/ Restart(n) \/ WindowPasses(n)
      PROVE  NothingStarted'
  BY <1>6 DEF HandleDone, Restart, WindowPasses, RegistryKnows
<1>7. CASE UNCHANGED vars
  BY <1>7 DEF vars
<1> QED
  BY <1>1, <1>2, <1>3, <1>4, <1>5, <1>6, <1>7 DEF Next, LifespanStep, LoopStep, Ended

\* The stages behind `at` stay done: nothing is registered or started after them.
LEMMA ProgressStep == LifespanInv /\ [Next]_vars => StopProgress'
<1> SUFFICES ASSUME LifespanInv, [Next]_vars PROVE StopProgress'
  OBVIOUS
<1> USE DEF LifespanInv, TypeOK, StopProgress, lifespanVars, registryVars, loopVars
<1>1. CASE Acquire \/ StartupStep \/ StartRuntime \/ StartTelegram \/ Leave
  <2>1. pc' = "stopping" => at' = 1 /\ StoppedBefore(1)'
    BY <1>1, Stages DEF Acquire, StartupStep, StartRuntime, StartTelegram, Leave, Unwind,
                        StoppedBefore
  <2>2. pc' \in {"release", "ended"} => StoppedBefore(Len(StopOrder) + 1)'
    BY <1>1 DEF Acquire, StartupStep, StartRuntime, StartTelegram, Leave, Unwind,
                StoppedBefore, NothingStarted, Cancels
  <2> QED
    BY <2>1, <2>2, Stages
<1>2. CASE CancelLifespan \/ StartTick \/ Release
  BY <1>2 DEF CancelLifespan, StartTick, Release, StoppedBefore, Cancels
<1>3. CASE CancelledAll \/ StopOwner
  <2>1. /\ at \in 1..Len(StopOrder) /\ StoppedBefore(at)
        /\ policies' = policies
        /\ \A o \in Owners : owner'[o] = "on" => owner[o] = "on"
    BY <1>3 DEF CancelledAll, StopOwner, AtStop
  <2>2. /\ Cancels(StopOrder[at]) \cap policies' = {}
        /\ StopOrder[at] \in Owners => owner'[StopOrder[at]] /= "on"
    BY <1>3 DEF CancelledAll, StopOwner, AtStop, Stage, Cancels, Owners
  <2>3. ASSUME NEW k \in 1..Len(StopOrder), k = at
        PROVE  StoppedBefore(k + 1)'
    BY <2>1, <2>2, <2>3, StageDone
  <2>4. \/ at < Len(StopOrder) /\ pc' = "stopping" /\ at' = at + 1
        \/ at = Len(StopOrder) /\ pc' = "release"
    BY <1>3, <2>1, Stages DEF CancelledAll, StopOwner, AtStop, NextStage
  <2>5. ASSUME NEW k \in 1..Len(StopOrder), k = at
        PROVE  StopProgress'
    <3>1. CASE k < Len(StopOrder) /\ pc' = "stopping" /\ at' = k + 1
      BY <2>3, <2>5, <3>1, Stages
    <3>2. CASE k = Len(StopOrder) /\ pc' = "release"
      BY <2>3, <2>5, <3>2, Stages
    <3> QED
      BY <2>4, <2>5, <3>1, <3>2
  <2> QED
    BY <2>1, <2>5
<1>4. ASSUME NEW n \in Names,
             \/ Call(n) \/ Return(n) \/ Exit(n) \/ StrayCancel(n) \/ HandleDone(n)
             \/ Restart(n) \/ WindowPasses(n) \/ CancelBegins(n) \/ CancelEnds(n)
      PROVE  StopProgress'
  <2>1. /\ policies' \subseteq policies /\ owner' = owner
        /\ pc' = pc /\ at' = at
    BY <1>4 DEF Call, Return, Exit, StrayCancel, HandleDone, Restart, WindowPasses,
                CancelBegins, CancelEnds
  <2>2. pc = "stopping" => StoppedBefore(at)'
    BY <2>1, StaysStopped
  <2>3. pc \in {"release", "ended"} => StoppedBefore(Len(StopOrder) + 1)'
    BY <2>1, StaysStopped, Stages
  <2> QED
    BY <2>1, <2>2, <2>3 DEF StoppedBefore
<1>5. CASE UNCHANGED vars
  BY <1>5 DEF vars, StoppedBefore, Cancels
<1> QED
  BY <1>1, <1>2, <1>3, <1>4, <1>5 DEF Next, LifespanStep, LoopStep, Ended

\* An owner that did not drain is remembered until the lease would be released.
LEMMA KeptStep == LifespanInv /\ [Next]_vars => LeaseKept'
<1> SUFFICES ASSUME LifespanInv, [Next]_vars PROVE LeaseKept'
  OBVIOUS
<1> USE DEF LifespanInv, TypeOK, LeaseKept, lifespanVars, registryVars, loopVars
<1>1. CASE Acquire \/ StartupStep \/ CancelLifespan \/ Leave \/ Release
  BY <1>1 DEF Acquire, StartupStep, CancelLifespan, Leave, Release, Unwind
<1>2. CASE StartRuntime \/ StartTelegram \/ StartTick
  BY <1>2 DEF StartRuntime, StartTelegram, StartTick, Unwind
<1>3. CASE CancelledAll \/ StopOwner
  BY <1>3 DEF CancelledAll, StopOwner, NextStage, AtStop
<1>4. ASSUME NEW n \in Names,
             \/ Call(n) \/ Return(n) \/ Exit(n) \/ StrayCancel(n) \/ HandleDone(n)
             \/ Restart(n) \/ WindowPasses(n) \/ CancelBegins(n) \/ CancelEnds(n)
      PROVE  LeaseKept'
  BY <1>4 DEF Call, Return, Exit, StrayCancel, HandleDone, Restart, WindowPasses,
              CancelBegins, CancelEnds
<1>5. CASE UNCHANGED vars
  BY <1>5 DEF vars
<1> QED
  BY <1>1, <1>2, <1>3, <1>4, <1>5 DEF Next, LifespanStep, LoopStep, Ended

-----------------------------------------------------------------------------
(* The theorems *)

LEMMA LifespanInit == Init => LifespanInv
<1> SUFFICES ASSUME Init PROVE LifespanInv
  OBVIOUS
<1>1. TypeOK
  <2>1. at \in 0..Len(StopOrder) /\ history \in [Names -> 0..MaxRestarts]
    BY LifespanAssumption, Stages DEF Init
  <2>2. cancelled \in BOOLEAN /\ failed \in BOOLEAN
    BY DEF Init
  <2>3. /\ pc \in {"acquire", "startup", "starting", "telegram", "up", "stopping",
                  "release", "ended"}
        /\ lease \in {"none", "held", "released"}
    BY DEF Init
  <2>4. /\ owner \in [Owners -> {"off", "on", "stopped", "undrained"}]
        /\ loop \in [Names -> {"none", "waiting", "calling", "failed", "cancelled"}]
        /\ physical \in [Names -> 0..2]
    BY DEF Init
  <2>5. /\ tasks \subseteq Names /\ policies \subseteq Names /\ timers \subseteq Names
        /\ stopping \subseteq Names /\ deferred \subseteq Names
    BY DEF Init
  <2> QED
    BY <2>1, <2>2, <2>3, <2>4, <2>5 DEF TypeOK
<1>2. CallsAwaited /\ RegistryKnows
  BY DEF Init, CallsAwaited, RegistryKnows, Alive
<1>3. NothingStarted /\ StopProgress /\ LeaseKept
  BY DEF Init, NothingStarted, StopProgress, LeaseKept, Alive
<1> QED
  BY <1>1, <1>2, <1>3 DEF LifespanInv

LEMMA LifespanInvariant == Spec => []LifespanInv
<1>1. LifespanInv /\ [Next]_vars => LifespanInv'
  BY LifespanTypeStep, CallsStep, KnowsStep, StartedStep, ProgressStep, KeptStep
  DEF LifespanInv
<1> QED
  BY <1>1, LifespanInit, PTL DEF Spec

\* A replacement loop never overlaps a physical call of its predecessor, for any
\* loops, through crashes, stray cancellations, restarts and the stop sequence.
THEOREM NoOverlapTheorem == Spec => []NoOverlap
<1>1. LifespanInv => NoOverlap
  BY DEF LifespanInv, CallsAwaited, NoOverlap
<1> QED
  BY <1>1, LifespanInvariant, PTL

\* When the stop sequence is over, every owner was stopped and the registry is
\* empty, whichever stages failed.
THEOREM EveryOwnerStoppedTheorem == Spec => []EveryOwnerStopped
<1>1. LifespanInv => EveryOwnerStopped
  BY AllStopped DEF LifespanInv, TypeOK, StopProgress, RegistryKnows, EveryOwnerStopped
<1> QED
  BY <1>1, LifespanInvariant, PTL

\* The lease is given up only when no loop, timer, physical call or undrained owner
\* of the runtime is left.
THEOREM LeaseCoversRuntimeTheorem == Spec => []LeaseCoversRuntime
<1>1. ASSUME LifespanInv, lease = "released"
      PROVE  /\ \A n \in Names : ~Alive(n) /\ physical[n] = 0 /\ n \notin timers
             /\ \A o \in Owners : owner[o] \notin {"on", "undrained"}
  <2>1. policies = {} /\ \A o \in Owners : owner[o] /= "on"
    BY <1>1, AllStopped DEF LifespanInv, TypeOK, StopProgress, LeaseKept
  <2>2. \A n \in Names : ~Alive(n) /\ n \notin timers
    BY <1>1, <2>1 DEF LifespanInv, RegistryKnows
  <2>3. \A n \in Names : physical[n] = 0
    BY <1>1, <2>2 DEF LifespanInv, CallsAwaited, Alive
  <2>4. \A o \in Owners : owner[o] /= "undrained"
    BY <1>1 DEF LifespanInv, LeaseKept
  <2> QED
    BY <2>1, <2>2, <2>3, <2>4
<1> QED
  BY <1>1, LifespanInvariant, PTL DEF LeaseCoversRuntime
=============================================================================
