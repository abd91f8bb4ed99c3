------------------------- MODULE HistoryRepairProofs -------------------------
(***************************************************************************)
(* Theorems about the history repair lane: HistoryRepair forgets no        *)
(* subscriber and fetches no range in vain, for any charts, demands and    *)
(* limits of the lane.                                                     *)
(*                                                                         *)
(* The entry of a futile range in _awaiting_generation is dropped as soon  *)
(* as a demand has seen a newer generation, and a request may have been    *)
(* queued before its range became futile.  RepairInv says what protects    *)
(* the provider then: keys are unique in the lane, no key is from the      *)
(* future, and a range without an entry is of a generation that is gone.   *)
(***************************************************************************)
EXTENDS HistoryRepair, TLAPS

LaneTyped ==
    /\ gen \in [Scopes -> 0..MaxGeneration]
    /\ \A d \in Demands : plan[d] /= None => plan[d] \in Requests
    /\ running \in Runs \cup {None}
    /\ pending \in Seq(Requests)
    /\ callbacks \in [Keys -> SUBSET Demands]
    /\ awaiting \subseteq Keys
    /\ throttled \subseteq Keys
    /\ futile \subseteq Keys
    /\ DOMAIN heard = Demands /\ DOMAIN plan = Demands

\* A planned demand has been told nothing yet.
PlansUntold == \A d \in Demands : plan[d] /= None => heard[d] = "planned"

\* A demand waits on one key, which runs or is queued.
SubscribersKept ==
    /\ NoOrphanSubscriber
    /\ \A j, k \in Keys : callbacks[j] \cap callbacks[k] /= {} => j = k

Outdated(k) == k.generation < gen[k.scope]

\* No key of the lane carries a generation its chart has not reached.
NoneFromFuture ==
    /\ \A d \in Demands : plan[d] /= None => plan[d].key.generation <= gen[plan[d].key.scope]
    /\ \A k \in RunningKeys \cup PendingKeys \cup throttled \cup futile :
          k.generation <= gen[k.scope]

\* A key is in the lane once; a walk beyond its first chunk is never queued.
KeysUnique ==
    /\ \A i, j \in DOMAIN pending : pending[i].key = pending[j].key => i = j
    /\ RunningKeys \cap PendingKeys = {}
    /\ \A d \in Demands : plan[d] /= None => plan[d].key.chunk = 1
    /\ \A k \in PendingKeys : k.chunk = 1

\* A futile range is blocked or outdated, also in the lane.
FutileBlocked ==
    /\ \A k \in futile : k \in awaiting \/ Outdated(k)
    /\ \A k \in (RunningKeys \cup PendingKeys) \cap futile : Outdated(k)

\* A request beyond its lookup is of the newest generation any range of its chart
\* has failed at, and has not failed itself.
FetchFresh ==
    running /= None /\ running.stage /= "lookup" =>
        /\ running.key \notin futile
        /\ \A k \in futile : k.scope = running.key.scope =>
               k.generation <= running.key.generation

NoneThrottled == (RunningKeys \cup PendingKeys) \cap throttled = {}

RepairInv ==
    /\ LaneTyped /\ PlansUntold /\ SubscribersKept /\ NoneFromFuture /\ KeysUnique
    /\ FutileBlocked /\ FetchFresh /\ NoneThrottled

-----------------------------------------------------------------------------
(* The queue *)

KeysIn(q) == {q[i].key : i \in DOMAIN q}

Distinct(q) == \A i, j \in DOMAIN q : q[i].key = q[j].key => i = j

\* Sorting the queue neither loses nor repeats a request.
LEMMA Sorting ==
    ASSUME NEW q \in Seq(Requests), NEW s \in Prioritized(q)
    PROVE  /\ s \in Seq(Requests) /\ KeysIn(s) = KeysIn(q)
           /\ Distinct(q) => Distinct(s)
<1>1. PICK o \in Bijection(DOMAIN q, DOMAIN q) : s = [n \in DOMAIN q |-> q[o[n]]]
  BY DEF Prioritized
<1>2. /\ o \in [DOMAIN q -> DOMAIN q]
      /\ \A m, n \in DOMAIN q : o[m] = o[n] => m = n
      /\ \A n \in DOMAIN q : \E m \in DOMAIN q : o[m] = n
  BY DEF Bijection, Injection, Surjection, IsInjective
<1>3. DOMAIN q = 1..Len(q) /\ Len(q) \in Nat /\ \A n \in DOMAIN q : q[n] \in Requests
  OBVIOUS
<1>4. s \in Seq(Requests)
  <2>1. s \in [1..Len(q) -> Requests]
    BY <1>1, <1>2, <1>3
  <2> QED
    BY <1>3, <2>1
<1>5. DOMAIN s = DOMAIN q /\ \A n \in DOMAIN q : s[n] = q[o[n]]
  BY <1>1
<1>6. KeysIn(s) = KeysIn(q)
  BY <1>2, <1>5 DEF KeysIn
<1>7. ASSUME Distinct(q) PROVE Distinct(s)
  <2>1. ASSUME NEW i \in DOMAIN s, NEW j \in DOMAIN s, s[i].key = s[j].key PROVE i = j
    <3>1. o[i] \in DOMAIN q /\ o[j] \in DOMAIN q /\ q[o[i]].key = q[o[j]].key
      BY <1>2, <1>5, <2>1
    <3>2. o[i] = o[j]
      BY <1>7, <3>1 DEF Distinct
    <3> QED
      BY <1>2, <1>5, <2>1, <3>2
  <2> QED
    BY <2>1 DEF Distinct
<1> QED
  BY <1>4, <1>6, <1>7

LEMMA Appending ==
    ASSUME NEW q \in Seq(Requests), NEW r \in Requests
    PROVE  /\ Append(q, r) \in Seq(Requests)
           /\ KeysIn(Append(q, r)) = KeysIn(q) \cup {r.key}
           /\ Distinct(q) /\ r.key \notin KeysIn(q) => Distinct(Append(q, r))
<1> DEFINE s == Append(q, r)
<1>1. s \in Seq(Requests) /\ Len(s) = Len(q) + 1 /\ Len(q) \in Nat
  OBVIOUS
<1>2. /\ \A i \in DOMAIN q : s[i] = q[i] /\ i \in DOMAIN s /\ i /= Len(q) + 1
      /\ s[Len(q) + 1] = r /\ Len(q) + 1 \in DOMAIN s
      /\ \A i \in DOMAIN s : i \in DOMAIN q \/ i = Len(q) + 1
  OBVIOUS
<1> HIDE DEF s
<1>3. KeysIn(s) = KeysIn(q) \cup {r.key}
  BY <1>2 DEF KeysIn
<1>4. Distinct(q) /\ r.key \notin KeysIn(q) => Distinct(s)
  BY <1>2 DEF KeysIn, Distinct
<1> QED
  BY <1>1, <1>3, <1>4 DEF s

LEMMA Removing ==
    ASSUME NEW q \in Seq(Requests), NEW i \in DOMAIN q
    PROVE  /\ RemoveAt(q, i) \in Seq(Requests)
           /\ KeysIn(RemoveAt(q, i)) \subseteq KeysIn(q)
           /\ KeysIn(q) \subseteq KeysIn(RemoveAt(q, i)) \cup {q[i].key}
           /\ Distinct(q) => /\ Distinct(RemoveAt(q, i))
                             /\ q[i].key \notin KeysIn(RemoveAt(q, i))
<1> DEFINE a == SubSeq(q, 1, i - 1)
           b == SubSeq(q, i + 1, Len(q))
           s == a \o b
           At(n) == IF n < i THEN n ELSE n + 1
<1>1. Len(q) \in Nat /\ i \in 1..Len(q) /\ DOMAIN q = 1..Len(q)
  OBVIOUS
<1>2. /\ a \in Seq(Requests) /\ Len(a) = i - 1
      /\ \A n \in 1..(i - 1) : a[n] = q[n]
  BY <1>1
<1>3. /\ b \in Seq(Requests) /\ Len(b) = Len(q) - i
      /\ \A n \in 1..(Len(q) - i) : b[n] = q[i + n]
  BY <1>1
<1> HIDE DEF a, b
<1>4. s \in Seq(Requests) /\ Len(s) = Len(q) - 1
  <2>1. s \in Seq(Requests) /\ Len(s) = Len(a) + Len(b)
    <3>1. a \in Seq(Requests) /\ b \in Seq(Requests)
      BY <1>2, <1>3
    <3>2. ASSUME NEW x \in Seq(Requests), NEW y \in Seq(Requests)
          PROVE  x \o y \in Seq(Requests) /\ Len(x \o y) = Len(x) + Len(y)
      OBVIOUS
    <3> QED
      BY <3>1, <3>2
  <2> QED
    BY <1>1, <1>2, <1>3, <2>1
<1>5. ASSUME NEW n \in 1..(Len(q) - 1)
      PROVE  s[n] = q[At(n)] /\ At(n) \in DOMAIN q /\ At(n) /= i
  <2>1. CASE n < i
    BY <1>1, <1>2, <1>3, <2>1
  <2>2. CASE ~(n < i)
    <3>1. s[n] = b[n - (i - 1)]
      BY <1>1, <1>2, <1>3, <2>2
    <3>2. n - (i - 1) \in 1..(Len(q) - i)
      BY <1>1, <2>2
    <3>3. b[n - (i - 1)] = q[i + (n - (i - 1))]
      BY <1>3, <3>2
    <3> QED
      BY <1>1, <2>2, <3>1, <3>3
  <2> QED
    BY <2>1, <2>2
<1>6. \A m \in DOMAIN q : m /= i => \E n \in 1..(Len(q) - 1) : At(n) = m
  <2>1. ASSUME NEW m \in DOMAIN q, m /= i PROVE \E n \in 1..(Len(q) - 1) : At(n) = m
    <3>1. CASE m < i
      BY <1>1, <3>1
    <3>2. CASE m > i
      <4>1. m - 1 \in 1..(Len(q) - 1) /\ At(m - 1) = m
        BY <1>1, <3>2
      <4> QED
        BY <4>1
    <3> QED
      BY <1>1, <2>1, <3>1, <3>2
  <2> QED
    BY <2>1
<1>7. \A m, n \in 1..(Len(q) - 1) : At(m) = At(n) => m = n
  BY <1>1
<1>8. DOMAIN s = 1..(Len(q) - 1)
  BY <1>4
<1> HIDE DEF s, At
<1>9. /\ \A n \in DOMAIN s : s[n] = q[At(n)] /\ At(n) \in DOMAIN q /\ At(n) /= i
      /\ \A m \in DOMAIN q : m /= i => \E n \in DOMAIN s : s[n] = q[m]
      /\ \A m, n \in DOMAIN s : At(m) = At(n) => m = n
  BY <1>5, <1>6, <1>7, <1>8
<1>10. KeysIn(s) \subseteq KeysIn(q) /\ KeysIn(q) \subseteq KeysIn(s) \cup {q[i].key}
  <2>1. ASSUME NEW m \in DOMAIN q PROVE q[m].key \in KeysIn(s) \cup {q[i].key}
    BY <1>9 DEF KeysIn
  <2>2. ASSUME NEW n \in DOMAIN s PROVE s[n].key \in KeysIn(q)
    BY <1>9 DEF KeysIn
  <2> QED
    BY <2>1, <2>2 DEF KeysIn
<1>11. Distinct(q) => Distinct(s) /\ q[i].key \notin KeysIn(s)
  <2>1. ASSUME Distinct(q) PROVE Distinct(s)
    BY <1>9, <2>1 DEF Distinct
  <2>2. ASSUME Distinct(q) PROVE q[i].key \notin KeysIn(s)
    BY <1>9, <2>2 DEF KeysIn, Distinct
  <2> QED
    BY <2>1, <2>2
<1> QED
  BY <1>4, <1>10, <1>11 DEF RemoveAt, s, a, b

LEMMA Popping ==
    ASSUME NEW q \in Seq(Requests), q /= <<>>
    PROVE  /\ Head(q) \in Requests /\ Tail(q) \in Seq(Requests)
           /\ KeysIn(q) = KeysIn(Tail(q)) \cup {Head(q).key}
           /\ Distinct(q) => Distinct(Tail(q)) /\ Head(q).key \notin KeysIn(Tail(q))
<1>1. /\ Tail(q) \in Seq(Requests) /\ Head(q) = q[1] /\ q[1] \in Requests
      /\ Len(q) \in Nat /\ 1 \in DOMAIN q
  OBVIOUS
<1>2. \A i \in DOMAIN Tail(q) : Tail(q)[i] = q[i + 1] /\ i + 1 \in DOMAIN q /\ i + 1 /= 1 /\ i \in Nat
  OBVIOUS
<1>3. ASSUME NEW i \in DOMAIN q, i /= 1
      PROVE  i - 1 \in DOMAIN Tail(q) /\ Tail(q)[i - 1] = q[i]
  BY <1>3
<1>4. KeysIn(q) = KeysIn(Tail(q)) \cup {Head(q).key}
  <2>1. ASSUME NEW i \in DOMAIN q PROVE q[i].key \in KeysIn(Tail(q)) \cup {Head(q).key}
    BY <1>1, <1>3 DEF KeysIn
  <2>2. ASSUME NEW i \in DOMAIN Tail(q) PROVE Tail(q)[i].key \in KeysIn(q)
    BY <1>2 DEF KeysIn
  <2>3. Head(q).key \in KeysIn(q)
    BY <1>1 DEF KeysIn
  <2> QED
    BY <2>1, <2>2, <2>3 DEF KeysIn
<1>5. Distinct(q) => Distinct(Tail(q)) /\ Head(q).key \notin KeysIn(Tail(q))
  BY <1>1, <1>2 DEF KeysIn, Distinct
<1> QED
  BY <1>1, <1>4, <1>5

-----------------------------------------------------------------------------
(* What the steps do to the lane *)

\* The lane keeps its requests; a demand may drop entries of older generations.
Still ==
    /\ UNCHANGED <<running, futile>>
    /\ pending' \in Seq(Requests) /\ KeysIn(pending') = KeysIn(pending) /\ Distinct(pending')
    /\ throttled' \subseteq throttled
    /\ \/ awaiting' = awaiting
       \/ \E d \in Demands : plan[d] /= None /\ awaiting' = Unblocked(plan[d].key)
    /\ \/ gen' = gen
       \/ \E s \in Scopes : gen[s] < MaxGeneration /\ gen' = [gen EXCEPT ![s] = @ + 1]

\* A planned request that is neither blocked nor in the lane enters it.
Enters(d) ==
    /\ Fresh(d) /\ plan[d].key \notin throttled
    /\ awaiting' = Unblocked(plan[d].key)
    /\ UNCHANGED <<gen, throttled, futile>>
    /\ \/ running = None /\ running' = Start(plan[d]) /\ UNCHANGED pending
       \/ /\ running /= None /\ UNCHANGED running
          /\ pending' \in Seq(Requests) /\ Distinct(pending')
          /\ KeysIn(pending') \subseteq KeysIn(pending) \cup {plan[d].key}

\* The attempt of the running request ends.
Ends(status, written) ==
    /\ running /= None
    /\ Finish(status, written, gen'[running.key.scope])
    /\ \/ gen' = gen /\ status /= "COMMITTED"
       \/ /\ gen[running.key.scope] < MaxGeneration
          /\ gen' = [gen EXCEPT ![running.key.scope] = @ + 1]
    /\ NoProgress(status, written) => gen' = gen /\ running.stage /= "lookup"

\* The attempt goes on; the provider is asked only after the comparison.
Continuing(stage) ==
    /\ running /= None
    /\ Proceed(stage)
    /\ UNCHANGED gen
    /\ running.stage = "lookup" => Current

LEMMA QueueFacts ==
    ASSUME RepairInv
    PROVE  /\ pending \in Seq(Requests) /\ Distinct(pending) /\ PendingKeys = KeysIn(pending)
           /\ running /= None => /\ running \in Runs /\ running.key \in Keys
                                 /\ running.key \notin PendingKeys
                                 /\ RunningKeys = {running.key}
           /\ running = None => RunningKeys = {}
  BY DEF RepairInv, LaneTyped, KeysUnique, Distinct, PendingKeys, KeysIn, RunningKeys, Runs

LEMMA EndsUnwritten ==
    ASSUME NEW status \in Statuses \ {"COMMITTED"}, running /= None, UNCHANGED gen,
           Finish(status, FALSE, gen[running.key.scope]),
           status \in {"NO_CHANGE", "INCOMPLETE", "MALFORMED"} => running.stage /= "lookup"
    PROVE  \E st \in Statuses, written \in BOOLEAN : Ends(st, written)
<1>1. Ends(status, FALSE)
  BY DEF Ends, NoProgress
<1>2. FALSE \in BOOLEAN /\ status \in Statuses
  OBVIOUS
<1> QED
  BY <1>1, <1>2

LEMMA RunMoves ==
    ASSUME RepairInv, RunStep
    PROVE  \/ \E status \in Statuses, written \in BOOLEAN : Ends(status, written)
           \/ \E stage \in Stages \ {"lookup"} : Continuing(stage)
<1>1. CASE LookUp
  <2>1. CASE \E status \in {"STORAGE_FAILED", "STALE_ROUTE"} :
                Finish(status, FALSE, gen[running.key.scope]) /\ UNCHANGED gen
    BY <1>1, <2>1, EndsUnwritten DEF LookUp, AtStage, Statuses, Failures
  <2>2. CASE Finish("STALE_GENERATION", FALSE, gen[running.key.scope]) /\ UNCHANGED gen
    BY <1>1, <2>2, EndsUnwritten DEF LookUp, AtStage, Statuses
  <2>3. CASE Current /\ Proceed("fetch") /\ UNCHANGED gen
    BY <1>1, <2>3 DEF LookUp, AtStage, Continuing, Stages
  <2> QED
    BY <1>1, <2>1, <2>2, <2>3 DEF LookUp
<1>2. CASE Fetch
  <2>1. CASE \E status \in {"FETCH_FAILED", "MALFORMED"} :
                Finish(status, FALSE, gen[running.key.scope]) /\ UNCHANGED gen
    BY <1>2, <2>1, EndsUnwritten DEF Fetch, AtStage, Statuses, Failures
  <2>2. CASE Proceed("fetched") /\ UNCHANGED gen
    BY <1>2, <2>2 DEF Fetch, AtStage, Continuing, Stages
  <2> QED
    BY <1>2, <2>1, <2>2 DEF Fetch
<1>3. CASE Recheck
  <2>1. CASE \E status \in {"STORAGE_FAILED", "STALE_ROUTE", "STALE_GENERATION", "MALFORMED",
                            "INCOMPLETE", "NO_CHANGE"} :
                Finish(status, FALSE, gen[running.key.scope]) /\ UNCHANGED gen
    BY <1>3, <2>1, EndsUnwritten DEF Recheck, AtStage, Statuses, Failures
  <2>2. CASE Proceed("commit") /\ UNCHANGED gen
    BY <1>3, <2>2 DEF Recheck, AtStage, Continuing, Stages
  <2> QED
    BY <1>3, <2>1, <2>2 DEF Recheck
<1>4. CASE CommitNothing
  <2>1. \E status \in {"NO_CHANGE", "INCOMPLETE", "COMMIT_QUEUE_FULL", "COMMIT_FAILED",
                       "STALE_ROUTE", "STALE_GENERATION"} :
            Finish(status, FALSE, gen[running.key.scope]) /\ UNCHANGED gen
    BY <1>4 DEF CommitNothing
  <2> QED
    BY <1>4, <2>1, EndsUnwritten DEF CommitNothing, AtStage, Statuses, Failures
<1>5. CASE CommitMutation
  <2> DEFINE c == running.key.scope
  <2>1. /\ running /= None /\ gen[c] < MaxGeneration /\ gen' = [gen EXCEPT ![c] = gen[c] + 1]
        /\ \E status \in {"COMMITTED", "INCOMPLETE", "COMMIT_FAILED"} :
              Finish(status, TRUE, gen[c] + 1)
    BY <1>5 DEF CommitMutation, AtStage
  <2>2. c \in Scopes /\ gen'[c] = gen[c] + 1
    BY <2>1 DEF RepairInv, LaneTyped, Runs, Keys
  <2> QED
    BY <2>1, <2>2 DEF Ends, NoProgress, Statuses, Failures
<1> QED
  BY <1>1, <1>2, <1>3, <1>4, <1>5 DEF RunStep

LEMMA EvictionMoves ==
    ASSUME RepairInv, NEW d \in Demands, ScheduleEvicting(d)
    PROVE  /\ Enters(d)
           /\ \E gone \in PendingKeys :
                 /\ KeysIn(pending) \cup {plan[d].key} \subseteq KeysIn(pending') \cup {gone}
                 /\ gone \notin KeysIn(pending') /\ gone /= plan[d].key
                 /\ callbacks' = [callbacks EXCEPT ![gone] = {}, ![plan[d].key] = {d}]
                 /\ heard' = [Told(callbacks[gone], "SUPERSEDED") EXCEPT ![d] = "waiting"]
<1> DEFINE k == plan[d].key
<1>1. PICK i \in Evictable :
         /\ pending' \in Prioritized(Append(RemoveAt(pending, i), plan[d]))
         /\ callbacks' = [callbacks EXCEPT ![pending[i].key] = {}, ![k] = {d}]
         /\ heard' = [Told(callbacks[pending[i].key], "SUPERSEDED") EXCEPT ![d] = "waiting"]
  BY DEF ScheduleEvicting
<1> DEFINE gone == pending[i].key
           rest == RemoveAt(pending, i)
<1>2. i \in DOMAIN pending /\ plan[d] \in Requests /\ k \notin KeysIn(pending)
  BY QueueFacts DEF Evictable, ScheduleEvicting, Fresh, RepairInv, LaneTyped
<1>3. gone \in PendingKeys /\ gone /= k
  BY <1>2 DEF PendingKeys, KeysIn
<1>4. /\ rest \in Seq(Requests) /\ KeysIn(rest) \subseteq KeysIn(pending)
      /\ KeysIn(pending) \subseteq KeysIn(rest) \cup {gone}
      /\ Distinct(rest) /\ gone \notin KeysIn(rest)
  BY <1>2, Removing, QueueFacts
<1> HIDE DEF rest
<1>5. /\ Append(rest, plan[d]) \in Seq(Requests)
      /\ KeysIn(Append(rest, plan[d])) = KeysIn(rest) \cup {k}
      /\ Distinct(Append(rest, plan[d]))
  <2>1. k \notin KeysIn(rest)
    BY <1>2, <1>4
  <2> QED
    BY <1>2, <1>4, <2>1, Appending
<1>6. pending' \in Prioritized(Append(rest, plan[d]))
  BY <1>1 DEF rest
<1> HIDE DEF gone, k
<1>7. /\ pending' \in Seq(Requests) /\ KeysIn(pending') = KeysIn(rest) \cup {k}
      /\ Distinct(pending')
  BY <1>5, <1>6, Sorting
<1>8. Enters(d)
  <2>1. KeysIn(pending') \subseteq KeysIn(pending) \cup {k}
    BY <1>4, <1>7
  <2> QED
    BY <1>7, <2>1 DEF Enters, ScheduleEvicting, k
<1>9. KeysIn(pending) \cup {k} \subseteq KeysIn(pending') \cup {gone} /\ gone \notin KeysIn(pending')
  BY <1>3, <1>4, <1>7
<1> QED
  BY <1>1, <1>3, <1>8, <1>9 DEF gone, k

LEMMA QueuedMoves ==
    ASSUME RepairInv, NEW d \in Demands, ScheduleQueued(d)
    PROVE  Enters(d) /\ KeysIn(pending') = KeysIn(pending) \cup {plan[d].key}
<1>1. plan[d] \in Requests /\ plan[d].key \notin KeysIn(pending)
  BY QueueFacts DEF ScheduleQueued, Fresh, RepairInv, LaneTyped
<1>2. /\ Append(pending, plan[d]) \in Seq(Requests)
      /\ KeysIn(Append(pending, plan[d])) = KeysIn(pending) \cup {plan[d].key}
      /\ Distinct(Append(pending, plan[d]))
  BY <1>1, QueueFacts, Appending
<1>3. pending' \in Prioritized(Append(pending, plan[d]))
  BY DEF ScheduleQueued
<1>4. /\ pending' \in Seq(Requests)
      /\ KeysIn(pending') = KeysIn(pending) \cup {plan[d].key} /\ Distinct(pending')
  BY <1>2, <1>3, Sorting
<1> QED
  BY <1>4 DEF Enters, ScheduleQueued

\* A promotion changes the order of the queue and nothing else in the lane.
LEMMA PromotionMoves ==
    ASSUME RepairInv, NEW d \in Demands, SchedulePending(d)
    PROVE  Still
<1> DEFINE q == [i \in DOMAIN pending |->
                    IF pending[i].key = plan[d].key /\ plan[d].priority < pending[i].priority
                    THEN plan[d] ELSE pending[i]]
<1>1. plan[d] /= None /\ plan[d] \in Requests /\ pending \in Seq(Requests) /\ Distinct(pending)
  BY QueueFacts DEF SchedulePending, RepairInv, LaneTyped
<1>2. q \in Seq(Requests)
  <2>1. q \in [1..Len(pending) -> Requests] /\ Len(pending) \in Nat
    BY <1>1
  <2> QED
    BY <2>1
<1>3. DOMAIN q = DOMAIN pending /\ \A i \in DOMAIN pending : q[i].key = pending[i].key
  BY <1>1
<1>4. pending' \in Prioritized(q)
  BY DEF SchedulePending
<1> HIDE DEF q
<1>5. KeysIn(q) = KeysIn(pending) /\ Distinct(q)
  BY <1>1, <1>3 DEF KeysIn, Distinct
<1>6. pending' \in Seq(Requests) /\ KeysIn(pending') = KeysIn(pending) /\ Distinct(pending')
  BY <1>2, <1>4, <1>5, Sorting
<1> QED
  BY <1>1, <1>6 DEF Still, SchedulePending

\* Every step leaves the lane, lets a request in, carries the running one on or
\* ends it, or cancels all.
LEMMA LaneMoves ==
    ASSUME RepairInv, [Next]_vars
    PROVE  \/ Still
           \/ \E d \in Demands : Enters(d)
           \/ \E stage \in Stages \ {"lookup"} : Continuing(stage)
           \/ \E status \in Statuses, written \in BOOLEAN : Ends(status, written)
           \/ Cancel
<1>1. pending \in Seq(Requests) /\ Distinct(pending)
  BY QueueFacts
<1>2. ASSUME NEW d \in Demands,
             \/ ScheduleBlocked(d) \/ ScheduleRunning(d) \/ ScheduleThrottled(d) \/ ScheduleFull(d)
      PROVE  Still
  BY <1>1, <1>2 DEF ScheduleBlocked, ScheduleRunning, ScheduleThrottled, ScheduleFull, Fresh,
                    Refuse, Still
<1>3. ASSUME NEW d \in Demands, ScheduleIdle(d) PROVE Enters(d)
  BY <1>3 DEF ScheduleIdle, Enters
<1>4. ASSUME NEW d \in Demands, NEW s, NEW n, NEW p, PlanDemand(d, s, n, p) PROVE Still
  BY <1>1, <1>4 DEF PlanDemand, Still
<1>5. ASSUME NEW s \in Scopes, OtherCommit(s) PROVE Still
  BY <1>1, <1>5 DEF OtherCommit, Still
<1>6. ASSUME NEW k \in Keys, BackoffEnds(k) PROVE Still
  BY <1>1, <1>6 DEF BackoffEnds, Still
<1>7. CASE UNCHANGED vars
  BY <1>1, <1>7 DEF vars, Still
<1> QED
  BY <1>2, <1>3, <1>4, <1>5, <1>6, <1>7, EvictionMoves, QueuedMoves, PromotionMoves, RunMoves
  DEF Next, Schedule, Quiet

GenerationsGrow == gen' \in [Scopes -> 0..MaxGeneration] /\ \A s \in Scopes : gen[s] <= gen'[s]

LEMMA Generations ==
    ASSUME RepairInv, [Next]_vars
    PROVE  GenerationsGrow
<1>1. gen \in [Scopes -> 0..MaxGeneration] /\ MaxGeneration \in Nat
  BY HistoryRepairAssumption DEF RepairInv, LaneTyped
<1>2. \A s \in Scopes : gen[s] \in 0..MaxGeneration /\ gen[s] <= gen[s]
  BY <1>1
<1>3. CASE gen' = gen
  BY <1>1, <1>2, <1>3 DEF GenerationsGrow
<1>4. ASSUME NEW s \in Scopes, gen[s] < MaxGeneration, gen' = [gen EXCEPT ![s] = @ + 1]
      PROVE  GenerationsGrow
  <2>1. gen[s] + 1 \in 0..MaxGeneration /\ gen[s] <= gen[s] + 1
    BY <1>1, <1>2, <1>4
  <2> QED
    BY <1>1, <1>2, <1>4, <2>1 DEF GenerationsGrow
<1>5. ASSUME NEW status, NEW written, Ends(status, written) PROVE GenerationsGrow
  <2>1. running.key.scope \in Scopes
    BY <1>5 DEF Ends, RepairInv, LaneTyped, Runs, Keys
  <2> QED
    BY <1>3, <1>4, <1>5, <2>1 DEF Ends
<1> QED
  BY <1>3, <1>4, <1>5, LaneMoves DEF Still, Enters, Continuing, Cancel

\* The request that follows the running one: the next chunk of its walk, at the
\* generation its commit has made, or the first of the queue.
LEMMA EndMoves ==
    ASSUME RepairInv, [Next]_vars, NEW status, NEW written, Ends(status, written)
    PROVE  /\ pending' \in Seq(Requests) /\ Distinct(pending')
           /\ KeysIn(pending') \subseteq KeysIn(pending)
           /\ \/ running' = None /\ pending' = pending /\ KeysIn(pending) = {}
              \/ \E r \in Requests :
                    /\ running' = Start(r) /\ r.key \notin KeysIn(pending')
                    /\ KeysIn(pending) \subseteq KeysIn(pending') \cup {r.key}
                    /\ \/ r.key \in KeysIn(pending)
                       \/ /\ r.key.scope = running.key.scope
                          /\ r.key.generation = gen[running.key.scope] + 1
                          /\ r.key.generation = gen'[running.key.scope]
<1> DEFINE k == running.key
<1>1. /\ running /= None /\ running \in Runs /\ k \in Keys /\ k \notin KeysIn(pending)
      /\ pending \in Seq(Requests) /\ Distinct(pending)
      /\ gen \in [Scopes -> 0..MaxGeneration] /\ gen' \in [Scopes -> 0..MaxGeneration]
  BY QueueFacts, Generations DEF Ends, RepairInv, LaneTyped, GenerationsGrow
<1>2. CASE Continues(status)
  <2> DEFINE r == NextChunk(gen'[k.scope])
  <2>1. running' = Start(r) /\ pending' = pending
    BY <1>2 DEF Ends, Finish
  <2>2. k.scope \in Scopes /\ k.chunk \in 1..Chunks /\ k.target \in 1..Chunks /\ Chunks \in Nat
    BY <1>1, HistoryRepairAssumption DEF Keys
  <2>3. status = "COMMITTED" /\ k.chunk < k.target
    BY <1>2 DEF Continues
  <2>4. gen'[k.scope] = gen[k.scope] + 1 /\ gen'[k.scope] \in 0..MaxGeneration
    BY <1>1, <2>2, <2>3 DEF Ends
  <2>5. k.chunk + 1 \in 1..Chunks /\ k.chunk + 1 <= k.target /\ k.chunk + 1 /= 1
    BY <2>2, <2>3
  <2>6. r.key \in Keys /\ r.key.scope = k.scope /\ r.key.generation = gen'[k.scope]
        /\ r.key.chunk = k.chunk + 1
    BY <1>1, <2>4, <2>5 DEF NextChunk, Keys
  <2>7. r \in Requests
    BY <1>1, <2>6 DEF NextChunk, Requests, Runs
  <2>8. r.key \notin KeysIn(pending)
    BY <2>5, <2>6, QueueFacts DEF RepairInv, KeysUnique
  <2> QED
    BY <1>1, <2>1, <2>4, <2>6, <2>7, <2>8
<1>3. CASE ~Continues(status) /\ pending = <<>>
  <2>1. running' = None /\ pending' = pending
    BY <1>3 DEF Ends, Finish
  <2>2. KeysIn(pending) = {}
    BY <1>3 DEF KeysIn
  <2> QED
    BY <1>1, <2>1, <2>2
<1>4. CASE ~Continues(status) /\ pending /= <<>>
  <2>1. running' = Start(Head(pending)) /\ pending' = Tail(pending)
    BY <1>4 DEF Ends, Finish
  <2>2. /\ Head(pending) \in Requests /\ Tail(pending) \in Seq(Requests)
        /\ KeysIn(pending) = KeysIn(Tail(pending)) \cup {Head(pending).key}
        /\ Distinct(Tail(pending)) /\ Head(pending).key \notin KeysIn(Tail(pending))
    BY <1>1, <1>4, Popping
  <2> QED
    BY <2>1, <2>2
<1> QED
  BY <1>2, <1>3, <1>4

\* All of the lane is dropped, and every subscriber of it is told.
LEMMA Cancelling ==
    ASSUME Cancel
    PROVE  /\ running /= None /\ running' = None /\ pending' = <<>>
           /\ throttled' = throttled \ RunningKeys /\ UNCHANGED <<gen, plan, awaiting, futile>>
           /\ heard' = Told(UNION {callbacks[k] : k \in RunningKeys \cup PendingKeys}, "CANCELLED")
           /\ callbacks' = [k \in Keys |-> IF k \in RunningKeys \cup PendingKeys
                                          THEN {} ELSE callbacks[k]]
BY Zenon DEF Cancel

\* A started request is in the lane under its key, at its lookup.
LEMMA Starting ==
    ASSUME NEW r \in Requests
    PROVE  /\ Start(r) \in Runs /\ Start(r) /= None /\ Start(r).key = r.key
           /\ Start(r).stage = "lookup"
  BY NoneIsNoRequest DEF Start, Runs, Requests, Stages

LEMMA RequestsTyped ==
    ASSUME RepairInv, [Next]_vars
    PROVE  /\ gen' \in [Scopes -> 0..MaxGeneration]
           /\ \A d \in Demands : plan'[d] /= None => plan'[d] \in Requests
           /\ running' \in Runs \cup {None} /\ pending' \in Seq(Requests) /\ awaiting' \subseteq Keys
           /\ throttled' \subseteq Keys /\ futile' \subseteq Keys
<1>1. gen' \in [Scopes -> 0..MaxGeneration]
  BY Generations DEF GenerationsGrow
<1>2. \A d \in Demands : plan'[d] /= None => plan'[d] \in Requests
  <2>1. ASSUME NEW d \in Demands, NEW s \in ScopesOf[d], NEW n \in Envelopes(s),
               NEW p \in {Foreground, Background}, PlanDemand(d, s, n, p)
        PROVE  \A e \in Demands : plan'[e] /= None => plan'[e] \in Requests
    <3> DEFINE r == [key |-> [scope |-> s, target |-> n, chunk |-> 1, generation |-> gen[s]],
                     priority |-> p]
    <3>1. Chunks \in Nat \ {0} /\ ScopesOf[d] \subseteq Scopes
      BY HistoryRepairAssumption
    <3>2. s \in Scopes /\ n \in 1..Chunks /\ 1 \in 1..Chunks /\ gen[s] \in 0..MaxGeneration
          /\ 1 <= n
      BY <3>1 DEF Envelopes, RepairInv, LaneTyped
    <3>3. r \in Requests
      BY <3>2 DEF Requests, Keys
    <3>4. plan' = [plan EXCEPT ![d] = r]
      BY <2>1 DEF PlanDemand
    <3> HIDE DEF r
    <3> QED
      BY <3>3, <3>4 DEF RepairInv, LaneTyped
  <2>2. ASSUME NEW d \in Demands, Schedule(d)
        PROVE  plan' = [plan EXCEPT ![d] = None]
    BY <2>2 DEF Schedule, ScheduleBlocked, ScheduleRunning, SchedulePending, ScheduleThrottled,
                ScheduleIdle, ScheduleQueued, ScheduleEvicting, ScheduleFull, Refuse, Admit
  <2>3. ASSUME NEW d \in Demands, plan' = [plan EXCEPT ![d] = None]
        PROVE  \A e \in Demands : plan'[e] /= None => plan'[e] \in Requests
    BY <2>3 DEF RepairInv, LaneTyped
  <2>4. CASE UNCHANGED plan
    BY <2>4 DEF RepairInv, LaneTyped
  <2>5. RunStep => UNCHANGED plan
    BY DEF RunStep, LookUp, Fetch, Recheck, CommitNothing, CommitMutation, Finish, Proceed
  <2> QED
    BY <2>1, <2>2, <2>3, <2>4, <2>5 DEF Next, Cancel, OtherCommit, BackoffEnds, Quiet, vars
<1>3. /\ running' \in Runs \cup {None} /\ pending' \in Seq(Requests) /\ awaiting' \subseteq Keys
      /\ throttled' \subseteq Keys /\ futile' \subseteq Keys
  <2> DEFINE Goal == /\ running' \in Runs \cup {None} /\ pending' \in Seq(Requests)
                     /\ awaiting' \subseteq Keys
                     /\ throttled' \subseteq Keys /\ futile' \subseteq Keys
  <2>1. /\ running \in Runs \cup {None} /\ pending \in Seq(Requests) /\ awaiting \subseteq Keys
        /\ throttled \subseteq Keys /\ futile \subseteq Keys
    BY DEF RepairInv, LaneTyped
  <2>2. CASE Still
    BY <2>1, <2>2 DEF Still, Unblocked
  <2>3. ASSUME NEW d \in Demands, Enters(d) PROVE Goal
    <3>1. plan[d] \in Requests
      BY <2>3 DEF Enters, Fresh, RepairInv, LaneTyped
    <3> QED
      BY <2>1, <2>3, <3>1, Starting DEF Enters, Unblocked
  <2>4. ASSUME NEW stage \in Stages \ {"lookup"}, Continuing(stage) PROVE Goal
    BY <2>1, <2>4 DEF Continuing, Proceed, Runs
  <2>5. ASSUME NEW status, NEW written, Ends(status, written) PROVE Goal
    <3>1. running' \in Runs \cup {None} /\ pending' \in Seq(Requests)
      BY <2>5, EndMoves, Starting
    <3>2. running.key \in Keys
      BY <2>5, QueueFacts DEF Ends
    <3> QED
      BY <2>1, <2>5, <3>1, <3>2 DEF Ends, Finish
  <2>6. CASE Cancel
    BY <2>1, <2>6, Cancelling
  <2> QED
    BY <2>2, <2>3, <2>4, <2>5, <2>6, LaneMoves
<1> QED
  BY <1>1, <1>2, <1>3

-----------------------------------------------------------------------------
(* The subscribers *)

Lane == RunningKeys \cup PendingKeys

Subscribers ==
    /\ callbacks \in [Keys -> SUBSET Demands]
    /\ DOMAIN heard = Demands /\ DOMAIN plan = Demands
    /\ \A d \in Demands : plan[d] /= None => heard[d] = "planned"
    /\ \A k \in Keys : callbacks[k] /= {} => k \in Lane
    /\ \A d \in Demands : heard[d] = "waiting" <=> \E k \in Keys : d \in callbacks[k]
    /\ \A d \in Demands, j, k \in Keys : d \in callbacks[j] /\ d \in callbacks[k] => j = k

LEMMA SubscribersHold == RepairInv => Subscribers
BY DEF RepairInv, LaneTyped, PlansUntold, SubscribersKept, NoOrphanSubscriber, Subscribers, Lane

LEMMA Subscribing ==
    ASSUME Subscribers, NEW d \in Demands, NEW k \in Keys, plan[d] /= None,
           callbacks' = [callbacks EXCEPT ![k] = @ \cup {d}],
           heard' = [heard EXCEPT ![d] = "waiting"], plan' = [plan EXCEPT ![d] = None],
           Lane \cup {k} \subseteq Lane'
    PROVE  Subscribers'
<1>1. heard[d] = "planned" /\ \A j \in Keys : d \notin callbacks[j]
  BY DEF Subscribers
<1>2. callbacks' \in [Keys -> SUBSET Demands] /\ DOMAIN heard' = Demands /\ DOMAIN plan' = Demands
  BY DEF Subscribers
<1>3. /\ heard'[d] = "waiting" /\ plan'[d] = None /\ callbacks'[k] = callbacks[k] \cup {d}
      /\ \A e \in Demands : e /= d => heard'[e] = heard[e] /\ plan'[e] = plan[e]
      /\ \A j \in Keys : j /= k => callbacks'[j] = callbacks[j]
  BY DEF Subscribers
<1>4. \A e \in Demands : plan'[e] /= None => heard'[e] = "planned"
  BY <1>3 DEF Subscribers
<1>5. \A j \in Keys : callbacks'[j] /= {} => j \in Lane'
  BY <1>3 DEF Subscribers
<1>6. \A e \in Demands : heard'[e] = "waiting" <=> \E j \in Keys : e \in callbacks'[j]
  <2>1. \A e \in Demands : e /= d => (heard[e] = "waiting" <=> \E j \in Keys : e \in callbacks[j])
    BY DEF Subscribers
  <2>2. \A e \in Demands, j \in Keys : e /= d => (e \in callbacks'[j] <=> e \in callbacks[j])
    BY <1>3
  <2>3. d \in callbacks'[k]
    BY <1>3
  <2> QED
    BY <1>3, <2>1, <2>2, <2>3
<1>7. \A e \in Demands, i, j \in Keys : e \in callbacks'[i] /\ e \in callbacks'[j] => i = j
  BY <1>1, <1>3 DEF Subscribers
<1> QED
  BY <1>2, <1>4, <1>5, <1>6, <1>7 DEF Subscribers

LEMMA Refusing ==
    ASSUME Subscribers, NEW d \in Demands, plan[d] /= None, UNCHANGED callbacks,
           heard' = [heard EXCEPT ![d] = "refused"], plan' = [plan EXCEPT ![d] = None],
           Lane \subseteq Lane'
    PROVE  Subscribers'
<1>1. heard[d] = "planned" /\ \A j \in Keys : d \notin callbacks[j]
  BY DEF Subscribers
<1>2. /\ heard'[d] = "refused" /\ plan'[d] = None /\ DOMAIN heard' = Demands /\ DOMAIN plan' = Demands
      /\ \A e \in Demands : e /= d => heard'[e] = heard[e] /\ plan'[e] = plan[e]
  BY DEF Subscribers
<1> QED
  BY <1>1, <1>2 DEF Subscribers

LEMMA Telling ==
    ASSUME Subscribers, NEW K \in SUBSET Keys, NEW status \in Statuses,
           heard' = Told(UNION {callbacks[k] : k \in K}, status),
           callbacks' = [k \in Keys |-> IF k \in K THEN {} ELSE callbacks[k]],
           UNCHANGED plan, Lane \subseteq Lane' \cup K
    PROVE  Subscribers'
<1> DEFINE told == UNION {callbacks[k] : k \in K}
<1>1. \A d \in Demands : d \in told <=> \E k \in K : d \in callbacks[k]
  OBVIOUS
<1>2. /\ DOMAIN heard' = Demands /\ \A d \in told : d \in Demands => heard'[d] = status
      /\ \A d \in Demands : d \notin told => heard'[d] = heard[d]
  BY DEF Told
<1> HIDE DEF told
<1>3. status /= "waiting"
  BY DEF Statuses, Failures
<1>4. \A d \in Demands : plan'[d] /= None => heard'[d] = "planned"
  <2>1. ASSUME NEW d \in Demands, plan[d] /= None PROVE heard'[d] = "planned"
    <3>1. heard[d] = "planned" /\ \A k \in Keys : d \notin callbacks[k]
      BY <2>1 DEF Subscribers
    <3>2. d \notin told
      BY <1>1, <3>1
    <3> QED
      BY <1>2, <3>1, <3>2
  <2> QED
    BY <2>1
<1>5. callbacks' \in [Keys -> SUBSET Demands] /\ \A k \in Keys : callbacks'[k] /= {} => k \in Lane'
  BY DEF Subscribers
<1>6. ASSUME NEW d \in Demands
      PROVE  heard'[d] = "waiting" <=> \E k \in Keys : d \in callbacks'[k]
  <2>1. CASE d \in told
    <3>1. PICK k \in K : d \in callbacks[k]
      BY <1>1, <2>1
    <3>2. \A j \in Keys : d \in callbacks[j] => j = k
      BY <3>1 DEF Subscribers
    <3>3. \A j \in Keys : d \notin callbacks'[j]
      BY <3>1, <3>2
    <3> QED
      BY <1>2, <1>3, <2>1, <3>3
  <2>2. CASE d \notin told
    <3>1. \A k \in Keys : d \in callbacks'[k] <=> d \in callbacks[k]
      BY <1>1, <2>2
    <3> QED
      BY <1>2, <2>2, <3>1 DEF Subscribers
  <2> QED
    BY <2>1, <2>2
<1>7. \A d \in Demands, j, k \in Keys : d \in callbacks'[j] /\ d \in callbacks'[k] => j = k
  BY DEF Subscribers
<1>8. DOMAIN plan' = Demands
  BY DEF Subscribers
<1> QED
  BY <1>2, <1>4, <1>5, <1>6, <1>7, <1>8 DEF Subscribers

LEMMA Superseding ==
    ASSUME Subscribers, NEW d \in Demands, NEW k \in Keys \ Lane, NEW gone \in Keys \ {k},
           plan[d] /= None, plan' = [plan EXCEPT ![d] = None],
           callbacks' = [callbacks EXCEPT ![gone] = {}, ![k] = {d}],
           heard' = [Told(callbacks[gone], "SUPERSEDED") EXCEPT ![d] = "waiting"],
           Lane \cup {k} \subseteq Lane' \cup {gone}
    PROVE  Subscribers'
<1>1. heard[d] = "planned" /\ callbacks[k] = {} /\ \A j \in Keys : d \notin callbacks[j]
  BY DEF Subscribers
<1>2. /\ callbacks' \in [Keys -> SUBSET Demands] /\ callbacks'[gone] = {} /\ callbacks'[k] = {d}
      /\ \A j \in Keys : j /= k /\ j /= gone => callbacks'[j] = callbacks[j]
  BY DEF Subscribers
<1>3. /\ DOMAIN heard' = Demands /\ heard'[d] = "waiting"
      /\ \A e \in Demands : e /= d /\ e \in callbacks[gone] => heard'[e] = "SUPERSEDED"
      /\ \A e \in Demands : e /= d /\ e \notin callbacks[gone] => heard'[e] = heard[e]
  BY DEF Told
<1>4. /\ DOMAIN plan' = Demands /\ plan'[d] = None
      /\ \A e \in Demands : e /= d => plan'[e] = plan[e]
  BY DEF Subscribers
<1>5. ASSUME NEW e \in Demands, plan'[e] /= None PROVE heard'[e] = "planned"
  <2>1. e /= d /\ heard[e] = "planned" /\ \A j \in Keys : e \notin callbacks[j]
    BY <1>4, <1>5 DEF Subscribers
  <2> QED
    BY <1>3, <2>1
<1>6. \A j \in Keys : callbacks'[j] /= {} => j \in Lane'
  BY <1>2 DEF Subscribers
<1>7. ASSUME NEW e \in Demands
      PROVE  heard'[e] = "waiting" <=> \E j \in Keys : e \in callbacks'[j]
  <2>1. CASE e = d
    BY <1>2, <1>3, <2>1
  <2>2. CASE e /= d /\ e \in callbacks[gone]
    <3>1. \A j \in Keys : e \in callbacks[j] => j = gone
      BY <2>2 DEF Subscribers
    <3>2. \A j \in Keys : e \notin callbacks'[j]
      BY <1>2, <2>2, <3>1
    <3> QED
      BY <1>3, <2>2, <3>2
  <2>3. CASE e /= d /\ e \notin callbacks[gone]
    <3>1. \A j \in Keys : e \in callbacks'[j] <=> e \in callbacks[j]
      BY <1>1, <1>2, <2>3
    <3> QED
      BY <1>3, <2>3, <3>1 DEF Subscribers
  <2> QED
    BY <2>1, <2>2, <2>3
<1>8. \A e \in Demands, i, j \in Keys : e \in callbacks'[i] /\ e \in callbacks'[j] => i = j
  BY <1>1, <1>2 DEF Subscribers
<1> QED
  BY <1>2, <1>3, <1>4, <1>5, <1>6, <1>7, <1>8 DEF Subscribers

LEMMA LaneInKeys ==
    ASSUME RepairInv
    PROVE  PendingKeys \subseteq Keys /\ Lane \subseteq Keys
<1>1. \A i \in DOMAIN pending : pending[i] \in Requests
  BY DEF RepairInv, LaneTyped
<1>2. PendingKeys \subseteq Keys
  BY <1>1 DEF PendingKeys, Requests
<1> QED
  BY <1>2, QueueFacts DEF Lane

\* What each kind of step does to the keys of the lane.
LEMMA LaneKeys ==
    ASSUME RepairInv, [Next]_vars
    PROVE  /\ Still => Lane' = Lane
           /\ \A stage \in Stages : Continuing(stage) => Lane' = Lane
           /\ \A d \in Demands : ScheduleIdle(d) \/ ScheduleQueued(d) =>
                 Lane' = Lane \cup {plan[d].key}
           /\ \A d \in Demands : Enters(d) => Lane' \subseteq Lane \cup {plan[d].key}
<1>1. PendingKeys = KeysIn(pending) /\ PendingKeys' = KeysIn(pending') /\ running' \in Runs \cup {None}
  BY RequestsTyped DEF PendingKeys, KeysIn
<1>2. ASSUME Still PROVE Lane' = Lane
  BY <1>1, <1>2 DEF Still, Lane, RunningKeys
<1>3. ASSUME NEW stage \in Stages, Continuing(stage) PROVE Lane' = Lane
  <2>1. running' = [running EXCEPT !.stage = stage] /\ pending' = pending /\ running \in Runs
        /\ running /= None
    BY <1>3, QueueFacts DEF Continuing, Proceed
  <2>2. running' \in Runs /\ running'.key = running.key
    BY <2>1 DEF Runs
  <2>3. running' /= None
    BY <2>2, NoneIsNoRequest
  <2> QED
    BY <1>1, <2>1, <2>2, <2>3 DEF Lane, RunningKeys
<1>4. ASSUME NEW d \in Demands, ScheduleIdle(d) PROVE Lane' = Lane \cup {plan[d].key}
  <2>1. plan[d] \in Requests /\ running = None /\ running' = Start(plan[d]) /\ pending' = pending
    BY <1>4 DEF ScheduleIdle, Fresh, RepairInv, LaneTyped
  <2> QED
    BY <1>1, <2>1, Starting DEF Lane, RunningKeys
<1>5. ASSUME NEW d \in Demands, ScheduleQueued(d) PROVE Lane' = Lane \cup {plan[d].key}
  <2>1. running' = running /\ KeysIn(pending') = KeysIn(pending) \cup {plan[d].key}
    BY <1>5, QueuedMoves DEF ScheduleQueued
  <2> QED
    BY <1>1, <2>1 DEF Lane, RunningKeys
<1>6. ASSUME NEW d \in Demands, Enters(d) PROVE Lane' \subseteq Lane \cup {plan[d].key}
  <2>1. plan[d] \in Requests
    BY <1>6 DEF Enters, Fresh, RepairInv, LaneTyped
  <2> QED
    BY <1>1, <1>6, <2>1, Starting DEF Enters, Lane, RunningKeys
<1> QED
  BY <1>2, <1>3, <1>4, <1>5, <1>6, Zenon

LEMMA LaneEnds ==
    ASSUME RepairInv, [Next]_vars, NEW status, NEW written, Ends(status, written)
    PROVE  Lane \subseteq Lane' \cup {running.key}
<1>1. PendingKeys = KeysIn(pending) /\ PendingKeys' = KeysIn(pending') /\ RunningKeys = {running.key}
  BY QueueFacts DEF PendingKeys, KeysIn, Ends
<1>2. CASE running' = None /\ KeysIn(pending) = {}
  BY <1>1, <1>2 DEF Lane
<1>3. ASSUME NEW r \in Requests, running' = Start(r),
             KeysIn(pending) \subseteq KeysIn(pending') \cup {r.key}
      PROVE  Lane \subseteq Lane' \cup {running.key}
  BY <1>1, <1>3, Starting DEF Lane, RunningKeys
<1> QED
  BY <1>2, <1>3, EndMoves

LEMMA SubscribersStep ==
    ASSUME RepairInv, [Next]_vars
    PROVE  Subscribers'
<1>1. Subscribers
  BY SubscribersHold
<1>2. ASSUME NEW d \in Demands, NEW k \in Keys, plan[d] /= None, Admit(d, k, callbacks),
             Lane \cup {k} \subseteq Lane'
      PROVE  Subscribers'
  <2>1. CASE Subscribes(callbacks, k)
    BY <1>1, <1>2, <2>1, Subscribing DEF Admit
  <2>2. CASE ~Subscribes(callbacks, k)
    BY <1>1, <1>2, <2>2, Refusing DEF Admit
  <2> QED
    BY <2>1, <2>2
<1>3. ASSUME NEW d \in Demands, plan[d] /= None PROVE plan[d].key \in Keys
  BY <1>3 DEF RepairInv, LaneTyped, Requests
<1>4. ASSUME NEW d \in Demands, ScheduleBlocked(d) \/ ScheduleThrottled(d) \/ ScheduleFull(d)
      PROVE  Subscribers'
  <2>1. Lane' = Lane /\ plan[d] /= None /\ Refuse(d)
    BY <1>4 DEF ScheduleBlocked, ScheduleThrottled, ScheduleFull, Fresh, Refuse, Lane,
                RunningKeys, PendingKeys
  <2> QED
    BY <1>1, <2>1, Refusing DEF Refuse
<1>5. ASSUME NEW d \in Demands, ScheduleRunning(d) PROVE Subscribers'
  <2>1. Lane' = Lane /\ plan[d] /= None /\ plan[d].key \in Lane /\ Admit(d, plan[d].key, callbacks)
    BY <1>5 DEF ScheduleRunning, Lane, RunningKeys, PendingKeys
  <2> QED
    BY <1>2, <1>3, <2>1
<1>6. ASSUME NEW d \in Demands, SchedulePending(d) PROVE Subscribers'
  <2>1. Lane' = Lane
    BY <1>6, PromotionMoves, LaneKeys
  <2>2. plan[d] /= None /\ plan[d].key \in Lane /\ Admit(d, plan[d].key, callbacks)
    BY <1>6 DEF SchedulePending, Lane
  <2> QED
    BY <1>2, <1>3, <2>1, <2>2
<1>7. ASSUME NEW d \in Demands, ScheduleIdle(d) \/ ScheduleQueued(d) PROVE Subscribers'
  <2>1. Lane' = Lane \cup {plan[d].key}
    BY <1>7, LaneKeys
  <2>2. plan[d] /= None /\ Admit(d, plan[d].key, callbacks)
    BY <1>7 DEF ScheduleIdle, ScheduleQueued, Fresh
  <2> QED
    BY <1>2, <1>3, <2>1, <2>2
<1>8. ASSUME NEW d \in Demands, ScheduleEvicting(d) PROVE Subscribers'
  <2>1. PICK gone \in PendingKeys :
                 /\ KeysIn(pending) \cup {plan[d].key} \subseteq KeysIn(pending') \cup {gone}
                 /\ gone \notin KeysIn(pending') /\ gone /= plan[d].key
                 /\ callbacks' = [callbacks EXCEPT ![gone] = {}, ![plan[d].key] = {d}]
                 /\ heard' = [Told(callbacks[gone], "SUPERSEDED") EXCEPT ![d] = "waiting"]
    BY <1>8, EvictionMoves
  <2>2. /\ plan[d] /= None /\ plan[d].key \notin Lane /\ plan' = [plan EXCEPT ![d] = None]
        /\ running' = running
    BY <1>8 DEF ScheduleEvicting, Fresh, Lane
  <2>3. Lane \cup {plan[d].key} \subseteq Lane' \cup {gone}
    BY <2>1, <2>2 DEF Lane, RunningKeys, PendingKeys, KeysIn
  <2> DEFINE k == plan[d].key
  <2>4. gone \in Keys \ {k} /\ k \in Keys \ Lane
    BY <1>3, <2>1, <2>2, LaneInKeys
  <2>5. /\ callbacks' = [callbacks EXCEPT ![gone] = {}, ![k] = {d}]
        /\ Lane \cup {k} \subseteq Lane' \cup {gone}
    BY <2>1, <2>3
  <2> HIDE DEF k
  <2> QED
    BY <1>1, <2>1, <2>2, <2>4, <2>5, Superseding
<1>9. ASSUME NEW d \in Demands, NEW s, NEW n, NEW p, PlanDemand(d, s, n, p) PROVE Subscribers'
  <2>1. heard[d] = "new" /\ heard' = [heard EXCEPT ![d] = "planned"] /\ callbacks' = callbacks
        /\ DOMAIN plan' = DOMAIN plan /\ \A e \in Demands : e /= d => plan'[e] = plan[e]
    BY <1>9 DEF PlanDemand
  <2>2. Lane' = Lane
    BY <1>9 DEF PlanDemand, Lane, RunningKeys, PendingKeys
  <2>3. heard'[d] = "planned" /\ DOMAIN heard' = Demands
        /\ \A e \in Demands : e /= d => heard'[e] = heard[e]
    BY <1>1, <2>1 DEF Subscribers
  <2>4. \A k \in Keys : d \notin callbacks[k]
    BY <1>1, <2>1 DEF Subscribers
  <2> QED
    BY <1>1, <2>1, <2>2, <2>3, <2>4 DEF Subscribers
<1>10. CASE RunStep
  <2>1. ASSUME NEW status \in Statuses, NEW written, Ends(status, written) PROVE Subscribers'
    <3> DEFINE K == {running.key}
    <3>1. running.key \in Keys /\ Lane \subseteq Lane' \cup K
      BY <2>1, QueueFacts, LaneEnds DEF Ends
    <3>2. /\ UNCHANGED plan /\ heard' = Told(callbacks[running.key], status)
          /\ callbacks' = [callbacks EXCEPT ![running.key] = {}]
      BY <2>1 DEF Ends, Finish
    <3>3. callbacks' = [k \in Keys |-> IF k \in K THEN {} ELSE callbacks[k]]
      BY <1>1, <3>2 DEF Subscribers
    <3>4. UNION {callbacks[k] : k \in K} = callbacks[running.key]
      OBVIOUS
    <3> QED
      BY <1>1, <3>1, <3>2, <3>3, <3>4, Telling
  <2>2. ASSUME NEW stage \in Stages, Continuing(stage) PROVE Subscribers'
    <3>1. Lane' = Lane /\ UNCHANGED <<plan, heard, callbacks>>
      BY <2>2, LaneKeys DEF Continuing, Proceed
    <3> QED
      BY <1>1, <3>1 DEF Subscribers
  <2> QED
    BY <1>10, <2>1, <2>2, RunMoves
<1>11. CASE Cancel
  <2>1. Lane \in SUBSET Keys
    BY LaneInKeys
  <2>2. /\ heard' = Told(UNION {callbacks[k] : k \in Lane}, "CANCELLED") /\ UNCHANGED plan
        /\ callbacks' = [k \in Keys |-> IF k \in Lane THEN {} ELSE callbacks[k]]
    BY <1>11, Cancelling DEF Lane
  <2>3. "CANCELLED" \in Statuses
    BY DEF Statuses
  <2> QED
    BY <1>1, <2>1, <2>2, <2>3, Telling
<1>12. CASE \/ \E s \in Scopes : OtherCommit(s)
            \/ \E k \in Keys : BackoffEnds(k)
            \/ UNCHANGED vars
  <2>1. UNCHANGED <<plan, heard, callbacks, running, pending>>
    BY <1>12 DEF OtherCommit, BackoffEnds, vars
  <2> QED
    BY <1>1, <2>1 DEF Subscribers, Lane, RunningKeys, PendingKeys
<1> QED
  BY <1>4, <1>5, <1>6, <1>7, <1>8, <1>9, <1>10, <1>11, <1>12 DEF Next, Schedule, Quiet

-----------------------------------------------------------------------------
(* Generations, unique keys and futile ranges *)

LEMMA Aging ==
    ASSUME RepairInv, [Next]_vars, NEW k \in Keys
    PROVE  /\ k.scope \in Scopes /\ k.generation \in Nat
           /\ gen[k.scope] \in Nat /\ gen'[k.scope] \in Nat /\ gen[k.scope] <= gen'[k.scope]
           /\ k.generation <= gen[k.scope] => k.generation <= gen'[k.scope]
           /\ k.generation < gen[k.scope] => k.generation < gen'[k.scope]
<1>1. k.scope \in Scopes /\ k.generation \in 0..MaxGeneration /\ MaxGeneration \in Nat
  BY HistoryRepairAssumption DEF Keys
<1>2. gen[k.scope] \in 0..MaxGeneration /\ gen'[k.scope] \in 0..MaxGeneration
      /\ gen[k.scope] <= gen'[k.scope]
  BY <1>1, Generations DEF GenerationsGrow, RepairInv, LaneTyped
<1> QED
  BY <1>1, <1>2

LEMMA LaneOf ==
    /\ Lane = RunningKeys \cup PendingKeys /\ PendingKeys = KeysIn(pending)
    /\ running = None => RunningKeys = {}
    /\ running /= None => RunningKeys = {running.key}
BY DEF Lane, RunningKeys, PendingKeys, KeysIn

\* The keys of the lane after a step: those before, the key of a planned request,
\* or the next chunk at the generation just committed.
LEMMA LaneComes ==
    ASSUME RepairInv, [Next]_vars, NEW k \in Lane'
    PROVE  \/ k \in Lane
           \/ \E d \in Demands : Enters(d) /\ k = plan[d].key
           \/ \E status, written : /\ Ends(status, written) /\ k.scope = running.key.scope
                                   /\ k.generation = gen[k.scope] + 1
                                   /\ k.generation = gen'[k.scope]
<1>1. CASE Still \/ \E stage \in Stages : Continuing(stage)
  BY <1>1, LaneKeys
<1>2. ASSUME NEW d \in Demands, Enters(d) PROVE k \in Lane \/ k = plan[d].key
  BY <1>2, LaneKeys
<1>3. ASSUME NEW status, NEW written, Ends(status, written)
      PROVE  \/ k \in Lane
             \/ /\ k.scope = running.key.scope /\ k.generation = gen[k.scope] + 1
                /\ k.generation = gen'[k.scope]
  <2>1. Lane' = RunningKeys' \cup KeysIn(pending') /\ KeysIn(pending) \subseteq Lane
    BY DEF Lane, PendingKeys, KeysIn
  <2>2. CASE k \in KeysIn(pending')
    BY <1>3, <2>1, <2>2, EndMoves
  <2>3. CASE k \in RunningKeys'
    <3>1. running' /= None /\ k = running'.key
      BY <2>3 DEF RunningKeys
    <3> QED
      BY <1>3, <2>1, <3>1, EndMoves, Starting
  <2> QED
    BY <2>1, <2>2, <2>3
<1>4. CASE Cancel
  <2>1. running' = None /\ pending' = <<>>
    BY <1>4, Cancelling
  <2>2. Lane' = {}
    BY <2>1 DEF Lane, RunningKeys, PendingKeys
  <2> QED
    BY <2>2
<1> QED
  BY <1>1, <1>2, <1>3, <1>4, LaneMoves

\* Every step but the end of an attempt leaves the futile ranges, and lets keys out
\* of the back-off only.
LEMMA SetsMove ==
    ASSUME RepairInv, [Next]_vars
    PROVE  \/ futile' = futile /\ throttled' \subseteq throttled
           \/ \E status, written : Ends(status, written)
BY LaneMoves, Cancelling DEF Still, Enters, Continuing, Proceed

LEMMA PlansMove ==
    ASSUME RepairInv, [Next]_vars, NEW e \in Demands, plan'[e] /= None
    PROVE  \/ plan'[e] = plan[e]
           \/ /\ plan'[e].key.chunk = 1
              /\ plan'[e].key.generation = gen[plan'[e].key.scope]
<1>1. DOMAIN plan = Demands
  BY DEF RepairInv, LaneTyped
<1>2. ASSUME NEW d \in Demands, NEW s, NEW n, NEW p, PlanDemand(d, s, n, p)
      PROVE  \/ plan'[e] = plan[e]
             \/ /\ plan'[e].key.chunk = 1
                /\ plan'[e].key.generation = gen[plan'[e].key.scope]
  BY <1>1, <1>2 DEF PlanDemand
<1>3. ASSUME NEW d \in Demands, Schedule(d)
      PROVE  plan'[e] = plan[e]
  <2>1. plan' = [plan EXCEPT ![d] = None]
    BY <1>3 DEF Schedule, ScheduleBlocked, ScheduleRunning, SchedulePending, ScheduleThrottled,
                ScheduleIdle, ScheduleQueued, ScheduleEvicting, ScheduleFull, Refuse, Admit
  <2> QED
    BY <1>1, <2>1
<1>4. RunStep \/ Cancel => UNCHANGED plan
  BY Cancelling DEF RunStep, LookUp, Fetch, Recheck, CommitNothing, CommitMutation, Finish, Proceed
<1> QED
  BY <1>2, <1>3, <1>4 DEF Next, OtherCommit, BackoffEnds, Quiet, vars

LEMMA FutureStep ==
    ASSUME RepairInv, [Next]_vars
    PROVE  NoneFromFuture'
<1>1. /\ Lane \subseteq Keys /\ throttled \subseteq Keys /\ futile \subseteq Keys
      /\ \A k \in Lane \cup throttled \cup futile : k.generation <= gen[k.scope]
  BY LaneInKeys DEF RepairInv, LaneTyped, NoneFromFuture, Lane
<1>2. ASSUME NEW d \in Demands, plan[d] /= None
      PROVE  plan[d].key \in Keys /\ plan[d].key.generation <= gen[plan[d].key.scope]
  BY <1>2 DEF RepairInv, LaneTyped, NoneFromFuture, Requests
<1>3. ASSUME NEW k \in Lane' PROVE k.generation <= gen'[k.scope]
  <2>1. CASE k \in Lane
    BY <1>1, <2>1, Aging
  <2>2. ASSUME NEW d \in Demands, Enters(d), k = plan[d].key PROVE k.generation <= gen'[k.scope]
    BY <1>2, <2>2, Aging DEF Enters, Fresh
  <2>3. CASE \E status, written : Ends(status, written) /\ k.generation = gen'[k.scope]
    <3>1. Lane' \subseteq Keys
      <4>1. \A i \in DOMAIN pending' : pending'[i] \in Requests
        BY RequestsTyped
      <4>2. running' /= None => running'.key \in Keys
        BY RequestsTyped DEF Runs
      <4> QED
        BY <4>1, <4>2 DEF Lane, RunningKeys, PendingKeys, Requests
    <3>2. gen'[k.scope] \in Nat
      BY <3>1, Aging
    <3> QED
      BY <2>3, <3>2
  <2> QED
    BY <2>1, <2>2, <2>3, LaneComes
<1>4. ASSUME NEW k \in throttled' \cup futile' PROVE k.generation <= gen'[k.scope]
  <2>1. CASE k \in throttled \cup futile
    BY <1>1, <2>1, Aging
  <2>2. CASE k \notin throttled \cup futile
    <3>1. PICK status, written : Ends(status, written)
      BY <1>4, <2>2, SetsMove
    <3>2. k = running.key /\ running /= None
      BY <1>4, <2>2, <3>1 DEF Ends, Finish
    <3>3. k \in Lane
      BY <3>2, LaneOf
    <3> QED
      BY <1>1, <3>3, Aging
  <2> QED
    BY <2>1, <2>2
<1>5. ASSUME NEW d \in Demands, plan'[d] /= None
      PROVE  plan'[d].key.generation <= gen'[plan'[d].key.scope]
  <2>1. plan'[d].key \in Keys
    BY <1>5, RequestsTyped DEF Requests
  <2>2. CASE plan'[d] = plan[d]
    BY <1>2, <1>5, <2>1, <2>2, Aging
  <2>3. CASE plan'[d].key.generation = gen[plan'[d].key.scope]
    BY <2>1, <2>3, Aging
  <2> QED
    BY <1>5, <2>2, <2>3, PlansMove
<1> QED
  BY <1>3, <1>4, <1>5 DEF NoneFromFuture, Lane

LEMMA UniqueStep ==
    ASSUME RepairInv, [Next]_vars
    PROVE  KeysUnique'
<1> DEFINE Fits == /\ Distinct(pending') /\ RunningKeys' \cap KeysIn(pending') = {}
                   /\ \A k \in KeysIn(pending') : k.chunk = 1
<1>1. /\ Distinct(pending) /\ RunningKeys \cap KeysIn(pending) = {} /\ PendingKeys = KeysIn(pending)
      /\ \A k \in KeysIn(pending) : k.chunk = 1
      /\ \A d \in Demands : plan[d] /= None => plan[d].key.chunk = 1
  BY QueueFacts DEF RepairInv, KeysUnique
<1>2. ASSUME Still PROVE Fits
  <2>1. RunningKeys' = RunningKeys
    BY <1>2 DEF Still, RunningKeys
  <2> QED
    BY <1>1, <1>2, <2>1 DEF Still
<1>3. ASSUME NEW d \in Demands, Enters(d) PROVE Fits
  <2>1. plan[d] \in Requests /\ plan[d].key \notin KeysIn(pending) \cup RunningKeys
        /\ plan[d].key.chunk = 1
    BY <1>1, <1>3 DEF Enters, Fresh, RepairInv, LaneTyped
  <2>2. ASSUME running' = Start(plan[d]), pending' = pending PROVE Fits
    <3>1. RunningKeys' = {plan[d].key}
      BY <2>1, <2>2, Starting DEF RunningKeys
    <3> QED
      BY <1>1, <2>1, <2>2, <3>1
  <2>3. ASSUME running' = running, Distinct(pending'),
               KeysIn(pending') \subseteq KeysIn(pending) \cup {plan[d].key}
        PROVE  Fits
    <3>1. RunningKeys' = RunningKeys
      BY <2>3 DEF RunningKeys
    <3> QED
      BY <1>1, <2>1, <2>3, <3>1
  <2> QED
    BY <1>3, <2>2, <2>3 DEF Enters
<1>4. ASSUME NEW stage \in Stages, Continuing(stage) PROVE Fits
  <2>1. running' = [running EXCEPT !.stage = stage] /\ pending' = pending /\ running \in Runs
        /\ RunningKeys = {running.key}
    BY <1>4, QueueFacts DEF Continuing, Proceed
  <2>2. running'.key = running.key
    BY <2>1 DEF Runs
  <2>3. RunningKeys' \subseteq RunningKeys
    BY <2>1, <2>2 DEF RunningKeys
  <2> QED
    BY <1>1, <2>1, <2>3
<1>5. ASSUME NEW status, NEW written, Ends(status, written) PROVE Fits
  <2>1. Distinct(pending') /\ KeysIn(pending') \subseteq KeysIn(pending)
    BY <1>5, EndMoves
  <2>2. ASSUME running' = None PROVE Fits
    <3>1. RunningKeys' = {}
      BY <2>2 DEF RunningKeys
    <3> QED
      BY <1>1, <2>1, <3>1
  <2>3. ASSUME NEW r \in Requests, running' = Start(r), r.key \notin KeysIn(pending') PROVE Fits
    <3>1. RunningKeys' = {r.key}
      BY <2>3, Starting DEF RunningKeys
    <3> QED
      BY <1>1, <2>1, <2>3, <3>1
  <2> QED
    BY <1>5, <2>2, <2>3, EndMoves
<1>6. ASSUME Cancel PROVE Fits
  BY <1>6, Cancelling DEF Distinct, KeysIn
<1>7. Fits
  BY <1>2, <1>3, <1>4, <1>5, <1>6, LaneMoves
<1>8. \A d \in Demands : plan'[d] /= None => plan'[d].key.chunk = 1
  BY <1>1, PlansMove
<1> QED
  BY <1>7, <1>8 DEF KeysUnique, Distinct, PendingKeys, KeysIn

\* The request that ends leaves the lane.
LEMMA EndsLeaves ==
    ASSUME RepairInv, [Next]_vars, NEW status, NEW written, Ends(status, written)
    PROVE  running.key \in Keys /\ running.key \in Lane /\ running.key \notin Lane'
<1> DEFINE k == running.key
<1>1. k \in Keys /\ k \in Lane /\ k \notin KeysIn(pending) /\ running /= None
  BY QueueFacts, LaneOf DEF Ends
<1>2. k.generation <= gen[k.scope] /\ k.generation \in Nat /\ gen[k.scope] \in Nat
  BY <1>1, Aging DEF RepairInv, NoneFromFuture, Lane
<1>3. KeysIn(pending') \subseteq KeysIn(pending) /\ PendingKeys' = KeysIn(pending')
  BY EndMoves DEF PendingKeys, KeysIn
<1>4. RunningKeys' \subseteq {running'.key} /\ (running' = None => RunningKeys' = {})
  BY DEF RunningKeys
<1>5. ASSUME NEW r \in Requests, running' = Start(r),
             r.key \in KeysIn(pending) \/ r.key.generation = gen[k.scope] + 1
      PROVE  k \notin RunningKeys'
  <2>1. r.key /= k
    BY <1>1, <1>2, <1>5
  <2>2. running'.key = r.key
    BY <1>5, Starting
  <2> QED
    BY <1>4, <2>1, <2>2
<1>6. k \notin RunningKeys'
  BY <1>4, <1>5, EndMoves
<1> QED
  BY <1>1, <1>3, <1>6 DEF Lane

LEMMA FreshStep ==
    ASSUME RepairInv, [Next]_vars
    PROVE  FetchFresh'
<1>1. CASE Still
  BY <1>1 DEF Still, RepairInv, FetchFresh
<1>2. ASSUME NEW d \in Demands, Enters(d) PROVE FetchFresh'
  <2>1. plan[d] \in Requests
    BY <1>2 DEF Enters, Fresh, RepairInv, LaneTyped
  <2> QED
    BY <1>2, <2>1, Starting DEF Enters, RepairInv, FetchFresh
<1>3. ASSUME NEW stage \in Stages, Continuing(stage) PROVE FetchFresh'
  <2>1. running' = [running EXCEPT !.stage = stage] /\ futile' = futile /\ running \in Runs
        /\ running /= None /\ running.key \in RunningKeys /\ running.key \in Keys
    BY <1>3, QueueFacts DEF Continuing, Proceed
  <2>2. running'.key = running.key
    BY <2>1 DEF Runs
  <2>3. running.key \notin futile
        /\ \A k \in futile : k.scope = running.key.scope => k.generation <= running.key.generation
    <3>1. CASE running.stage = "lookup"
      <4>1. gen[running.key.scope] = running.key.generation
        BY <1>3, <3>1 DEF Continuing, Current
      <4>2. running.key \notin futile
        <5>1. running.key.generation \in Nat
          BY <2>1, Aging
        <5> QED
          BY <2>1, <4>1, <5>1 DEF RepairInv, FutileBlocked, Outdated
      <4> QED
        BY <4>1, <4>2 DEF RepairInv, NoneFromFuture
    <3>2. CASE running.stage /= "lookup"
      BY <2>1, <3>2 DEF RepairInv, FetchFresh
    <3> QED
      BY <3>1, <3>2
  <2> QED
    BY <2>1, <2>2, <2>3 DEF FetchFresh
<1>4. ASSUME NEW status, NEW written, Ends(status, written) PROVE FetchFresh'
  <2>1. running' = None \/ running'.stage = "lookup"
    BY <1>4, EndMoves, Starting
  <2> QED
    BY <2>1 DEF FetchFresh
<1>5. CASE Cancel
  BY <1>5, Cancelling DEF FetchFresh
<1> QED
  BY <1>1, <1>2, <1>3, <1>4, <1>5, LaneMoves

LEMMA ThrottledStep ==
    ASSUME RepairInv, [Next]_vars
    PROVE  NoneThrottled'
<1>1. ASSUME NEW k \in Lane', k \in throttled PROVE FALSE
  <2>1. k \in Keys /\ k.generation <= gen[k.scope]
    BY <1>1 DEF RepairInv, LaneTyped, NoneFromFuture
  <2>2. k.generation /= gen[k.scope] + 1
    BY <2>1, Aging
  <2>3. k \notin Lane
    BY <1>1 DEF RepairInv, NoneThrottled, Lane
  <2>4. \A d \in Demands : Enters(d) => k /= plan[d].key
    BY <1>1 DEF Enters
  <2> QED
    BY <2>2, <2>3, <2>4, LaneComes
<1>2. ASSUME NEW k \in Lane', k \in throttled', k \notin throttled PROVE FALSE
  <2>1. PICK status, written : Ends(status, written)
    BY <1>2, SetsMove
  <2>2. k = running.key
    BY <1>2, <2>1 DEF Ends, Finish
  <2> QED
    BY <2>1, <2>2, EndsLeaves
<1> QED
  BY <1>1, <1>2 DEF NoneThrottled, Lane

LEMMA BlockedStep ==
    ASSUME RepairInv, [Next]_vars
    PROVE  FutileBlocked'
<1>1. /\ futile \subseteq Keys /\ awaiting \subseteq Keys /\ Lane \subseteq Keys
      /\ \A k \in futile : k \in awaiting \/ Outdated(k)
      /\ \A k \in Lane \cap futile : Outdated(k)
      /\ \A k \in futile \cup Lane : k.generation <= gen[k.scope]
      /\ \A d \in Demands : plan[d] /= None =>
             plan[d].key \in Keys /\ plan[d].key.generation <= gen[plan[d].key.scope]
  BY LaneInKeys DEF RepairInv, LaneTyped, FutileBlocked, NoneFromFuture, Lane, Requests
<1>2. ASSUME NEW k \in Keys, Outdated(k) PROVE Outdated(k)'
  BY <1>2, Aging DEF Outdated
<1>3. ASSUME NEW k \in futile, k \in awaiting PROVE k \in awaiting' \/ Outdated(k)'
  <2>1. ASSUME NEW d \in Demands, plan[d] /= None, awaiting' = Unblocked(plan[d].key)
        PROVE  k \in awaiting' \/ Outdated(k)'
    <3> DEFINE p == plan[d].key
    <3>1. CASE k.scope = p.scope /\ k.generation < p.generation
      <4>1. p \in Keys /\ p.generation <= gen[p.scope]
        BY <1>1, <2>1
      <4>2. p.generation \in Nat /\ k.generation \in Nat /\ gen[k.scope] \in Nat
        BY <1>1, <4>1, Aging
      <4>3. Outdated(k)
        BY <3>1, <4>1, <4>2 DEF Outdated
      <4> QED
        BY <1>1, <1>2, <4>3
    <3>2. CASE ~(k.scope = p.scope /\ k.generation < p.generation)
      BY <1>3, <2>1, <3>2 DEF Unblocked
    <3> QED
      BY <3>1, <3>2
  <2>2. ASSUME NEW status, NEW written, Ends(status, written)
        PROVE  k \in awaiting' \/ Outdated(k)'
    <3> DEFINE r == running.key
    <3>1. CASE ~NoProgress(status, written)
      BY <1>3, <2>2, <3>1 DEF Ends, Finish
    <3>2. CASE NoProgress(status, written) /\ Cursor(k) /= Cursor(r)
      BY <1>3, <2>2, <3>2 DEF Ends, Finish, Cursor
    <3>3. CASE NoProgress(status, written) /\ Cursor(k) = Cursor(r)
      <4>1. running /= None /\ running.stage /= "lookup" /\ r \in Keys /\ r \in Lane
        BY <2>2, <3>3, EndsLeaves DEF Ends
      <4>2. k.scope = r.scope /\ k.target = r.target /\ k.chunk = r.chunk
        BY <3>3 DEF Cursor
      <4>3. r \notin futile /\ k.generation <= r.generation
        BY <4>1, <4>2 DEF RepairInv, FetchFresh
      <4>4. k.generation /= r.generation
        BY <1>1, <1>3, <4>1, <4>2, <4>3 DEF Keys
      <4>5. k.generation \in Nat /\ r.generation \in Nat /\ gen[k.scope] \in Nat
            /\ r.generation <= gen[r.scope]
        BY <1>1, <4>1, Aging
      <4>6. Outdated(k)
        BY <4>2, <4>3, <4>4, <4>5 DEF Outdated
      <4> QED
        BY <1>1, <1>2, <4>6
    <3> QED
      BY <3>1, <3>2, <3>3
  <2>3. CASE awaiting' = awaiting
    BY <1>3, <2>3
  <2> QED
    BY <2>1, <2>2, <2>3, LaneMoves, Cancelling DEF Still, Enters, Fresh, Continuing, Proceed
<1>4. ASSUME NEW k \in futile', k \notin futile
      PROVE  k \in awaiting' /\ k \notin Lane'
  <2>1. PICK status, written : Ends(status, written)
    BY <1>4, SetsMove
  <2>2. k = running.key /\ k \in awaiting'
    BY <1>4, <2>1 DEF Ends, Finish
  <2> QED
    BY <2>1, <2>2, EndsLeaves
<1>5. ASSUME NEW k \in Lane', k \in futile PROVE Outdated(k)
  <2>1. CASE k \in Lane
    BY <1>1, <1>5, <2>1
  <2>2. ASSUME NEW d \in Demands, Enters(d), k = plan[d].key PROVE Outdated(k)
    <3>1. ~Blocked(k) /\ k.generation \in Nat
      BY <1>1, <1>5, <2>2, Aging DEF Enters, Fresh
    <3>2. ASSUME k \in awaiting PROVE FALSE
      <4>1. k \in Unblocked(k)
        BY <3>1, <3>2 DEF Unblocked
      <4> QED
        BY <3>1, <4>1 DEF Blocked, Cursor
    <3> QED
      BY <1>1, <1>5, <3>2
  <2>3. CASE k.generation = gen[k.scope] + 1
    BY <1>1, <1>5, <2>3, Aging
  <2> QED
    BY <2>1, <2>2, <2>3, LaneComes
<1>6. \A k \in futile' : k \in awaiting' \/ Outdated(k)'
  BY <1>1, <1>2, <1>3, <1>4
<1>7. \A k \in Lane' \cap futile' : Outdated(k)'
  BY <1>1, <1>2, <1>4, <1>5
<1> QED
  BY <1>6, <1>7 DEF FutileBlocked, Outdated, Lane

-----------------------------------------------------------------------------
(* The invariant and what follows from it *)

LEMMA RepairInit == Init => RepairInv
<1> SUFFICES ASSUME Init PROVE RepairInv
  OBVIOUS
<1>1. LaneTyped
  BY HistoryRepairAssumption DEF Init, LaneTyped
<1>2. RunningKeys = {} /\ PendingKeys = {}
  BY DEF Init, RunningKeys, PendingKeys
<1> QED
  BY <1>1, <1>2 DEF Init, RepairInv, PlansUntold, SubscribersKept, NoOrphanSubscriber,
       NoneFromFuture, KeysUnique, FutileBlocked, FetchFresh, NoneThrottled

LEMMA RepairStep == RepairInv /\ [Next]_vars => RepairInv'
<1> SUFFICES ASSUME RepairInv, [Next]_vars PROVE RepairInv'
  OBVIOUS
<1>1. Subscribers'
  BY SubscribersStep
<1>2. LaneTyped' /\ PlansUntold'
  BY <1>1, RequestsTyped DEF LaneTyped, PlansUntold, Subscribers
<1>3. SubscribersKept'
  <2>1. NoOrphanSubscriber'
    BY <1>1 DEF Subscribers, NoOrphanSubscriber, Lane
  <2>2. \A j, k \in Keys : callbacks'[j] \cap callbacks'[k] /= {} => j = k
    <3>1. ASSUME NEW j \in Keys, NEW k \in Keys, NEW d \in callbacks'[j] \cap callbacks'[k]
          PROVE  j = k
      BY <1>1, <3>1 DEF Subscribers
    <3> QED
      BY <3>1
  <2> QED
    BY <2>1, <2>2 DEF SubscribersKept
<1> QED
  BY <1>2, <1>3, FutureStep, UniqueStep, BlockedStep, FreshStep, ThrottledStep DEF RepairInv

LEMMA RepairInvariant == Spec => []RepairInv
BY RepairInit, RepairStep, PTL DEF Spec

\* Every subscriber is attached to a request that runs or is queued, and waits on
\* one key only, through promotions, evictions, continuations and cancellations.
THEOREM NoOrphanSubscriberTheorem == Spec => []NoOrphanSubscriber
<1>1. RepairInv => NoOrphanSubscriber
  BY DEF RepairInv, SubscribersKept
<1> QED
  BY <1>1, RepairInvariant, PTL

\* The provider is not asked for a range that failed at this generation, nor for one
\* whose failure is still backed off.
THEOREM NoFutileFetchTheorem == Spec => []NoFutileFetch
<1>1. ASSUME RepairInv PROVE NoFutileFetch
  <2>1. ASSUME AtStage("fetch") PROVE running.key \notin futile \cup throttled
    <3>1. running /= None /\ running.stage = "fetch"
      BY <2>1 DEF AtStage
    <3>2. running.key \notin futile
      BY <1>1, <3>1 DEF RepairInv, FetchFresh
    <3>3. running.key \notin throttled
      BY <1>1, <3>1 DEF RepairInv, NoneThrottled, RunningKeys
    <3> QED
      BY <3>2, <3>3
  <2> QED
    BY <2>1 DEF NoFutileFetch
<1> QED
  BY <1>1, RepairInvariant, PTL
=============================================================================
