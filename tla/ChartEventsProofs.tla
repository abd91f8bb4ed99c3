------------------------- MODULE ChartEventsProofs -------------------------
(* Proofs about the generation registry, for any number of scopes, writers, *)
(* readers, publishers and waiters.  What a captured generation is worth is *)
(* proved for registries that need not forget generations (KeysFit), what   *)
(* waiters are told for all.  The chart stream, which handles the events of *)
(* the registry, and the repairs of its history, which work under its       *)
(* generations, are proved about at the end.                                *)
EXTENDS ChartEvents, ChartStream, HistoryCoverage, FiniteSetTheorems,
        WellFoundedInduction, TLAPS

-----------------------------------------------------------------------------
(* The inductive invariant.                                                 *)

Unsettled(k) == writing[k] # None /\ wpc[writing[k]] \in {"mutated", "uncertain"}
Published(k) == writing[k] # None /\ wpc[writing[k]] = "published"

(* A scope checked at generation g: if g is still current, no writer has    *)
(* published it and kept its guard.                                         *)
Checked(k, g) == g <= generations[k] /\ (g = generations[k] => ~Published(k))

(* Bars v read under generation g are the stored ones while g is current,   *)
(* unless the active writer is bound to advance the generation.             *)
Snapshot(k, g, v) ==
  /\ Checked(k, g)
  /\ g = generations[k] => v = db[k] \/ Unsettled(k)

GuardInv ==
  /\ GuardOwnsGeneration
  /\ \A k \in Keys : writing[k] # None =>
        wkey[writing[k]] = k /\ wpc[writing[k]] \in Guarding
  /\ \A w \in Writers : wpc[w] \in Guarding \ {"published"} =>
        generations[wkey[w]] < MaxVersions
  /\ \A w \in Writers : wpc[w] = "guarded" => db[wkey[w]] < MaxVersions

ReadInv ==
  \A r \in Readers : /\ rpc[r] = "checked" => Checked(rkey[r], rexp[r])
                     /\ rpc[r] = "read" => Snapshot(rkey[r], rexp[r], rval[r])

CacheInv == \A k \in Keys : Snapshot(k, cache[k].gen, cache[k].val)

PublicationInv ==
  \A q \in Publishers : \A k \in Scopes(q) :
    /\ Snapshot(k, qgen[q][k], qval[q][k])
    /\ qpc[q] = "effect" => q \in publishing[k] /\ Stable(k, qgen[q][k])

EventsInv == /\ TypeOK
             /\ GuardInv
             /\ ReadInv
             /\ CacheInv
             /\ PublicationInv

-----------------------------------------------------------------------------
(* Recording an update: with room for every scope, only k's generation      *)
(* changes, by one.                                                         *)
LEMMA AdvanceEffect ==
  ASSUME KeysFit, TypeOK, NEW k \in Keys, generations[k] < MaxVersions, Advance(k)
  PROVE  /\ generations' = [generations EXCEPT ![k] = generations[k] + 1]
         /\ events' \in [Keys -> Seq(Version)]
         /\ uwoken' \in [Watchers -> BOOLEAN]
<1> DEFINE g == generations[k] + 1
           gens == [generations EXCEPT ![k] = g]
           queues == [events EXCEPT ![k] = LastEvents(Append(@, g))]
           present == {j \in Keys : gens[j] # 0}
<1>1. g \in Version
  BY ChartEventsAssumption DEF TypeOK, Version
<1>2. queues \in [Keys -> Seq(Version)]
  <2>1. Append(events[k], g) \in Seq(Version)
    BY <1>1 DEF TypeOK
  <2>2. LastEvents(Append(events[k], g)) \in Seq(Version)
    <3> DEFINE q == Append(events[k], g)
    <3>1. q \in Seq(Version) /\ Len(q) \in Nat /\ MaxEvents \in Nat
      BY <2>1, ChartEventsAssumption
    <3>2. CASE Len(q) > MaxEvents
      <4>1. \A i \in Len(q) - MaxEvents + 1 .. Len(q) : q[i] \in Version
        BY <3>1, <3>2
      <4>2. SubSeq(q, Len(q) - MaxEvents + 1, Len(q)) \in Seq(Version)
        BY <3>1, <3>2, <4>1
      <4> QED
        BY <3>2, <4>2 DEF LastEvents
    <3>3. CASE ~(Len(q) > MaxEvents)
      BY <3>1, <3>3 DEF LastEvents
    <3> QED
      BY <3>2, <3>3
  <2> QED
    BY <2>2 DEF TypeOK
<1>3. events' \in [Keys -> Seq(Version)]
  <2>1. events' = queues \/ \E j \in Keys : events' = [queues EXCEPT ![j] = <<>>]
    BY DEF Advance, DropOne, NextGeneration
  <2>2. <<>> \in Seq(Version)
    OBVIOUS
  <2> HIDE DEF queues
  <2> QED
    BY <1>2, <2>1, <2>2
<1>4. Cardinality(present) <= MaxGenerationKeys
  <2>1. Cardinality(present) <= Cardinality(Keys) /\ Cardinality(present) \in Nat
    BY FS_Subset, FS_CardinalityType DEF KeysFit
  <2> QED
    BY <2>1, FS_CardinalityType, ChartEventsAssumption DEF KeysFit
<1>5. generations' = gens
  <2>1. Cardinality(present) \in Nat
    BY FS_Subset, FS_CardinalityType DEF KeysFit
  <2>2. ~(Cardinality(present) > MaxGenerationKeys)
    BY <1>4, <2>1, ChartEventsAssumption
  <2>3. \A stale : DropOne(gens, Cardinality(present), MaxGenerationKeys, stale, 0) = {gens}
    BY <2>2 DEF DropOne
  <2> QED
    BY <2>3 DEF Advance, NextGeneration
<1>6. uwoken' \in [Watchers -> BOOLEAN]
  BY DEF Advance, TypeOK
<1> QED
  BY <1>3, <1>5, <1>6

-----------------------------------------------------------------------------
(* The parts of the next-state relation.                                    *)

WriterNext(w) == WriterStep(w) \/ \E k \in Keys : CaptureForWrite(w, k)
ReaderNext(r) == \/ \E k \in Keys : CaptureForRead(r, k)
                 \/ CheckBeforeRead(r) \/ ReadBars(r)
                 \/ ServeRead(r) \/ RejectRead(r)
PublisherNext(q) == \/ \E k \in Keys : Collect(q, k)
                    \/ BeginPublication(q) \/ EndPublication(q)
WatcherNext(u) == WaitUpdate(u) \/ ReturnUpdate(u) \/ TimeoutUpdate(u)
StableNext(s) == \/ \E k \in Keys : WaitStable(s, k)
                 \/ WakeStable(s) \/ TimeoutStable(s)

LEMMA NextParts ==
  ASSUME [Next]_vars
  PROVE  \/ \E w \in Writers : WriterNext(w)
         \/ \E r \in Readers : ReaderNext(r)
         \/ \E q \in Publishers : PublisherNext(q)
         \/ \E u \in Watchers : WatcherNext(u)
         \/ \E s \in StableWaiters : StableNext(s)
         \/ UNCHANGED vars
BY DEF Next, WriterNext, ReaderNext, PublisherNext, WatcherNext, StableNext

(* Readers leave the registry, the store and the writers alone ...          *)
LEMMA ReaderFrame ==
  ASSUME NEW r \in Readers, ReaderNext(r)
  PROVE  UNCHANGED <<db, registry, writers, pubs, watchers, uwoken, spc, skey, swoken>>
BY DEF ReaderNext, CaptureForRead, CheckBeforeRead, ReadBars, ServeRead, RejectRead

(* ... publishers change nothing but their guards and themselves ...        *)
LEMMA PublisherFrame ==
  ASSUME NEW q \in Publishers, PublisherNext(q)
  PROVE  UNCHANGED <<db, generations, events, writing, writers, readers, cache,
                     watchers, uwoken, spc, skey, swoken>>
BY DEF PublisherNext, Collect, BeginPublication, EndPublication, registry

(* ... waiters change nothing but themselves ...                            *)
LEMMA WatcherFrame ==
  ASSUME NEW u \in Watchers, WatcherNext(u)
  PROVE  UNCHANGED <<db, registry, writers, readers, cache, pubs, ukey, spc, skey, swoken>>
BY DEF WatcherNext, WaitUpdate, ReturnUpdate, TimeoutUpdate

LEMMA StableFrame ==
  ASSUME NEW s \in StableWaiters, StableNext(s)
  PROVE  UNCHANGED <<db, registry, writers, readers, cache, pubs, watchers, uwoken>>
BY DEF StableNext, WaitStable, WakeStable, TimeoutStable

(* ... and writers change the registry, the store and themselves.           *)
LEMMA WriterFrame ==
  ASSUME NEW w \in Writers, WriterNext(w)
  PROVE  UNCHANGED <<publishing, readers, cache, pubs, watchers, spc, skey>>
BY DEF WriterNext, WriterStep, CaptureForWrite, BeginWrite, WriteConflict, Store,
       PublishWrite, EndWrite, InvalidateWrite, registry

-----------------------------------------------------------------------------
(* What a writer does to the store, the generations and the guards.         *)
Outside(w) ==
  /\ wpc[w] \notin Guarding /\ wpc'[w] \notin Guarding
  /\ UNCHANGED <<db, generations, writing>>
Enters(w) ==
  /\ MayBegin(w) /\ wpc[w] = "captured" /\ wpc'[w] = "guarded"
  /\ generations[wkey[w]] < MaxVersions /\ db[wkey[w]] < MaxVersions
  /\ writing' = [writing EXCEPT ![wkey[w]] = w]
  /\ UNCHANGED <<db, generations, wkey, wexp>>
Changes(w) ==
  /\ wpc[w] = "guarded" /\ wpc'[w] \in {"mutated", "uncertain"}
  /\ db' = [db EXCEPT ![wkey[w]] = db[wkey[w]] + 1]
  /\ UNCHANGED <<generations, writing, wkey, wexp>>
Keeps(w) ==
  /\ wpc[w] = "guarded" /\ wpc'[w] \in {"unchanged", "uncertain"}
  /\ UNCHANGED <<db, generations, writing, wkey, wexp>>
Publishes(w) ==
  /\ wpc[w] = "mutated" /\ wpc'[w] = "published"
  /\ generations' = [generations EXCEPT ![wkey[w]] = generations[wkey[w]] + 1]
  /\ UNCHANGED <<db, writing, wkey, wexp>>
Leaves(w) ==
  /\ wpc[w] \in {"unchanged", "published"} /\ wpc'[w] = "idle"
  /\ writing' = [writing EXCEPT ![wkey[w]] = None]
  /\ UNCHANGED <<db, generations, wkey, wexp>>
Invalidates(w) ==
  /\ wpc[w] \in {"mutated", "unchanged", "uncertain"} /\ wpc'[w] = "idle"
  /\ generations' = [generations EXCEPT ![wkey[w]] = generations[wkey[w]] + 1]
  /\ writing' = [writing EXCEPT ![wkey[w]] = None]
  /\ UNCHANGED <<db, wkey, wexp>>

LEMMA WriterEffect ==
  ASSUME KeysFit, TypeOK, GuardInv, NEW w \in Writers, WriterNext(w)
  PROVE  \/ Outside(w) \/ Enters(w) \/ Changes(w) \/ Keeps(w)
         \/ Publishes(w) \/ Leaves(w) \/ Invalidates(w)
<1> USE DEF TypeOK, registry, WriterGoto, Guarding, Outside, Enters, Changes, Keeps,
            Publishes, Leaves, Invalidates
<1>1. CASE \E k \in Keys : CaptureForWrite(w, k)
  BY <1>1 DEF CaptureForWrite
<1>2. CASE BeginWrite(w)
  BY <1>2 DEF BeginWrite
<1>3. CASE WriteConflict(w)
  BY <1>3 DEF WriteConflict
<1>4. CASE Store(w)
  BY <1>4 DEF Store
<1>5. CASE PublishWrite(w)
  <2>1. wkey[w] \in Keys /\ generations[wkey[w]] < MaxVersions /\ Advance(wkey[w])
    BY <1>5 DEF PublishWrite, GuardInv
  <2>2. generations' = [generations EXCEPT ![wkey[w]] = generations[wkey[w]] + 1]
    BY <2>1, AdvanceEffect
  <2> QED
    BY <1>5, <2>2 DEF PublishWrite
<1>6. CASE EndWrite(w)
  BY <1>6 DEF EndWrite, ReleaseWrite
<1>7. CASE InvalidateWrite(w)
  <2>1. CASE wpc[w] = "published"
    <3>1. generations[wkey[w]] # wexp[w]
      BY <2>1 DEF GuardInv, GuardOwnsGeneration, Version
    <3> QED
      BY <1>7, <2>1, <3>1 DEF InvalidateWrite, ReleaseWrite
  <2>2. CASE wpc[w] # "published"
    <3>1. wpc[w] \in {"mutated", "unchanged", "uncertain"}
      BY <1>7, <2>2 DEF InvalidateWrite
    <3>2. generations[wkey[w]] = wexp[w] /\ generations[wkey[w]] < MaxVersions
      BY <3>1 DEF GuardInv, GuardOwnsGeneration, Version
    <3>3. Advance(wkey[w]) /\ wkey[w] \in Keys
      BY <1>7, <3>2 DEF InvalidateWrite
    <3>4. generations' = [generations EXCEPT ![wkey[w]] = generations[wkey[w]] + 1]
      BY <3>2, <3>3, AdvanceEffect
    <3> QED
      BY <1>7, <3>1, <3>4 DEF InvalidateWrite, ReleaseWrite
  <2> QED
    BY <2>1, <2>2
<1> QED
  BY <1>1, <1>2, <1>3, <1>4, <1>5, <1>6, <1>7 DEF WriterNext, WriterStep

(* Only w moves.                                                            *)
LEMMA WriterMoves ==
  ASSUME TypeOK, NEW w \in Writers, WriterNext(w)
  PROVE  \A v \in Writers \ {w} : /\ wpc'[v] = wpc[v]
                                  /\ wkey'[v] = wkey[v]
                                  /\ wexp'[v] = wexp[v]
BY DEF TypeOK, WriterNext, WriterStep, CaptureForWrite, BeginWrite, WriteConflict, Store,
       PublishWrite, EndWrite, InvalidateWrite, WriterGoto

-----------------------------------------------------------------------------
(* Type correctness.                                                        *)
LEMMA EventsTypeStep ==
  ASSUME KeysFit, TypeOK, GuardInv, [Next]_vars
  PROVE  TypeOK'
<1> USE DEF TypeOK
<1>1. ASSUME NEW w \in Writers, WriterNext(w) PROVE TypeOK'
  <2> USE DEF registry, readers, pubs, watchers, WriterGoto
  <2>1. CASE \E k \in Keys : CaptureForWrite(w, k)
    BY <2>1 DEF CaptureForWrite, WriterSteps
  <2>2. CASE BeginWrite(w)
    BY <2>2 DEF BeginWrite, WriterSteps
  <2>3. CASE WriteConflict(w)
    BY <2>3 DEF WriteConflict, WriterSteps
  <2>4. CASE Store(w)
    <3>1. db[wkey[w]] + 1 \in Version
      BY <2>4, ChartEventsAssumption DEF Store, GuardInv, Version
    <3>2. db' \in [Keys -> Version]
      <4>1. db \in [Keys -> Version] /\ wkey[w] \in Keys
        OBVIOUS
      <4>2. db' = [db EXCEPT ![wkey[w]] = @ + 1] \/ db' = db
        BY <2>4 DEF Store
      <4> HIDE DEF TypeOK
      <4> QED
        BY <3>1, <4>1, <4>2
    <3>3. wpc' \in [Writers -> WriterSteps]
      <4>1. PICK step \in WriterSteps : wpc' = [wpc EXCEPT ![w] = step]
        BY <2>4 DEF Store, WriterSteps
      <4> QED
        BY <4>1
    <3> QED
      BY <2>4, <3>2, <3>3 DEF Store
  <2>5. CASE PublishWrite(w)
    <3>1. wkey[w] \in Keys /\ generations[wkey[w]] < MaxVersions /\ Advance(wkey[w])
      BY <2>5 DEF PublishWrite, GuardInv, Guarding
    <3>2. generations[wkey[w]] + 1 \in Version
      BY <3>1, ChartEventsAssumption DEF Version
    <3>3. /\ generations' \in [Keys -> Version]
          /\ events' \in [Keys -> Seq(Version)]
          /\ uwoken' \in [Watchers -> BOOLEAN]
      <4>1. generations \in [Keys -> Version] /\ events \in [Keys -> Seq(Version)]
            /\ uwoken \in [Watchers -> BOOLEAN]
        OBVIOUS
      <4> HIDE DEF TypeOK
      <4> QED
        BY <3>1, <3>2, <4>1, AdvanceEffect
    <3>4. wpc' \in [Writers -> WriterSteps]
      <4>1. wpc' = [wpc EXCEPT ![w] = "published"] /\ "published" \in WriterSteps
        BY <2>5 DEF PublishWrite, WriterSteps
      <4> QED
        BY <4>1
    <3> QED
      BY <2>5, <3>3, <3>4 DEF PublishWrite
  <2>6. CASE EndWrite(w)
    BY <2>6 DEF EndWrite, ReleaseWrite, WriterSteps
  <2>7. CASE InvalidateWrite(w)
    <3>1. /\ generations' \in [Keys -> Version]
          /\ events' \in [Keys -> Seq(Version)]
          /\ uwoken' \in [Watchers -> BOOLEAN]
      <4>1. CASE generations[wkey[w]] = wexp[w] /\ Advance(wkey[w])
        <5>1. wpc[w] \in Guarding \ {"published"}
          BY <2>7, <4>1 DEF InvalidateWrite, Guarding, GuardInv, GuardOwnsGeneration, Version
        <5>2. wkey[w] \in Keys /\ generations[wkey[w]] < MaxVersions
          BY <5>1 DEF GuardInv
        <5>3. generations[wkey[w]] + 1 \in Version
          BY <5>2, ChartEventsAssumption DEF Version
        <5>4. generations' = [generations EXCEPT ![wkey[w]] = generations[wkey[w]] + 1]
              /\ events' \in [Keys -> Seq(Version)] /\ uwoken' \in [Watchers -> BOOLEAN]
          BY <4>1, <5>2, AdvanceEffect
        <5> QED
          BY <5>3, <5>4
      <4>2. CASE UNCHANGED <<generations, events, uwoken>>
        BY <4>2
      <4> QED
        BY <2>7, <4>1, <4>2 DEF InvalidateWrite
    <3> QED
      BY <2>7, <3>1 DEF InvalidateWrite, ReleaseWrite, WriterSteps
  <2> QED
    BY <1>1, <2>1, <2>2, <2>3, <2>4, <2>5, <2>6, <2>7 DEF WriterNext, WriterStep
<1>2. ASSUME NEW r \in Readers, ReaderNext(r) PROVE TypeOK'
  <2> USE DEF registry, writers, pubs, watchers, ReaderGoto
  <2>1. CASE \E k \in Keys : CaptureForRead(r, k)
    BY <2>1 DEF CaptureForRead
  <2>2. CASE CheckBeforeRead(r) \/ RejectRead(r)
    BY <2>2 DEF CheckBeforeRead, RejectRead
  <2>3. CASE ReadBars(r)
    BY <2>3 DEF ReadBars
  <2>4. CASE ServeRead(r)
    BY <2>4 DEF ServeRead
  <2> QED
    BY <1>2, <2>1, <2>2, <2>3, <2>4 DEF ReaderNext
<1>3. ASSUME NEW q \in Publishers, PublisherNext(q) PROVE TypeOK'
  <2> USE DEF registry, writers, readers, watchers
  <2>1. CASE \E k \in Keys : Collect(q, k)
    BY <2>1 DEF Collect
  <2>2. CASE BeginPublication(q)
    BY <2>2 DEF BeginPublication
  <2>3. CASE EndPublication(q)
    BY <2>3 DEF EndPublication
  <2> QED
    BY <1>3, <2>1, <2>2, <2>3 DEF PublisherNext
<1>4. ASSUME NEW u \in Watchers, WatcherNext(u) PROVE TypeOK'
  <2> USE DEF registry, writers, readers, pubs
  <2>1. CASE WaitUpdate(u)
    BY <2>1 DEF WaitUpdate
  <2>2. CASE Deliver(u, ukey[u])
    <3>1. upc' \in [Watchers -> {"idle", "waiting"}] /\ useen' \in [Watchers -> Version]
      BY <2>2 DEF Deliver
    <3>2. uwoken' \in [Watchers -> BOOLEAN] /\ usilent' \in [Watchers -> BOOLEAN]
      BY <2>2 DEF Deliver
    <3> QED
      BY <1>4, <3>1, <3>2, WatcherFrame
  <2> QED
    BY <1>4, <2>1, <2>2 DEF WatcherNext, ReturnUpdate, TimeoutUpdate
<1>5. ASSUME NEW s \in StableWaiters, StableNext(s) PROVE TypeOK'
  <2>1. spc' \in [StableWaiters -> {"idle", "waiting"}]
    BY <1>5 DEF StableNext, WaitStable, WakeStable, TimeoutStable
  <2>2. skey' \in [StableWaiters -> Keys]
    BY <1>5 DEF StableNext, WaitStable, WakeStable, TimeoutStable
  <2>3. swoken' \in [StableWaiters -> BOOLEAN]
    BY <1>5 DEF StableNext, WaitStable, WakeStable, TimeoutStable
  <2> QED
    BY <1>5, <2>1, <2>2, <2>3, StableFrame DEF registry, writers, readers, pubs, watchers
<1>6. CASE UNCHANGED vars
  BY <1>6 DEF vars, registry, writers, readers, pubs, watchers
<1> QED
  BY <1>1, <1>2, <1>3, <1>4, <1>5, <1>6, NextParts

-----------------------------------------------------------------------------
(* The guard.  One writer's own part of it, and one scope's.                *)
OwnGuard(w) ==
  /\ wpc[w] \in Guarding => writing[wkey[w]] = w
  /\ wpc[w] \in Guarding \ {"published"} => /\ generations[wkey[w]] = wexp[w]
                                           /\ generations[wkey[w]] < MaxVersions
  /\ wpc[w] = "published" => generations[wkey[w]] = wexp[w] + 1
  /\ wpc[w] = "guarded" => db[wkey[w]] < MaxVersions

KeyGuard(k) ==
  writing[k] # None => wkey[writing[k]] = k /\ wpc[writing[k]] \in Guarding

LEMMA GuardParts ==
  ASSUME wexp \in [Writers -> Int]
  PROVE  GuardInv <=> /\ \A w \in Writers : OwnGuard(w)
                      /\ \A k \in Keys : KeyGuard(k)
BY DEF GuardInv, GuardOwnsGeneration, OwnGuard, KeyGuard, Guarding

LEMMA GuardStep ==
  ASSUME KeysFit, TypeOK, GuardInv, [Next]_vars
  PROVE  GuardInv'
<1>0. TypeOK'
  BY EventsTypeStep
<1>1. ASSUME NEW w \in Writers, WriterNext(w) PROVE GuardInv'
  <2>1. /\ \A v \in Writers : OwnGuard(v)
        /\ \A k \in Keys : KeyGuard(k)
    BY GuardParts DEF TypeOK, Version
  <2>2. \A v \in Writers : v # w => wpc'[v] = wpc[v] /\ wkey'[v] = wkey[v] /\ wexp'[v] = wexp[v]
    BY <1>1, WriterMoves
  <2>3. \/ Outside(w) \/ Enters(w) \/ Changes(w) \/ Keeps(w)
        \/ Publishes(w) \/ Leaves(w) \/ Invalidates(w)
    BY <1>1, WriterEffect
  <2>4. ASSUME NEW v \in Writers PROVE OwnGuard(v)'
    <3> USE <2>1, <2>2, <2>3, ChartEventsAssumption DEF TypeOK, OwnGuard, Guarding, Version
    <3>1. CASE v = w
      <4>1. wkey[w] \in Keys
        OBVIOUS
      <4>2. CASE Outside(w) \/ Leaves(w) \/ Invalidates(w)
        BY <3>1, <4>2 DEF Outside, Leaves, Invalidates
      <4>3. CASE Enters(w)
        BY <3>1, <4>1, <4>3 DEF Enters, MayBegin
      <4>4. CASE Changes(w) \/ Keeps(w)
        BY <3>1, <4>1, <4>4 DEF Changes, Keeps
      <4>5. CASE Publishes(w)
        BY <3>1, <4>1, <4>5 DEF Publishes
      <4> QED
        BY <4>2, <4>3, <4>4, <4>5
    <3>2. CASE v # w
      <4>1. OwnGuard(v) /\ wpc'[v] = wpc[v] /\ wkey'[v] = wkey[v] /\ wexp'[v] = wexp[v]
        BY <3>2
      <4>2. wpc[v] \in Guarding /\ wpc[w] \in Guarding => wkey[v] # wkey[w]
        BY <3>2
      <4>3. wpc[v] \in Guarding /\ MayBegin(w) => wkey[v] # wkey[w]
        BY <3>2 DEF MayBegin
      <4>4. CASE wpc[v] \notin Guarding
        BY <4>1, <4>4
      <4>5. CASE wpc[v] \in Guarding
        BY <4>1, <4>2, <4>3, <4>5
        DEF Outside, Enters, Changes, Keeps, Publishes, Leaves, Invalidates
      <4> QED
        BY <4>4, <4>5
    <3> QED
      BY <3>1, <3>2
  <2>5. ASSUME NEW k \in Keys PROVE KeyGuard(k)'
    <3>1. KeyGuard(k) /\ OwnGuard(w) /\ OwnGuard(w)'
      BY <2>1, <2>4
    <3>2. CASE writing'[k] = w
      BY <3>1, <3>2, <2>3, <1>0
      DEF TypeOK, KeyGuard, Guarding, Outside, Enters, Changes, Keeps, Publishes, Leaves,
          Invalidates
    <3>3. CASE writing'[k] # w
      <4>1. writing'[k] # None => writing'[k] = writing[k]
        BY <3>3, <2>3 DEF TypeOK, Outside, Enters, Changes, Keeps, Publishes, Leaves, Invalidates
      <4>2. writing'[k] # None => writing'[k] \in Writers
        BY <1>0 DEF TypeOK
      <4> QED
        BY <3>1, <3>3, <4>1, <4>2, <2>2 DEF KeyGuard
    <3> QED
      BY <3>2, <3>3
  <2>6. (wexp \in [Writers -> Int])'
    BY <1>0 DEF TypeOK, Version
  <2> QED
    BY <2>4, <2>5, <2>6, GuardParts
    DEF GuardInv, GuardOwnsGeneration, OwnGuard, KeyGuard, Guarding
<1>2. CASE UNCHANGED <<db, generations, writing, writers>>
  BY <1>2 DEF GuardInv, GuardOwnsGeneration, writers
<1> QED
  BY <1>1, <1>2, NextParts, ReaderFrame, PublisherFrame, WatcherFrame, StableFrame
  DEF vars, registry

-----------------------------------------------------------------------------
(* Snapshots taken under the registry's checks stay good.                   *)
LEMMA SnapshotStep ==
  ASSUME KeysFit, TypeOK, GuardInv, [Next]_vars
  PROVE  \A k \in Keys : \A g, v \in Int :
            /\ Checked(k, g) => Checked(k, g)'
            /\ Snapshot(k, g, v) => Snapshot(k, g, v)'
<1> SUFFICES ASSUME NEW k \in Keys, NEW g \in Int, NEW v \in Int
             PROVE  /\ Checked(k, g) => Checked(k, g)'
                    /\ Snapshot(k, g, v) => Snapshot(k, g, v)'
  OBVIOUS
<1>1. ASSUME NEW w \in Writers, WriterNext(w)
      PROVE  /\ Checked(k, g) => Checked(k, g)'
             /\ Snapshot(k, g, v) => Snapshot(k, g, v)'
  <2>1. \A u \in Writers \ {w} : wpc'[u] = wpc[u] /\ wkey'[u] = wkey[u] /\ wexp'[u] = wexp[u]
    BY <1>1, WriterMoves
  <2> USE <2>1, ChartEventsAssumption
      DEF TypeOK, GuardInv, GuardOwnsGeneration, Guarding, Version, Checked, Snapshot,
          Published, Unsettled
  <2>3. CASE Outside(w)
    BY <2>3 DEF Outside
  <2>4. CASE Enters(w)
    BY <2>4 DEF Enters, MayBegin
  <2>5. CASE Changes(w)
    BY <2>5 DEF Changes
  <2>6. CASE Keeps(w)
    BY <2>6 DEF Keeps
  <2>7. CASE Publishes(w)
    BY <2>7 DEF Publishes
  <2>8. CASE Leaves(w)
    BY <2>8 DEF Leaves
  <2>9. CASE Invalidates(w)
    BY <2>9 DEF Invalidates
  <2> QED
    BY <1>1, <2>3, <2>4, <2>5, <2>6, <2>7, <2>8, <2>9, WriterEffect
<1>2. CASE UNCHANGED <<db, generations, writing, writers>>
  BY <1>2 DEF Checked, Snapshot, Published, Unsettled, writers
<1> QED
  BY <1>1, <1>2, NextParts, ReaderFrame, PublisherFrame, WatcherFrame, StableFrame
  DEF vars, registry

-----------------------------------------------------------------------------
(* Readers, cache and publishers each hold snapshots.                       *)

(* What is true of the registry when require_chart_bars_generation passes.  *)
LEMMA StableIsChecked ==
  ASSUME TypeOK, NEW k \in Keys, NEW g, Stable(k, g)
  PROVE  Checked(k, g)
BY DEF TypeOK, Stable, Checked, Published, Version

LEMMA ReadStep ==
  ASSUME KeysFit, TypeOK, GuardInv, ReadInv, [Next]_vars
  PROVE  ReadInv'
<1>1. ASSUME NEW r \in Readers, ReaderNext(r) PROVE ReadInv'
  <2>1. UNCHANGED <<db, generations, writing, wpc>>
    BY <1>1, ReaderFrame DEF registry, writers
  <2>2. \A s \in Readers : rpc[s] # "idle" => rkey[s] \in Keys
    BY DEF TypeOK
  <2>3. ASSUME NEW s \in Readers, s # r
        PROVE  /\ rpc'[s] = rpc[s] /\ rkey'[s] = rkey[s]
               /\ rexp'[s] = rexp[s] /\ rval'[s] = rval[s]
    BY <1>1, <2>3 DEF TypeOK, ReaderNext, CaptureForRead, CheckBeforeRead, ReadBars,
       ServeRead, RejectRead, ReaderGoto
  <2>4. /\ rpc'[r] = "checked" => Checked(rkey'[r], rexp'[r])
        /\ rpc'[r] = "read" => Snapshot(rkey'[r], rexp'[r], rval'[r])
    <3>1. CASE CheckBeforeRead(r)
      <4>1. Checked(rkey[r], rexp[r])
        BY <3>1, StableIsChecked DEF CheckBeforeRead, TypeOK
      <4> QED
        BY <3>1, <4>1 DEF CheckBeforeRead, ReaderGoto, TypeOK
    <3>2. CASE ReadBars(r)
      <4>1. Checked(rkey[r], rexp[r])
        BY <3>2 DEF ReadBars, ReadInv
      <4> QED
        BY <3>2, <4>1 DEF ReadBars, ReaderGoto, TypeOK, Snapshot
    <3>3. CASE (\E k \in Keys : CaptureForRead(r, k)) \/ ServeRead(r) \/ RejectRead(r)
      BY <3>3 DEF CaptureForRead, ServeRead, RejectRead, ReaderGoto, TypeOK
    <3> QED
      BY <1>1, <3>1, <3>2, <3>3 DEF ReaderNext
  <2> QED
    BY <2>1, <2>3, <2>4 DEF ReadInv, Checked, Snapshot, Published, Unsettled
<1>2. CASE UNCHANGED readers
  <2>1. SUFFICES ASSUME NEW r \in Readers
                 PROVE  /\ rpc'[r] = "checked" => Checked(rkey[r], rexp[r])'
                        /\ rpc'[r] = "read" => Snapshot(rkey[r], rexp[r], rval[r])'
    BY DEF ReadInv
  <2>2. rpc' = rpc /\ rkey' = rkey /\ rexp' = rexp /\ rval' = rval
    BY <1>2 DEF readers
  <2>3. rkey[r] \in Keys /\ rexp[r] \in Int /\ rval[r] \in Int
    BY DEF TypeOK, Version
  <2> QED
    BY <2>2, <2>3, SnapshotStep DEF ReadInv, Checked, Snapshot, Published, Unsettled
<1> QED
  BY <1>1, <1>2, NextParts, WriterFrame, PublisherFrame, WatcherFrame, StableFrame DEF vars

LEMMA CacheStep ==
  ASSUME KeysFit, TypeOK, GuardInv, ReadInv, CacheInv, [Next]_vars
  PROVE  CacheInv'
<1>0. \A k \in Keys : Snapshot(k, cache[k].gen, cache[k].val)'
                       \/ cache'[k] # cache[k]
  <2>1. \A k \in Keys : cache[k].gen \in Int /\ cache[k].val \in Int
    BY DEF TypeOK, Version, Absent
  <2> QED
    BY <2>1, SnapshotStep DEF CacheInv, Snapshot, Checked, Published, Unsettled
<1>1. ASSUME NEW r \in Readers, ServeRead(r) PROVE CacheInv'
  <2>1. Snapshot(rkey[r], rexp[r], rval[r]) /\ rkey[r] \in Keys
    BY <1>1 DEF ServeRead, ReadInv, TypeOK
  <2>2. UNCHANGED <<db, generations, writing, wpc>>
    BY <1>1 DEF ServeRead, registry, writers
  <2>3. cache' = [cache EXCEPT ![rkey[r]] = [gen |-> rexp[r], val |-> rval[r]]]
    BY <1>1 DEF ServeRead
  <2>4. ASSUME NEW k \in Keys
        PROVE  \/ cache'[k] = cache[k]
               \/ k = rkey[r] /\ cache'[k].gen = rexp[r] /\ cache'[k].val = rval[r]
    BY <2>3 DEF TypeOK
  <2> QED
    BY <2>1, <2>2, <2>4 DEF CacheInv, Snapshot, Checked, Published, Unsettled
<1>2. CASE UNCHANGED cache
  BY <1>0, <1>2 DEF CacheInv
<1>3. ASSUME NEW r \in Readers, ReaderNext(r), ~ServeRead(r) PROVE UNCHANGED cache
  BY <1>3 DEF ReaderNext, CaptureForRead, CheckBeforeRead, ReadBars, RejectRead
<1> QED
  BY <1>1, <1>2, <1>3, NextParts, WriterFrame, PublisherFrame, WatcherFrame, StableFrame
  DEF vars

LEMMA PublicationStep ==
  ASSUME KeysFit, TypeOK, GuardInv, PublicationInv, [Next]_vars
  PROVE  PublicationInv'
<1>0. ASSUME NEW q \in Publishers, NEW k \in Scopes(q)
      PROVE  Snapshot(k, qgen[q][k], qval[q][k]) /\ k \in Keys
             /\ qgen[q][k] \in Int /\ qval[q][k] \in Int
  BY DEF PublicationInv, Scopes, TypeOK, Version, Absent
<1>1. ASSUME NEW w \in Writers, WriterNext(w) PROVE PublicationInv'
  <2>1. UNCHANGED <<publishing, qpc, qgen, qval>>
    BY <1>1, WriterFrame DEF pubs
  <2>2. ASSUME NEW q \in Publishers, NEW k \in Scopes(q)
        PROVE  Snapshot(k, qgen[q][k], qval[q][k])'
    BY <1>0, <2>1, <2>2, SnapshotStep DEF Snapshot, Checked, Published, Unsettled
  <2>3. ASSUME NEW q \in Publishers, NEW k \in Scopes(q), qpc[q] = "effect"
        PROVE  Stable(k, qgen[q][k])'
    <3>1. Stable(k, qgen[q][k]) /\ publishing[k] # {} /\ k \in Keys
      BY <2>3 DEF PublicationInv, Scopes
    <3>2. wkey[w] = k => wpc[w] \notin Guarding /\ ~MayBegin(w)
      BY <3>1, ChartEventsAssumption
      DEF GuardInv, GuardOwnsGeneration, Stable, MayBegin, TypeOK
    <3>3. writing'[k] = writing[k] /\ generations'[k] = generations[k]
      BY <1>1, <3>1, <3>2, WriterEffect
      DEF Outside, Enters, Changes, Keeps, Publishes, Leaves, Invalidates, Guarding, TypeOK
    <3> QED
      BY <2>1, <3>1, <3>3 DEF Stable
  <2> QED
    BY <2>1, <2>2, <2>3 DEF PublicationInv, Scopes
<1>2. ASSUME NEW p \in Publishers, PublisherNext(p) PROVE PublicationInv'
  <2>1. UNCHANGED <<db, generations, writing, wpc>>
    BY <1>2, PublisherFrame DEF writers
  <2>2. \A k \in Keys : \A g, v : (Snapshot(k, g, v) => Snapshot(k, g, v)')
                              /\ (Stable(k, g) => Stable(k, g)')
    BY <2>1 DEF Snapshot, Checked, Published, Unsettled, Stable
  <2>3. CASE \E j \in Keys : Collect(p, j)
    <3>1. PICK j \in Keys : Collect(p, j)
      BY <2>3
    <3>2. Snapshot(j, generations[j], db[j])
      BY <3>1 DEF Collect, Snapshot, Checked, Published, TypeOK, Version
    <3>3. ASSUME NEW q \in Publishers, NEW k \in Keys
          PROVE  \/ qgen'[q][k] = qgen[q][k] /\ qval'[q][k] = qval[q][k]
                 \/ /\ q = p /\ k = j
                    /\ qgen'[q][k] = generations[j] /\ qval'[q][k] = db[j]
      BY <3>1 DEF Collect, TypeOK
    <3>4. qpc[p] = "idle" /\ qpc' = qpc /\ publishing' = publishing
      BY <3>1 DEF Collect, registry
    <3> QED
      BY <2>1, <2>2, <3>2, <3>3, <3>4
      DEF PublicationInv, Scopes, Snapshot, Checked, Published, Unsettled, Stable
  <2>4. CASE BeginPublication(p)
    BY <2>1, <2>2, <2>4
    DEF BeginPublication, PublicationInv, Scopes, Snapshot, Checked, Published, Unsettled,
        Stable, TypeOK
  <2>5. CASE EndPublication(p)
    <3>1. ASSUME NEW q \in Publishers, q # p
          PROVE  /\ qpc'[q] = qpc[q] /\ qgen'[q] = qgen[q] /\ qval' = qval
                 /\ \A k \in Keys : q \in publishing'[k] <=> q \in publishing[k]
      BY <2>5, <3>1 DEF EndPublication, TypeOK
    <3>2. \A k \in Keys : qgen'[p][k] = Absent
      BY <2>5 DEF EndPublication, TypeOK
    <3> QED
      BY <2>1, <2>2, <3>1, <3>2
      DEF PublicationInv, Scopes, Snapshot, Checked, Published, Unsettled, Stable
  <2> QED
    BY <1>2, <2>3, <2>4, <2>5 DEF PublisherNext
<1>3. CASE UNCHANGED <<db, registry, writers, pubs>>
  BY <1>3 DEF PublicationInv, Scopes, Snapshot, Checked, Published, Unsettled, Stable,
     registry, writers, pubs
<1> QED
  BY <1>1, <1>2, <1>3, NextParts, ReaderFrame, WatcherFrame, StableFrame DEF vars

-----------------------------------------------------------------------------
(* EventsInv is an invariant, and the properties follow.                    *)

LEMMA EventsInvInit == Init => EventsInv
<1> SUFFICES ASSUME Init PROVE EventsInv
  OBVIOUS
<1>1. TypeOK
  BY ChartEventsAssumption DEF Init, TypeOK, Version, Absent, WriterSteps
<1> QED
  BY <1>1 DEF Init, EventsInv, TypeOK, GuardInv, GuardOwnsGeneration, Guarding, ReadInv,
     CacheInv, PublicationInv, Scopes, Snapshot, Checked, Published, Unsettled, Absent

LEMMA EventsInvariant ==
  ASSUME KeysFit
  PROVE  Spec => []EventsInv
<1>1. EventsInv /\ [Next]_vars => EventsInv'
  BY EventsTypeStep, GuardStep, ReadStep, CacheStep, PublicationStep DEF EventsInv
<1> QED
  BY <1>1, EventsInvInit, PTL DEF Spec

(* Every load that passes its last generation check has read exactly the    *)
(* stored bars, and so has every cache entry that still passes it.          *)
THEOREM ReadsTheorem ==
  ASSUME KeysFit
  PROVE  Spec => []ReadsValidated
<1>1. EventsInv => ReadsValidated
  BY DEF EventsInv, ReadInv, CacheInv, ReadsValidated, Stable, Snapshot, Unsettled
<1> QED
  BY <1>1, EventsInvariant, PTL

(* A paper or alert effect is only ever applied on the stored bars of all   *)
(* the scopes it was computed from.                                         *)
THEOREM EffectsTheorem ==
  ASSUME KeysFit
  PROVE  Spec => []EffectsCurrent
<1>1. EventsInv => EffectsCurrent
  BY DEF EventsInv, PublicationInv, EffectsCurrent, Stable, Snapshot, Unsettled, Scopes
<1> QED
  BY <1>1, EventsInvariant, PTL

(* A writer's guard keeps its generation: publication after a commit cannot *)
(* find a generation other than the expected one.                           *)
THEOREM GuardTheorem ==
  ASSUME KeysFit
  PROVE  Spec => []GuardOwnsGeneration
<1>1. EventsInv => GuardOwnsGeneration
  BY DEF EventsInv, GuardInv
<1> QED
  BY <1>1, EventsInvariant, PTL

-----------------------------------------------------------------------------
(* The waiters.  Their theorems need no KeysFit: they are about tables that *)
(* are trimmed and generations that are forgotten.                          *)

WaiterTyped ==
  /\ generations \in [Keys -> Int] /\ events \in [Keys -> Seq(Int)]
  /\ writing \in [Keys -> Writers \cup {None}]
  /\ wkey \in [Writers -> Keys]
  /\ upc \in [Watchers -> {"idle", "waiting"}] /\ ukey \in [Watchers -> Keys]
  /\ useen \in [Watchers -> Int]
  /\ uwoken \in [Watchers -> BOOLEAN] /\ usilent \in [Watchers -> BOOLEAN]
  /\ spc \in [StableWaiters -> {"idle", "waiting"}] /\ skey \in [StableWaiters -> Keys]
  /\ swoken \in [StableWaiters -> BOOLEAN]

(* A queue holds consecutive generations and ends with the current one.     *)
LatestEvents(q, g) == \A i \in 1 .. Len(q) : q[i] = g - Len(q) + i
QueuesAreLatest == \A k \in Keys : LatestEvents(events[k], generations[k])

WaiterInv == WaiterTyped /\ QueuesAreLatest /\ NoLostWakeup /\ NoSilentGap

LEMMA Shifted ==
  ASSUME NEW g \in Int, NEW l \in Int, NEW n \in Int, NEW m \in Int, NEW i \in Int,
         l - (n + 1) + 1 = m
  PROVE  g + 1 - l + (n + i) = g + 1 - m + i
OBVIOUS

LEMMA LatestAppended ==
  ASSUME NEW q \in Seq(Int), NEW g \in Int, LatestEvents(q, g)
  PROVE  /\ LastEvents(Append(q, g + 1)) \in Seq(Int)
         /\ LatestEvents(LastEvents(Append(q, g + 1)), g + 1)
<1> DEFINE a == Append(q, g + 1)
<1>1. a \in Seq(Int) /\ Len(a) = Len(q) + 1 /\ Len(q) \in Nat
  OBVIOUS
<1>2. \A i \in 1 .. Len(q) : a[i] = q[i]
  OBVIOUS
<1>3. a[Len(q) + 1] = g + 1
  OBVIOUS
<1> HIDE DEF a
<1>4. ASSUME NEW i \in 1 .. Len(a)
      PROVE  a[i] = g + 1 - Len(a) + i
  <2>1. CASE i \in 1 .. Len(q)
    <3>1. a[i] = q[i] /\ q[i] = g - Len(q) + i
      BY <1>2, <2>1 DEF LatestEvents
    <3> QED
      BY <1>1, <3>1
  <2>2. CASE i = Len(q) + 1
    BY <1>1, <1>3, <2>2
  <2> QED
    BY <1>1, <2>1, <2>2
<1>5. CASE Len(a) > MaxEvents
  <2> DEFINE n == Len(a) - MaxEvents
             last == SubSeq(a, n + 1, Len(a))
  <2>1. MaxEvents \in Nat /\ n \in Nat /\ n + 1 <= Len(a)
    BY <1>1, <1>5, ChartEventsAssumption
  <2>2. LastEvents(a) = last
    BY <1>5 DEF LastEvents
  <2>3. Len(a) - (n + 1) + 1 = MaxEvents
    BY <1>1, <2>1
  <2> HIDE DEF n
  <2>4. last \in Seq(Int) /\ Len(last) = MaxEvents
        /\ \A i \in 1 .. MaxEvents : last[i] = a[n + i]
    BY <1>1, <2>1, <2>3
  <2> HIDE DEF last
  <2>5. ASSUME NEW i \in 1 .. MaxEvents
        PROVE  last[i] = g + 1 - MaxEvents + i
    <3>1. n + i \in 1 .. Len(a) /\ last[i] = a[n + i]
      BY <1>1, <2>1, <2>3, <2>4
    <3>2. a[n + i] = g + 1 - Len(a) + (n + i)
      BY <1>4, <3>1
    <3>3. g + 1 - Len(a) + (n + i) = g + 1 - MaxEvents + i
      <4> DEFINE l == Len(a)
      <4>1. /\ l \in Int /\ n \in Int /\ MaxEvents \in Int /\ i \in Int
            /\ l - (n + 1) + 1 = MaxEvents
        BY <1>1, <2>1, <2>3
      <4> HIDE DEF l
      <4>2. g + 1 - l + (n + i) = g + 1 - MaxEvents + i
        BY <4>1, Shifted
      <4> QED
        BY <4>2 DEF l
    <3> QED
      BY <3>1, <3>2, <3>3, Zenon
  <2>6. LatestEvents(last, g + 1)
    BY <2>4, <2>5 DEF LatestEvents
  <2> QED
    BY <2>2, <2>4, <2>6 DEF a
<1>6. CASE ~(Len(a) > MaxEvents)
  BY <1>1, <1>4, <1>6 DEF LastEvents, LatestEvents, a
<1> QED
  BY <1>5, <1>6

(* Recording an update: the queue and generation of k move on, and of the   *)
(* others only an entry nobody waits for and nobody queues is forgotten.    *)
LEMMA AdvanceTrims ==
  ASSUME WaiterTyped, QueuesAreLatest, NEW k \in Keys, Advance(k)
  PROVE  /\ generations' \in [Keys -> Int] /\ events' \in [Keys -> Seq(Int)]
         /\ QueuesAreLatest'
         /\ \A j \in WaitedKeys \ {k} : j \in Keys => generations'[j] = generations[j]
<1> DEFINE g == generations[k] + 1
           gens == [generations EXCEPT ![k] = g]
           queues == [events EXCEPT ![k] = LastEvents(Append(@, g))]
           stale == {j \in Keys \ InUse(k) : /\ gens[j] # 0
                                             /\ events'[j] = <<>>
                                             /\ writing[j] = None
                                             /\ publishing[j] = {}}
<1>1. events' = queues \/ \E j \in Keys : events' = [queues EXCEPT ![j] = <<>>]
  BY DEF Advance, DropOne, NextGeneration
<1>2. generations' = gens \/ \E j \in stale : generations' = [gens EXCEPT ![j] = 0]
  BY DEF Advance, DropOne, NextGeneration
<1>3. /\ gens \in [Keys -> Int] /\ gens[k] = generations[k] + 1
      /\ \A j \in Keys \ {k} : gens[j] = generations[j]
  BY DEF WaiterTyped
<1>4. /\ queues \in [Keys -> Seq(Int)]
      /\ \A j \in Keys : LatestEvents(queues[j], gens[j])
  <2>1. events[k] \in Seq(Int) /\ generations[k] \in Int /\ LatestEvents(events[k], generations[k])
    BY DEF WaiterTyped, QueuesAreLatest
  <2>2. /\ LastEvents(Append(events[k], g)) \in Seq(Int)
        /\ LatestEvents(LastEvents(Append(events[k], g)), g)
    BY <2>1, LatestAppended
  <2> QED
    BY <2>2, <1>3 DEF WaiterTyped, QueuesAreLatest
<1>5. /\ stale \subseteq Keys \ (WaitedKeys \cup {k})
      /\ \A j \in stale : events'[j] = <<>>
  BY DEF InUse
<1> HIDE DEF gens, queues, stale
<1>6. /\ events' \in [Keys -> Seq(Int)]
      /\ \A j \in Keys : events'[j] = queues[j] \/ events'[j] = <<>>
  <2>1. <<>> \in Seq(Int)
    OBVIOUS
  <2> QED
    BY <1>1, <1>4, <2>1
<1>7. /\ generations' \in [Keys -> Int]
      /\ \A j \in Keys : \/ generations'[j] = gens[j]
                         \/ j \in stale /\ generations'[j] = 0
  BY <1>2, <1>3, <1>5
<1>8. \A h : LatestEvents(<<>>, h)
  BY DEF LatestEvents
<1>9. QueuesAreLatest'
  BY <1>4, <1>5, <1>6, <1>7, <1>8 DEF QueuesAreLatest
<1> QED
  BY <1>3, <1>5, <1>6, <1>7, <1>9

(* If the generation after seen is in a queue of size that ends with last,  *)
(* so is every later one.                                                   *)
LEMMA QueuedAt ==
  ASSUME NEW last \in Int, NEW size \in Nat, NEW seen \in Int, NEW i \in 1 .. size,
         last - size + i > seen, ~(last - size + i > seen + 1),
         NEW g \in seen + 1 .. last
  PROVE  /\ g - last + size \in 1 .. size
         /\ last - size + (g - last + size) = g
OBVIOUS

(* A stream that notices no overflow has got every generation it passes.    *)
LEMMA DeliversAll ==
  ASSUME WaiterTyped, QueuesAreLatest, NEW u \in Watchers, ~usilent[u], Deliver(u, ukey[u])
  PROVE  ~usilent'[u]
<1> DEFINE k == ukey[u]
           evs == EventsSince(k, useen[u])
           got == {events[k][i] : i \in evs}
<1>1. /\ k \in Keys /\ useen[u] \in Int /\ generations[k] \in Int /\ events[k] \in Seq(Int)
      /\ LatestEvents(events[k], generations[k])
  BY DEF WaiterTyped, QueuesAreLatest
<1>2. ASSUME ~Overflow(k, useen[u], generations[k], evs),
             NEW g \in useen[u] + 1 .. generations[k]
      PROVE  g \in got
  <2>1. PICK i \in evs : ~(events[k][i] > useen[u] + 1)
    BY <1>1, <1>2 DEF Overflow
  <2>2. i \in 1 .. Len(events[k]) /\ events[k][i] > useen[u] /\ Len(events[k]) \in Nat
    BY <1>1 DEF EventsSince
  <2>3. events[k][i] = generations[k] - Len(events[k]) + i
    BY <1>1, <2>2 DEF LatestEvents
  <2> DEFINE j == g - generations[k] + Len(events[k])
  <2>4. j \in 1 .. Len(events[k]) /\ events[k][j] = g
    <3>1. /\ j \in 1 .. Len(events[k])
          /\ generations[k] - Len(events[k]) + j = g
      <4> DEFINE last == generations[k]
                 size == Len(events[k])
                 seen == useen[u]
      <4>1. /\ last \in Int /\ size \in Nat /\ seen \in Int /\ i \in 1 .. size
            /\ last - size + i > seen /\ ~(last - size + i > seen + 1)
            /\ g \in seen + 1 .. last
        BY <1>1, <1>2, <2>1, <2>2, <2>3
      <4>2. j = g - last + size
        OBVIOUS
      <4> HIDE DEF last, size, seen, j
      <4>3. j \in 1 .. size /\ last - size + j = g
        BY <4>1, <4>2, QueuedAt
      <4> QED
        BY <4>3 DEF last, size
    <3>2. events[k][j] = generations[k] - Len(events[k]) + j
      BY <1>1, <3>1 DEF LatestEvents
    <3> QED
      BY <3>1, <3>2
  <2>5. j \in evs
    BY <1>1, <2>4 DEF EventsSince
  <2> QED
    BY <2>4, <2>5
<1>3. usilent'[u] = \/ usilent[u]
                    \/ /\ ~Overflow(k, useen[u], generations[k], evs)
                       /\ \E g \in useen[u] + 1 .. generations[k] : g \notin got
  BY DEF Deliver, WaiterTyped
<1> QED
  BY <1>2, <1>3

(* A writer's step seen by the waiters: the scope's guard is taken or given *)
(* back, the scope moves on, or neither.                                    *)
LEMMA WriterAndWaiters ==
  ASSUME WaiterTyped, NEW w \in Writers, WriterNext(w)
  PROVE  /\ UNCHANGED <<upc, ukey, useen, usilent, spc, skey>>
         /\ wkey' \in [Writers -> Keys] /\ wkey[w] \in Keys
         /\ \/ UNCHANGED <<generations, events, uwoken>>
            \/ Advance(wkey[w])
         /\ \/ UNCHANGED <<writing, swoken>>
            \/ writing' = [writing EXCEPT ![wkey[w]] = w] /\ UNCHANGED swoken
            \/ ReleaseWrite(wkey[w])
BY DEF WaiterTyped, WriterNext, WriterStep, CaptureForWrite, BeginWrite, WriteConflict, Store,
       PublishWrite, EndWrite, InvalidateWrite, registry, watchers

LEMMA WaitersSurviveWriter ==
  ASSUME WaiterInv, NEW w \in Writers, WriterNext(w)
  PROVE  WaiterInv'
<1> DEFINE k == wkey[w]
<1>1. /\ UNCHANGED <<upc, ukey, useen, usilent, spc, skey>>
      /\ wkey' \in [Writers -> Keys] /\ k \in Keys
      /\ UNCHANGED <<generations, events, uwoken>> \/ Advance(k)
      /\ \/ UNCHANGED <<writing, swoken>>
         \/ writing' = [writing EXCEPT ![k] = w] /\ UNCHANGED swoken
         \/ ReleaseWrite(k)
  BY WriterAndWaiters DEF WaiterInv
<1> HIDE DEF k
<1> USE DEF WaiterInv, WaiterTyped
<1>2. /\ generations' \in [Keys -> Int] /\ events' \in [Keys -> Seq(Int)] /\ QueuesAreLatest'
      /\ uwoken' \in [Watchers -> BOOLEAN]
      /\ \A u \in Watchers : upc[u] = "waiting" /\ ~uwoken'[u] =>
           ~uwoken[u] /\ generations'[ukey[u]] = generations[ukey[u]]
  <2>1. CASE UNCHANGED <<generations, events, uwoken>>
    BY <2>1 DEF QueuesAreLatest
  <2>2. CASE Advance(k)
    <3>1. uwoken' = [u \in Watchers |-> uwoken[u] \/ (upc[u] = "waiting" /\ ukey[u] = k)]
      BY <2>2 DEF Advance
    <3>2. /\ generations' \in [Keys -> Int] /\ events' \in [Keys -> Seq(Int)]
          /\ QueuesAreLatest'
          /\ \A j \in WaitedKeys \ {k} : j \in Keys => generations'[j] = generations[j]
      BY <1>1, <2>2, AdvanceTrims
    <3>3. \A u \in Watchers : upc[u] = "waiting" => ukey[u] \in WaitedKeys /\ ukey[u] \in Keys
      BY DEF WaitedKeys
    <3>4. uwoken' \in [Watchers -> BOOLEAN]
      BY <3>1
    <3>5. \A u \in Watchers : upc[u] = "waiting" /\ ~uwoken'[u] => ~uwoken[u] /\ ukey[u] # k
      BY <3>1
    <3> QED
      BY <3>2, <3>3, <3>4, <3>5
  <2> QED
    BY <1>1, <2>1, <2>2
<1>3. /\ writing' \in [Keys -> Writers \cup {None}]
      /\ swoken' \in [StableWaiters -> BOOLEAN]
      /\ \A s \in StableWaiters : spc[s] = "waiting" /\ ~swoken'[s] =>
           ~swoken[s] /\ (writing[skey[s]] # None => writing'[skey[s]] # None)
  <2>1. CASE UNCHANGED <<writing, swoken>>
    BY <2>1
  <2>2. CASE writing' = [writing EXCEPT ![k] = w] /\ UNCHANGED swoken
    BY <1>1, <2>2, ChartEventsAssumption
  <2>3. CASE ReleaseWrite(k)
    <3>1. /\ writing' = [writing EXCEPT ![k] = None]
          /\ swoken' = [s \in StableWaiters |-> swoken[s] \/ (spc[s] = "waiting" /\ skey[s] = k)]
      BY <2>3 DEF ReleaseWrite
    <3>2. writing' \in [Keys -> Writers \cup {None}]
      BY <3>1
    <3>3. swoken' \in [StableWaiters -> BOOLEAN]
      BY <3>1
    <3>4. \A s \in StableWaiters : spc[s] = "waiting" /\ ~swoken'[s] => ~swoken[s] /\ skey[s] # k
      BY <3>1
    <3> QED
      BY <3>1, <3>2, <3>3, <3>4
  <2> QED
    BY <1>1, <2>1, <2>2, <2>3
<1>4. NoLostWakeup'
  BY <1>1, <1>2, <1>3 DEF NoLostWakeup
<1>5. NoSilentGap'
  BY <1>1 DEF NoSilentGap
<1>6. WaiterTyped'
  BY <1>1, <1>2, <1>3
<1> QED
  BY <1>2, <1>4, <1>5, <1>6

LEMMA WaitersSurviveWatcher ==
  ASSUME WaiterInv, NEW u \in Watchers, WatcherNext(u)
  PROVE  WaiterInv'
<1> USE DEF WaiterInv, WaiterTyped
<1>1. /\ UNCHANGED <<generations, events, writing, wkey, ukey, spc, skey, swoken>>
      /\ QueuesAreLatest'
  BY WatcherFrame DEF registry, writers, QueuesAreLatest
<1>2. CASE WaitUpdate(u)
  <2>1. /\ generations[ukey[u]] = useen[u] /\ upc' = [upc EXCEPT ![u] = "waiting"]
        /\ UNCHANGED <<useen, usilent, uwoken>>
    BY <1>2 DEF WaitUpdate
  <2> QED
    BY <1>1, <2>1 DEF NoLostWakeup, NoSilentGap
<1>3. CASE Deliver(u, ukey[u])
  <2>1. /\ useen' = [useen EXCEPT ![u] = generations[ukey[u]]]
        /\ upc' = [upc EXCEPT ![u] = "idle"] /\ uwoken' = [uwoken EXCEPT ![u] = FALSE]
    BY <1>3 DEF Deliver
  <2>2. usilent' \in [Watchers -> BOOLEAN] /\ \A v \in Watchers \ {u} : usilent'[v] = usilent[v]
    BY <1>3 DEF Deliver
  <2>3. ~usilent'[u]
    BY <1>3, DeliversAll DEF NoSilentGap
  <2>4. NoSilentGap'
    BY <2>2, <2>3 DEF NoSilentGap
  <2>5. WaiterTyped'
    BY <1>1, <2>1, <2>2
  <2>6. NoLostWakeup'
    BY <1>1, <2>1 DEF NoLostWakeup
  <2> QED
    BY <1>1, <2>4, <2>5, <2>6
<1> QED
  BY <1>2, <1>3 DEF WatcherNext, ReturnUpdate, TimeoutUpdate

LEMMA WaitersSurviveStable ==
  ASSUME WaiterInv, NEW s \in StableWaiters, StableNext(s)
  PROVE  WaiterInv'
<1> USE DEF WaiterInv, WaiterTyped
<1>1. UNCHANGED <<generations, events, writing, wkey, upc, ukey, useen, usilent, uwoken>>
  BY StableFrame DEF registry, writers, watchers
<1>2. QueuesAreLatest' /\ NoSilentGap'
  BY <1>1 DEF QueuesAreLatest, NoSilentGap
<1> DEFINE Goal == /\ spc' \in [StableWaiters -> {"idle", "waiting"}]
                   /\ skey' \in [StableWaiters -> Keys]
                   /\ swoken' \in [StableWaiters -> BOOLEAN]
                   /\ \A t \in StableWaiters :
                         spc'[t] = "waiting" /\ ~swoken'[t] => writing[skey'[t]] # None
<1>3. ASSUME NEW k \in Keys, WaitStable(s, k) PROVE Goal
  BY <1>1, <1>3 DEF NoLostWakeup, WaitStable
<1>4. ASSUME WakeStable(s) PROVE Goal
  BY <1>1, <1>4 DEF NoLostWakeup, WakeStable
<1>5. ASSUME TimeoutStable(s) PROVE Goal
  BY <1>1, <1>5 DEF NoLostWakeup, TimeoutStable
<1>6. Goal
  BY <1>3, <1>4, <1>5 DEF StableNext
<1> QED
  BY <1>1, <1>2, <1>6 DEF NoLostWakeup

LEMMA WaiterInvariant == Spec => []WaiterInv
<1>1. Init => WaiterInv
  <2> SUFFICES ASSUME Init PROVE WaiterInv
    OBVIOUS
  <2>1. <<>> \in Seq(Int) /\ Len(<<>>) = 0
    OBVIOUS
  <2> QED
    BY <2>1 DEF Init, WaiterInv, WaiterTyped, QueuesAreLatest, LatestEvents, NoLostWakeup,
                NoSilentGap
<1>2. WaiterInv /\ [Next]_vars => WaiterInv'
  <2> SUFFICES ASSUME WaiterInv, [Next]_vars PROVE WaiterInv'
    OBVIOUS
  <2>1. CASE UNCHANGED <<generations, events, writing, wkey, watchers, upc, ukey, uwoken,
                         spc, skey, swoken>>
    BY <2>1 DEF WaiterInv, WaiterTyped, QueuesAreLatest, NoLostWakeup, NoSilentGap, watchers
  <2> QED
    BY <2>1, NextParts, WaitersSurviveWriter, WaitersSurviveWatcher, WaitersSurviveStable,
       ReaderFrame, PublisherFrame DEF vars, registry, writers, watchers
<1> QED
  BY <1>1, <1>2, PTL DEF Spec

(* A sleeping waiter has nothing to return or has been woken: recording an  *)
(* update, trimming and the release of a guard lose no wake-up.             *)
THEOREM NoLostWakeupTheorem == Spec => []NoLostWakeup
<1>1. WaiterInv => NoLostWakeup
  BY DEF WaiterInv
<1> QED
  BY <1>1, WaiterInvariant, PTL

(* A stream passes no generation whose event it has not got, unless its     *)
(* overflow test sends it to a checkpoint.                                  *)
THEOREM NoSilentGapTheorem == Spec => []NoSilentGap
<1>1. WaiterInv => NoSilentGap
  BY DEF WaiterInv
<1> QED
  BY <1>1, WaiterInvariant, PTL

-----------------------------------------------------------------------------
(* Folds.  A fold is a recursive function on the subsets of a finite set;   *)
(* that it exists, and what it has after the first n elements of a          *)
(* sequence, is proved by induction over a set of subsets.                  *)

(* What holds of a finite set when it holds of its strict subsets holds of  *)
(* S: T has the subsets of S that it holds of.                              *)
LEMMA SetInduction ==
  ASSUME NEW S, IsFiniteSet(S), NEW T,
         \A s \in SUBSET S : (\A u \in SUBSET s : u # s => u \in T) => s \in T
  PROVE  SUBSET S \subseteq T
<1> DEFINE U == {s \in SUBSET S : s \notin T}
           R == StrictSubsetOrdering(S)
           P == SUBSET S
<1> SUFFICES ASSUME U # {} PROVE FALSE
  OBVIOUS
<1>1. IsWellFoundedOn(R, P) /\ U \subseteq P
  <2>1. IsWellFoundedOn(StrictSubsetOrdering(S), FiniteSubsetsOf(S))
    BY FS_StrictSubsetOrderingWellFounded, Zenon
  <2>2. FiniteSubsetsOf(S) = SUBSET S
    BY FS_FiniteSubsetsOfFinite
  <2> QED BY <2>1, <2>2, Zenon
<1>2. PICK x \in U : \A y \in U : ~ (<<y, x>> \in R)
  <2>1. U # {}
    OBVIOUS
  <2> HIDE DEF R, P, U
  <2> QED BY <1>1, <2>1, WFMin
<1>3. \A u \in SUBSET x : u # x => u \in T
  BY <1>2 DEF StrictSubsetOrdering
<1> QED BY <1>2, <1>3

LEMMA FS_UpTo ==
  ASSUME NEW N \in Nat
  PROVE  IsFiniteSet(1..N)
<1>1. 1 \in Int /\ N \in Int
  OBVIOUS
<1> QED BY <1>1, FS_Interval

(* Numbers up to N have a largest one.                                      *)
Top(s) == CHOOSE x \in s : \A y \in s : x >= y

LEMMA Tops ==
  ASSUME NEW N \in Nat, NEW s \in SUBSET (1..N), s # {}
  PROVE  Top(s) \in s /\ \A y \in s : Top(s) >= y
<1> DEFINE T == {u \in SUBSET s : u = {} \/ \E x \in u : \A y \in u : x >= y}
<1>1. ASSUME NEW u \in SUBSET s, \A v \in SUBSET u : v # u => v \in T
      PROVE  u \in T
  <2> SUFFICES ASSUME u # {}
               PROVE  \E x \in u : \A y \in u : x >= y
    BY <1>1
  <2>1. PICK z \in u : z \in Int
    <3>1. u \subseteq 1..N /\ u # {}
      BY <1>1
    <3>2. \A z \in 1..N : z \in Int
      OBVIOUS
    <3> QED BY <3>1, <3>2, Zenon
  <2>2. u \ {z} \in T
    BY <1>1, <2>1
  <2>3. CASE u \ {z} = {}
    BY <2>1, <2>3
  <2>4. CASE u \ {z} # {}
    <3>1. PICK x \in u \ {z} : \A y \in u \ {z} : x >= y
      BY <2>2, <2>4
    <3>2. x \in Int
      OBVIOUS
    <3>3. CASE x >= z
      BY <3>1, <3>3
    <3>4. CASE ~(x >= z)
      <4>1. \A y \in u : y \in Int
        OBVIOUS
      <4>2. \A y \in u : z >= y
        BY <2>1, <3>1, <3>2, <3>4, <4>1
      <4> QED BY <2>1, <4>2
    <3> QED BY <3>3, <3>4
  <2> QED BY <2>3, <2>4
<1>2. IsFiniteSet(s)
  BY FS_UpTo, FS_Subset
<1>3. \A u \in SUBSET s : (\A v \in SUBSET u : v # u => v \in T) => u \in T
  BY <1>1
<1> HIDE DEF T
<1>4. SUBSET s \subseteq T
  BY <1>2, <1>3, SetInduction
<1>5. s \in T
  BY <1>4
<1>6. \E x \in s : \A y \in s : x >= y
  BY <1>5 DEF T
<1> QED BY <1>6 DEF Top

(* Natural numbers have a least one.                                        *)
LEMMA Least ==
  ASSUME NEW M \in SUBSET Nat, M # {}
  PROVE  \E m \in M : \A n \in M : m <= n
<1>1. PICK k \in M : k \in Nat
  OBVIOUS
<1> DEFINE K == {k + 1 - x : x \in {y \in M : y <= k}}
<1>2. K \subseteq 1..(k + 1) /\ k + 1 - k \in K /\ k + 1 \in Nat
  BY <1>1
<1>3. PICK t \in K : \A y \in K : t >= y
  <2> HIDE DEF K
  <2> QED BY <1>2, Tops
<1>4. PICK m \in M : m <= k /\ t = k + 1 - m
  BY <1>3
<1>5. ASSUME NEW n \in M PROVE m <= n
  <2>1. m \in Nat /\ n \in Nat
    OBVIOUS
  <2>2. CASE n <= k
    <3>1. k + 1 - n \in K
      BY <2>2
    <3>2. t >= k + 1 - n
      BY <1>3, <3>1
    <3> QED BY <1>1, <1>4, <2>1, <3>2
  <2>3. CASE ~(n <= k)
    BY <1>1, <1>4, <2>1, <2>3
  <2> QED BY <2>2, <2>3
<1> QED BY <1>5

(* g folds h over the subsets of S; pick says which element comes last.     *)
FoldsTo(g, h, base, pick, S) ==
  g = [s \in SUBSET S |-> IF s = {} THEN base ELSE h[<<pick[s], g[s \ {pick[s]}]>>]]

Picks(pick, S) == \A s \in SUBSET S : s # {} => pick[s] \in s

(* Induction along the elements that pick takes: T has the subsets that a   *)
(* fact about their fold holds of.                                          *)
LEMMA FoldInduction ==
  ASSUME NEW S, IsFiniteSet(S), NEW pick, Picks(pick, S), NEW T, {} \in T,
         \A s \in SUBSET S : s # {} /\ s \ {pick[s]} \in T => s \in T
  PROVE  SUBSET S \subseteq T
<1>1. ASSUME NEW s \in SUBSET S, \A u \in SUBSET s : u # s => u \in T
      PROVE  s \in T
  <2>1. CASE s = {}
    BY <2>1
  <2>2. CASE s # {}
    <3> DEFINE u == s \ {pick[s]}
    <3>1. u \in SUBSET s /\ u # s
      BY <2>2 DEF Picks
    <3>2. u \in T
      BY <1>1, <3>1
    <3> QED BY <2>2, <3>2
  <2> QED BY <2>1, <2>2
<1>2. \A s \in SUBSET S : (\A u \in SUBSET s : u # s => u \in T) => s \in T
  BY <1>1
<1> QED BY <1>2, SetInduction

LEMMA FoldUnique ==
  ASSUME NEW S, IsFiniteSet(S), NEW pick, Picks(pick, S), NEW h, NEW base,
         NEW f, NEW g, FoldsTo(f, h, base, pick, S), FoldsTo(g, h, base, pick, S)
  PROVE  f = g
<1> DEFINE T == {s \in SUBSET S : f[s] = g[s]}
<1>1. {} \in T
  BY DEF FoldsTo
<1>2. ASSUME NEW s \in SUBSET S, s # {}, s \ {pick[s]} \in T
      PROVE  s \in T
  <2> DEFINE u == s \ {pick[s]}
  <2>1. g[u] = f[u]
    BY <1>2
  <2>2. f[s] = h[<<pick[s], f[u]>>] /\ g[s] = h[<<pick[s], g[u]>>]
    BY <1>2 DEF FoldsTo
  <2> HIDE DEF u
  <2> QED BY <2>1, <2>2
<1> HIDE DEF T
<1>3. SUBSET S \subseteq T
  BY <1>1, <1>2, FoldInduction
<1>4. \A s \in SUBSET S : f[s] = g[s]
  BY <1>3 DEF T
<1>5. f = [s \in SUBSET S |-> f[s]] /\ g = [s \in SUBSET S |-> g[s]]
  BY DEF FoldsTo
<1> QED BY <1>4, <1>5

LEMMA FoldRestricts ==
  ASSUME NEW h, NEW base, NEW pick, NEW S, NEW g, FoldsTo(g, h, base, pick, S),
         NEW R \in SUBSET S
  PROVE  FoldsTo([s \in SUBSET R |-> g[s]], h, base, pick, R)
<1> DEFINE f == [s \in SUBSET R |-> g[s]]
<1>1. ASSUME NEW s \in SUBSET R
      PROVE  f[s] = IF s = {} THEN base ELSE h[<<pick[s], f[s \ {pick[s]}]>>]
  <2>1. s \in SUBSET S /\ f[s] = g[s]
    OBVIOUS
  <2>2. g[s] = IF s = {} THEN base ELSE h[<<pick[s], g[s \ {pick[s]}]>>]
    BY <2>1 DEF FoldsTo
  <2>3. \A x : f[s \ {x}] = g[s \ {x}]
    OBVIOUS
  <2> HIDE DEF f
  <2> QED BY <2>1, <2>2, <2>3
<1>2. f = [s \in SUBSET R |-> f[s]]
  OBVIOUS
<1> HIDE DEF f
<1>3. f = [s \in SUBSET R |-> IF s = {} THEN base ELSE h[<<pick[s], f[s \ {pick[s]}]>>]]
  BY <1>1, <1>2
<1>4. FoldsTo(f, h, base, pick, R)
  BY <1>3 DEF FoldsTo
<1> QED BY <1>4 DEF f

(* There is a fold: the recursion is well founded.                          *)
LEMMA FoldExists ==
  ASSUME NEW S, IsFiniteSet(S), NEW pick, Picks(pick, S), NEW h, NEW base
  PROVE  \E g : FoldsTo(g, h, base, pick, S)
<1> DEFINE T == {s \in SUBSET S : \E g : FoldsTo(g, h, base, pick, s)}
           V(s) == CHOOSE g : FoldsTo(g, h, base, pick, s)
<1>1. ASSUME NEW s \in SUBSET S, \A u \in SUBSET s : u # s => u \in T
      PROVE  \E g : FoldsTo(g, h, base, pick, s)
  <2> DEFINE g == [u \in SUBSET s |-> IF u = {} THEN base
                                      ELSE h[<<pick[u], V(u \ {pick[u]})[u \ {pick[u]}]>>]]
  <2>1. \A u \in SUBSET s : u # s => FoldsTo(V(u), h, base, pick, u)
    BY <1>1
  <2>2. \A u \in SUBSET s : u # {} => pick[u] \in u
    BY DEF Picks
  <2> HIDE DEF V
  <2>3. ASSUME NEW u \in SUBSET s, u # s
        PROVE  V(u)[u] = g[u]
    <3>1. FoldsTo(V(u), h, base, pick, u)
      BY <2>1, <2>3
    <3>2. CASE u = {}
      BY <3>1, <3>2 DEF FoldsTo
    <3>3. CASE u # {}
      <4> DEFINE x == pick[u]
                 w == u \ {x}
      <4>1. x \in u /\ w \in SUBSET s /\ w # s /\ w \in SUBSET u /\ w \in SUBSET S
        BY <2>2, <3>3
      <4>2. V(u)[u] = h[<<x, V(u)[w]>>]
        BY <3>1, <3>3 DEF FoldsTo
      <4>3. g[u] = h[<<x, V(w)[w]>>]
        BY <3>3
      <4> HIDE DEF x, w, g
      <4>4. FoldsTo([v \in SUBSET w |-> V(u)[v]], h, base, pick, w)
        BY <3>1, <4>1, FoldRestricts
      <4>5. FoldsTo(V(w), h, base, pick, w)
        BY <2>1, <4>1
      <4>6. [v \in SUBSET w |-> V(u)[v]] = V(w)
        <5>1. IsFiniteSet(w) /\ Picks(pick, w)
          BY <4>1, FS_Subset DEF Picks
        <5> QED BY <4>4, <4>5, <5>1, FoldUnique
      <4>7. V(u)[w] = V(w)[w]
        BY <4>6
      <4> QED BY <4>2, <4>3, <4>7
    <3> QED BY <3>2, <3>3
  <2>4. ASSUME NEW u \in SUBSET s
        PROVE  g[u] = IF u = {} THEN base ELSE h[<<pick[u], g[u \ {pick[u]}]>>]
    <3>1. CASE u = {}
      BY <3>1
    <3>2. CASE u # {}
      <4> DEFINE x == pick[u]
                 w == u \ {x}
      <4>1. w \in SUBSET s /\ w # s
        BY <2>2, <3>2
      <4>2. g[u] = h[<<x, V(w)[w]>>]
        BY <3>2
      <4> HIDE DEF x, w, g
      <4>3. V(w)[w] = g[w]
        BY <2>3, <4>1
      <4> QED BY <3>2, <4>2, <4>3 DEF x, w
    <3> QED BY <3>1, <3>2
  <2>5. g = [u \in SUBSET s |-> g[u]]
    OBVIOUS
  <2> HIDE DEF g
  <2>6. g = [u \in SUBSET s |-> IF u = {} THEN base ELSE h[<<pick[u], g[u \ {pick[u]}]>>]]
    BY <2>4, <2>5
  <2> QED BY <2>6 DEF FoldsTo
<1>2. \A s \in SUBSET S : (\A u \in SUBSET s : u # s => u \in T) => s \in T
  BY <1>1
<1> HIDE DEF T
<1>3. SUBSET S \subseteq T
  BY <1>2, SetInduction
<1>4. S \in T
  BY <1>3
<1> QED BY <1>4 DEF T

(* Its values, for a step that stays in A.                                  *)
LEMMA FoldTyped ==
  ASSUME NEW S, IsFiniteSet(S), NEW pick, Picks(pick, S), NEW A, NEW base \in A, NEW h,
         NEW g, FoldsTo(g, h, base, pick, S), \A x \in S, a \in A : h[<<x, a>>] \in A
  PROVE  \A s \in SUBSET S : g[s] \in A
<1> DEFINE T == {s \in SUBSET S : g[s] \in A}
<1>1. {} \in T
  BY DEF FoldsTo
<1>2. ASSUME NEW s \in SUBSET S, s # {}, s \ {pick[s]} \in T
      PROVE  s \in T
  <2> DEFINE u == s \ {pick[s]}
  <2>1. pick[s] \in S /\ g[u] \in A
    BY <1>2 DEF Picks
  <2>2. g[s] = h[<<pick[s], g[u]>>]
    BY <1>2 DEF FoldsTo
  <2> HIDE DEF u
  <2> QED BY <2>1, <2>2
<1> HIDE DEF T
<1>3. SUBSET S \subseteq T
  BY <1>1, <1>2, FoldInduction
<1> QED BY <1>3 DEF T

(* A fold from the left takes the numbers in their order.                   *)
TopOf(N) == [s \in SUBSET (1..N) |-> Top(s)]

LEMMA TopPicks ==
  ASSUME NEW N \in Nat
  PROVE  IsFiniteSet(1..N) /\ Picks(TopOf(N), 1..N)
BY FS_UpTo, Tops DEF Picks, TopOf

-----------------------------------------------------------------------------
(* The chart stream reads the event log of the registry.                    *)
Events == [generation : 1..MaxGeneration, bars : Payloads]

Recorded == {log[n] : n \in DOMAIN log}

Confirmed(c) == c # Unsent /\ c # Preview

(* What is true of a frame on its way: its bars are no newer than storage;  *)
(* where the browser drops a bar, it shows no older one; and a confirmed    *)
(* bar is no older than what the events up to the frame's revision write,   *)
(* as long as they are not handled.                                         *)
FrameSound(f) ==
  \A t \in Slots : f.bars[t] # Unsent =>
    /\ f.revision <= gen /\ f.bars[t] <= bars[t]
    /\ f.revision < stamp[t] => f.bars[t] <= shown[t]
    /\ f.bars[t] # Preview =>
         \A e \in Recorded :
           t \in Named(e) /\ cursor < e.generation /\ e.generation <= f.revision =>
             e.generation <= f.bars[t]

(* Once frame f is shown, the browser drops no newer bar of a later g.      *)
PairSound(f, g) ==
  \A t \in Slots :
    Confirmed(f.bars[t]) /\ g.bars[t] # Unsent /\ g.revision < f.revision =>
      g.bars[t] <= f.bars[t]

(* A frame ahead of the handled events is a checkpoint: nothing that was    *)
(* sent, and nothing in a frame f before it, is newer.                      *)
FrameAhead(g) ==
  \A t \in Slots :
    Confirmed(g.bars[t]) /\ cursor < g.revision /\ sent[t] # Unsent =>
      sent[t] <= g.bars[t]

PairAhead(f, g) ==
  \A t \in Slots :
    Confirmed(g.bars[t]) /\ cursor < g.revision /\ f.bars[t] # Unsent =>
      f.bars[t] <= g.bars[t]

QueueSound(q) ==
  /\ \A j \in DOMAIN q : FrameSound(q[j])
  /\ \A i, j \in DOMAIN q : i < j => PairSound(q[i], q[j])

QueueAhead(q) ==
  /\ \A j \in DOMAIN q : FrameAhead(q[j])
  /\ \A i, j \in DOMAIN q : i < j => PairAhead(q[i], q[j])

(* Revisions run from storage to the browser.                               *)
RevisionsSound ==
  /\ cursor <= gen
  /\ \A t \in Slots : /\ 1 <= bars[t] /\ bars[t] <= gen /\ stamp[t] <= gen
                      /\ sent[t] # Unsent => sent[t] <= bars[t]

(* An event says what it wrote; and what the browser shows is no older than *)
(* what the events up to its revision wrote, as long as they are not        *)
(* handled.                                                                 *)
EventSound(e) ==
  /\ e.generation <= gen
  /\ \A t \in Named(e) :
       /\ e.bars[t] = e.generation /\ e.generation <= bars[t]
       /\ cursor < e.generation /\ e.generation <= stamp[t] =>
            e.generation <= shown[t]

EventsSound == \A e \in Recorded : EventSound(e)

(* What a checkpoint has read is current as long as the generation is.      *)
TaskSound ==
  /\ task.generation <= gen
  /\ Current => \A t \in Slots : task.bars[t] \in {Unsent, bars[t]}

(* The inductive invariant of the stream.                                   *)
StreamInv ==
  /\ StreamTypeOK /\ NothingForgotten /\ SentWasShown
  /\ RevisionsSound /\ EventsSound /\ TaskSound
  /\ QueueSound(queue) /\ QueueAhead(queue)

LEMMA StreamNumbers ==
  ASSUME StreamTypeOK
  PROVE  /\ gen \in Nat /\ cursor \in Nat /\ task.generation \in Nat /\ task.bars \in Payloads
         /\ \A t \in Slots : /\ bars[t] \in Nat /\ shown[t] \in Nat
                             /\ stamp[t] \in Nat /\ reported[t] \in Nat
                             /\ sent[t] # Unsent => sent[t] \in Nat
         /\ \A e \in Recorded : e.generation \in 1..MaxGeneration /\ e.bars \in Payloads
         /\ \A j \in DOMAIN queue : queue[j] \in Frames
<1>1. MaxGeneration \in Nat /\ Contents \subseteq Nat
  BY ChartStreamAssumption DEF Contents
<1>2. gen \in Nat /\ cursor \in Nat /\ task.generation \in Nat /\ task.bars \in Payloads
  <2>1. gen \in 1..MaxGeneration /\ cursor \in 1..MaxGeneration
    BY DEF StreamTypeOK
  <2>2. task.generation \in Contents /\ task.bars \in Payloads
    BY DEF StreamTypeOK
  <2>3. 1..MaxGeneration \subseteq Nat
    OBVIOUS
  <2>4. gen \in Nat /\ cursor \in Nat
    BY <2>1, <2>3
  <2>5. task.generation \in Nat
    BY <1>1, <2>2
  <2> QED BY <2>2, <2>4, <2>5
<1>3. ASSUME NEW t \in Slots
      PROVE  /\ bars[t] \in Nat /\ shown[t] \in Nat /\ stamp[t] \in Nat /\ reported[t] \in Nat
             /\ sent[t] # Unsent => sent[t] \in Nat
  <2>1. /\ bars[t] \in Contents /\ shown[t] \in Contents /\ stamp[t] \in Contents
        /\ reported[t] \in Contents /\ sent[t] \in Contents \cup {Unsent}
    BY DEF StreamTypeOK, Payloads
  <2> QED BY <1>1, <2>1
<1>4. \A e \in Recorded : e.generation \in 1..MaxGeneration /\ e.bars \in Payloads
  <2>1. log \in Seq(Events)
    BY DEF StreamTypeOK, Events
  <2>2. \A n \in DOMAIN log : log[n] \in Events
    BY <2>1
  <2> QED BY <2>2 DEF Recorded, Events
<1>5. \A j \in DOMAIN queue : queue[j] \in Frames
  BY DEF StreamTypeOK
<1> QED BY <1>2, <1>3, <1>4, <1>5

LEMMA FrameNumbers ==
  ASSUME NEW f \in Frames
  PROVE  /\ f.revision \in Nat /\ f.bars \in Payloads
         /\ \A t \in Slots : f.bars[t] # Unsent => f.bars[t] \in Nat
<1>1. f.revision \in Contents /\ f.bars \in Payloads
  BY DEF Frames
<1>2. Contents \subseteq Nat
  BY ChartStreamAssumption DEF Contents
<1> QED BY <1>1, <1>2 DEF Payloads

LEMMA PrioritiesAreNumbers ==
  ASSUME NEW f \in Frames
  PROVE  FramePriority(f) \in Nat
BY DEF FramePriority, Frames

(* Of the frames of a queue, there is an oldest of the lowest priority.     *)
LEMMA LowestPriority ==
  ASSUME NEW q \in Seq(Frames), Len(q) > 0
  PROVE  \E i \in DOMAIN q :
           /\ \A j \in DOMAIN q : FramePriority(q[i]) <= FramePriority(q[j])
           /\ \A j \in 1..(i - 1) : FramePriority(q[j]) > FramePriority(q[i])
<1> DEFINE Pri(i) == FramePriority(q[i])
<1>1. DOMAIN q = 1..Len(q) /\ Len(q) \in Nat /\ 1 \in DOMAIN q
  OBVIOUS
<1>2. \A i \in DOMAIN q : Pri(i) \in Nat
  BY <1>1, PrioritiesAreNumbers
<1> HIDE DEF Pri
<1>3. PICK m \in {Pri(i) : i \in DOMAIN q} : \A n \in {Pri(i) : i \in DOMAIN q} : m <= n
  <2> DEFINE M == {Pri(i) : i \in DOMAIN q}
  <2>1. M \subseteq Nat /\ M # {}
    BY <1>1, <1>2
  <2> HIDE DEF M
  <2>2. \E m \in M : \A n \in M : m <= n
    BY <2>1, Least
  <2> QED BY <2>2 DEF M
<1>4. PICK i \in {j \in DOMAIN q : Pri(j) = m} : \A k \in {j \in DOMAIN q : Pri(j) = m} : i <= k
  <2> DEFINE M == {j \in DOMAIN q : Pri(j) = m}
  <2>1. M \subseteq Nat /\ M # {}
    BY <1>1, <1>3
  <2> HIDE DEF M
  <2>2. \E j \in M : \A n \in M : j <= n
    BY <2>1, Least
  <2> QED BY <2>2 DEF M
<1>5. \A j \in DOMAIN q : Pri(i) <= Pri(j)
  BY <1>3, <1>4
<1>6. ASSUME NEW j \in 1..(i - 1) PROVE Pri(j) > Pri(i)
  <2>1. i \in 1..Len(q)
    BY <1>1, <1>4
  <2>2. j \in DOMAIN q /\ ~(i <= j)
    BY <1>1, <2>1
  <2>3. Pri(j) # m
    BY <1>4, <2>2
  <2> QED BY <1>2, <1>4, <1>5, <2>2, <2>3
<1> QED BY <1>4, <1>5, <1>6 DEF Pri

LEMMA Removes ==
  ASSUME NEW F, NEW q \in Seq(F), NEW i \in DOMAIN q
  PROVE  RemoveAt(q, i) \in Seq(F) /\ Len(RemoveAt(q, i)) = Len(q) - 1
<1>1. i \in 1..Len(q) /\ Len(q) \in Nat
  OBVIOUS
<1> DEFINE a == SubSeq(q, 1, i - 1)
           b == SubSeq(q, i + 1, Len(q))
<1>2. a \in Seq(F) /\ Len(a) = i - 1
  BY <1>1
<1>3. b \in Seq(F) /\ Len(b) = Len(q) - i
  BY <1>1
<1>4. RemoveAt(q, i) = a \o b
  BY DEF RemoveAt
<1> HIDE DEF a, b
<1> QED BY <1>1, <1>2, <1>3, <1>4

(* Some frames of q, in their order.                                        *)
Thinned(p, q) ==
  /\ \A i \in DOMAIN p : \E k \in DOMAIN q : p[i] = q[k]
  /\ \A i, j \in DOMAIN p : i < j =>
       \E k, l \in DOMAIN q : k < l /\ p[i] = q[k] /\ p[j] = q[l]

LEMMA ThinnedKeeps ==
  ASSUME NEW p, NEW q, Thinned(p, q)
  PROVE  /\ QueueSound(q) => QueueSound(p)
         /\ QueueAhead(q) => QueueAhead(p)
<1>1. ASSUME QueueSound(q) PROVE QueueSound(p)
  <2>1. \A i \in DOMAIN p : FrameSound(p[i])
    BY <1>1 DEF Thinned, QueueSound
  <2>2. ASSUME NEW i \in DOMAIN p, NEW j \in DOMAIN p, i < j
        PROVE  PairSound(p[i], p[j])
    <3>1. PICK k \in DOMAIN q, l \in DOMAIN q : k < l /\ p[i] = q[k] /\ p[j] = q[l]
      BY <2>2 DEF Thinned
    <3>2. PairSound(q[k], q[l])
      BY <1>1, <3>1 DEF QueueSound
    <3> QED BY <3>1, <3>2
  <2> QED BY <2>1, <2>2 DEF QueueSound
<1>2. ASSUME QueueAhead(q) PROVE QueueAhead(p)
  <2>1. \A i \in DOMAIN p : FrameAhead(p[i])
    BY <1>2 DEF Thinned, QueueAhead
  <2>2. ASSUME NEW i \in DOMAIN p, NEW j \in DOMAIN p, i < j
        PROVE  PairAhead(p[i], p[j])
    <3>1. PICK k \in DOMAIN q, l \in DOMAIN q : k < l /\ p[i] = q[k] /\ p[j] = q[l]
      BY <2>2 DEF Thinned
    <3>2. PairAhead(q[k], q[l])
      BY <1>2, <3>1 DEF QueueAhead
    <3> QED BY <3>1, <3>2
  <2> QED BY <2>1, <2>2 DEF QueueAhead
<1> QED BY <1>1, <1>2

LEMMA RemovalThins ==
  ASSUME NEW F, NEW q \in Seq(F), NEW n \in DOMAIN q
  PROVE  Thinned(RemoveAt(q, n), q)
<1> DEFINE p == RemoveAt(q, n)
           a == SubSeq(q, 1, n - 1)
           b == SubSeq(q, n + 1, Len(q))
           h(i) == IF i < n THEN i ELSE i + 1
<1>1. n \in 1..Len(q) /\ Len(q) \in Nat /\ DOMAIN q = 1..Len(q)
  OBVIOUS
<1>2. /\ a \in Seq(F) /\ Len(a) = n - 1
      /\ \A i \in 1..(n - 1) : a[i] = q[i]
  BY <1>1
<1>3. /\ b \in Seq(F) /\ Len(b) = Len(q) - n
      /\ \A i \in 1..(Len(q) - n) : b[i] = q[n + i]
  BY <1>1
<1>4. p = a \o b
  BY DEF RemoveAt
<1> HIDE DEF a, b, p
<1>5. p \in Seq(F) /\ Len(p) = Len(q) - 1 /\ DOMAIN p = 1..(Len(q) - 1)
  <2>0. \A x, y \in Seq(F) : x \o y \in Seq(F) /\ Len(x \o y) = Len(x) + Len(y)
    OBVIOUS
  <2>1. p \in Seq(F) /\ Len(p) = Len(a) + Len(b)
    BY <1>2, <1>3, <1>4, <2>0
  <2>2. Len(p) = Len(q) - 1
    BY <1>1, <1>2, <1>3, <2>1
  <2>3. DOMAIN p = 1..Len(p)
    BY <2>1
  <2> QED BY <2>1, <2>2, <2>3
<1>6. ASSUME NEW i \in DOMAIN p
      PROVE  i \in Nat /\ h(i) \in DOMAIN q /\ p[i] = q[h(i)]
  <2>1. i \in 1..(Len(q) - 1)
    BY <1>5
  <2>2. i \in Nat /\ h(i) \in DOMAIN q
    BY <1>1, <2>1
  <2>3. CASE i < n
    <3>1. p[i] = a[i] /\ i \in 1..(n - 1)
      BY <1>1, <1>2, <1>3, <1>4, <2>1, <2>3
    <3> QED BY <1>2, <2>2, <2>3, <3>1
  <2>4. CASE ~(i < n)
    <3>1. p[i] = b[i - (n - 1)] /\ i - (n - 1) \in 1..(Len(q) - n)
      BY <1>1, <1>2, <1>3, <1>4, <2>1, <2>4
    <3>2. b[i - (n - 1)] = q[n + (i - (n - 1))] /\ n + (i - (n - 1)) = i + 1
      BY <1>1, <1>3, <2>2, <3>1
    <3> QED BY <2>2, <2>4, <3>1, <3>2
  <2> QED BY <2>2, <2>3, <2>4
<1>7. \A i, j \in DOMAIN p : i < j => h(i) < h(j)
  BY <1>1, <1>6
<1> HIDE DEF h
<1>8. Thinned(p, q)
  BY <1>6, <1>7 DEF Thinned
<1> QED BY <1>8 DEF p

(* A published frame fits into the queue.                                   *)
LEMMA PublishFits ==
  ASSUME NEW q \in Seq(Frames), Len(q) <= QueueSize,
         NEW f \in Frames
  PROVE  Publish(q, f) \in Seq(Frames) /\ Len(Publish(q, f)) <= QueueSize
<1> DEFINE p == Append(q, f)
<1>1. QueueSize \in Nat \ {0}
  BY ChartStreamAssumption
<1>2. p \in Seq(Frames) /\ Len(p) = Len(q) + 1 /\ Len(q) \in Nat /\ Len(p) > 0
  OBVIOUS
<1>3. Publish(q, f) = Compact(p)
  BY DEF Publish
<1> HIDE DEF p
<1>4. CASE Len(p) <= QueueSize
  BY <1>2, <1>3, <1>4 DEF Compact
<1>5. CASE ~(Len(p) <= QueueSize)
  <2> DEFINE first ==
        CHOOSE i \in DOMAIN p :
          /\ \A j \in DOMAIN p : FramePriority(p[i]) <= FramePriority(p[j])
          /\ \A j \in 1..(i - 1) : FramePriority(p[j]) > FramePriority(p[i])
  <2>1. first \in DOMAIN p
    BY <1>2, LowestPriority
  <2>2. Compact(p) = RemoveAt(p, first)
    BY <1>5 DEF Compact
  <2> HIDE DEF first
  <2> QED BY <1>1, <1>2, <1>3, <2>1, <2>2, Removes
<1> QED BY <1>4, <1>5

(* A frame is queued; the order of the others stays.                        *)
LEMMA PublishKeeps ==
  ASSUME NEW q \in Seq(Frames), Len(q) <= QueueSize,
         NEW f \in Frames
  PROVE  /\ QueueSound(q) /\ FrameSound(f) /\ (\A i \in DOMAIN q : PairSound(q[i], f)) =>
              QueueSound(Publish(q, f))
         /\ QueueAhead(q) /\ FrameAhead(f) /\ (\A i \in DOMAIN q : PairAhead(q[i], f)) =>
              QueueAhead(Publish(q, f))
<1> DEFINE p == Append(q, f)
<1>1. /\ p \in Seq(Frames) /\ Len(p) = Len(q) + 1 /\ Len(q) \in Nat /\ Len(p) > 0
      /\ DOMAIN p = 1..(Len(q) + 1) /\ DOMAIN q = 1..Len(q)
      /\ \A i \in DOMAIN q : p[i] = q[i]
      /\ p[Len(q) + 1] = f
  OBVIOUS
<1>2. Publish(q, f) = Compact(p)
  BY DEF Publish
<1> HIDE DEF p
<1>3. \A j \in DOMAIN p : (j \in DOMAIN q /\ p[j] = q[j]) \/ (j = Len(q) + 1 /\ p[j] = f)
  <2>1. \A n \in Nat : \A j \in 1..(n + 1) : j \in 1..n \/ j = n + 1
    OBVIOUS
  <2>2. \A j \in DOMAIN p : j \in DOMAIN q \/ j = Len(q) + 1
    BY <1>1, <2>1
  <2>3. \A j \in DOMAIN p : j \in DOMAIN q => p[j] = q[j]
    BY <1>1
  <2>4. \A j \in DOMAIN p : j = Len(q) + 1 => p[j] = f
    BY <1>1
  <2> TAKE j \in DOMAIN p
  <2>5. CASE j \in DOMAIN q
    BY <2>3, <2>5, Zenon
  <2>6. CASE j = Len(q) + 1
    BY <2>4, <2>6, Zenon
  <2> QED BY <2>2, <2>5, <2>6, Zenon
<1>4. \A i, j \in DOMAIN p : i < j => i \in DOMAIN q
  BY <1>1
<1>5. ASSUME QueueSound(q), FrameSound(f), \A i \in DOMAIN q : PairSound(q[i], f)
      PROVE  QueueSound(p)
  BY <1>1, <1>3, <1>4, <1>5 DEF QueueSound
<1>6. ASSUME QueueAhead(q), FrameAhead(f), \A i \in DOMAIN q : PairAhead(q[i], f)
      PROVE  QueueAhead(p)
  BY <1>1, <1>3, <1>4, <1>6 DEF QueueAhead
<1>7. (QueueSound(p) => QueueSound(Compact(p))) /\ (QueueAhead(p) => QueueAhead(Compact(p)))
  <2>1. CASE Len(p) <= QueueSize
    BY <2>1 DEF Compact
  <2>2. CASE ~(Len(p) <= QueueSize)
    <3> DEFINE first ==
          CHOOSE i \in DOMAIN p :
            /\ \A j \in DOMAIN p : FramePriority(p[i]) <= FramePriority(p[j])
            /\ \A j \in 1..(i - 1) : FramePriority(p[j]) > FramePriority(p[i])
    <3>1. first \in DOMAIN p
      BY <1>1, LowestPriority
    <3>2. Compact(p) = RemoveAt(p, first)
      BY <2>2 DEF Compact
    <3> HIDE DEF first
    <3>3. Thinned(RemoveAt(p, first), p)
      BY <1>1, <3>1, RemovalThins
    <3> QED BY <3>2, <3>3, ThinnedKeeps
  <2> QED BY <2>1, <2>2
<1> QED BY <1>2, <1>5, <1>6, <1>7

LEMMA PublishBarsFits ==
  ASSUME StreamTypeOK,
         NEW q \in Seq(Frames), Len(q) <= QueueSize, NEW iv,
         NEW content \in Payloads, NEW recovery \in BOOLEAN,
         NEW revision \in Contents
  PROVE  LET p == PublishBars(q, iv, content, recovery, revision)
         IN  p \in Seq(Frames) /\ Len(p) <= QueueSize
<1> DEFINE ac == Accepted(iv, content)
<1>1. ac \in Payloads
  <2>1. sent \in Payloads
    BY DEF StreamTypeOK
  <2> QED BY <2>1 DEF Accepted, Payloads, Resolve
<1> HIDE DEF ac
<1>2. BarsFrame(ac, recovery, revision) \in Frames
  BY <1>1 DEF BarsFrame, Frames
<1> QED BY <1>2, PublishFits DEF PublishBars, ac

(* What PublishBars does with the frame of a content.                       *)
FramePublished(q, iv, content, recovery, revision) ==
  LET g == BarsFrame(Accepted(iv, content), recovery, revision)
      p == PublishBars(q, iv, content, recovery, revision)
  IN  /\ g \in Frames /\ g.revision = revision
      /\ \A t \in Slots : g.bars[t] # Unsent =>
           \/ g.bars[t] = content[t]
           \/ content[t] = Preview /\ sent[t] # Unsent /\ g.bars[t] = sent[t]
      /\ QueueSound(q) /\ FrameSound(g) /\ (\A i \in DOMAIN q : PairSound(q[i], g)) =>
           QueueSound(p)
      /\ QueueAhead(q) /\ FrameAhead(g) /\ (\A i \in DOMAIN q : PairAhead(q[i], g)) =>
           QueueAhead(p)

(* The bars of a published batch, if they fit to what is queued.            *)
LEMMA PublishBarsKeeps ==
  ASSUME StreamTypeOK,
         NEW q \in Seq(Frames), Len(q) <= QueueSize, NEW iv,
         NEW content \in Payloads, NEW recovery \in BOOLEAN,
         NEW revision \in Contents
  PROVE  FramePublished(q, iv, content, recovery, revision)
<1> DEFINE ac == Accepted(iv, content)
           g == BarsFrame(ac, recovery, revision)
           p == PublishBars(q, iv, content, recovery, revision)
<1>1. /\ ac \in Payloads
      /\ \A t \in Slots : ac[t] # Unsent =>
           \/ ac[t] = content[t]
           \/ content[t] = Preview /\ sent[t] # Unsent /\ ac[t] = sent[t]
  <2>1. sent \in Payloads
    BY DEF StreamTypeOK
  <2> QED BY <2>1 DEF Accepted, Payloads, Resolve
<1>2. p = q \/ p = Publish(q, g)
  BY DEF PublishBars
<1> HIDE DEF ac, p
<1>3. g \in Frames /\ g.revision = revision /\ g.bars = ac
  BY <1>1 DEF BarsFrame, Frames
<1> HIDE DEF g
<1>4. /\ QueueSound(q) /\ FrameSound(g) /\ (\A i \in DOMAIN q : PairSound(q[i], g)) =>
           QueueSound(p)
      /\ QueueAhead(q) /\ FrameAhead(g) /\ (\A i \in DOMAIN q : PairAhead(q[i], g)) =>
           QueueAhead(p)
  BY <1>2, <1>3, PublishKeeps
<1> QED BY <1>1, <1>3, <1>4 DEF g, ac, p, FramePublished

(* After the events s of the log: what is invalid, what is queued, and what *)
(* the first forced checkpoint starts with.                                 *)
HandledTo(s, acc) ==
  /\ acc.queue \in Seq(Frames) /\ Len(acc.queue) <= QueueSize
  /\ QueueSound(acc.queue)
  /\ invalid \subseteq acc.invalid /\ acc.invalid \subseteq Slots
  /\ \A i \in s \cap NewEvents :
       Named(log[i]) \subseteq acc.invalid /\ acc.first \in SUBSET Slots
  /\ acc.first \in {Unsent} \cup SUBSET Slots

(* The frame of an event that is not handled yet.                           *)
LEMMA EventFrame ==
  ASSUME StreamInv, NEW q \in Seq(Frames), Len(q) <= QueueSize, QueueSound(q),
         NEW iv, NEW e \in Recorded, cursor < e.generation
  PROVE  QueueSound(PublishBars(q, iv, e.bars, FALSE, e.generation))
<1> DEFINE g == BarsFrame(Accepted(iv, e.bars), FALSE, e.generation)
<1>1. /\ e.generation \in 1..MaxGeneration /\ e.bars \in Payloads
      /\ e.generation \in Contents /\ e.generation \in Nat /\ e.generation > 0
      /\ \A d \in Recorded : d.generation \in Nat
  <2>1. \A d \in Recorded : d.generation \in 1..MaxGeneration /\ d.bars \in Payloads
    BY StreamNumbers DEF StreamInv
  <2>2. MaxGeneration \in Nat
    BY ChartStreamAssumption
  <2> QED BY <2>1, <2>2 DEF Contents
<1>2. /\ g \in Frames /\ g.revision = e.generation
      /\ \A t \in Slots : g.bars[t] # Unsent =>
           \/ g.bars[t] = e.bars[t]
           \/ e.bars[t] = Preview /\ sent[t] # Unsent /\ g.bars[t] = sent[t]
      /\ FrameSound(g) /\ (\A i \in DOMAIN q : PairSound(q[i], g)) =>
           QueueSound(PublishBars(q, iv, e.bars, FALSE, e.generation))
  <2>1. StreamTypeOK /\ e.bars \in Payloads /\ e.generation \in Contents /\ FALSE \in BOOLEAN
    BY <1>1 DEF StreamInv
  <2>2. FramePublished(q, iv, e.bars, FALSE, e.generation)
    BY <2>1, PublishBarsKeeps
  <2> QED BY <2>2 DEF FramePublished
<1>3. EventSound(e)
  BY DEF StreamInv, EventsSound
<1>4. ASSUME NEW t \in Slots, g.bars[t] # Unsent
      PROVE  /\ g.bars[t] = e.generation /\ t \in Named(e)
             /\ e.generation <= gen /\ e.generation <= bars[t]
             /\ e.generation <= stamp[t] => e.generation <= shown[t]
  <2>1. e.bars[t] # Unsent
    <3>1. Unsent # Preview
      BY UnsentIsNoContent, ChartStreamAssumption DEF Contents, Preview
    <3> QED BY <1>2, <1>4, <3>1
  <2>2. t \in Named(e)
    BY <2>1 DEF Named
  <2>3. /\ e.bars[t] = e.generation /\ e.generation <= bars[t] /\ e.generation <= gen
        /\ e.generation <= stamp[t] => e.generation <= shown[t]
    BY <1>3, <2>2 DEF EventSound
  <2>4. e.bars[t] # Preview
    BY <1>1, <2>3 DEF Preview
  <2> QED BY <1>2, <1>4, <2>2, <2>3, <2>4
<1> HIDE DEF g
<1>5. FrameSound(g)
  <2>1. \A t \in Slots : stamp[t] \in Nat
    BY StreamNumbers DEF StreamInv
  <2> QED BY <1>1, <1>2, <1>4, <2>1 DEF FrameSound
<1>6. ASSUME NEW i \in DOMAIN q PROVE PairSound(q[i], g)
  <2>1. FrameSound(q[i]) /\ q[i] \in Frames
    BY DEF QueueSound
  <2>2. q[i].revision \in Nat
    BY <2>1, FrameNumbers
  <2>3. ASSUME NEW t \in Slots, Confirmed(q[i].bars[t]), g.bars[t] # Unsent,
               g.revision < q[i].revision
        PROVE  g.bars[t] <= q[i].bars[t]
    <3>1. g.bars[t] = e.generation /\ t \in Named(e)
      BY <1>4, <2>3
    <3>2. e.generation <= q[i].revision
      BY <1>1, <1>2, <2>2, <2>3
    <3> QED BY <2>1, <2>3, <3>1, <3>2 DEF FrameSound, Confirmed
  <2> QED BY <2>3 DEF PairSound
<1> QED BY <1>2, <1>5, <1>6

LEMMA HandlesOne ==
  ASSUME StreamInv, NEW i \in DOMAIN log, NEW s, NEW acc,
         HandledTo(s, acc)
  PROVE  HandledTo(s \cup {i}, Handled(acc, log[i]))
<1> DEFINE e == log[i]
           iv == Invalidated(acc.invalid, e)
           h == Handled(acc, e)
<1>1. /\ e.generation \in 1..MaxGeneration /\ e.bars \in Payloads
      /\ cursor \in 1..MaxGeneration /\ e.generation \in Contents
      /\ MaxGeneration \in Nat /\ e \in Recorded
  <2>1. log \in Seq([generation : 1..MaxGeneration, bars : Payloads])
        /\ cursor \in 1..MaxGeneration
    BY DEF StreamInv, StreamTypeOK
  <2>2. e \in [generation : 1..MaxGeneration, bars : Payloads]
    <3> DEFINE E == [generation : 1..MaxGeneration, bars : Payloads]
    <3>1. log \in Seq(E)
      BY <2>1
    <3> HIDE DEF E
    <3>2. log[i] \in E
      BY <3>1
    <3> QED BY <3>2 DEF E
  <2>3. MaxGeneration \in Nat /\ e \in Recorded
    BY ChartStreamAssumption DEF Recorded
  <2> HIDE DEF e
  <2>4. e.generation \in 1..MaxGeneration /\ e.bars \in Payloads
    BY <2>2
  <2> QED BY <2>1, <2>3, <2>4 DEF Contents
<1>2. CASE e.generation <= cursor
  <2>1. h = acc
    BY <1>2 DEF Handled
  <2>2. i \notin NewEvents
    BY <1>1, <1>2 DEF NewEvents
  <2> QED BY <2>1, <2>2 DEF HandledTo
<1>3. CASE ~(e.generation <= cursor)
  <2>1. h = [invalid |-> iv,
             queue |-> IF Named(e) = {} THEN acc.queue
                       ELSE PublishBars(acc.queue, iv, e.bars, FALSE, e.generation),
             first |-> IF acc.first = Unsent THEN iv ELSE acc.first]
    BY <1>3 DEF Handled
  <2>2. iv = acc.invalid \cup Named(e) /\ Named(e) \subseteq Slots
    BY DEF Invalidated, Named
  <2> HIDE DEF iv, h
  <2>3. h.queue \in Seq(Frames) /\ Len(h.queue) <= QueueSize /\ QueueSound(h.queue)
    <3> DEFINE p == PublishBars(acc.queue, iv, e.bars, FALSE, e.generation)
    <3>1. acc.queue \in Seq(Frames) /\ Len(acc.queue) <= QueueSize /\ QueueSound(acc.queue)
      BY DEF HandledTo
    <3>2. p \in Seq(Frames) /\ Len(p) <= QueueSize /\ QueueSound(p)
      <4> HIDE DEF e
      <4>1. cursor < e.generation
        BY <1>1, <1>3
      <4> QED BY <1>1, <3>1, <4>1, PublishBarsFits, EventFrame DEF StreamInv
    <3>3. h.queue = IF Named(e) = {} THEN acc.queue ELSE p
      BY <2>1
    <3> HIDE DEF p
    <3> QED BY <3>1, <3>2, <3>3
  <2>4. h.invalid = acc.invalid \cup Named(e)
    BY <2>1, <2>2
  <2>5. h.first = IF acc.first = Unsent THEN iv ELSE acc.first
    BY <2>1
  <2>6. h.first \in SUBSET Slots
    BY <2>2, <2>5 DEF HandledTo
  <2> HIDE DEF e
  <2>7. \A j \in s \cap NewEvents : Named(log[j]) \subseteq h.invalid
    BY <2>4 DEF HandledTo
  <2>8. Named(log[i]) \subseteq h.invalid
    BY <2>4 DEF e
  <2>9. HandledTo(s \cup {i}, h)
    BY <2>2, <2>3, <2>4, <2>6, <2>7, <2>8 DEF HandledTo
  <2> QED BY <2>9 DEF h, e
<1> QED BY <1>2, <1>3

(* Accumulators the fold can reach, whatever it has handled.                *)
Accumulators ==
  {acc \in [invalid : SUBSET Slots, queue : Seq(Frames),
            first : {Unsent} \cup SUBSET Slots] : HandledTo({}, acc)}

LEMMA AccumulatorsKept ==
  ASSUME StreamInv, NEW i \in DOMAIN log, NEW acc \in Accumulators
  PROVE  Handled(acc, log[i]) \in Accumulators
<1> DEFINE h == Handled(acc, log[i])
<1>1. HandledTo({} \cup {i}, h)
  BY HandlesOne DEF Accumulators
<1>2. HandledTo({}, h)
  BY <1>1 DEF HandledTo
<1>3. \/ h = acc
      \/ h = [invalid |-> h.invalid, queue |-> h.queue, first |-> h.first]
  BY DEF Handled
<1> HIDE DEF h
<1>4. h \in [invalid : SUBSET Slots, queue : Seq(Frames),
             first : {Unsent} \cup SUBSET Slots]
  BY <1>2, <1>3 DEF HandledTo, Accumulators
<1>5. h \in Accumulators
  BY <1>2, <1>4 DEF Accumulators
<1> QED BY <1>5 DEF h

LEMMA HandlesAll ==
  ASSUME StreamInv
  PROVE  HandledTo(DOMAIN log, AllHandled)
<1> DEFINE N == Len(log)
           S == 1..N
           pick == TopOf(N)
           base == [invalid |-> invalid, queue |-> queue, first |-> Unsent]
           Folds(f) == f = [s \in SUBSET (DOMAIN log) |->
                              IF s = {} THEN base
                              ELSE Handled(f[s \ {Top(s)}], log[Top(s)])]
           f0 == CHOOSE f : Folds(f)
<1>1. DOMAIN log = S /\ N \in Nat
  BY DEF StreamInv, StreamTypeOK
<1>2. AllHandled = f0[DOMAIN log]
  BY DEF AllHandled, FoldLeft, MapThenFoldSet, Top, Max
<1>3. IsFiniteSet(S) /\ Picks(pick, S) /\ \A s \in SUBSET S : pick[s] = Top(s)
  <2>1. \A s \in SUBSET S : pick[s] = Top(s)
    BY DEF TopOf
  <2> HIDE DEF N
  <2> QED BY <1>1, <2>1, TopPicks
<1>4. HandledTo({}, base) /\ base \in Accumulators
  BY DEF HandledTo, Accumulators, StreamInv, StreamTypeOK
<1>5. \E f : Folds(f)
  <2> DEFINE h == [p \in S \X Accumulators |-> Handled(p[2], log[p[1]])]
  <2>1. \A x \in S, a \in Accumulators :
          h[<<x, a>>] = Handled(a, log[x]) /\ h[<<x, a>>] \in Accumulators
    <3> TAKE x \in S, a \in Accumulators
    <3>1. <<x, a>> \in S \X Accumulators /\ x \in DOMAIN log
      BY <1>1
    <3>2. h[<<x, a>>] = Handled(a, log[x])
      BY <3>1
    <3> HIDE DEF h
    <3> QED BY <3>1, <3>2, AccumulatorsKept
  <2> HIDE DEF h, base, S, pick
  <2>2. PICK g : FoldsTo(g, h, base, pick, S)
    BY <1>3, FoldExists
  <2>3. \A s \in SUBSET S : g[s] \in Accumulators
    BY <1>3, <1>4, <2>1, <2>2, FoldTyped
  <2>4. ASSUME NEW s \in SUBSET S
        PROVE  g[s] = IF s = {} THEN base
                      ELSE Handled(g[s \ {Top(s)}], log[Top(s)])
    <3>1. CASE s = {}
      BY <2>2, <3>1 DEF FoldsTo
    <3>2. CASE s # {}
      <4> DEFINE x == pick[s]
      <4>1. x \in s /\ x = Top(s)
        BY <1>3, <3>2 DEF Picks
      <4>2. g[s] = h[<<x, g[s \ {x}]>>]
        BY <2>2, <3>2 DEF FoldsTo
      <4> HIDE DEF x
      <4>3. x \in S /\ s \ {x} \in SUBSET S
        BY <4>1
      <4>4. g[s] = Handled(g[s \ {x}], log[x])
        BY <2>1, <2>3, <4>2, <4>3
      <4> QED BY <3>2, <4>1, <4>4
    <3> QED BY <3>1, <3>2
  <2>5. g = [s \in SUBSET S |-> g[s]]
    BY <2>2 DEF FoldsTo
  <2>6. g = [s \in SUBSET S |->
               IF s = {} THEN base ELSE Handled(g[s \ {Top(s)}], log[Top(s)])]
    BY <2>4, <2>5
  <2> QED BY <1>1, <2>6
<1>6. Folds(f0)
  <2> HIDE DEF Folds
  <2> QED BY <1>5
<1>7. \A s \in SUBSET S : f0[s] = IF s = {} THEN base
                               ELSE Handled(f0[s \ {Top(s)}], log[Top(s)])
  <2> HIDE DEF f0, base, S
  <2> QED BY <1>1, <1>6
<1> HIDE DEF f0, base, pick, N
<1> DEFINE T == {s \in SUBSET S : HandledTo(s, f0[s])}
<1>8. {} \in T
  BY <1>4, <1>7
<1>9. ASSUME NEW s \in SUBSET S, s # {}, s \ {pick[s]} \in T
      PROVE  s \in T
  <2> DEFINE x == pick[s]
             u == s \ {x}
  <2>1. x \in s /\ x = Top(s)
    BY <1>3, <1>9 DEF Picks
  <2>2. f0[s] = Handled(f0[u], log[x])
    BY <1>7, <1>9, <2>1
  <2>3. HandledTo(u, f0[u])
    BY <1>9
  <2> HIDE DEF x
  <2>4. x \in DOMAIN log /\ u \cup {x} = s
    BY <1>1, <2>1
  <2> HIDE DEF u
  <2>5. HandledTo(u \cup {x}, Handled(f0[u], log[x]))
    BY <2>3, <2>4, HandlesOne
  <2> QED BY <2>2, <2>4, <2>5
<1> HIDE DEF T, S
<1>10. SUBSET S \subseteq T
  BY <1>3, <1>8, <1>9, FoldInduction
<1>11. S \in T
  BY <1>10
<1>12. HandledTo(S, f0[S])
  BY <1>11 DEF T
<1> QED BY <1>1, <1>2, <1>12

(* The type invariant and what every step keeps.                            *)
LEMMA StreamStarts ==
  ASSUME StreamInit
  PROVE  StreamInv
<1>1. /\ Newest \in Nat \ {0} /\ MaxGeneration \in Nat \ {0} /\ QueueSize \in Nat \ {0}
      /\ LogSize \in Nat \ {0}
  BY ChartStreamAssumption
<1>2. 1 \in 1..MaxGeneration /\ 0 \in Contents /\ 1 \in Contents
  BY <1>1 DEF Contents
<1>3. NoBars \in Payloads
  BY DEF NoBars, Payloads
<1>4. StreamTypeOK
  <2>1. log \in Seq([generation : 1..MaxGeneration, bars : Payloads]) /\ Len(log) <= LogSize
    BY <1>1 DEF StreamInit
  <2>2. queue \in Seq(Frames) /\ Len(queue) <= QueueSize
    BY <1>1 DEF StreamInit
  <2>3. task \in [stage : {"none", "loading", "loaded", "conflict", "failed"},
                  required : SUBSET Slots, generation : Contents,
                  bars : Payloads]
    BY <1>2, <1>3 DEF StreamInit, Idle
  <2> QED BY <1>2, <1>3, <2>1, <2>2, <2>3 DEF StreamInit, StreamTypeOK
<1>5. NothingForgotten
  BY DEF StreamInit, NothingForgotten
<1>6. SentWasShown
  BY DEF StreamInit, SentWasShown, NoBars
<1>7. RevisionsSound
  BY DEF StreamInit, RevisionsSound, NoBars
<1>8. EventsSound
  <2>1. Recorded = {}
    BY DEF StreamInit, Recorded
  <2> QED BY <2>1 DEF EventsSound
<1>9. TaskSound
  BY DEF StreamInit, TaskSound, Current, Idle
<1>10. QueueSound(queue) /\ QueueAhead(queue)
  BY DEF StreamInit, QueueSound, QueueAhead
<1> QED BY <1>4, <1>5, <1>6, <1>7, <1>8, <1>9, <1>10 DEF StreamInv

Tasks == [stage : {"none", "loading", "loaded", "conflict", "failed"},
          required : SUBSET Slots, generation : Contents, bars : Payloads]

LEMMA StartsTyped ==
  /\ Idle \in Tasks
  /\ \A iv \in SUBSET Slots : StartCheckpoint(iv) => task' \in Tasks
  /\ Idle.generation = 0 /\ Idle.stage = "none"
  /\ \A iv \in SUBSET Slots : StartCheckpoint(iv) =>
       task'.generation = 0 /\ task'.stage = "loading"
<1>1. 0 \in Contents
  BY ChartStreamAssumption DEF Contents
<1>2. NoBars \in Payloads
  BY DEF NoBars, Payloads
<1>3. Idle \in Tasks
  BY <1>1, <1>2 DEF Idle, Tasks
<1>4. ASSUME NEW iv \in SUBSET Slots, StartCheckpoint(iv)
      PROVE  task' \in Tasks
  BY <1>3, <1>4 DEF StartCheckpoint, Tasks
<1>5. Idle.generation = 0 /\ Idle.stage = "none"
  BY DEF Idle
<1>6. ASSUME NEW iv \in SUBSET Slots, StartCheckpoint(iv)
      PROVE  task'.generation = 0 /\ task'.stage = "loading"
  BY <1>6 DEF StartCheckpoint, Idle
<1> QED BY <1>3, <1>4, <1>5, <1>6

(* A task that starts, or is over, has read nothing.                        *)
LEMMA TaskUnread ==
  ASSUME StreamTypeOK', \/ task' = Idle
                        \/ \E iv \in SUBSET Slots : StartCheckpoint(iv)
  PROVE  TaskSound'
<1>1. task'.generation = 0 /\ task'.stage # "loaded"
  BY StartsTyped
<1>2. gen' \in Nat
  BY ChartStreamAssumption DEF StreamTypeOK
<1> QED BY <1>1, <1>2 DEF TaskSound, Current

(* What writers and the checkpoint task leave alone.                        *)
StreamKeeps ==
  /\ UNCHANGED <<shown, reported, sent>>
  /\ invalid \subseteq invalid' /\ outrun \subseteq outrun'

(* A step that touches neither storage nor the tracker nor the browser.     *)
FrameKeeps == UNCHANGED <<bars, gen, log, cursor, sent, shown, stamp>>

LEMMA FramesKept ==
  ASSUME StreamInv, FrameKeeps
  PROVE  /\ RevisionsSound' /\ EventsSound'
         /\ QueueSound(queue') => QueueSound(queue)'
         /\ QueueAhead(queue') => QueueAhead(queue)'
         /\ task' = task => TaskSound'
<1>1. UNCHANGED <<bars, gen, log, cursor, sent, shown, stamp>>
  BY DEF FrameKeeps
<1>2. RevisionsSound'
  BY <1>1 DEF StreamInv, RevisionsSound
<1>3. EventsSound'
  BY <1>1 DEF StreamInv, EventsSound, EventSound, Recorded, Named
<1>4. QueueSound(queue') => QueueSound(queue)'
  BY <1>1 DEF QueueSound, FrameSound, PairSound, Recorded, Named
<1>5. QueueAhead(queue') => QueueAhead(queue)'
  BY <1>1 DEF QueueAhead, FrameAhead, PairAhead
<1>6. task' = task => TaskSound'
  BY <1>1 DEF StreamInv, TaskSound, Current
<1> QED BY <1>2, <1>3, <1>4, <1>5, <1>6

LEMMA StreamKept ==
  ASSUME StreamInv, StreamKeeps
  PROVE  NothingForgotten' /\ SentWasShown'
BY DEF StreamInv, StreamKeeps, NothingForgotten, SentWasShown

(* A commit, of known or of unknown outcome, moves the generation and is    *)
(* recorded.                                                                *)
LEMMA CommitKeeps ==
  ASSUME StreamInv, NEW S \in SUBSET Slots,
         Commit(S) \/ UnknownCommit(S)
  PROVE  StreamInv'
<1> DEFINE E == [generation : 1..MaxGeneration, bars : Payloads]
<1>1. /\ gen \in 1..MaxGeneration /\ gen < MaxGeneration /\ gen' = gen + 1
      /\ gen' \in Contents /\ gen' \in 1..MaxGeneration /\ MaxGeneration \in Nat
      /\ LogSize \in Nat
  BY ChartStreamAssumption DEF StreamInv, StreamTypeOK, Commit, UnknownCommit, Contents
<1>2. /\ bars' = [t \in Slots |-> IF t \in S THEN gen + 1 ELSE bars[t]]
      /\ UNCHANGED <<cursor, task, followup, due, queue, invalid, sent, shown, stamp,
                     reported, outrun>>
  BY DEF Commit, UnknownCommit, checkpointVars, consumerVars,
     historyVars
<1>3. bars' \in [Slots -> Contents]
  BY <1>1, <1>2 DEF StreamInv, StreamTypeOK
<1>4. PICK content \in Payloads :
        /\ Record(content)
        /\ \A t \in Slots : content[t] # Unsent => content[t] = gen + 1 /\ bars'[t] = gen + 1
  <2>1. CASE Commit(S)
    <3> DEFINE c == [t \in Slots |-> IF t \in S THEN gen + 1 ELSE Unsent]
    <3>1. c \in Payloads
      BY <1>1 DEF Payloads
    <3>2. \A t \in Slots : c[t] # Unsent => c[t] = gen + 1 /\ bars'[t] = gen + 1
      BY <1>2
    <3>3. Record(c)
      BY <2>1 DEF Commit
    <3> HIDE DEF c
    <3> QED BY <3>1, <3>2, <3>3
  <2>2. CASE UnknownCommit(S)
    <3>1. NoBars \in Payloads /\ \A t \in Slots : NoBars[t] = Unsent
      BY DEF NoBars, Payloads
    <3> QED BY <2>2, <3>1 DEF UnknownCommit
  <2> QED BY <2>1, <2>2
<1> DEFINE new == [generation |-> gen + 1, bars |-> content]
<1>5. log' \in Seq(E) /\ Len(log') <= LogSize /\ Recorded' \subseteq Recorded \cup {new}
  <2> DEFINE e == [generation |-> gen + 1, bars |-> content]
             all == Append(log, e)
  <2>1. e \in E
    BY <1>1
  <2>2. log \in Seq(E) /\ Len(log) <= LogSize
    BY DEF StreamInv, StreamTypeOK
  <2>3. log' = IF Len(all) > LogSize THEN Tail(all) ELSE all
    BY <1>4 DEF Record
  <2> HIDE DEF e, E
  <2>4. all \in Seq(E) /\ Len(all) = Len(log) + 1 /\ Len(log) \in Nat /\ all # <<>>
    BY <2>1, <2>2
  <2>5. \A n \in DOMAIN all : (n \in DOMAIN log /\ all[n] = log[n]) \/ all[n] = e
    BY <2>2
  <2> HIDE DEF all
  <2>6. /\ Tail(all) \in Seq(E) /\ Len(Tail(all)) = Len(all) - 1
        /\ \A n \in DOMAIN Tail(all) : n + 1 \in DOMAIN all /\ Tail(all)[n] = all[n + 1]
    BY <2>4
  <2>7. Recorded' \subseteq Recorded \cup {e}
    BY <2>3, <2>5, <2>6 DEF Recorded
  <2> QED BY <1>1, <2>2, <2>3, <2>4, <2>6, <2>7 DEF e
<1>6. StreamTypeOK'
  BY <1>1, <1>2, <1>3, <1>5 DEF StreamInv, StreamTypeOK
<1>7. StreamKeeps
  BY <1>2 DEF StreamKeeps
<1>8. /\ gen \in Nat /\ cursor \in Nat /\ task.generation \in Nat
      /\ \A t \in Slots : bars[t] \in Nat /\ stamp[t] \in Nat /\ (sent[t] # Unsent => sent[t] \in Nat)
      /\ \A e \in Recorded : e.generation \in Nat
      /\ \A j \in DOMAIN queue : queue[j] \in Frames
  BY StreamNumbers DEF StreamInv
<1>9. \A t \in Slots : /\ bars'[t] \in Nat /\ bars[t] <= bars'[t] /\ 1 <= bars'[t] /\ bars'[t] <= gen + 1
                      /\ stamp[t] <= gen
  BY <1>2, <1>8 DEF StreamInv, RevisionsSound
<1>10. /\ new.generation = gen + 1 /\ \A t \in Named(new) : t \in Slots /\ new.bars[t] = gen + 1 /\ bars'[t] = gen + 1
  BY <1>4 DEF Named
<1> HIDE DEF new
<1>11. RevisionsSound'
  BY <1>1, <1>2, <1>8, <1>9 DEF StreamInv, RevisionsSound
<1>12. EventsSound'
  <2> SUFFICES ASSUME NEW e \in Recorded'
               PROVE  EventSound(e)'
    BY DEF EventsSound
  <2>1. CASE e = new
    BY <1>1, <1>2, <1>8, <1>9, <1>10, <2>1 DEF EventSound, Named
  <2>2. CASE e \in Recorded
    <3>1. EventSound(e) /\ e.generation \in Nat
      BY <1>8, <2>2 DEF StreamInv, EventsSound
    <3>2. e.generation <= gen'
      BY <1>1, <1>8, <3>1 DEF EventSound
    <3>3. \A t \in Named(e) : t \in Slots /\ e.generation <= bars'[t]
      BY <1>8, <1>9, <3>1 DEF EventSound, Named
    <3> QED BY <1>2, <3>1, <3>2, <3>3 DEF EventSound, Named
  <2> QED BY <1>5, <2>1, <2>2
<1>13. TaskSound'
  BY <1>1, <1>2, <1>8 DEF StreamInv, TaskSound, Current
<1>14. QueueSound(queue)'
  <2>1. ASSUME NEW j \in DOMAIN queue, NEW t \in Slots, queue[j].bars[t] # Unsent
        PROVE  /\ queue[j].revision <= gen' /\ queue[j].bars[t] <= bars'[t]
               /\ \A e \in Recorded' : e.generation <= queue[j].revision => e \in Recorded
    <3>1. FrameSound(queue[j]) /\ queue[j].revision \in Nat /\ queue[j].bars[t] \in Nat
      BY <1>8, <2>1, FrameNumbers DEF StreamInv, QueueSound
    <3>2. queue[j].revision <= gen /\ queue[j].bars[t] <= bars[t]
      BY <2>1, <3>1 DEF FrameSound
    <3>3. queue[j].revision <= gen' /\ queue[j].bars[t] <= bars'[t] /\ ~(gen + 1 <= queue[j].revision)
      BY <1>1, <1>8, <1>9, <3>1, <3>2
    <3> QED BY <1>5, <1>10, <3>3
  <2>2. \A j \in DOMAIN queue : FrameSound(queue[j]) /\ FrameSound(queue[j])'
    <3> TAKE j \in DOMAIN queue
    <3>1. FrameSound(queue[j])
      BY DEF StreamInv, QueueSound
    <3>2. FrameSound(queue[j])'
      BY <1>2, <2>1, <3>1 DEF FrameSound, Named
    <3> QED BY <3>1, <3>2
  <2> QED BY <1>2, <2>2 DEF StreamInv, QueueSound, PairSound
<1>15. QueueAhead(queue)'
  BY <1>2 DEF StreamInv, QueueAhead, FrameAhead, PairAhead
<1> QED BY <1>6, <1>7, <1>11, <1>12, <1>13, <1>14, <1>15, StreamKept DEF StreamInv

(* The steps that change only the checkpoint table.                         *)
LEMMA CheckpointKeeps ==
  ASSUME StreamInv,
         ScheduleDue \/ CadencePasses \/ FlushStale
           \/ Load \/ LoadFails
  PROVE  StreamInv'
<1>1. UNCHANGED <<bars, gen, log, cursor, queue, invalid, sent, shown, stamp, reported, outrun>>
  BY DEF ScheduleDue, CadencePasses, FlushStale, Load,
     LoadFails, storageVars, consumerVars, historyVars
<1>2. followup' \in BOOLEAN /\ due' \in BOOLEAN
  BY DEF StreamInv, StreamTypeOK, ScheduleDue, CadencePasses,
     FlushStale, Load, LoadFails
<1>3. task \in Tasks /\ gen \in Contents /\ invalid \in SUBSET Slots
      /\ bars \in [Slots -> Contents]
  BY DEF StreamInv, StreamTypeOK, Tasks, Contents
<1>4. task' \in Tasks
  <2>1. CASE ScheduleDue
    BY <1>3, <2>1, StartsTyped DEF ScheduleDue
  <2>2. CASE CadencePasses
    BY <1>3, <2>2 DEF CadencePasses
  <2>3. CASE FlushStale
    BY <2>3, StartsTyped DEF FlushStale
  <2>4. CASE Load
    <3> DEFINE read == [t \in Slots |->
                          IF t >= TailFrom \/ t \in task.required THEN bars[t] ELSE Unsent]
    <3>1. read \in Payloads
      BY <1>3 DEF Payloads
    <3>2. task' = [task EXCEPT !.stage = "loaded", !.generation = gen, !.bars = read]
      BY <2>4 DEF Load
    <3> HIDE DEF read
    <3> QED BY <1>3, <3>1, <3>2 DEF Tasks
  <2>5. CASE LoadFails
    BY <1>3, <2>5 DEF LoadFails, Tasks
  <2> QED BY <2>1, <2>2, <2>3, <2>4, <2>5
<1>5. StreamTypeOK'
  BY <1>1, <1>2, <1>4 DEF StreamInv, StreamTypeOK, Tasks
<1>6. StreamKeeps /\ FrameKeeps
  BY <1>1 DEF StreamKeeps, FrameKeeps
<1>7. TaskSound'
  <2>1. CASE ScheduleDue
    BY <1>3, <1>5, <2>1, TaskUnread DEF ScheduleDue
  <2>2. CASE CadencePasses
    BY <1>6, <2>2, FramesKept DEF CadencePasses
  <2>3. CASE FlushStale
    BY <1>5, <2>3, TaskUnread DEF FlushStale
  <2>4. CASE Load
    <3>1. /\ task'.generation = gen
          /\ task'.bars = [t \in Slots |-> IF t >= TailFrom \/ t \in task.required
                                          THEN bars[t] ELSE Unsent]
      BY <1>3, <2>4 DEF Load, Tasks
    <3>2. gen' = gen /\ bars' = bars /\ gen \in Nat
      BY <1>1, StreamNumbers DEF StreamInv
    <3> QED BY <3>1, <3>2 DEF TaskSound
  <2>5. CASE LoadFails
    <3>1. task'.generation = task.generation /\ task'.stage # "loaded"
      BY <1>3, <2>5 DEF LoadFails, Tasks
    <3> QED BY <1>1, <3>1 DEF StreamInv, TaskSound, Current
  <2> QED BY <2>1, <2>2, <2>3, <2>4, <2>5
<1>8. QueueSound(queue') /\ QueueAhead(queue')
  BY <1>1 DEF StreamInv
<1> QED BY <1>5, <1>6, <1>7, <1>8, StreamKept, FramesKept DEF StreamInv

(* A checkpoint that is current brings what storage has.                    *)
LEMMA CheckpointFrame ==
  ASSUME StreamInv, Current, NEW recovery \in BOOLEAN
  PROVE  LET p == PublishBars(queue, invalid, task.bars, recovery, task.generation)
         IN  QueueSound(p) /\ QueueAhead(p)
<1> DEFINE g == BarsFrame(Accepted(invalid, task.bars), recovery, task.generation)
           p == PublishBars(queue, invalid, task.bars, recovery, task.generation)
<1>1. /\ task.bars \in Payloads /\ task.generation \in Contents /\ task.generation = gen
      /\ queue \in Seq(Frames) /\ Len(queue) <= QueueSize
      /\ gen \in Nat
      /\ \A t \in Slots : /\ bars[t] \in Nat /\ 1 <= bars[t] /\ stamp[t] \in Nat /\ stamp[t] <= gen
                          /\ task.bars[t] \in {Unsent, bars[t]}
                          /\ sent[t] # Unsent => sent[t] \in Nat /\ sent[t] <= bars[t]
      /\ \A i \in DOMAIN queue : queue[i] \in Frames
  <2>1. task.bars \in Payloads /\ task.generation \in Contents
        /\ queue \in Seq(Frames) /\ Len(queue) <= QueueSize
    BY DEF StreamInv, StreamTypeOK
  <2>2. task.generation = gen /\ \A t \in Slots : task.bars[t] \in {Unsent, bars[t]}
    BY DEF StreamInv, TaskSound, Current
  <2> QED BY <2>1, <2>2, StreamNumbers DEF StreamInv, RevisionsSound
<1>2. /\ g.revision = gen
      /\ \A t \in Slots : g.bars[t] # Unsent =>
           \/ g.bars[t] = task.bars[t]
           \/ task.bars[t] = Preview /\ sent[t] # Unsent /\ g.bars[t] = sent[t]
      /\ FrameSound(g) /\ (\A i \in DOMAIN queue : PairSound(queue[i], g)) => QueueSound(p)
      /\ FrameAhead(g) /\ (\A i \in DOMAIN queue : PairAhead(queue[i], g)) => QueueAhead(p)
  BY <1>1, PublishBarsKeeps DEF StreamInv, FramePublished
<1>3. Unsent # Preview
  BY UnsentIsNoContent, ChartStreamAssumption DEF Contents, Preview
<1> HIDE DEF g, p
<1>4. ASSUME NEW t \in Slots, g.bars[t] # Unsent PROVE g.bars[t] = bars[t]
  BY <1>1, <1>2, <1>3, <1>4 DEF Preview
<1>5. FrameSound(g)
  <2>1. \A e \in Recorded, t \in Slots : t \in Named(e) => e.generation <= bars[t]
    BY DEF StreamInv, EventsSound, EventSound
  <2> QED BY <1>1, <1>2, <1>4, <2>1 DEF FrameSound
<1>6. ASSUME NEW i \in DOMAIN queue
      PROVE  PairSound(queue[i], g) /\ PairAhead(queue[i], g)
  <2>1. FrameSound(queue[i]) /\ queue[i].revision \in Nat
    BY <1>1, FrameNumbers DEF StreamInv, QueueSound
  <2>2. \A t \in Slots : queue[i].bars[t] # Unsent =>
          ~(gen < queue[i].revision) /\ queue[i].bars[t] <= bars[t]
    BY <1>1, <2>1 DEF FrameSound
  <2> QED BY <1>2, <1>4, <2>2 DEF PairSound, PairAhead, Confirmed
<1>7. FrameAhead(g)
  BY <1>1, <1>4 DEF FrameAhead, Confirmed
<1> QED BY <1>2, <1>5, <1>6, <1>7 DEF p

(* A provider frame brings previews, or again what was sent.                *)
LEMMA ProviderFrame ==
  ASSUME StreamInv
  PROVE  LET p == PublishBars(queue, invalid, LiveTail, FALSE, cursor)
         IN  LiveTail \in Payloads /\ QueueSound(p) /\ QueueAhead(p)
<1> DEFINE g == BarsFrame(Accepted(invalid, LiveTail), FALSE, cursor)
           p == PublishBars(queue, invalid, LiveTail, FALSE, cursor)
<1>1. /\ cursor \in Contents
      /\ queue \in Seq(Frames) /\ Len(queue) <= QueueSize
      /\ gen \in Nat /\ cursor \in Nat /\ cursor <= gen
      /\ \A t \in Slots : /\ bars[t] \in Nat /\ stamp[t] \in Nat /\ shown[t] \in Nat
                          /\ sent[t] # Unsent =>
                               sent[t] \in Nat /\ sent[t] <= bars[t] /\ sent[t] <= shown[t]
      /\ \A i \in DOMAIN queue : queue[i] \in Frames
  <2>1. cursor \in Contents /\ queue \in Seq(Frames) /\ Len(queue) <= QueueSize
    BY ChartStreamAssumption DEF StreamInv, StreamTypeOK, Contents
  <2> QED BY <2>1, StreamNumbers DEF StreamInv, RevisionsSound, SentWasShown
<1>2. LiveTail \in Payloads /\ \A t \in Slots : LiveTail[t] \in {Preview, Unsent}
  BY ChartStreamAssumption DEF LiveTail, Payloads, Preview, Contents
<1>3. /\ g.revision = cursor
      /\ \A t \in Slots : g.bars[t] # Unsent =>
           \/ g.bars[t] = LiveTail[t]
           \/ LiveTail[t] = Preview /\ sent[t] # Unsent /\ g.bars[t] = sent[t]
      /\ FrameSound(g) /\ (\A i \in DOMAIN queue : PairSound(queue[i], g)) => QueueSound(p)
      /\ FrameAhead(g) /\ (\A i \in DOMAIN queue : PairAhead(queue[i], g)) => QueueAhead(p)
  <2>1. FramePublished(queue, invalid, LiveTail, FALSE, cursor)
    BY <1>1, <1>2, PublishBarsKeeps DEF StreamInv
  <2> HIDE DEF g, p
  <2>2. /\ g.revision = cursor
        /\ \A t \in Slots : g.bars[t] # Unsent =>
             \/ g.bars[t] = LiveTail[t]
             \/ LiveTail[t] = Preview /\ sent[t] # Unsent /\ g.bars[t] = sent[t]
    BY <2>1, Zenon DEF FramePublished, g
  <2>3. FrameSound(g) /\ (\A i \in DOMAIN queue : PairSound(queue[i], g)) /\ QueueSound(queue)
           => QueueSound(p)
    BY <2>1, Zenon DEF FramePublished, g, p
  <2>4. FrameAhead(g) /\ (\A i \in DOMAIN queue : PairAhead(queue[i], g)) /\ QueueAhead(queue)
           => QueueAhead(p)
    BY <2>1, Zenon DEF FramePublished, g, p
  <2>5. QueueSound(queue) /\ QueueAhead(queue)
    BY DEF StreamInv
  <2> QED BY <2>2, <2>3, <2>4, <2>5, Zenon
<1> HIDE DEF g, p
<1>4. ASSUME NEW t \in Slots, g.bars[t] # Unsent
      PROVE  g.bars[t] = Preview \/ (sent[t] # Unsent /\ g.bars[t] = sent[t])
  <2>1. g.bars[t] = LiveTail[t] \/ (sent[t] # Unsent /\ g.bars[t] = sent[t])
    BY <1>3, <1>4, Zenon
  <2>2. LiveTail[t] = Preview \/ LiveTail[t] = Unsent
    <3>1. LiveTail[t] \in {Preview, Unsent}
      BY <1>2, Zenon
    <3> QED BY <3>1, Zenon
  <2>3. CASE g.bars[t] = LiveTail[t]
    <3>1. LiveTail[t] # Unsent
      BY <1>4, <2>3, Zenon
    <3> QED BY <2>2, <2>3, <3>1, Zenon
  <2> QED BY <2>1, <2>3, Zenon
<1>5. FrameSound(g)
  <2>1. \A e \in Recorded : e.generation \in Nat
    BY StreamNumbers DEF StreamInv
  <2> QED BY <1>1, <1>3, <1>4, <2>1 DEF FrameSound, Preview
<1>6. ASSUME NEW i \in DOMAIN queue
      PROVE  PairSound(queue[i], g) /\ PairAhead(queue[i], g)
  <2>1. FrameAhead(queue[i]) /\ queue[i].revision \in Nat
        /\ \A t \in Slots : queue[i].bars[t] # Unsent => queue[i].bars[t] \in Nat
    BY <1>1, FrameNumbers DEF StreamInv, QueueAhead
  <2>2. PairSound(queue[i], g)
    BY <1>1, <1>3, <1>4, <2>1 DEF PairSound, FrameAhead, Confirmed, Preview
  <2>3. PairAhead(queue[i], g)
    BY <1>1, <1>3 DEF PairAhead
  <2> QED BY <2>2, <2>3
<1>7. FrameAhead(g)
  BY <1>1, <1>3 DEF FrameAhead
<1> QED BY <1>2, <1>3, <1>5, <1>6, <1>7 DEF p

(* A frame without bars.                                                    *)
LEMMA BareFrame ==
  ASSUME StreamInv, NEW f \in Frames, f.bars = NoBars
  PROVE  QueueSound(Publish(queue, f)) /\ QueueAhead(Publish(queue, f))
<1>1. \A t \in Slots : f.bars[t] = Unsent
  BY DEF NoBars
<1>2. /\ FrameSound(f) /\ FrameAhead(f)
      /\ \A i \in DOMAIN queue : PairSound(queue[i], f) /\ PairAhead(queue[i], f)
  BY <1>1 DEF FrameSound, FrameAhead, PairSound, PairAhead, Confirmed
<1> QED BY <1>2, PublishKeeps DEF StreamInv, StreamTypeOK

(* The steps that only queue a frame, and may follow up on a checkpoint.    *)
LEMMA QueueKeeps ==
  ASSUME StreamInv,
         FlushCurrent \/ FlushFailed \/ ProviderPreview \/ Heartbeat
  PROVE  StreamInv'
<1>1. UNCHANGED <<bars, gen, log, cursor, invalid, sent, shown, stamp, reported, outrun>>
  BY DEF FlushCurrent, FlushFailed, ProviderPreview, Heartbeat,
     storageVars, historyVars
<1>2. followup' \in BOOLEAN /\ due' \in BOOLEAN
  BY DEF StreamInv, StreamTypeOK, FlushCurrent, FlushFailed,
     ProviderPreview, Heartbeat, Follow, checkpointVars
<1>3. /\ task \in Tasks /\ invalid \in SUBSET Slots /\ StreamTypeOK
      /\ queue \in Seq(Frames) /\ Len(queue) <= QueueSize
  BY DEF StreamInv, StreamTypeOK, Tasks
<1>4. 0 \in Contents /\ cursor \in Contents
  BY ChartStreamAssumption DEF StreamInv, StreamTypeOK, Contents, Slots
<1>5. NoBars \in Payloads
  BY DEF NoBars, Payloads
<1>6. Follow => task' \in Tasks
  BY <1>3, StartsTyped DEF Follow
<1>7. task' \in Tasks
  BY <1>3, <1>6 DEF FlushCurrent, FlushFailed, ProviderPreview,
     Heartbeat, checkpointVars
<1>8. /\ queue' \in Seq(Frames) /\ Len(queue') <= QueueSize
      /\ QueueSound(queue') /\ QueueAhead(queue')
  <2>1. CASE FlushCurrent
    <3>1. task.bars \in Payloads /\ task.generation \in Contents
      BY <1>3 DEF Tasks
    <3>2. queue' = PublishBars(queue, invalid, task.bars, TRUE, task.generation)
      BY <2>1 DEF FlushCurrent
    <3>3. Current
      BY <2>1 DEF FlushCurrent
    <3> QED BY <1>3, <3>1, <3>2, <3>3, PublishBarsFits, CheckpointFrame
  <2>2. CASE FlushFailed
    <3> DEFINE f == [kind |-> "status", recovery |-> FALSE, revision |-> 0,
                     bars |-> NoBars]
    <3>1. f \in Frames /\ f.bars = NoBars
      BY <1>4, <1>5 DEF Frames
    <3>2. queue' = Publish(queue, f)
      BY <2>2 DEF FlushFailed
    <3> HIDE DEF f
    <3> QED BY <1>3, <3>1, <3>2, PublishFits, BareFrame
  <2>3. CASE ProviderPreview
    <3>1. queue' = PublishBars(queue, invalid, LiveTail, FALSE, cursor)
      BY <2>3 DEF ProviderPreview
    <3> QED BY <1>3, <1>4, <3>1, PublishBarsFits, ProviderFrame
  <2>4. CASE Heartbeat
    <3> DEFINE f == [kind |-> "heartbeat", recovery |-> FALSE, revision |-> 0,
                     bars |-> NoBars]
    <3>1. f \in Frames /\ f.bars = NoBars
      BY <1>4, <1>5 DEF Frames
    <3>2. queue' = Publish(queue, f)
      BY <2>4 DEF Heartbeat
    <3> HIDE DEF f
    <3> QED BY <1>3, <3>1, <3>2, PublishFits, BareFrame
  <2> QED BY <2>1, <2>2, <2>3, <2>4
<1>9. StreamTypeOK'
  BY <1>1, <1>2, <1>7, <1>8 DEF StreamInv, StreamTypeOK, Tasks
<1>10. StreamKeeps /\ FrameKeeps
  BY <1>1 DEF StreamKeeps, FrameKeeps
<1>11. TaskSound'
  <2>1. CASE FlushCurrent \/ FlushFailed
    BY <1>3, <1>9, <2>1, TaskUnread DEF FlushCurrent, FlushFailed, Follow
  <2>2. CASE ProviderPreview \/ Heartbeat
    BY <1>10, <2>2, FramesKept DEF ProviderPreview, Heartbeat, checkpointVars
  <2> QED BY <2>1, <2>2
<1> QED BY <1>8, <1>9, <1>10, <1>11, StreamKept, FramesKept DEF StreamInv

(* Every event that is handled leaves its slots invalidated.                *)
LEMMA EventsKeep ==
  ASSUME StreamInv, HandleEvents
  PROVE  StreamInv'
<1>1. HandledTo(DOMAIN log, AllHandled)
  BY HandlesAll DEF StreamInv
<1>2. /\ UNCHANGED <<bars, gen, log, sent, shown, stamp>>
      /\ cursor' = gen
      /\ invalid' = AllHandled.invalid /\ queue' = AllHandled.queue
      /\ reported' = [t \in Slots |-> Latest(t)]
      /\ outrun' = {t \in outrun : \A i \in NewEvents : t \notin Named(log[i])}
  BY DEF HandleEvents, storageVars
<1>3. NewEvents \subseteq DOMAIN log
  BY DEF NewEvents
<1>4. /\ queue' \in Seq(Frames) /\ Len(queue') <= QueueSize /\ QueueSound(queue')
      /\ invalid \subseteq invalid' /\ invalid' \subseteq Slots
      /\ \A i \in NewEvents : Named(log[i]) \subseteq invalid'
  BY <1>1, <1>2, <1>3 DEF HandledTo
<1>5. ASSUME NEW t \in Slots
      PROVE  /\ Latest(t) \in Contents
             /\ \/ Latest(t) = reported[t]
                   /\ \A i \in NewEvents : t \notin Named(log[i])
                \/ t \in invalid'
  <2> DEFINE seen == {i \in NewEvents : t \in Named(log[i])}
             n == CHOOSE i \in seen : \A j \in seen : j <= i
  <2>1. CASE seen = {}
    <3>1. Latest(t) = reported[t]
      BY <2>1 DEF Latest
    <3>2. reported[t] \in Contents
      BY DEF StreamInv, StreamTypeOK
    <3> QED BY <2>1, <3>1, <3>2
  <2>2. CASE seen # {}
    <3>1. Latest(t) = log[n].bars[t]
      BY <2>2 DEF Latest
    <3>2. n \in seen
      <4>1. seen \in SUBSET (1..Len(log)) /\ Len(log) \in Nat
        BY <1>3 DEF StreamInv, StreamTypeOK
      <4> HIDE DEF seen
      <4>2. Top(seen) \in seen /\ \A j \in seen : Top(seen) >= j
        BY <2>2, <4>1, Tops
      <4>3. \A j \in seen : j <= Top(seen)
        BY <4>1, <4>2
      <4> QED BY <4>2, <4>3
    <3> HIDE DEF n
    <3>3. n \in DOMAIN log /\ n \in NewEvents /\ t \in Named(log[n])
      BY <1>3, <3>2
    <3>4. log[n].bars \in Payloads
      <4> DEFINE E == [generation : 1..MaxGeneration, bars : Payloads]
      <4>1. log \in Seq(E)
        BY DEF StreamInv, StreamTypeOK
      <4> HIDE DEF E
      <4>2. log[n] \in E
        BY <3>3, <4>1
      <4> QED BY <4>2 DEF E
    <3>5. log[n].bars[t] # Unsent
      BY <3>3 DEF Named
    <3>6. log[n].bars[t] \in Contents
      BY <3>4, <3>5 DEF Payloads
    <3> QED BY <1>4, <3>1, <3>3, <3>6
  <2> QED BY <2>1, <2>2
<1>6. StreamTypeOK' /\ (task' = task \/ (task'.generation = 0 /\ task'.stage = "loading"))
  <2>1. reported' \in [Slots -> Contents]
    BY <1>2, <1>5
  <2>2. outrun' \subseteq Slots
    BY <1>2 DEF StreamInv, StreamTypeOK
  <2>3. /\ task' \in Tasks /\ followup' \in BOOLEAN /\ due' \in BOOLEAN
        /\ task' = task \/ (task'.generation = 0 /\ task'.stage = "loading")
    <3> DEFINE overflow == \A i \in NewEvents : log[i].generation > cursor + 1
               known == IF overflow THEN invalid ELSE AllHandled.first
    <3>1. known \in SUBSET Slots
      <4>1. CASE overflow
        BY <4>1 DEF StreamInv, StreamTypeOK
      <4>2. CASE ~overflow
        <5>1. PICK i \in NewEvents : TRUE
          BY <4>2
        <5>2. AllHandled.first \in SUBSET Slots
          BY <1>1, <1>3, <5>1 DEF HandledTo
        <5> QED BY <4>2, <5>2
      <4> QED BY <4>1, <4>2
    <3>2. \/ StartCheckpoint(known) /\ due' = FALSE /\ followup' = TRUE
          \/ ForceCheckpoint(known)
      BY DEF HandleEvents
    <3> HIDE DEF known
    <3>3. task \in Tasks /\ followup \in BOOLEAN /\ due \in BOOLEAN
      BY DEF StreamInv, StreamTypeOK, Tasks
    <3>4. StartCheckpoint(known) =>
            task' \in Tasks /\ task'.generation = 0 /\ task'.stage = "loading"
      BY <3>1, StartsTyped
    <3> QED BY <3>2, <3>3, <3>4 DEF ForceCheckpoint
  <2> QED BY <1>2, <1>4, <2>1, <2>2, <2>3 DEF StreamInv, StreamTypeOK, Tasks
<1>7. NothingForgotten'
  <2> SUFFICES ASSUME NEW t \in Slots, shown'[t] < reported'[t]
               PROVE  t \in invalid' \/ t \in outrun'
    BY DEF NothingForgotten
  <2>1. reported'[t] = Latest(t) /\ shown'[t] = shown[t]
    BY <1>2
  <2>2. CASE t \in invalid'
    BY <2>2
  <2>3. CASE /\ Latest(t) = reported[t]
             /\ \A i \in NewEvents : t \notin Named(log[i])
    <3>1. t \in invalid \/ t \in outrun
      BY <2>1, <2>3 DEF StreamInv, NothingForgotten
    <3> QED BY <1>2, <1>4, <2>3, <3>1
  <2> QED BY <1>5, <2>2, <2>3
<1>8. SentWasShown'
  BY <1>2 DEF StreamInv, SentWasShown
<1>9. /\ gen \in Nat /\ \A e \in Recorded : e.generation \in Nat /\ e.generation <= gen
      /\ Recorded' = Recorded
  BY <1>2, StreamNumbers DEF StreamInv, EventsSound, EventSound, Recorded
<1>10. RevisionsSound'
  BY <1>2, <1>9 DEF StreamInv, RevisionsSound
<1>11. EventsSound'
  BY <1>2, <1>9 DEF StreamInv, EventsSound, EventSound, Named
<1>12. TaskSound'
  BY <1>2, <1>6, <1>9 DEF StreamInv, TaskSound, Current
<1>13. ASSUME NEW j \in DOMAIN queue'
       PROVE  FrameSound(queue'[j]) /\ queue'[j].revision \in Nat
  BY <1>4, <1>13, FrameNumbers DEF QueueSound
<1>14. QueueSound(queue)'
  <2>1. \A j \in DOMAIN queue' : FrameSound(queue[j])'
    BY <1>2, <1>9, <1>13 DEF FrameSound, Named
  <2> QED BY <1>4, <2>1 DEF QueueSound, PairSound
<1>15. QueueAhead(queue)'
  <2>1. \A j \in DOMAIN queue', t \in Slots :
          queue'[j].bars[t] # Unsent => ~(cursor' < queue'[j].revision)
    BY <1>2, <1>9, <1>13 DEF FrameSound
  <2> QED BY <2>1 DEF QueueAhead, FrameAhead, PairAhead, Confirmed
<1> QED BY <1>6, <1>7, <1>8, <1>10, <1>11, <1>12, <1>14, <1>15 DEF StreamInv

(* A frame is delivered: the browser takes it or has no older bar, and the  *)
(* tracker remembers it.                                                    *)
LEMMA SendKeeps ==
  ASSUME StreamInv, Send
  PROVE  StreamInv'
<1> DEFINE f == Head(queue)
           content == f.bars
<1>1. /\ queue # <<>> /\ queue' = Tail(queue)
      /\ UNCHANGED <<bars, gen, log, cursor, task, followup, due, reported>>
      /\ shown' = [t \in Slots |-> IF Takes(f, t) THEN content[t] ELSE shown[t]]
      /\ stamp' = [t \in Slots |-> IF Takes(f, t) THEN f.revision ELSE stamp[t]]
      /\ sent' = [t \in Slots |->
                    IF content[t] = Unsent THEN sent[t]
                    ELSE IF content[t] = Preview /\ sent[t] # Unsent THEN sent[t] ELSE content[t]]
      /\ invalid' = {t \in invalid : content[t] = Unsent}
      /\ outrun' = {t \in Slots : IF content[t] = Unsent THEN t \in outrun
                                  ELSE content[t] < reported[t]}
  BY DEF Send, Applied, Remembered, Outran, Resolve, storageVars, checkpointVars
<1>2. /\ queue \in Seq(Frames) /\ 1 \in DOMAIN queue /\ f = queue[1] /\ f \in Frames
      /\ queue' \in Seq(Frames) /\ Len(queue') <= QueueSize
      /\ \A j \in DOMAIN queue' :
           /\ j \in Nat /\ j + 1 \in DOMAIN queue /\ 1 < j + 1
           /\ queue'[j] = queue[j + 1] /\ queue'[j] \in Frames
  <2>1. queue \in Seq(Frames) /\ Len(queue) <= QueueSize
    BY DEF StreamInv, StreamTypeOK
  <2>2. Len(queue) \in Nat /\ QueueSize \in Nat
    BY <2>1, ChartStreamAssumption
  <2>3. /\ Tail(queue) \in Seq(Frames) /\ Len(Tail(queue)) = Len(queue) - 1
        /\ DOMAIN queue = 1..Len(queue) /\ 1 \in DOMAIN queue /\ f = queue[1] /\ f \in Frames
        /\ \A j \in DOMAIN Tail(queue) :
             /\ j \in Nat /\ j + 1 \in DOMAIN queue /\ 1 < j + 1
             /\ Tail(queue)[j] = queue[j + 1] /\ Tail(queue)[j] \in Frames
    BY <1>1, <2>1
  <2> QED BY <1>1, <2>1, <2>2, <2>3
<1> HIDE DEF f
<1>3. /\ FrameSound(f) /\ f.revision \in Nat /\ f.revision \in Contents /\ content \in Payloads
      /\ \A t \in Slots : content[t] # Unsent => content[t] \in Nat /\ content[t] \in Contents
  <2>1. FrameSound(f)
    BY <1>2 DEF StreamInv, QueueSound
  <2>2. f.revision \in Contents /\ content \in Payloads
    BY <1>2 DEF Frames
  <2> QED BY <1>2, <2>1, <2>2, FrameNumbers DEF Payloads
<1>4. \A j \in DOMAIN queue' :
        /\ FrameSound(queue'[j]) /\ PairSound(f, queue'[j])
        /\ FrameAhead(queue'[j]) /\ PairAhead(f, queue'[j])
  <2> TAKE j \in DOMAIN queue'
  <2>1. j + 1 \in DOMAIN queue /\ 1 < j + 1 /\ queue'[j] = queue[j + 1]
    BY <1>2
  <2>2. FrameSound(queue[j + 1]) /\ FrameAhead(queue[j + 1])
    BY <2>1 DEF StreamInv, QueueSound, QueueAhead
  <2>3. PairSound(queue[1], queue[j + 1]) /\ PairAhead(queue[1], queue[j + 1])
    BY <1>2, <2>1 DEF StreamInv, QueueSound, QueueAhead
  <2> QED BY <1>2, <2>1, <2>2, <2>3
<1>5. /\ gen \in Nat /\ cursor \in Nat /\ cursor <= gen
      /\ \A t \in Slots : /\ bars[t] \in Nat /\ 1 <= bars[t] /\ bars[t] <= gen
                          /\ shown[t] \in Nat /\ stamp[t] \in Nat /\ reported[t] \in Nat
                          /\ stamp[t] <= gen
                          /\ sent[t] # Unsent =>
                               sent[t] \in Nat /\ sent[t] <= bars[t] /\ sent[t] <= shown[t]
      /\ \A e \in Recorded : e.generation \in Nat
      /\ Recorded' = Recorded
  BY <1>1, StreamNumbers DEF StreamInv, RevisionsSound, SentWasShown, Recorded
<1>6. ASSUME NEW t \in Slots
      PROVE  \/ /\ Takes(f, t) /\ Confirmed(content[t])
                /\ shown'[t] = content[t] /\ stamp'[t] = f.revision /\ sent'[t] = content[t]
                /\ stamp[t] <= f.revision
             \/ /\ ~Takes(f, t)
                /\ shown'[t] = shown[t] /\ stamp'[t] = stamp[t]
                /\ content[t] # Unsent => content[t] <= shown[t]
                /\ sent'[t] = sent[t] \/ (content[t] # Unsent /\ sent'[t] = content[t])
  <2>1. CASE Takes(f, t)
    <3>1. Confirmed(content[t]) /\ stamp[t] <= f.revision
      BY <1>3, <1>5, <2>1 DEF Takes, Confirmed
    <3> QED BY <1>1, <2>1, <3>1 DEF Confirmed
  <2>2. CASE ~Takes(f, t)
    <3>1. shown'[t] = shown[t] /\ stamp'[t] = stamp[t]
      BY <1>1, <2>2
    <3>2. sent'[t] = sent[t] \/ (content[t] # Unsent /\ sent'[t] = content[t])
      BY <1>1
    <3>3. content[t] # Unsent => content[t] <= shown[t]
      <4>1. CASE content[t] = Preview
        BY <1>5, <4>1 DEF Preview
      <4>2. CASE content[t] \notin {Unsent, Preview}
        <5>1. f.revision < stamp[t]
          BY <1>3, <1>5, <2>2, <4>2 DEF Takes
        <5> QED BY <1>3, <4>2, <5>1 DEF FrameSound
      <4> QED BY <4>1, <4>2
    <3> QED BY <2>2, <3>1, <3>2, <3>3
  <2> QED BY <2>1, <2>2
<1>7. StreamTypeOK'
  <2>1. /\ shown' \in [Slots -> Contents] /\ stamp' \in [Slots -> Contents]
        /\ sent' \in Payloads
    <3>1. \A t \in Slots : /\ shown'[t] \in Contents /\ stamp'[t] \in Contents
                          /\ sent'[t] \in Contents \cup {Unsent}
      <4> TAKE t \in Slots
      <4>1. shown[t] \in Contents /\ stamp[t] \in Contents /\ sent[t] \in Contents \cup {Unsent}
        BY DEF StreamInv, StreamTypeOK, Payloads
      <4> QED BY <1>3, <1>6, <4>1 DEF Confirmed
    <3> QED BY <1>1, <3>1 DEF Payloads
  <2>2. invalid' \subseteq Slots /\ outrun' \subseteq Slots
    BY <1>1 DEF StreamInv, StreamTypeOK
  <2> QED BY <1>1, <1>2, <2>1, <2>2 DEF StreamInv, StreamTypeOK
<1>8. NothingForgotten'
  <2> SUFFICES ASSUME NEW t \in Slots, shown'[t] < reported'[t]
               PROVE  t \in invalid' \/ t \in outrun'
    BY DEF NothingForgotten
  <2>1. reported'[t] = reported[t]
    BY <1>1
  <2>2. CASE content[t] # Unsent
    <3>1. content[t] <= shown'[t] /\ shown'[t] \in Nat
      BY <1>3, <1>5, <1>6, <2>2
    <3>2. content[t] < reported[t]
      BY <1>3, <1>5, <2>1, <2>2, <3>1
    <3> QED BY <1>1, <2>2, <3>2
  <2>3. CASE content[t] = Unsent
    <3>1. shown'[t] = shown[t]
      BY <1>6, <2>3 DEF Confirmed
    <3>2. t \in invalid \/ t \in outrun
      BY <2>1, <3>1 DEF StreamInv, NothingForgotten
    <3> QED BY <1>1, <2>3, <3>2
  <2> QED BY <2>2, <2>3
<1>9. \A t \in Slots : sent'[t] # Unsent => sent'[t] <= shown'[t] /\ sent'[t] <= bars[t]
  <2> TAKE t \in Slots
  <2>1. content[t] # Unsent => content[t] <= bars[t]
    BY <1>3 DEF FrameSound
  <2> QED BY <1>3, <1>5, <1>6, <2>1 DEF Confirmed
<1>10. SentWasShown'
  BY <1>9 DEF SentWasShown
<1>11. RevisionsSound'
  <2>1. \A t \in Slots : stamp'[t] <= gen
    <3> TAKE t \in Slots
    <3>1. content[t] # Unsent => f.revision <= gen
      BY <1>3 DEF FrameSound
    <3> QED BY <1>5, <1>6, <3>1 DEF Confirmed
  <2> QED BY <1>1, <1>5, <1>9, <2>1 DEF RevisionsSound
<1>12. EventsSound'
  <2> SUFFICES ASSUME NEW e \in Recorded
               PROVE  EventSound(e)'
    BY <1>5 DEF EventsSound
  <2>1. EventSound(e) /\ e.generation \in Nat
    BY <1>5 DEF StreamInv, EventsSound
  <2>2. ASSUME NEW t \in Named(e), cursor < e.generation, e.generation <= stamp'[t]
        PROVE  e.generation <= shown'[t]
    <3>1. t \in Slots
      BY DEF Named
    <3>2. CASE Takes(f, t)
      BY <1>3, <1>6, <2>2, <3>1, <3>2 DEF FrameSound, Confirmed
    <3>3. CASE ~Takes(f, t)
      BY <1>6, <2>1, <2>2, <3>1, <3>3 DEF EventSound
    <3> QED BY <3>2, <3>3
  <2> QED BY <1>1, <2>1, <2>2 DEF EventSound, Named
<1>13. TaskSound'
  BY <1>1 DEF StreamInv, TaskSound, Current
<1>14. QueueSound(queue)'
  <2>1. ASSUME NEW j \in DOMAIN queue', NEW t \in Slots, queue'[j].bars[t] # Unsent,
               queue'[j].revision < stamp'[t]
        PROVE  queue'[j].bars[t] <= shown'[t]
    <3>1. CASE Takes(f, t)
      BY <1>4, <1>6, <2>1, <3>1 DEF PairSound
    <3>2. CASE ~Takes(f, t)
      BY <1>4, <1>6, <2>1, <3>2 DEF FrameSound
    <3> QED BY <3>1, <3>2
  <2>2. ASSUME NEW j \in DOMAIN queue' PROVE FrameSound(queue[j])'
    BY <1>1, <1>4, <1>5, <2>1, <2>2 DEF FrameSound, Named
  <2>3. ASSUME NEW i \in DOMAIN queue', NEW j \in DOMAIN queue', i < j
        PROVE  PairSound(queue[i], queue[j])'
    <3>1. i + 1 < j + 1 /\ i + 1 \in DOMAIN queue /\ j + 1 \in DOMAIN queue
      BY <1>2, <2>3
    <3>2. PairSound(queue[i + 1], queue[j + 1])
      BY <3>1 DEF StreamInv, QueueSound
    <3>3. PairSound(queue'[i], queue'[j])
      BY <1>2, <3>2
    <3> QED BY <3>3 DEF PairSound
  <2> QED BY <2>2, <2>3 DEF QueueSound
<1>15. QueueAhead(queue)'
  <2>1. ASSUME NEW j \in DOMAIN queue' PROVE FrameAhead(queue[j])'
    <3> SUFFICES ASSUME NEW t \in Slots, Confirmed(queue'[j].bars[t]),
                        cursor < queue'[j].revision, sent'[t] # Unsent
                 PROVE  sent'[t] <= queue'[j].bars[t]
      BY <1>1 DEF FrameAhead
    <3>1. CASE sent'[t] = sent[t]
      BY <1>4, <3>1 DEF FrameAhead
    <3>2. CASE content[t] # Unsent /\ sent'[t] = content[t]
      BY <1>4, <3>2 DEF PairAhead
    <3> QED BY <1>6, <3>1, <3>2 DEF Confirmed
  <2>2. ASSUME NEW i \in DOMAIN queue', NEW j \in DOMAIN queue', i < j
        PROVE  PairAhead(queue[i], queue[j])'
    <3>1. i + 1 < j + 1 /\ i + 1 \in DOMAIN queue /\ j + 1 \in DOMAIN queue
      BY <1>2, <2>2
    <3>2. PairAhead(queue[i + 1], queue[j + 1])
      BY <3>1 DEF StreamInv, QueueAhead
    <3>3. PairAhead(queue'[i], queue'[j])
      BY <1>2, <3>2
    <3> QED BY <1>1, <3>3 DEF PairAhead
  <2> QED BY <2>1, <2>2 DEF QueueAhead
<1> QED BY <1>7, <1>8, <1>10, <1>11, <1>12, <1>13, <1>14, <1>15 DEF StreamInv

LEMMA StreamStep ==
  ASSUME StreamInv, [StreamNext]_(streamVars)
  PROVE  StreamInv'
<1>1. CASE \E S \in SUBSET Slots \ {{}} : Commit(S) \/ UnknownCommit(S)
  <2>1. PICK S \in SUBSET Slots : Commit(S) \/ UnknownCommit(S)
    BY <1>1
  <2> QED BY <2>1, CommitKeeps
<1>2. CASE ScheduleDue \/ CadencePasses \/ FlushStale
             \/ Load \/ LoadFails
  BY <1>2, CheckpointKeeps
<1>3. CASE FlushCurrent \/ FlushFailed \/ ProviderPreview
             \/ Heartbeat
  BY <1>3, QueueKeeps
<1>4. CASE HandleEvents
  BY <1>4, EventsKeep
<1>5. CASE Send
  BY <1>5, SendKeeps
<1>6. CASE UNCHANGED streamVars
  <2>1. FrameKeeps /\ StreamKeeps /\ UNCHANGED <<task, followup, due, queue, invalid, outrun>>
    BY <1>6 DEF FrameKeeps, StreamKeeps, streamVars, storageVars, checkpointVars,
       consumerVars, historyVars
  <2>2. StreamTypeOK'
    BY <2>1 DEF StreamInv, StreamTypeOK, FrameKeeps, StreamKeeps
  <2>3. QueueSound(queue') /\ QueueAhead(queue')
    BY <2>1 DEF StreamInv
  <2> QED BY <2>1, <2>2, <2>3, StreamKept, FramesKept DEF StreamInv
<1> QED BY <1>1, <1>2, <1>3, <1>4, <1>5, <1>6 DEF StreamNext, CoordinatorStep

THEOREM StreamInvTheorem ==
  StreamSpec => []StreamInv
<1>1. StreamInit => StreamInv
  BY StreamStarts
<1>2. StreamInv /\ [StreamNext]_(streamVars) => StreamInv'
  BY StreamStep
<1> QED BY <1>1, <1>2, PTL DEF StreamSpec

(* A revision that an event reported and the browser does not show is       *)
(* not forgotten, however often frames are dropped from the queue or bring  *)
(* older bars: its slot stays invalidated in the tracker                    *)
(* (invalidate_timestamps, remember) until a frame with the slot was        *)
(* acknowledged, and if the browser does not show what was reported then,   *)
(* it is because that frame brought an older bar, never because the browser *)
(* (resolveStreamBar) dropped a newer one.                                  *)
THEOREM NothingForgottenTheorem ==
  StreamSpec => []NothingForgotten
<1>1. StreamInv => NothingForgotten
  BY DEF StreamInv
<1> QED BY <1>1, StreamInvTheorem, PTL

(* The browser never shows a bar older than the one the tracker takes for   *)
(* sent (remember), although a frame may take it back to an older one: a    *)
(* frame that takes the browser back takes the tracker back as well.        *)
THEOREM SentWasShownTheorem ==
  StreamSpec => []SentWasShown
<1>1. StreamInv => SentWasShown
  BY DEF StreamInv
<1> QED BY <1>1, StreamInvTheorem, PTL

-----------------------------------------------------------------------------
(* Receipts are committed under the generations of the registry.            *)
LEMMA RangeFacts ==
  /\ \A r \in Ranges : /\ r = <<r[1], r[2]>> /\ r[1] \in Nat /\ r[2] \in Nat
                       /\ r[1] < r[2] /\ r[2] <= MaxTime
  /\ \A a, b \in Times : a < b => <<a, b>> \in Ranges
  /\ IsFiniteSet(Ranges)
<1>1. MaxTime \in Nat
  BY CoverageAssumption
<1>2. ASSUME NEW r \in Ranges
      PROVE  /\ r = <<r[1], r[2]>> /\ r[1] \in Nat /\ r[2] \in Nat
             /\ r[1] < r[2] /\ r[2] <= MaxTime
  BY <1>1 DEF Ranges, Times
<1>3. \A a, b \in Times : a < b => <<a, b>> \in Ranges
  BY DEF Ranges
<1>4. IsFiniteSet(Ranges)
  <2>1. 0 \in Int /\ MaxTime \in Int
    BY <1>1
  <2>2. IsFiniteSet(0..MaxTime)
    BY <2>1, FS_Interval
  <2>3. IsFiniteSet(Times)
    BY <2>2 DEF Times
  <2>4. IsFiniteSet(Times \X Times)
    BY <2>3, FS_Product
  <2>5. Ranges \subseteq Times \X Times
    BY DEF Ranges
  <2> QED BY <2>4, <2>5, FS_Subset
<1> QED BY <1>2, <1>3, <1>4

(* A bar of a set of ranges.                                                *)
LEMMA BarsIn ==
  ASSUME NEW R \in SUBSET Ranges
  PROVE  /\ \A t : t \in AllBars(R) <=>
                     t \in Int /\ \E r \in R : r[1] <= t /\ t < r[2]
         /\ AllBars(R) \subseteq Times
<1>1. ASSUME NEW r \in R, NEW t
      PROVE  t \in BarsOf(r) <=> t \in Int /\ r[1] <= t /\ t < r[2]
  <2>1. r[1] \in Nat /\ r[2] \in Nat
    BY RangeFacts
  <2> QED BY <2>1 DEF BarsOf
<1>2. \A t : t \in AllBars(R) <=> \E r \in R : t \in BarsOf(r)
  BY DEF AllBars
<1>3. ASSUME NEW t \in AllBars(R) PROVE t \in Times
  <2>1. PICK r \in R : t \in Int /\ r[1] <= t /\ t < r[2]
    BY <1>1, <1>2
  <2>2. r[1] \in Nat /\ r[2] \in Nat /\ r[2] <= MaxTime /\ MaxTime \in Nat
    BY RangeFacts, CoverageAssumption
  <2> QED BY <2>1, <2>2 DEF Times
<1> QED BY <1>1, <1>2, <1>3

(* Some receipt comes last.                                                 *)
LEMMA LastReceipts ==
  ASSUME NEW s \in SUBSET Ranges, s # {}
  PROVE  /\ LastReceipt(s) \in s
         /\ \A r \in s : Before(r, LastReceipt(s))
<1> DEFINE T == {u \in SUBSET s : u = {} \/ \E x \in u : \A y \in u : Before(y, x)}
<1>1. ASSUME NEW u \in SUBSET s, \A v \in SUBSET u : v # u => v \in T
      PROVE  u \in T
  <2> SUFFICES ASSUME u # {}
               PROVE  \E x \in u : \A y \in u : Before(y, x)
    BY <1>1
  <2>1. PICK z \in u : TRUE
    OBVIOUS
  <2>2. \A y \in u : y[1] \in Nat /\ y[2] \in Nat
    BY RangeFacts
  <2>3. Before(z, z)
    BY <2>1, <2>2 DEF Before
  <2>4. u \ {z} \in T
    BY <1>1, <2>1
  <2>5. CASE u \ {z} = {}
    BY <2>1, <2>3, <2>5
  <2>6. CASE u \ {z} # {}
    <3>1. PICK x \in u \ {z} : \A y \in u \ {z} : Before(y, x)
      BY <2>4, <2>6
    <3>2. CASE Before(z, x)
      BY <3>1, <3>2
    <3>3. CASE ~Before(z, x)
      <4>1. \A y \in u : Before(y, x) => Before(y, z)
        BY <2>1, <2>2, <3>1, <3>3 DEF Before
      <4> QED BY <2>1, <2>3, <3>1, <4>1
    <3> QED BY <3>2, <3>3
  <2> QED BY <2>5, <2>6
<1>2. IsFiniteSet(s)
  BY RangeFacts, FS_Subset
<1>3. \A u \in SUBSET s : (\A v \in SUBSET u : v # u => v \in T) => u \in T
  BY <1>1
<1> HIDE DEF T
<1>4. SUBSET s \subseteq T
  BY <1>2, <1>3, SetInduction
<1>5. \E x \in s : \A y \in s : Before(y, x)
  BY <1>4 DEF T
<1> QED BY <1>5 DEF LastReceipt

(* Ranges in order that neither overlap nor touch.                          *)
Separated(u) == \A i, j \in DOMAIN u : i < j => u[i][2] < u[j][1]
RangesOf(u) == {u[i] : i \in DOMAIN u}

(* u is the union of the receipts s.                                        *)
Merged(s, u) ==
  /\ u \in Seq(Ranges) /\ Separated(u)
  /\ \A t \in Int : (\E i \in DOMAIN u : u[i][1] <= t /\ t < u[i][2])
                      <=> (\E r \in s : r[1] <= t /\ t < r[2])
  /\ u # <<>> => \E r \in s : u[Len(u)][1] <= r[1]

LEMMA MergeShape ==
  ASSUME NEW u \in Seq(Ranges),
         NEW r \in Ranges
  PROVE  LET m == Merge(u, r)
             n == Len(u)
             wide == <<u[n][1], Larger(u[n][2], r[2])>>
         IN  /\ m \in Seq(Ranges)
             /\ \/ /\ u = <<>> \/ r[1] > u[n][2]
                   /\ Len(m) = n + 1 /\ m[n + 1] = r
                   /\ \A i \in 1..n : m[i] = u[i]
                \/ /\ u # <<>> /\ ~(r[1] > u[n][2])
                   /\ Len(m) = n /\ m[n] = wide
                   /\ \A i \in 1..(n - 1) : m[i] = u[i]
<1> DEFINE m == Merge(u, r)
           n == Len(u)
           wide == <<u[n][1], Larger(u[n][2], r[2])>>
<1>1. n \in Nat /\ DOMAIN u = 1..n /\ (u # <<>> => n \in 1..n)
  OBVIOUS
<1>2. CASE u = <<>> \/ r[1] > u[n][2]
  <2>1. m = Append(u, r)
    BY <1>2 DEF Merge, Last
  <2> HIDE DEF m
  <2>2. m \in Seq(Ranges) /\ Len(m) = n + 1 /\ m[n + 1] = r
        /\ \A i \in 1..n : m[i] = u[i]
    BY <2>1
  <2> QED BY <1>2, <2>2 DEF m
<1>3. CASE ~(u = <<>> \/ r[1] > u[n][2])
  <2> DEFINE f == SubSeq(u, 1, n - 1)
  <2>1. m = Append(f, wide)
    BY <1>3 DEF Merge, Last, Front
  <2>2. u[n] \in Ranges
    BY <1>1, <1>3
  <2>3. wide \in Ranges
    <3>1. /\ u[n][1] \in Times /\ u[n][2] \in Times
          /\ r[2] \in Times /\ u[n][1] < u[n][2]
      BY <2>2 DEF Ranges
    <3>2. Times \subseteq Nat
      BY DEF Times
    <3>3. Larger(u[n][2], r[2]) \in Times
          /\ u[n][1] < Larger(u[n][2], r[2])
      <4>1. Larger(u[n][2], r[2]) \in {u[n][2], r[2]}
            /\ Larger(u[n][2], r[2]) >= u[n][2]
        <5>1. u[n][2] \in Nat /\ r[2] \in Nat
          BY <3>1, <3>2
        <5> QED BY <5>1 DEF Larger
      <4>2. u[n][1] \in Nat /\ u[n][2] \in Nat /\ r[2] \in Nat
        BY <3>1, <3>2
      <4> QED BY <3>1, <4>1, <4>2
    <3> QED BY <3>1, <3>3, RangeFacts
  <2>4. f \in Seq(Ranges) /\ Len(f) = n - 1 /\ \A i \in 1..(n - 1) : f[i] = u[i]
    BY <1>1, <1>3
  <2> HIDE DEF m, f, wide
  <2>5. m \in Seq(Ranges) /\ Len(m) = n /\ m[n] = wide
        /\ \A i \in 1..(n - 1) : m[i] = u[i]
    <3>1. n \in Nat \ {0}
      BY <1>1, <1>3
    <3> DEFINE k == n - 1
    <3>2. k \in Nat /\ k + 1 = n
      BY <3>1
    <3> HIDE DEF k, n
    <3>3. f \in Seq(Ranges) /\ Len(f) = k /\ \A i \in 1..k : f[i] = u[i]
      BY <2>4 DEF k
    <3>4. Append(f, wide) \in Seq(Ranges) /\ Len(Append(f, wide)) = k + 1
          /\ Append(f, wide)[k + 1] = wide /\ \A i \in 1..k : Append(f, wide)[i] = f[i]
      BY <2>3, <3>2, <3>3
    <3>5. m \in Seq(Ranges) /\ Len(m) = n /\ m[n] = wide
          /\ \A i \in 1..k : m[i] = u[i]
      BY <2>1, <3>2, <3>3, <3>4
    <3> QED BY <3>5 DEF k
  <2> QED BY <1>3, <2>5 DEF m, wide
<1> QED BY <1>2, <1>3

LEMMA MergeKeeps ==
  ASSUME NEW s \in SUBSET Ranges,
         NEW r \in Ranges, \A x \in s : Before(x, r),
         NEW u, Merged(s, u)
  PROVE  Merged(s \cup {r}, Merge(u, r))
<1> DEFINE m == Merge(u, r)
           n == Len(u)
<1>1. u \in Seq(Ranges) /\ n \in Nat /\ DOMAIN u = 1..n
  BY DEF Merged
<1>2. \A i \in 1..n : u[i][1] \in Nat /\ u[i][2] \in Nat /\ u[i][1] < u[i][2]
  <2>1. \A i \in 1..n : u[i] \in Ranges
    BY <1>1
  <2> QED BY <2>1, RangeFacts
<1>3. r[1] \in Nat /\ r[2] \in Nat /\ r[1] < r[2]
  BY RangeFacts
<1>4. \A i, j \in 1..n : i < j => u[i][2] < u[j][1]
  BY <1>1 DEF Merged, Separated
<1>5. \A t \in Int : (\E i \in 1..n : u[i][1] <= t /\ t < u[i][2])
                       <=> (\E x \in s : x[1] <= t /\ t < x[2])
  BY <1>1 DEF Merged
<1>6. u # <<>> => u[n][1] <= r[1] /\ n \in 1..n
  <2> SUFFICES ASSUME u # <<>> PROVE u[n][1] <= r[1] /\ n \in 1..n
    OBVIOUS
  <2>1. n \in 1..n
    BY <1>1
  <2>2. PICK x \in s : u[n][1] <= x[1]
    BY DEF Merged
  <2>3. x[1] <= r[1]
    <3>1. x[1] \in Nat /\ Before(x, r)
      BY RangeFacts
    <3> QED BY <1>3, <3>1 DEF Before
  <2>4. x[1] \in Nat /\ u[n][1] \in Nat
    BY <1>2, <2>1, RangeFacts
  <2> QED BY <1>3, <2>1, <2>2, <2>3, <2>4
<1>7. m \in Seq(Ranges)
  BY <1>1, MergeShape
<1> HIDE DEF n
<1>8. CASE (u = <<>> \/ r[1] > u[n][2]) /\ Len(m) = n + 1 /\ m[n + 1] = r
           /\ \A i \in 1..n : m[i] = u[i]
  <2> HIDE DEF m
  <2>1. DOMAIN m = 1..(n + 1)
    BY <1>7, <1>8
  <2>2. \A i \in 1..n : u[i][2] < r[1]
    <3> SUFFICES ASSUME NEW i \in 1..n PROVE u[i][2] < r[1]
      OBVIOUS
    <3>1. u # <<>> /\ n \in 1..n
      BY <1>1 DEF n
    <3>2. u[n][2] < r[1]
      BY <1>2, <1>3, <1>8, <3>1
    <3>3. i = n \/ i < n
      BY <1>1
    <3>4. i < n => u[i][2] < u[n][1]
      BY <1>4, <3>1
    <3> QED BY <1>2, <1>3, <3>1, <3>2, <3>3, <3>4
  <2>3. Separated(m)
    <3> SUFFICES ASSUME NEW i \in 1..(n + 1), NEW j \in 1..(n + 1), i < j
                 PROVE  m[i][2] < m[j][1]
      BY <2>1 DEF Separated
    <3>1. i \in 1..n /\ m[i] = u[i]
      BY <1>1, <1>8
    <3>2. j = n + 1 \/ j \in 1..n
      BY <1>1
    <3> QED BY <1>4, <1>8, <2>2, <3>1, <3>2
  <2>4. ASSUME NEW t \in Int
        PROVE  (\E i \in DOMAIN m : m[i][1] <= t /\ t < m[i][2])
                 <=> (\E x \in s \cup {r} : x[1] <= t /\ t < x[2])
    <3>1. (\E i \in DOMAIN m : m[i][1] <= t /\ t < m[i][2])
            <=> (\E i \in 1..n : u[i][1] <= t /\ t < u[i][2]) \/ (r[1] <= t /\ t < r[2])
      <4>1. 1..(n + 1) = (1..n) \cup {n + 1}
        BY <1>1
      <4> QED BY <1>8, <2>1, <4>1
    <3> QED BY <1>5, <3>1
  <2>5. \E x \in s \cup {r} : m[Len(m)][1] <= x[1]
    BY <1>3, <1>8
  <2>6. Merged(s \cup {r}, m)
    BY <1>7, <2>3, <2>4, <2>5 DEF Merged
  <2> QED BY <2>6 DEF m
<1>9. CASE /\ u # <<>> /\ ~(r[1] > u[n][2])
           /\ Len(m) = n /\ m[n] = <<u[n][1], Larger(u[n][2], r[2])>>
           /\ \A i \in 1..(n - 1) : m[i] = u[i]
  <2> DEFINE w == Larger(u[n][2], r[2])
  <2>1. n \in 1..n /\ u[n][1] <= r[1] /\ r[1] <= u[n][2]
    BY <1>2, <1>3, <1>6, <1>9
  <2>2. w \in {u[n][2], r[2]} /\ w >= u[n][2] /\ w >= r[2]
    BY <1>2, <1>3, <2>1 DEF Larger
  <2>3. m[n][1] = u[n][1] /\ m[n][2] = w
    BY <1>9
  <2> HIDE DEF m, w
  <2>4. DOMAIN m = 1..n /\ \A i \in 1..n : i = n \/ (i < n /\ m[i] = u[i])
    BY <1>1, <1>7, <1>9
  <2>5. Separated(m)
    <3> SUFFICES ASSUME NEW i \in 1..n, NEW j \in 1..n, i < j
                 PROVE  m[i][2] < m[j][1]
      BY <2>4 DEF Separated
    <3>1. m[i] = u[i]
      BY <1>1, <2>4
    <3>2. m[j][1] = u[j][1]
      BY <2>3, <2>4
    <3> QED BY <1>4, <3>1, <3>2
  <2>6. ASSUME NEW t \in Int
        PROVE  (\E i \in DOMAIN m : m[i][1] <= t /\ t < m[i][2])
                 <=> (\E x \in s \cup {r} : x[1] <= t /\ t < x[2])
    <3>1. m[n][1] <= t /\ t < m[n][2]
            <=> (u[n][1] <= t /\ t < u[n][2]) \/ (r[1] <= t /\ t < r[2])
      <4>1. /\ u[n][1] \in Nat /\ u[n][2] \in Nat /\ u[n][1] < u[n][2] /\ w \in Nat
        BY <1>2, <1>3, <2>1, <2>2
      <4> QED BY <1>3, <2>1, <2>2, <2>3, <4>1
    <3>2. (\E i \in DOMAIN m : m[i][1] <= t /\ t < m[i][2])
            <=> (\E i \in 1..n : u[i][1] <= t /\ t < u[i][2]) \/ (r[1] <= t /\ t < r[2])
      BY <2>1, <2>4, <3>1
    <3> QED BY <1>5, <3>2
  <2>7. \E x \in s \cup {r} : m[Len(m)][1] <= x[1]
    BY <1>9, <2>1, <2>3
  <2>8. Merged(s \cup {r}, m)
    BY <1>7, <2>5, <2>6, <2>7 DEF Merged
  <2> QED BY <2>8 DEF m
<1>10. \/ /\ u = <<>> \/ r[1] > u[n][2]
          /\ Len(m) = n + 1 /\ m[n + 1] = r
          /\ \A i \in 1..n : m[i] = u[i]
       \/ /\ u # <<>> /\ ~(r[1] > u[n][2])
          /\ Len(m) = n /\ m[n] = <<u[n][1], Larger(u[n][2], r[2])>>
          /\ \A i \in 1..(n - 1) : m[i] = u[i]
  BY <1>1, MergeShape DEF n
<1> HIDE DEF m
<1> QED BY <1>8, <1>9, <1>10

(* history_coverage_union computes the bars of the receipts.                *)
LEMMA UnionMerges ==
  ASSUME NEW S \in SUBSET Ranges
  PROVE  Merged(S, CoverageUnion(S))
<1> DEFINE A == Seq(Ranges)
           pick == [s \in SUBSET S |-> LastReceipt(s)]
           Folds(f) == f = [s \in SUBSET S |->
                              IF s = {} THEN <<>>
                              ELSE Merge(f[s \ {LastReceipt(s)}],
                                                  LastReceipt(s))]
           f0 == CHOOSE f : Folds(f)
<1>1. CoverageUnion(S) = f0[S]
  BY DEF CoverageUnion, MapThenFoldSet
<1>2. IsFiniteSet(S)
  BY RangeFacts, FS_Subset
<1>3. \A s \in SUBSET S : pick[s] = LastReceipt(s)
  OBVIOUS
<1>4. Picks(pick, S)
  BY <1>3, LastReceipts DEF Picks
<1>5. <<>> \in A
  OBVIOUS
<1>6. \E f : Folds(f)
  <2> DEFINE h == [p \in S \X A |-> Merge(p[2], p[1])]
  <2>1. \A x \in S, a \in A : h[<<x, a>>] = Merge(a, x) /\ h[<<x, a>>] \in A
    <3> TAKE x \in S, a \in A
    <3>1. <<x, a>> \in S \X A
      OBVIOUS
    <3>2. h[<<x, a>>] = Merge(a, x)
      BY <3>1
    <3>3. Merge(a, x) \in A
      BY MergeShape
    <3> QED BY <3>2, <3>3
  <2> HIDE DEF h, pick, A
  <2>2. PICK g : FoldsTo(g, h, <<>>, pick, S)
    BY <1>2, <1>4, FoldExists
  <2>3. \A s \in SUBSET S : g[s] \in A
    BY <1>2, <1>4, <1>5, <2>1, <2>2, FoldTyped
  <2>4. ASSUME NEW s \in SUBSET S
        PROVE  g[s] = IF s = {} THEN <<>>
                      ELSE Merge(g[s \ {LastReceipt(s)}],
                                          LastReceipt(s))
    <3>1. CASE s = {}
      BY <2>2, <3>1 DEF FoldsTo
    <3>2. CASE s # {}
      <4> DEFINE x == pick[s]
      <4>1. x \in s /\ x = LastReceipt(s)
        BY <1>3, <1>4, <3>2 DEF Picks
      <4>2. g[s] = h[<<x, g[s \ {x}]>>]
        BY <2>2, <3>2 DEF FoldsTo
      <4> HIDE DEF x
      <4>3. x \in S /\ s \ {x} \in SUBSET S
        BY <4>1
      <4>4. g[s] = Merge(g[s \ {x}], x)
        BY <2>1, <2>3, <4>2, <4>3
      <4> QED BY <3>2, <4>1, <4>4
    <3> QED BY <3>1, <3>2
  <2>5. g = [s \in SUBSET S |-> g[s]]
    BY <2>2 DEF FoldsTo
  <2>6. g = [s \in SUBSET S |-> IF s = {} THEN <<>>
                                ELSE Merge(g[s \ {LastReceipt(s)}],
                                                    LastReceipt(s))]
    BY <2>4, <2>5
  <2> QED BY <2>6
<1>7. Folds(f0)
  <2> HIDE DEF Folds
  <2> QED BY <1>6
<1>8. \A s \in SUBSET S : f0[s] = IF s = {} THEN <<>>
                               ELSE Merge(f0[s \ {LastReceipt(s)}],
                                                   LastReceipt(s))
  <2> HIDE DEF f0
  <2> QED BY <1>7
<1> HIDE DEF f0, pick
<1> DEFINE T == {s \in SUBSET S : Merged(s, f0[s])}
<1>9. {} \in T
  <2>1. f0[{}] = <<>>
    BY <1>8
  <2>2. <<>> \in Seq(Ranges) /\ DOMAIN <<>> = {}
    OBVIOUS
  <2> QED BY <2>1, <2>2 DEF Merged, Separated
<1>10. ASSUME NEW s \in SUBSET S, s # {}, s \ {pick[s]} \in T
       PROVE  s \in T
  <2> DEFINE x == pick[s]
             u == s \ {x}
  <2>1. x = LastReceipt(s) /\ x \in s /\ \A y \in s : Before(y, x)
    BY <1>3, <1>10, LastReceipts
  <2>2. f0[s] = Merge(f0[u], x)
    BY <1>8, <1>10, <2>1
  <2>3. Merged(u, f0[u])
    BY <1>10
  <2> HIDE DEF x
  <2>4. /\ x \in Ranges /\ u \in SUBSET Ranges /\ u \cup {x} = s
        /\ \A y \in u : Before(y, x)
    BY <2>1
  <2> HIDE DEF u
  <2>5. Merged(u \cup {x}, Merge(f0[u], x))
    BY <2>3, <2>4, MergeKeeps
  <2> QED BY <2>2, <2>4, <2>5
<1> HIDE DEF T
<1>11. SUBSET S \subseteq T
  BY <1>2, <1>4, <1>9, <1>10, FoldInduction
<1>12. Merged(S, f0[S])
  BY <1>11 DEF T
<1> QED BY <1>1, <1>12

(* A range is covered by one of the merged ranges when every bar of it is   *)
(* in some receipt.                                                         *)
LEMMA Covered ==
  ASSUME NEW R \in SUBSET Ranges,
         NEW r \in Ranges
  PROVE  RangeIsCovered(R, r[1], r[2])
           <=> BarsOf(r) \subseteq AllBars(R)
<1> DEFINE u == CoverageUnion(R)
           a == r[1]
           b == r[2]
<1>1. Merged(R, u)
  BY UnionMerges
<1>2. RangeIsCovered(R, r[1], r[2]) <=> \E i \in DOMAIN u : u[i][1] <= a /\ u[i][2] >= b
  BY DEF RangeIsCovered
<1> HIDE DEF u
<1>3. a \in Nat /\ b \in Nat /\ a < b
  BY RangeFacts
<1>4. /\ \A i \in DOMAIN u : i \in Nat /\ u[i][1] \in Nat /\ u[i][2] \in Nat /\ u[i][1] < u[i][2]
      /\ \A i, j \in DOMAIN u : i < j => u[i][2] < u[j][1]
  <2>1. \A i \in DOMAIN u : u[i] \in Ranges /\ i \in Nat
    BY <1>1 DEF Merged
  <2> QED BY <1>1, <2>1, RangeFacts DEF Merged, Separated
<1>5. \A t \in Int : t \in AllBars(R)
                       <=> \E i \in DOMAIN u : u[i][1] <= t /\ t < u[i][2]
  BY <1>1, BarsIn DEF Merged
<1>6. \A t : t \in BarsOf(r) <=> t \in Int /\ a <= t /\ t < b
  BY <1>3 DEF BarsOf
<1> HIDE DEF a, b
<1>7. ASSUME NEW i \in DOMAIN u, u[i][1] <= a, u[i][2] >= b
      PROVE  BarsOf(r) \subseteq AllBars(R)
  <2> SUFFICES ASSUME NEW t \in BarsOf(r)
               PROVE  t \in AllBars(R)
    OBVIOUS
  <2>1. t \in Int /\ u[i][1] <= t /\ t < u[i][2]
    BY <1>3, <1>4, <1>6, <1>7
  <2> QED BY <1>5, <2>1
<1>8. ASSUME BarsOf(r) \subseteq AllBars(R)
      PROVE  \E i \in DOMAIN u : u[i][1] <= a /\ u[i][2] >= b
  <2>1. PICK i \in DOMAIN u : u[i][1] <= a /\ a < u[i][2]
    <3>1. a \in AllBars(R) /\ a \in Int
      BY <1>3, <1>6, <1>8
    <3> QED BY <1>5, <3>1
  <2>2. SUFFICES ASSUME ~(u[i][2] >= b) PROVE FALSE
    BY <2>1
  <2> DEFINE t == u[i][2]
  <2>3. t \in Int /\ a <= t /\ t < b /\ i \in Nat
    BY <1>3, <1>4, <2>1, <2>2
  <2>4. PICK j \in DOMAIN u : u[j][1] <= t /\ t < u[j][2]
    <3> HIDE DEF t
    <3>1. t \in AllBars(R)
      BY <1>6, <1>8, <2>3
    <3> QED BY <1>5, <2>3, <3>1
  <2>5. /\ j \in Nat /\ u[j][1] \in Nat /\ u[j][2] \in Nat /\ u[j][1] < u[j][2]
        /\ i \in Nat /\ u[i][1] \in Nat /\ u[i][2] \in Nat /\ u[i][1] < u[i][2]
    BY <1>4
  <2>6. CASE i = j
    BY <2>4, <2>5, <2>6
  <2>7. CASE i < j
    <3>1. u[i][2] < u[j][1]
      BY <1>4, <2>7
    <3> QED BY <2>4, <2>5, <3>1
  <2>8. CASE j < i
    <3>1. u[j][2] < u[i][1]
      BY <1>4, <2>8
    <3> QED BY <2>4, <2>5, <3>1
  <2> QED BY <2>5, <2>6, <2>7, <2>8
<1> QED BY <1>2, <1>7, <1>8

(* The gaps after the merged ranges with the numbers s, and how far the     *)
(* cursor of history_uncovered_ranges has come.                             *)
Cuts(start, end) == [gaps : Seq(Ranges), cursor : start..end]

In(t, r) == r[1] <= t /\ t < r[2]

CutTo(u, s, acc, start, end) ==
  /\ acc \in Cuts(start, end)
  /\ Separated(acc.gaps)
  /\ \A k \in DOMAIN acc.gaps : /\ acc.gaps[k][2] < acc.cursor
                                /\ \E i \in s : acc.gaps[k][2] <= u[i][1]
  /\ \A i \in s : u[i][1] < end => u[i][2] <= acc.cursor \/ acc.cursor = end
  /\ \A t \in start..(end - 1) :
       (\E k \in DOMAIN acc.gaps : In(t, acc.gaps[k]))
         <=> t < acc.cursor /\ ~(\E i \in s : In(t, u[i]))
  /\ \A k \in DOMAIN acc.gaps : start <= acc.gaps[k][1]

LEMMA CutShape ==
  ASSUME NEW start \in Times, NEW end \in Times,
         NEW v \in Ranges, NEW acc \in Cuts(start, end)
  PROVE  LET c == Cut(acc, v, start, end)
             from == Larger(v[1], start)
         IN  /\ c \in Cuts(start, end)
             /\ \/ (v[2] <= acc.cursor \/ v[1] >= end) /\ c = acc
                \/ /\ v[2] > acc.cursor /\ v[1] < end
                   /\ c.cursor = Larger(acc.cursor, Smaller(v[2], end))
                   /\ \/ ~(from > acc.cursor) /\ c.gaps = acc.gaps
                      \/ /\ from > acc.cursor /\ c.gaps = Append(acc.gaps, <<acc.cursor, from>>)
                         /\ <<acc.cursor, from>> \in Ranges
                         /\ from = v[1]
<1> DEFINE c == Cut(acc, v, start, end)
           from == Larger(v[1], start)
           to == Larger(acc.cursor, Smaller(v[2], end))
<1>1. /\ start \in Nat /\ end \in Nat /\ end <= MaxTime /\ MaxTime \in Nat
      /\ v[1] \in Nat /\ v[2] \in Nat /\ v[1] < v[2]
      /\ acc.cursor \in start..end /\ acc.gaps \in Seq(Ranges)
  BY RangeFacts, CoverageAssumption DEF Times, Cuts
<1>2. CASE v[2] <= acc.cursor \/ v[1] >= end
  <2>1. c = acc
    BY <1>2 DEF Cut
  <2> QED BY <1>2, <2>1
<1>3. CASE ~(v[2] <= acc.cursor \/ v[1] >= end)
  <2>1. c = [gaps |-> IF from > acc.cursor THEN Append(acc.gaps, <<acc.cursor, from>>)
                      ELSE acc.gaps,
             cursor |-> to]
    BY <1>3 DEF Cut
  <2>2. v[2] > acc.cursor /\ v[1] < end
    BY <1>1, <1>3
  <2>3. to \in start..end
    BY <1>1, <2>2 DEF Larger, Smaller
  <2>4. from > acc.cursor => from = v[1] /\ <<acc.cursor, from>> \in Ranges
    <3> SUFFICES ASSUME from > acc.cursor
                 PROVE  from = v[1] /\ <<acc.cursor, from>> \in Ranges
      OBVIOUS
    <3>1. from = v[1]
      BY <1>1 DEF Larger
    <3>2. acc.cursor \in Times /\ v[1] \in Times /\ acc.cursor < v[1]
      BY <1>1, <2>2, <3>1 DEF Times
    <3> QED BY <3>1, <3>2, RangeFacts
  <2> HIDE DEF from, to
  <2>5. c.gaps \in Seq(Ranges)
    <3>1. CASE from > acc.cursor
      <4> DEFINE e == <<acc.cursor, from>>
      <4>1. e \in Ranges
        BY <2>4, <3>1
      <4>2. c.gaps = Append(acc.gaps, e)
        BY <2>1, <3>1
      <4> HIDE DEF e, c
      <4> QED BY <1>1, <4>1, <4>2
    <3>2. CASE ~(from > acc.cursor)
      BY <1>1, <2>1, <3>2
    <3> QED BY <3>1, <3>2
  <2>6. c \in Cuts(start, end)
    BY <2>1, <2>3, <2>5 DEF Cuts
  <2>7. c.cursor = to
    BY <2>1
  <2>8. \/ ~(from > acc.cursor) /\ c.gaps = acc.gaps
        \/ from > acc.cursor /\ c.gaps = Append(acc.gaps, <<acc.cursor, from>>)
    BY <2>1
  <2> QED BY <2>2, <2>4, <2>6, <2>7, <2>8 DEF from, to
<1> QED BY <1>2, <1>3

(* A gap at the end of the gaps.                                            *)
LEMMA GapAppended ==
  ASSUME NEW gaps \in Seq(Ranges), NEW g \in Ranges
  PROVE  LET q == Append(gaps, g)
         IN  /\ DOMAIN q = DOMAIN gaps \cup {Len(gaps) + 1}
             /\ \A k \in DOMAIN gaps : q[k] = gaps[k] /\ k < Len(gaps) + 1
             /\ q[Len(gaps) + 1] = g /\ Len(gaps) + 1 \notin DOMAIN gaps
             /\ q \in Seq(Ranges)
             /\ (Separated(gaps) /\ \A k \in DOMAIN gaps : gaps[k][2] < g[1]) => Separated(q)
<1> DEFINE q == Append(gaps, g)
           n == Len(gaps)
<1>1. /\ n \in Nat /\ DOMAIN gaps = 1..n /\ DOMAIN q = 1..(n + 1) /\ q[n + 1] = g
      /\ \A k \in 1..n : q[k] = gaps[k]
      /\ q \in Seq(Ranges)
  OBVIOUS
<1> HIDE DEF q, n
<1>2. 1..(n + 1) = (1..n) \cup {n + 1} /\ n + 1 \notin 1..n /\ \A k \in 1..n : k < n + 1
  BY <1>1
<1>3. ASSUME Separated(gaps), \A k \in DOMAIN gaps : gaps[k][2] < g[1]
      PROVE  Separated(q)
  <2> SUFFICES ASSUME NEW i \in 1..(n + 1), NEW j \in 1..(n + 1), i < j
               PROVE  q[i][2] < q[j][1]
    BY <1>1 DEF Separated
  <2>1. i \in 1..n
    BY <1>1
  <2>2. CASE j = n + 1
    BY <1>1, <1>3, <2>1, <2>2
  <2>3. CASE j \in 1..n
    BY <1>1, <1>3, <2>1, <2>3 DEF Separated
  <2> QED BY <1>2, <2>2, <2>3
<1> QED BY <1>1, <1>2, <1>3 DEF q, n

LEMMA CutKeeps ==
  ASSUME NEW start \in Times, NEW end \in Times,
         start < end, NEW u \in Seq(Ranges), Separated(u),
         NEW x \in DOMAIN u, NEW s \in SUBSET DOMAIN u, \A i \in s : i < x,
         NEW acc, CutTo(u, s, acc, start, end)
  PROVE  CutTo(u, s \cup {x}, Cut(acc, u[x], start, end), start, end)
<1> DEFINE c == Cut(acc, u[x], start, end)
           from == Larger(u[x][1], start)
           n == Len(acc.gaps)
<1>1. acc \in Cuts(start, end) /\ u[x] \in Ranges
  BY DEF CutTo
<1>2. /\ start \in Nat /\ end \in Nat /\ start < end
      /\ u[x][1] \in Nat /\ u[x][2] \in Nat /\ u[x][1] < u[x][2]
      /\ acc.cursor \in start..end /\ acc.cursor \in Nat
      /\ acc.gaps \in Seq(Ranges)
  BY <1>1, RangeFacts DEF Times, Cuts
<1>3. \A i \in s : /\ u[i][1] \in Nat /\ u[i][2] \in Nat /\ u[i][1] < u[i][2]
                   /\ u[i][2] < u[x][1]
  <2>1. \A i \in s : u[i] \in Ranges /\ u[i][2] < u[x][1]
    BY DEF Separated
  <2> QED BY <2>1, RangeFacts
<1>4. \A k \in DOMAIN acc.gaps : /\ acc.gaps[k][1] \in Nat /\ acc.gaps[k][2] \in Nat
                                 /\ start <= acc.gaps[k][1]
                                 /\ acc.gaps[k][2] < acc.cursor
                                 /\ acc.gaps[k][2] < u[x][1]
  <2> TAKE k \in DOMAIN acc.gaps
  <2>1. acc.gaps[k] \in Ranges
    BY <1>2
  <2>2. acc.gaps[k][1] \in Nat /\ acc.gaps[k][2] \in Nat
    BY <2>1, RangeFacts
  <2>3. PICK i \in s : acc.gaps[k][2] <= u[i][1]
    BY DEF CutTo
  <2>4. acc.gaps[k][2] < u[x][1]
    <3>1. u[i][1] \in Nat /\ u[i][2] \in Nat /\ u[i][1] < u[i][2] /\ u[i][2] < u[x][1]
      BY <1>3
    <3>2. u[x][1] \in Nat
      BY <1>2
    <3> QED BY <2>2, <2>3, <3>1, <3>2
  <2> QED BY <2>2, <2>4 DEF CutTo
<1>5. /\ Separated(acc.gaps)
      /\ \A k \in DOMAIN acc.gaps : \E i \in s : acc.gaps[k][2] <= u[i][1]
      /\ \A i \in s : u[i][1] < end => u[i][2] <= acc.cursor \/ acc.cursor = end
      /\ \A t \in start..(end - 1) :
           (\E k \in DOMAIN acc.gaps : In(t, acc.gaps[k]))
             <=> t < acc.cursor /\ ~(\E i \in s : In(t, u[i]))
  BY DEF CutTo
(* No gap so far meets the range.                                           *)
<1>6. \A t \in start..(end - 1), k \in DOMAIN acc.gaps : In(t, acc.gaps[k]) => ~In(t, u[x])
  BY <1>2, <1>4 DEF In
<1>7. c \in Cuts(start, end)
  BY <1>1, CutShape
<1>8. CASE (u[x][2] <= acc.cursor \/ u[x][1] >= end) /\ c = acc
  <2>1. \A i \in s \cup {x} : u[i][1] < end => u[i][2] <= acc.cursor \/ acc.cursor = end
    BY <1>2, <1>5, <1>8
  <2>2. \A t \in start..(end - 1) :
          (\E k \in DOMAIN acc.gaps : In(t, acc.gaps[k]))
            <=> t < acc.cursor /\ ~(\E i \in s \cup {x} : In(t, u[i]))
    BY <1>5, <1>6
  <2>3. CutTo(u, s \cup {x}, acc, start, end)
    BY <1>1, <1>4, <1>5, <2>1, <2>2 DEF CutTo
  <2> QED BY <1>8, <2>3
<1>9. CASE /\ u[x][2] > acc.cursor /\ u[x][1] < end
           /\ c.cursor = Larger(acc.cursor, Smaller(u[x][2], end))
           /\ \/ ~(from > acc.cursor) /\ c.gaps = acc.gaps
              \/ /\ from > acc.cursor /\ c.gaps = Append(acc.gaps, <<acc.cursor, from>>)
                 /\ <<acc.cursor, from>> \in Ranges
                 /\ from = u[x][1]
  <2>1. /\ c.cursor \in Nat /\ acc.cursor <= c.cursor /\ c.cursor <= end
        /\ u[x][2] <= c.cursor \/ c.cursor = end
        /\ c.cursor <= u[x][2] \/ c.cursor = acc.cursor
        /\ u[x][1] < c.cursor
    <3>1. c.cursor = IF acc.cursor > (IF u[x][2] < end THEN u[x][2] ELSE end)
                     THEN acc.cursor ELSE (IF u[x][2] < end THEN u[x][2] ELSE end)
      BY <1>9 DEF Larger, Smaller
    <3> HIDE DEF c
    <3>2. acc.cursor <= end
      BY <1>2
    <3> QED BY <1>2, <1>9, <3>1, <3>2
  <2> HIDE DEF c
  <2>2. \A i \in s \cup {x} : u[i][1] < end => u[i][2] <= c.cursor \/ c.cursor = end
    <3> SUFFICES ASSUME NEW i \in s \cup {x}, u[i][1] < end
                 PROVE  u[i][2] <= c.cursor \/ c.cursor = end
      OBVIOUS
    <3>1. CASE i = x
      BY <2>1, <3>1
    <3>2. CASE i \in s
      <4>1. u[i][2] <= acc.cursor \/ acc.cursor = end
        BY <1>5, <3>2
      <4>2. u[i][2] \in Nat
        BY <1>3, <3>2
      <4> QED BY <1>2, <2>1, <4>1, <4>2
    <3> QED BY <3>1, <3>2
  (* What lies between the two cursors is in none of the earlier ranges.    *)
  <2>3. \A t \in start..(end - 1) : t >= acc.cursor => ~(\E i \in s : In(t, u[i]))
    <3> SUFFICES ASSUME NEW t \in start..(end - 1), t >= acc.cursor, NEW i \in s, In(t, u[i])
                 PROVE  FALSE
      OBVIOUS
    <3>1. t \in Nat /\ t < end /\ u[i][1] \in Nat /\ u[i][2] \in Nat
      BY <1>2, <1>3
    <3>2. u[i][1] < end
      BY <1>2, <3>1 DEF In
    <3>3. u[i][2] <= acc.cursor \/ acc.cursor = end
      BY <1>5, <3>2
    <3> QED BY <1>2, <3>1, <3>3 DEF In
  <2>4. CASE ~(from > acc.cursor) /\ c.gaps = acc.gaps
    <3>1. u[x][1] <= acc.cursor
      BY <1>2, <2>4 DEF Larger
    <3>2. ASSUME NEW t \in start..(end - 1)
          PROVE  (\E k \in DOMAIN acc.gaps : In(t, acc.gaps[k]))
                   <=> t < c.cursor /\ ~(\E i \in s \cup {x} : In(t, u[i]))
      <4>0. t \in Nat /\ t < end
        BY <1>2
      <4>1. CASE t < acc.cursor
        <5>1. t < c.cursor
          BY <1>2, <2>1, <4>0, <4>1
        <5> QED BY <1>5, <1>6, <4>1, <5>1
      <4>2. CASE ~(t < acc.cursor)
        <5>1. ~(\E k \in DOMAIN acc.gaps : In(t, acc.gaps[k]))
          BY <1>5, <4>2
        <5>2. t < c.cursor => In(t, u[x])
          BY <1>2, <2>1, <3>1, <4>0, <4>2 DEF In
        <5> QED BY <5>1, <5>2
      <4> QED BY <4>1, <4>2
    <3>3. \A k \in DOMAIN acc.gaps : acc.gaps[k][2] < c.cursor
      BY <1>2, <1>4, <2>1
    <3> QED BY <1>4, <1>5, <1>7, <2>2, <2>4, <3>2, <3>3 DEF CutTo, c
  <2>5. CASE /\ from > acc.cursor /\ c.gaps = Append(acc.gaps, <<acc.cursor, from>>)
             /\ <<acc.cursor, from>> \in Ranges
             /\ from = u[x][1]
    <3> DEFINE g == <<acc.cursor, from>>
    <3>1. g[1] = acc.cursor /\ g[2] = u[x][1] /\ g \in Ranges
          /\ c.gaps = Append(acc.gaps, g) /\ acc.cursor < u[x][1]
      BY <1>2, <2>5
    <3> HIDE DEF g, from, n
    <3>2. /\ DOMAIN c.gaps = DOMAIN acc.gaps \cup {n + 1}
          /\ \A k \in DOMAIN acc.gaps : c.gaps[k] = acc.gaps[k]
          /\ c.gaps[n + 1] = g
      BY <1>2, <3>1, GapAppended DEF n
    <3>3. Separated(c.gaps)
      <4>1. \A k \in DOMAIN acc.gaps : acc.gaps[k][2] < g[1]
        BY <1>4, <3>1
      <4>2. Separated(acc.gaps) /\ acc.gaps \in Seq(Ranges)
        BY <1>2, <1>5
      <4>3. Separated(Append(acc.gaps, g))
        BY <3>1, <4>1, <4>2, GapAppended
      <4> QED BY <3>1, <4>3
    <3>4. \A t : (\E k \in DOMAIN c.gaps : In(t, c.gaps[k]))
                   <=> (\E k \in DOMAIN acc.gaps : In(t, acc.gaps[k])) \/ In(t, g)
      BY <3>2
    <3>5. ASSUME NEW t \in start..(end - 1)
          PROVE  (\E k \in DOMAIN c.gaps : In(t, c.gaps[k]))
                   <=> t < c.cursor /\ ~(\E i \in s \cup {x} : In(t, u[i]))
      <4>0. t \in Nat /\ t < end
        BY <1>2
      <4>1. CASE t < acc.cursor
        <5>1. t < c.cursor /\ ~In(t, g)
          BY <1>2, <2>1, <3>1, <4>0, <4>1 DEF In
        <5> QED BY <1>5, <1>6, <3>4, <4>1, <5>1
      <4>2. CASE ~(t < acc.cursor)
        <5>1. ~(\E k \in DOMAIN acc.gaps : In(t, acc.gaps[k]))
          BY <1>5, <4>2
        <5>2. ~(\E i \in s : In(t, u[i]))
          BY <1>2, <2>3, <4>0, <4>2
        <5>3. In(t, g) <=> t < u[x][1]
          BY <1>2, <3>1, <4>0, <4>2 DEF In
        <5>4. t < c.cursor /\ ~In(t, u[x]) <=> t < u[x][1]
          BY <1>2, <2>1, <3>1, <4>0, <4>2 DEF In
        <5> QED BY <3>4, <5>1, <5>2, <5>3, <5>4
      <4> QED BY <4>1, <4>2
    <3>6. \A k \in DOMAIN c.gaps : /\ c.gaps[k][2] < c.cursor
                                   /\ start <= c.gaps[k][1]
                                   /\ \E i \in s \cup {x} : c.gaps[k][2] <= u[i][1]
      <4> TAKE k \in DOMAIN c.gaps
      <4>1. CASE k \in DOMAIN acc.gaps
        <5>1. c.gaps[k] = acc.gaps[k]
          BY <3>2, <4>1
        <5>2. /\ acc.gaps[k][2] \in Nat /\ start <= acc.gaps[k][1]
              /\ acc.gaps[k][2] < acc.cursor
          BY <1>4, <4>1
        <5>3. PICK i \in s : acc.gaps[k][2] <= u[i][1]
          BY <1>5, <4>1
        <5>4. acc.gaps[k][2] < c.cursor
          <6>1. c.cursor \in Nat /\ acc.cursor <= c.cursor /\ acc.cursor \in Nat
            BY <1>2, <2>1
          <6> QED BY <5>2, <6>1
        <5> QED BY <5>1, <5>2, <5>3, <5>4
      <4>2. CASE k = n + 1
        <5>1. c.gaps[k] = g
          BY <3>2, <4>2
        <5>2. g[2] < c.cursor /\ start <= g[1] /\ g[2] <= u[x][1]
          BY <1>2, <2>1, <3>1
        <5> QED BY <5>1, <5>2
      <4> QED BY <3>2, <4>1, <4>2
    <3>7. c \in Cuts(start, end)
      BY <1>7
    <3>8. CutTo(u, s \cup {x}, c, start, end)
      BY <2>2, <3>3, <3>5, <3>6, <3>7 DEF CutTo
    <3> QED BY <3>8 DEF c
  <2> QED BY <1>9, <2>4, <2>5
<1> QED BY <1>1, <1>8, <1>9, CutShape

(* history_uncovered_ranges computes the bars of the request that no merged *)
(* range has.                                                               *)
LEMMA GapsCut ==
  ASSUME NEW R \in SUBSET Ranges,
         NEW r \in Ranges
  PROVE  LET gaps == UncoveredRanges(R, r[1], r[2])
         IN  /\ gaps \in Seq(Ranges) /\ Separated(gaps)
             /\ AllBars(RangesOf(gaps))
                  = BarsOf(r) \ AllBars(R)
<1> DEFINE start == r[1]
           end == r[2]
           u == CoverageUnion(R)
           N == Len(u)
           S == 1..N
           A == Cuts(start, end)
           pick == TopOf(N)
           base == [gaps |-> <<>>, cursor |-> start]
           Folds(f) == f = [s \in SUBSET (DOMAIN u) |->
                              IF s = {} THEN base
                              ELSE Cut(f[s \ {Top(s)}], u[Top(s)], start, end)]
           f0 == CHOOSE f : Folds(f)
           acc == f0[DOMAIN u]
<1>1. UncoveredRanges(R, start, end)
        = IF acc.cursor < end THEN Append(acc.gaps, <<acc.cursor, end>>) ELSE acc.gaps
  BY DEF UncoveredRanges, FoldLeft, MapThenFoldSet, Top,
     Max
<1>2. Merged(R, u)
  BY UnionMerges
<1> HIDE DEF u
<1>3. u \in Seq(Ranges) /\ Separated(u) /\ DOMAIN u = S /\ N \in Nat
  BY <1>2 DEF Merged
<1>4. IsFiniteSet(S) /\ Picks(pick, S) /\ \A s \in SUBSET S : pick[s] = Top(s)
  <2>1. \A s \in SUBSET S : pick[s] = Top(s)
    BY DEF TopOf
  <2> HIDE DEF N
  <2> QED BY <1>3, <2>1, TopPicks
<1>5. /\ start \in Times /\ end \in Times /\ start < end
      /\ start \in Nat /\ end \in Nat
  <2>1. start \in Nat /\ end \in Nat /\ start < end /\ end <= MaxTime
    BY RangeFacts
  <2>2. MaxTime \in Nat
    BY CoverageAssumption
  <2> QED BY <2>1, <2>2 DEF Times
<1>6. base \in A /\ CutTo(u, {}, base, start, end)
  <2>1. <<>> \in Seq(Ranges) /\ DOMAIN <<>> = {} /\ start \in start..end
    BY <1>5
  <2>2. base \in A
    BY <2>1 DEF Cuts
  <2>3. \A t \in start..(end - 1) : ~(t < start)
    BY <1>5
  <2> QED BY <2>1, <2>2, <2>3 DEF CutTo, Separated
<1> HIDE DEF start, end
<1>7. \E f : Folds(f)
  <2> DEFINE h == [p \in S \X A |-> Cut(p[2], u[p[1]], start, end)]
  <2>1. \A x \in S, a \in A :
          h[<<x, a>>] = Cut(a, u[x], start, end) /\ h[<<x, a>>] \in A
    <3> TAKE x \in S, a \in A
    <3>1. <<x, a>> \in S \X A /\ u[x] \in Ranges
      BY <1>3
    <3>2. h[<<x, a>>] = Cut(a, u[x], start, end)
      BY <3>1
    <3>3. Cut(a, u[x], start, end) \in A
      BY <1>5, <3>1, CutShape
    <3> HIDE DEF h, A
    <3> QED BY <3>2, <3>3
  <2> HIDE DEF h, base, S, pick, A
  <2>2. PICK g : FoldsTo(g, h, base, pick, S)
    BY <1>4, FoldExists
  <2>3. \A s \in SUBSET S : g[s] \in A
    BY <1>4, <1>6, <2>1, <2>2, FoldTyped
  <2>4. ASSUME NEW s \in SUBSET S
        PROVE  g[s] = IF s = {} THEN base
                      ELSE Cut(g[s \ {Top(s)}], u[Top(s)], start, end)
    <3>1. CASE s = {}
      BY <2>2, <3>1 DEF FoldsTo
    <3>2. CASE s # {}
      <4> DEFINE x == pick[s]
      <4>1. x \in s /\ x = Top(s)
        BY <1>4, <3>2 DEF Picks
      <4>2. g[s] = h[<<x, g[s \ {x}]>>]
        BY <2>2, <3>2 DEF FoldsTo
      <4> HIDE DEF x
      <4>3. x \in S /\ s \ {x} \in SUBSET S
        BY <4>1
      <4>4. g[s] = Cut(g[s \ {x}], u[x], start, end)
        BY <2>1, <2>3, <4>2, <4>3
      <4> QED BY <3>2, <4>1, <4>4
    <3> QED BY <3>1, <3>2
  <2>5. g = [s \in SUBSET S |-> g[s]]
    BY <2>2 DEF FoldsTo
  <2>6. g = [s \in SUBSET S |->
               IF s = {} THEN base ELSE Cut(g[s \ {Top(s)}], u[Top(s)], start, end)]
    BY <2>4, <2>5
  <2> QED BY <1>3, <2>6
<1>8. Folds(f0)
  <2> HIDE DEF Folds
  <2> QED BY <1>7
<1>9. \A s \in SUBSET S : f0[s] = IF s = {} THEN base
                               ELSE Cut(f0[s \ {Top(s)}], u[Top(s)], start, end)
  <2> HIDE DEF f0, base, S
  <2> QED BY <1>3, <1>8
<1> HIDE DEF f0, base, pick, N
<1> DEFINE T == {s \in SUBSET S : CutTo(u, s, f0[s], start, end)}
<1>10. {} \in T
  BY <1>6, <1>9
<1>11. ASSUME NEW s \in SUBSET S, s # {}, s \ {pick[s]} \in T
       PROVE  s \in T
  <2> DEFINE x == pick[s]
             w == s \ {x}
  <2>1. x \in s /\ x = Top(s)
    BY <1>4, <1>11 DEF Picks
  <2>2. f0[s] = Cut(f0[w], u[x], start, end)
    BY <1>9, <1>11, <2>1
  <2>3. CutTo(u, w, f0[w], start, end)
    BY <1>11
  <2>4. \A y \in s : x >= y
    BY <1>3, <1>11, <2>1, Tops
  <2> HIDE DEF x
  <2>5. x \in DOMAIN u /\ w \in SUBSET DOMAIN u /\ w \cup {x} = s
    BY <1>3, <2>1
  <2>6. \A i \in w : i < x
    BY <1>3, <2>1, <2>4
  <2> HIDE DEF w
  <2>7. CutTo(u, w \cup {x}, Cut(f0[w], u[x], start, end), start, end)
    BY <1>3, <1>5, <2>3, <2>5, <2>6, CutKeeps
  <2> QED BY <2>2, <2>5, <2>7
<1> HIDE DEF T, S
<1>12. SUBSET S \subseteq T
  BY <1>4, <1>10, <1>11, FoldInduction
<1>13. S \in T
  BY <1>12
<1>14. CutTo(u, DOMAIN u, acc, start, end)
  BY <1>3, <1>13 DEF T
<1> HIDE DEF acc
<1> DEFINE gaps == UncoveredRanges(R, start, end)
<1>15. /\ acc.gaps \in Seq(Ranges) /\ acc.cursor \in start..end /\ acc.cursor \in Nat
       /\ Separated(acc.gaps)
       /\ \A k \in DOMAIN acc.gaps : acc.gaps[k][2] < acc.cursor /\ start <= acc.gaps[k][1]
       /\ \A k \in DOMAIN acc.gaps : acc.gaps[k][1] \in Nat /\ acc.gaps[k][2] \in Nat
       /\ \A t \in start..(end - 1) :
            (\E k \in DOMAIN acc.gaps : In(t, acc.gaps[k]))
              <=> t < acc.cursor /\ ~(\E i \in DOMAIN u : In(t, u[i]))
  <2>1. acc.gaps \in Seq(Ranges) /\ acc.cursor \in start..end
    BY <1>14 DEF CutTo, Cuts
  <2>2. \A k \in DOMAIN acc.gaps : acc.gaps[k] \in Ranges
    BY <2>1
  <2>3. \A k \in DOMAIN acc.gaps : acc.gaps[k][1] \in Nat /\ acc.gaps[k][2] \in Nat
    BY <2>2, RangeFacts
  <2>4. acc.cursor \in Nat
    BY <1>5, <2>1
  <2> QED BY <1>14, <2>1, <2>3, <2>4 DEF CutTo
<1>16. \A i \in DOMAIN u : u[i][1] < end => u[i][2] <= acc.cursor \/ acc.cursor = end
  BY <1>14 DEF CutTo
<1>17. \A i \in DOMAIN u : u[i][1] \in Nat /\ u[i][2] \in Nat
  <2>1. \A i \in DOMAIN u : u[i] \in Ranges
    BY <1>3
  <2> QED BY <2>1, RangeFacts
<1>18. /\ gaps \in Seq(Ranges) /\ Separated(gaps)
       /\ \A t \in Int : (\E k \in DOMAIN gaps : In(t, gaps[k]))
                           <=> start <= t /\ t < end /\ ~(\E i \in DOMAIN u : In(t, u[i]))
  <2>1. ASSUME NEW t \in Int, NEW k \in DOMAIN acc.gaps, In(t, acc.gaps[k])
        PROVE  t \in start..(end - 1)
    BY <1>5, <1>15, <2>1 DEF In
  <2>2. CASE acc.cursor < end
    <3> DEFINE g == <<acc.cursor, end>>
               q == Append(acc.gaps, g)
    <3>1. gaps = q
      BY <1>1, <2>2
    <3>2. g \in Ranges /\ g[1] = acc.cursor /\ g[2] = end
      <4>1. acc.cursor \in Times
        BY <1>5, <1>15, <2>2, CoverageAssumption DEF Times
      <4> QED BY <1>5, <2>2, <4>1, RangeFacts
    <3> HIDE DEF g
    <3>3. /\ DOMAIN q = DOMAIN acc.gaps \cup {Len(acc.gaps) + 1}
          /\ \A k \in DOMAIN acc.gaps : q[k] = acc.gaps[k]
          /\ q[Len(acc.gaps) + 1] = g /\ q \in Seq(Ranges)
          /\ Separated(q)
      <4>1. \A k \in DOMAIN acc.gaps : acc.gaps[k][2] < g[1]
        BY <1>15, <3>2
      <4>2. acc.gaps \in Seq(Ranges) /\ Separated(acc.gaps)
        BY <1>15
      <4> QED BY <3>2, <4>1, <4>2, GapAppended
    <3> HIDE DEF q, gaps
    <3>4. ASSUME NEW t \in Int
          PROVE  (\E k \in DOMAIN q : In(t, q[k]))
                   <=> start <= t /\ t < end /\ ~(\E i \in DOMAIN u : In(t, u[i]))
      <4>1. (\E k \in DOMAIN q : In(t, q[k]))
              <=> (\E k \in DOMAIN acc.gaps : In(t, acc.gaps[k])) \/ In(t, g)
        BY <3>3
      <4>2. In(t, g) <=> acc.cursor <= t /\ t < end
        BY <3>2 DEF In
      <4>3. CASE ~(t \in start..(end - 1))
        <5>1. ~(start <= t /\ t < end) /\ ~In(t, g)
          BY <1>5, <1>15, <4>2, <4>3
        <5> QED BY <2>1, <4>1, <4>3, <5>1
      <4>4. CASE t \in start..(end - 1) /\ t < acc.cursor
        <5>1. start <= t /\ t < end /\ ~In(t, g)
          BY <1>5, <1>15, <4>2, <4>4
        <5> QED BY <1>15, <4>1, <4>4, <5>1
      <4>5. CASE t \in start..(end - 1) /\ ~(t < acc.cursor)
        <5>1. start <= t /\ t < end /\ In(t, g)
          BY <1>5, <1>15, <4>2, <4>5
        <5>2. ASSUME NEW i \in DOMAIN u, In(t, u[i]) PROVE FALSE
          <6>1. u[i][1] \in Nat /\ u[i][2] \in Nat
            BY <1>17
          <6>2. u[i][1] < end
            BY <1>5, <5>1, <5>2, <6>1 DEF In
          <6>3. u[i][2] <= acc.cursor
            BY <1>5, <1>15, <1>16, <2>2, <6>2
          <6> QED BY <1>15, <4>5, <5>2, <6>1, <6>3 DEF In
        <5> QED BY <4>1, <5>1, <5>2
      <4> QED BY <4>3, <4>4, <4>5
    <3> QED BY <3>1, <3>3, <3>4
  <2>3. CASE ~(acc.cursor < end)
    <3>1. gaps = acc.gaps /\ acc.cursor = end
      <4>1. gaps = acc.gaps
        BY <1>1, <2>3
      <4>2. acc.cursor <= end
        BY <1>5, <1>15
      <4> QED BY <1>5, <1>15, <2>3, <4>1, <4>2
    <3> HIDE DEF gaps
    <3>2. ASSUME NEW t \in Int
          PROVE  (\E k \in DOMAIN acc.gaps : In(t, acc.gaps[k]))
                   <=> start <= t /\ t < end /\ ~(\E i \in DOMAIN u : In(t, u[i]))
      <4>1. t \in start..(end - 1) <=> start <= t /\ t < end
        BY <1>5
      <4> QED BY <1>15, <2>1, <3>1, <4>1
    <3> QED BY <1>15, <3>1, <3>2
  <2> QED BY <2>2, <2>3
<1> HIDE DEF gaps
<1>19. \A t : t \in AllBars(RangesOf(gaps))
               <=> t \in Int /\ \E k \in DOMAIN gaps : In(t, gaps[k])
  <2>1. RangesOf(gaps) \in SUBSET Ranges
    BY <1>18 DEF RangesOf
  <2>2. \A t : t \in AllBars(RangesOf(gaps))
               <=> t \in Int /\ \E g \in RangesOf(gaps) : g[1] <= t /\ t < g[2]
    BY <2>1, BarsIn
  <2> QED BY <2>2 DEF RangesOf, In
<1>20. \A t : t \in AllBars(R) <=> t \in Int /\ \E i \in DOMAIN u : In(t, u[i])
  <2>1. \A t \in Int : (\E i \in DOMAIN u : In(t, u[i])) <=> (\E x \in R : x[1] <= t /\ t < x[2])
    BY <1>2 DEF Merged, In
  <2> QED BY <2>1, BarsIn
<1>21. \A t : t \in BarsOf(r) <=> t \in Int /\ start <= t /\ t < end
  BY <1>5 DEF BarsOf, start, end
<1>22. AllBars(RangesOf(gaps)) = BarsOf(r) \ AllBars(R)
  BY <1>18, <1>19, <1>20, <1>21
<1> QED BY <1>18, <1>22 DEF gaps, start, end

(* What is read of the table holds every bar of the request that the table  *)
(* holds.                                                                   *)
LEMMA ReadSees ==
  ASSUME table \in SUBSET Ranges,
         NEW r \in Ranges
  PROVE  LET read == ReadCoverage(r[1], r[2])
         IN  /\ read \in SUBSET Ranges
             /\ \A t \in BarsOf(r) :
                  t \in AllBars(read) <=> t \in AllBars(table)
<1> DEFINE read == ReadCoverage(r[1], r[2])
<1>1. read \in SUBSET Ranges
  BY DEF ReadCoverage
<1>2. r[1] \in Nat /\ r[2] \in Nat
  BY RangeFacts
<1>3. \A x : x \in read <=> x \in table /\ x[2] > r[1] /\ x[1] < r[2]
  BY DEF ReadCoverage
<1> HIDE DEF read
<1>4. ASSUME NEW t \in BarsOf(r)
      PROVE  t \in AllBars(read) <=> t \in AllBars(table)
  <2>1. t \in Int /\ r[1] <= t /\ t < r[2]
    BY <1>2, <1>4 DEF BarsOf
  <2>2. ASSUME NEW x \in table, x[1] <= t, t < x[2] PROVE x \in read
    <3>1. x[1] \in Nat /\ x[2] \in Nat
      BY RangeFacts
    <3> QED BY <1>2, <1>3, <2>1, <2>2, <3>1
  <2>3. read \subseteq table
    BY <1>3
  <2>4. (\E x \in read : x[1] <= t /\ t < x[2]) <=> (\E x \in table : x[1] <= t /\ t < x[2])
    BY <2>2, <2>3
  <2>5. t \in AllBars(read) <=> \E x \in read : x[1] <= t /\ t < x[2]
    BY <1>1, <2>1, BarsIn
  <2>6. t \in AllBars(table) <=> \E x \in table : x[1] <= t /\ t < x[2]
    BY <2>1, BarsIn
  <2> QED BY <2>4, <2>5, <2>6
<1> QED BY <1>1, <1>4 DEF read

(* The receipts that are written make the table hold every bar of every     *)
(* receipt, the ones that were covered already included.                    *)
LEMMA WriteCovers ==
  ASSUME table \in SUBSET Ranges,
         NEW receipts \in Seq(Ranges), WriteIfExpanded(receipts)
  PROVE  \E new \in SUBSET RangesOf(receipts) :
           /\ table' = table \cup new
           /\ \A i \in DOMAIN receipts :
                BarsOf(receipts[i]) \subseteq AllBars(table \cup new)
<1> DEFINE read == ReadCoverage(receipts[1][1], Last(receipts)[2])
           N == Len(receipts)
           S == 1..N
           A == SUBSET RangesOf(receipts)
           pick == TopOf(N)
           Step(acc, r) == IF RangeIsCovered(read \cup acc, r[1], r[2])
                           THEN acc ELSE acc \cup {r}
           Folds(f) == f = [s \in SUBSET (DOMAIN receipts) |->
                              IF s = {} THEN {} ELSE Step(f[s \ {Top(s)}], receipts[Top(s)])]
           f0 == CHOOSE f : Folds(f)
           new == f0[DOMAIN receipts]
<1>1. table' = table \cup new
  BY DEF WriteIfExpanded, FoldLeft, MapThenFoldSet, Top,
     Max
<1>2. read \subseteq table /\ read \in SUBSET Ranges
  BY DEF ReadCoverage
<1> HIDE DEF read
<1>3. /\ DOMAIN receipts = S /\ N \in Nat
      /\ \A i \in S : receipts[i] \in Ranges /\ receipts[i] \in RangesOf(receipts)
      /\ RangesOf(receipts) \subseteq Ranges
  BY DEF RangesOf
<1>4. IsFiniteSet(S) /\ Picks(pick, S) /\ \A s \in SUBSET S : pick[s] = Top(s)
  <2>1. \A s \in SUBSET S : pick[s] = Top(s)
    BY DEF TopOf
  <2> HIDE DEF N
  <2> QED BY <1>3, <2>1, TopPicks
<1>5. \E f : Folds(f)
  <2> DEFINE h == [p \in S \X A |-> Step(p[2], receipts[p[1]])]
  <2>1. \A x \in S, a \in A : h[<<x, a>>] = Step(a, receipts[x]) /\ h[<<x, a>>] \in A
    <3> TAKE x \in S, a \in A
    <3>1. <<x, a>> \in S \X A
      OBVIOUS
    <3>2. h[<<x, a>>] = Step(a, receipts[x])
      BY <3>1
    <3>3. Step(a, receipts[x]) \in A
      <4>1. receipts[x] \in RangesOf(receipts)
        BY <1>3
      <4> QED BY <4>1
    <3> HIDE DEF h, A, Step
    <3> QED BY <3>2, <3>3
  <2>2. {} \in A
    OBVIOUS
  <2> HIDE DEF h, S, pick, A, Step
  <2>3. PICK g : FoldsTo(g, h, {}, pick, S)
    BY <1>4, FoldExists
  <2>4. \A s \in SUBSET S : g[s] \in A
    BY <1>4, <2>1, <2>2, <2>3, FoldTyped
  <2>5. ASSUME NEW s \in SUBSET S
        PROVE  g[s] = IF s = {} THEN {} ELSE Step(g[s \ {Top(s)}], receipts[Top(s)])
    <3>1. CASE s = {}
      BY <2>3, <3>1 DEF FoldsTo
    <3>2. CASE s # {}
      <4> DEFINE x == pick[s]
      <4>1. x \in s /\ x = Top(s)
        BY <1>4, <3>2 DEF Picks
      <4>2. g[s] = h[<<x, g[s \ {x}]>>]
        BY <2>3, <3>2 DEF FoldsTo
      <4> HIDE DEF x
      <4>3. x \in S /\ s \ {x} \in SUBSET S
        BY <4>1
      <4>4. g[s] = Step(g[s \ {x}], receipts[x])
        BY <2>1, <2>4, <4>2, <4>3
      <4> QED BY <3>2, <4>1, <4>4
    <3> QED BY <3>1, <3>2
  <2>6. g = [s \in SUBSET S |-> g[s]]
    BY <2>3 DEF FoldsTo
  <2>7. g = [s \in SUBSET S |-> IF s = {} THEN {} ELSE Step(g[s \ {Top(s)}], receipts[Top(s)])]
    BY <2>5, <2>6
  <2> QED BY <1>3, <2>7
<1>6. Folds(f0)
  <2> HIDE DEF Folds
  <2> QED BY <1>5
<1>7. \A s \in SUBSET S : f0[s] = IF s = {} THEN {}
                               ELSE Step(f0[s \ {Top(s)}], receipts[Top(s)])
  <2> HIDE DEF f0, S, Step
  <2> QED BY <1>3, <1>6
<1> HIDE DEF f0, pick, N
<1> DEFINE Writes(s, acc) ==
             /\ acc \in A
             /\ \A i \in s : BarsOf(receipts[i]) \subseteq AllBars(read \cup acc)
           T == {s \in SUBSET S : Writes(s, f0[s])}
<1>8. {} \in T
  BY <1>7
<1>9. ASSUME NEW s \in SUBSET S, s # {}, s \ {pick[s]} \in T
      PROVE  s \in T
  <2> DEFINE x == pick[s]
             w == s \ {x}
             acc == f0[w]
             r == receipts[x]
  <2>1. x \in s /\ x = Top(s)
    BY <1>4, <1>9 DEF Picks
  <2>2. f0[s] = Step(acc, r)
    BY <1>7, <1>9, <2>1
  <2>3. Writes(w, acc)
    BY <1>9
  <2>4. x \in S /\ w \cup {x} = s
    BY <2>1
  <2> HIDE DEF x, w
  <2>5. r \in Ranges /\ r \in RangesOf(receipts)
    BY <1>3, <2>4
  <2> HIDE DEF acc
  <2>6. read \cup acc \in SUBSET Ranges
    BY <1>2, <1>3, <2>3
  <2>7. CASE RangeIsCovered(read \cup acc, r[1], r[2])
    <3>1. f0[s] = acc
      BY <2>2, <2>7
    <3> HIDE DEF r
    <3>2. BarsOf(r) \subseteq AllBars(read \cup acc)
      BY <2>5, <2>6, <2>7, Covered
    <3>3. Writes(s, acc)
      BY <2>3, <2>4, <3>2 DEF r
    <3> QED BY <3>1, <3>3
  <2>8. CASE ~RangeIsCovered(read \cup acc, r[1], r[2])
    <3>1. f0[s] = acc \cup {r}
      BY <2>2, <2>8
    <3>2. acc \cup {r} \in A
      BY <2>3, <2>5
    <3>3. /\ AllBars(read \cup acc) \subseteq AllBars(read \cup (acc \cup {r}))
          /\ BarsOf(r) \subseteq AllBars(read \cup (acc \cup {r}))
      <4> HIDE DEF r
      <4> QED BY DEF AllBars
    <3>4. ASSUME NEW i \in s
          PROVE  BarsOf(receipts[i]) \subseteq AllBars(read \cup (acc \cup {r}))
      BY <2>3, <2>4, <3>3
    <3>5. Writes(s, acc \cup {r})
      BY <3>2, <3>4
    <3> HIDE DEF Writes
    <3> QED BY <3>1, <3>5
  <2> QED BY <2>7, <2>8
<1> HIDE DEF T, S
<1>10. SUBSET S \subseteq T
  BY <1>4, <1>8, <1>9, FoldInduction
<1>11. Writes(DOMAIN receipts, new)
  BY <1>3, <1>10 DEF T
<1> HIDE DEF new
<1>12. AllBars(read \cup new) \subseteq AllBars(table \cup new)
  BY <1>2 DEF AllBars
<1> QED BY <1>1, <1>11, <1>12

(* Whatever way the provider cuts the chunk, its receipts add exactly the   *)
(* bars of the chunk to the table.                                          *)
LEMMA ChunkIsAdded ==
  ASSUME table \in SUBSET Ranges,
         NEW r \in Ranges, NEW receipts \in Chunks(r[1], r[2]),
         WriteIfExpanded(receipts)
  PROVE  /\ table' \in SUBSET Ranges
         /\ AllBars(table') = AllBars(table) \cup BarsOf(r)
<1> DEFINE start == r[1]
           end == r[2]
<1>1. /\ start \in Nat /\ end \in Nat /\ start < end /\ end <= MaxTime /\ MaxTime \in Nat
      /\ r = <<start, end>>
  BY RangeFacts, CoverageAssumption
<1>2. \A t : t \in BarsOf(r) <=> t \in Int /\ start <= t /\ t < end
  BY <1>1 DEF BarsOf
<1>3. r \in Ranges
  OBVIOUS
<1> HIDE DEF start, end
<1>4. /\ receipts \in Seq(Ranges)
      /\ \A t \in Int : (\E i \in DOMAIN receipts : In(t, receipts[i])) <=> start <= t /\ t < end
  <2>1. CASE receipts = << <<start, end>> >>
    <3>1. receipts = <<r>>
      BY <1>1, <2>1
    <3>2. receipts \in Seq(Ranges) /\ DOMAIN receipts = {1} /\ receipts[1] = r
      BY <1>3, <3>1
    <3> QED BY <1>1, <3>2 DEF In, start, end
  <2>2. ASSUME NEW m \in (start + 1)..(end - 1), receipts = << <<start, m>>, <<m, end>> >>
        PROVE  /\ receipts \in Seq(Ranges)
               /\ \A t \in Int : (\E i \in DOMAIN receipts : In(t, receipts[i]))
                                   <=> start <= t /\ t < end
    <3> DEFINE a == <<start, m>>
               b == <<m, end>>
    <3>1. m \in Nat /\ start < m /\ m < end
      BY <1>1
    <3>2. a \in Ranges /\ b \in Ranges
      <4>1. start \in Times /\ m \in Times /\ end \in Times
        BY <1>1, <3>1 DEF Times
      <4> QED BY <3>1, <4>1, RangeFacts
    <3>3. a[1] = start /\ a[2] = m /\ b[1] = m /\ b[2] = end /\ receipts = <<a, b>>
      BY <2>2
    <3> HIDE DEF a, b
    <3>4. receipts \in Seq(Ranges) /\ DOMAIN receipts = {1, 2}
          /\ receipts[1] = a /\ receipts[2] = b
      BY <3>2, <3>3
    <3>5. \A t : (\E i \in DOMAIN receipts : In(t, receipts[i])) <=> In(t, a) \/ In(t, b)
      BY <3>4
    <3>6. \A t \in Int : In(t, a) \/ In(t, b) <=> start <= t /\ t < end
      BY <1>1, <3>1, <3>3 DEF In
    <3> QED BY <3>4, <3>5, <3>6
  <2>3. \/ receipts = << <<start, end>> >>
        \/ \E m \in (start + 1)..(end - 1) : receipts = << <<start, m>>, <<m, end>> >>
    BY DEF Chunks, start, end
  <2> QED BY <2>1, <2>2, <2>3
<1>5. PICK new \in SUBSET RangesOf(receipts) :
        /\ table' = table \cup new
        /\ \A i \in DOMAIN receipts :
             BarsOf(receipts[i]) \subseteq AllBars(table \cup new)
  BY <1>4, WriteCovers
<1>6. /\ RangesOf(receipts) \in SUBSET Ranges
      /\ new \in SUBSET Ranges /\ table \cup new \in SUBSET Ranges
  BY <1>4 DEF RangesOf
<1>7. AllBars(table \cup new) = AllBars(table) \cup AllBars(new)
  BY DEF AllBars
<1>8. AllBars(new) \subseteq BarsOf(r)
  <2> SUFFICES ASSUME NEW t \in AllBars(new) PROVE t \in BarsOf(r)
    OBVIOUS
  <2>1. t \in Int /\ \E x \in new : x[1] <= t /\ t < x[2]
    BY <1>6, BarsIn
  <2>2. \E i \in DOMAIN receipts : In(t, receipts[i])
    BY <2>1 DEF RangesOf, In
  <2> QED BY <1>2, <1>4, <2>1, <2>2
<1>9. BarsOf(r) \subseteq AllBars(table \cup new)
  <2> SUFFICES ASSUME NEW t \in BarsOf(r)
               PROVE  t \in AllBars(table \cup new)
    OBVIOUS
  <2>1. PICK i \in DOMAIN receipts : In(t, receipts[i]) /\ t \in Int
    BY <1>2, <1>4
  <2>2. receipts[i] \in Ranges
    BY <1>4
  <2>3. receipts[i][1] \in Nat /\ receipts[i][2] \in Nat
    BY <2>2, RangeFacts
  <2>4. t \in BarsOf(receipts[i])
    BY <2>1, <2>3 DEF In, BarsOf
  <2> QED BY <1>5, <2>4
<1> QED BY <1>5, <1>6, <1>7, <1>8, <1>9

(* The receipts in the table hold exactly the bars that were admitted, and  *)
(* no plan captured a generation that is still to come.                     *)
CoverageInv ==
  /\ CoverageTypeOK
  /\ plan = [d \in Demands |-> plan[d]]
  /\ AllBars(table) = admitted
  /\ \A d \in Demands : plan[d] # NoPlan => plan[d].gen <= generation
  /\ RepairsAreNews

(* What a plan is, one demand at a time.                                    *)
Planned(p) ==
  \/ p = NoPlan
  \/ /\ p.phase \in {"captured", "queued"}
     /\ <<p.start, p.end>> \in Ranges
     /\ p.target \in Times
     /\ p.gen \in 0..MaxCommits
News(p) ==
  p.phase = "queued" /\ p.gen = generation =>
    (p.target .. p.end - 1) \cap admitted = {}

LEMMA CoverageStarts ==
  ASSUME CoverageInit
  PROVE  CoverageInv
<1>1. \A d \in Demands : plan[d] = NoPlan /\ plan[d].phase = "none"
  BY DEF CoverageInit, NoPlan
<1>2. CoverageTypeOK
  BY <1>1, CoverageAssumption DEF CoverageInit, CoverageTypeOK
<1>3. AllBars(table) = admitted
  BY DEF CoverageInit, AllBars
<1>4. plan = [d \in Demands |-> plan[d]]
  BY DEF CoverageInit
<1>5. RepairsAreNews
  BY <1>1 DEF RepairsAreNews
<1> QED BY <1>1, <1>2, <1>3, <1>4, <1>5 DEF CoverageInv

(* A step that changes one plan, and neither receipts nor generation.       *)
LEMMA PlanChanged ==
  ASSUME CoverageInv, NEW d \in Demands, NEW p, SetPlan(d, p),
         Planned(p), p # NoPlan => p.gen <= generation, News(p),
         UNCHANGED <<table, generation, admitted>>
  PROVE  CoverageInv'
<1>1. \A e \in Demands : plan'[e] = IF e = d THEN p ELSE plan[e]
  BY DEF SetPlan, CoverageInv
<1>2. plan' = [e \in Demands |-> plan'[e]]
  BY DEF SetPlan, CoverageInv
<1>3. \A e \in Demands : Planned(plan'[e])
  BY <1>1 DEF CoverageInv, CoverageTypeOK, Planned
<1>4. CoverageTypeOK'
  BY <1>3 DEF CoverageInv, CoverageTypeOK, Planned
<1>5. \A e \in Demands : plan'[e] # NoPlan => plan'[e].gen <= generation'
  BY <1>1 DEF CoverageInv
<1>6. RepairsAreNews'
  BY <1>1 DEF CoverageInv, RepairsAreNews, News
<1>7. (AllBars(table) = admitted)'
  BY DEF CoverageInv, AllBars
<1> QED BY <1>2, <1>4, <1>5, <1>6, <1>7 DEF CoverageInv

LEMMA NoPlanIsPlanned ==
  Planned(NoPlan) /\ News(NoPlan)
<1>1. NoPlan.phase = "none"
  BY DEF NoPlan
<1> QED BY <1>1 DEF Planned, News

LEMMA CaptureKeeps ==
  ASSUME CoverageInv, NEW d \in Demands, NEW r \in Ranges,
         Demand(d, r)
  PROVE  CoverageInv'
<1> DEFINE p == [phase |-> "captured", start |-> r[1], end |-> r[2],
                 target |-> r[1], gen |-> generation]
<1>1. SetPlan(d, p) /\ UNCHANGED <<table, generation, admitted>>
  BY DEF Demand
<1>2. /\ p.phase = "captured" /\ p.start = r[1] /\ p.end = r[2]
      /\ p.target = r[1] /\ p.gen = generation
  OBVIOUS
<1> HIDE DEF p
<1>3. generation \in 0..MaxCommits
  BY DEF CoverageInv, CoverageTypeOK
<1>4. r = <<r[1], r[2]>> /\ r[1] \in Times
  BY DEF Ranges
<1>5. Planned(p) /\ News(p)
  BY <1>2, <1>3, <1>4 DEF Planned, News
<1>6. p.gen <= generation
  <2>1. MaxCommits \in Nat
    BY CoverageAssumption
  <2> QED BY <1>2, <1>3, <2>1
<1> QED BY <1>1, <1>5, <1>6, PlanChanged

LEMMA PlanRepairKeeps ==
  ASSUME CoverageInv, NEW d \in Demands,
         PlanRepair(d)
  PROVE  CoverageInv'
<1> DEFINE r == <<plan[d].start, plan[d].end>>
           read == ReadCoverage(r[1], r[2])
           gaps == UncoveredRanges(read, r[1], r[2])
           n == Len(gaps)
           gap == gaps[n]
           p == SelectIntent(gap[1], gap[2], plan[d].gen)
<1>1. /\ plan[d].phase = "captured"
      /\ SetPlan(d, IF gaps = <<>> THEN NoPlan ELSE p)
      /\ UNCHANGED <<table, generation, admitted>>
  BY DEF PlanRepair, Last
<1>2. plan[d] # NoPlan
  <2>1. NoPlan.phase = "none"
    BY DEF NoPlan
  <2>2. plan[d].phase # NoPlan.phase
    BY <1>1, <2>1
  <2> QED BY <2>2
<1>3. r \in Ranges /\ plan[d].gen \in 0..MaxCommits /\ plan[d].gen <= generation
  BY <1>2 DEF CoverageInv, CoverageTypeOK
<1>4. table \in SUBSET Ranges /\ AllBars(table) = admitted
  BY DEF CoverageInv, CoverageTypeOK
<1> HIDE DEF r
<1>5. /\ read \in SUBSET Ranges
      /\ \A t \in BarsOf(r) :
           t \in AllBars(read) <=> t \in AllBars(table)
  BY <1>3, <1>4, ReadSees
<1> HIDE DEF read
<1>6. /\ gaps \in Seq(Ranges)
      /\ AllBars(RangesOf(gaps)) = BarsOf(r) \ AllBars(read)
  BY <1>3, <1>5, GapsCut
<1> HIDE DEF gaps
<1>7. CASE gaps = <<>>
  <2>1. SetPlan(d, NoPlan)
    BY <1>1, <1>7
  <2> QED BY <1>1, <2>1, NoPlanIsPlanned, PlanChanged
<1>8. CASE gaps # <<>>
  <2>1. gap \in Ranges /\ gap \in RangesOf(gaps)
    BY <1>6, <1>8 DEF RangesOf
  <2> HIDE DEF gap
  <2>2. /\ gap[1] \in Nat /\ gap[2] \in Nat /\ gap[1] < gap[2] /\ gap[2] <= MaxTime
        /\ MaxSpan \in Nat \ {0} /\ MaxTime \in Nat
    BY <2>1, RangeFacts, CoverageAssumption
  <2> DEFINE from == Larger(gap[1], gap[2] - MaxSpan)
  <2>3. from \in Nat /\ gap[1] <= from /\ from < gap[2]
    BY <2>2 DEF Larger
  <2> HIDE DEF from
  <2>4. /\ p.phase = "queued" /\ p.start = from /\ p.end = gap[2]
        /\ p.target = gap[1] /\ p.gen = plan[d].gen
    BY DEF SelectIntent, Plan, from
  <2> HIDE DEF p
  <2>5. Planned(p)
    <3>1. from \in Times /\ gap[2] \in Times /\ gap[1] \in Times
      BY <2>2, <2>3 DEF Times
    <3>2. <<from, gap[2]>> \in Ranges
      BY <2>3, <3>1, RangeFacts
    <3> QED BY <1>3, <2>4, <3>1, <3>2 DEF Planned
  <2>6. (p.target .. p.end - 1) \cap admitted = {}
    <3> SUFFICES ASSUME NEW t \in gap[1] .. gap[2] - 1, t \in admitted PROVE FALSE
      BY <2>4
    <3>1. t \in BarsOf(gap)
      BY DEF BarsOf
    <3>2. t \in AllBars(RangesOf(gaps))
      BY <2>1, <3>1 DEF AllBars
    <3>3. t \in BarsOf(r) /\ t \notin AllBars(read)
      BY <1>6, <3>2
    <3> QED BY <1>4, <1>5, <3>3
  <2>7. News(p)
    BY <2>6 DEF News
  <2>8. SetPlan(d, p) /\ p.gen <= generation
    BY <1>1, <1>3, <1>8, <2>4
  <2> QED BY <1>1, <2>5, <2>7, <2>8, PlanChanged
<1> QED BY <1>7, <1>8

LEMMA ChunkCommitKeeps ==
  ASSUME CoverageInv, NEW d \in Demands,
         CommitChunk(d)
  PROVE  CoverageInv'
<1> DEFINE p == plan[d]
           r == <<p.start, p.end>>
           Moves(progressed) ==
             /\ generation' = IF progressed THEN generation + 1 ELSE generation
             /\ SetPlan(d, IF progressed THEN Continue(d, generation')
                                    ELSE NoPlan)
<1>1. /\ p.phase = "queued" /\ p.gen = generation /\ generation < MaxCommits
      /\ admitted' = admitted \cup BarsOf(r)
  BY DEF CommitChunk
<1>2. PICK receipts \in Chunks(p.start, p.end) : WriteIfExpanded(receipts)
  BY DEF CommitChunk
<1>3. PICK rows \in BOOLEAN : Moves(rows \/ table' # table)
  BY DEF CommitChunk
<1>4. p # NoPlan
  <2>1. NoPlan.phase = "none"
    BY DEF NoPlan
  <2>2. p.phase # NoPlan.phase
    BY <1>1, <2>1
  <2> QED BY <2>2
<1>5. /\ r \in Ranges /\ p.target \in Times
      /\ generation \in 0..MaxCommits /\ MaxCommits \in Nat
      /\ r[1] = p.start /\ r[2] = p.end
  BY <1>4, CoverageAssumption DEF CoverageInv, CoverageTypeOK
<1>6. /\ table \in SUBSET Ranges /\ AllBars(table) = admitted
      /\ admitted \subseteq Times
  BY DEF CoverageInv, CoverageTypeOK
<1> HIDE DEF r
<1>7. /\ table' \in SUBSET Ranges
      /\ AllBars(table') = AllBars(table) \cup BarsOf(r)
  BY <1>2, <1>5, <1>6, ChunkIsAdded
<1>8. AllBars(table') = admitted' /\ admitted' \subseteq Times
  <2>1. AllBars(table') = admitted'
    BY <1>1, <1>6, <1>7
  <2> QED BY <1>7, <2>1, BarsIn
<1>9. (AllBars(table) = admitted)'
  BY <1>8 DEF AllBars, BarsOf
<1>10. /\ p.start \in Nat /\ p.end \in Nat /\ p.start < p.end /\ p.end <= MaxTime
       /\ p.target \in Nat /\ MaxTime \in Nat /\ generation \in Nat
  <2>1. MaxTime \in Nat
    BY CoverageAssumption
  <2>2. p.target \in Nat
    BY <1>5, <2>1 DEF Times
  <2> QED BY <1>5, <2>1, <2>2, RangeFacts
<1>11. \A e \in Demands : Planned(plan[e]) /\ (plan[e] # NoPlan => plan[e].gen <= generation)
  BY DEF CoverageInv, CoverageTypeOK, Planned
<1>12. CASE rows \/ table' # table
  <2> DEFINE q == Continue(d, generation')
  <2>1. generation' = generation + 1 /\ SetPlan(d, q)
    BY <1>3, <1>12
  <2>2. generation' \in 0..MaxCommits /\ generation < generation'
    BY <1>1, <1>5, <1>10, <2>1
  <2>3. \A e \in Demands : plan'[e] = IF e = d THEN q ELSE plan[e]
    BY <2>1 DEF SetPlan, CoverageInv
  <2>4. plan' = [e \in Demands |-> plan'[e]]
    BY <2>1 DEF SetPlan, CoverageInv
  <2>5. \/ q = NoPlan
        \/ /\ q.phase = "queued" /\ q.end = p.start /\ q.target = p.target
           /\ q.gen = generation' /\ ~(p.start <= p.target)
           /\ q.start = Larger(p.target, p.start - (p.end - p.start))
    BY DEF Continue, Plan
  <2> HIDE DEF q, p
  <2>6. Planned(q) /\ (q # NoPlan => q.gen <= generation')
        /\ (q.phase = "queued" => (q.target .. q.end - 1) \cap admitted' = {})
    <3>1. CASE q = NoPlan
      BY <3>1, NoPlanIsPlanned DEF NoPlan
    <3>2. CASE q # NoPlan
      <4>1. /\ q.start \in Nat /\ p.target <= q.start /\ q.start < p.start
        BY <1>10, <2>5, <3>2 DEF Larger
      <4>2. q.start \in Times /\ p.start \in Times
        BY <1>10, <4>1 DEF Times
      <4>3. <<q.start, p.start>> \in Ranges
        BY <4>1, <4>2, RangeFacts
      <4>4. Planned(q)
        BY <1>5, <2>2, <2>5, <3>2, <4>3 DEF Planned
      <4>5. (p.target .. p.end - 1) \cap admitted = {}
        BY <1>1 DEF CoverageInv, RepairsAreNews, p
      <4>6. \A t \in p.target .. p.start - 1 : t \notin admitted'
        <5> TAKE t \in p.target .. p.start - 1
        <5>1. t \in p.target .. p.end - 1
          BY <1>10
        <5>2. t \notin BarsOf(r)
          BY <1>5, <1>10 DEF BarsOf
        <5> QED BY <1>1, <4>5, <5>1, <5>2
      <4>7. (q.target .. q.end - 1) \cap admitted' = {}
        BY <2>5, <3>2, <4>6
      <4>8. q.gen <= generation'
        BY <1>10, <2>1, <2>5, <3>2
      <4> QED BY <4>4, <4>7, <4>8
    <3> QED BY <3>1, <3>2
  <2>7. \A e \in Demands : Planned(plan'[e])
    BY <1>11, <2>3, <2>6
  <2>8. CoverageTypeOK'
    BY <1>7, <1>8, <2>2, <2>7 DEF CoverageTypeOK, Planned
  <2>9. ASSUME NEW e \in Demands
        PROVE  plan'[e] # NoPlan => plan'[e].gen <= generation'
    <3>1. CASE e = d
      BY <2>3, <2>6, <3>1
    <3>2. CASE e # d /\ plan[e] # NoPlan
      <4>1. plan'[e] = plan[e] /\ plan[e].gen <= generation /\ plan[e].gen \in 0..MaxCommits
        BY <1>11, <2>3, <3>2 DEF Planned
      <4> QED BY <1>10, <2>1, <4>1
    <3> QED BY <2>3, <3>1, <3>2
  <2>10. ASSUME NEW e \in Demands, plan'[e].phase = "queued", plan'[e].gen = generation'
         PROVE  (plan'[e].target .. plan'[e].end - 1) \cap admitted' = {}
    <3>1. CASE e = d
      BY <2>3, <2>6, <2>10, <3>1
    <3>2. CASE e # d
      <4>1. plan'[e] = plan[e] /\ plan[e] # NoPlan
        BY <2>3, <2>10, <3>2 DEF NoPlan
      <4>2. plan[e].gen <= generation /\ plan[e].gen \in 0..MaxCommits
        BY <1>11, <4>1 DEF Planned
      <4> QED BY <1>10, <2>1, <2>10, <4>1, <4>2
    <3> QED BY <3>1, <3>2
  <2>11. RepairsAreNews'
    BY <2>10 DEF RepairsAreNews
  <2> QED BY <1>9, <2>4, <2>8, <2>9, <2>11 DEF CoverageInv
<1>13. CASE ~(rows \/ table' # table)
  <2>1. generation' = generation /\ table' = table /\ SetPlan(d, NoPlan)
    BY <1>3, <1>13
  <2>2. admitted' = admitted
    BY <1>6, <1>8, <2>1
  <2> QED BY <2>1, <2>2, NoPlanIsPlanned, PlanChanged
<1> QED BY <1>12, <1>13

LEMMA LiveCommitKeeps ==
  ASSUME CoverageInv, OtherCommit
  PROVE  CoverageInv'
<1>1. /\ generation \in 0..MaxCommits /\ MaxCommits \in Nat
      /\ generation' = generation + 1 /\ generation < MaxCommits
      /\ UNCHANGED <<table, plan, admitted>>
  BY CoverageAssumption DEF CoverageInv, CoverageTypeOK, OtherCommit
<1>2. \A e \in Demands : Planned(plan[e]) /\ (plan[e] # NoPlan => plan[e].gen <= generation)
  BY DEF CoverageInv, CoverageTypeOK, Planned
<1>3. CoverageTypeOK'
  <2>1. generation' \in 0..MaxCommits
    BY <1>1
  <2> QED BY <1>1, <2>1 DEF CoverageInv, CoverageTypeOK
<1>4. ASSUME NEW e \in Demands, plan[e] # NoPlan
      PROVE  plan[e].gen <= generation' /\ plan[e].gen # generation'
  <2>1. plan[e].gen <= generation /\ plan[e].gen \in 0..MaxCommits
    BY <1>2, <1>4 DEF Planned
  <2> QED BY <1>1, <2>1
<1>5. \A e \in Demands : plan[e].phase = "queued" => plan[e] # NoPlan
  BY DEF NoPlan
<1>6. RepairsAreNews'
  BY <1>1, <1>4, <1>5 DEF RepairsAreNews
<1>7. (AllBars(table) = admitted)'
  BY <1>1 DEF CoverageInv, AllBars
<1> QED BY <1>1, <1>3, <1>4, <1>6, <1>7 DEF CoverageInv

(* The invariant is inductive.                                              *)
LEMMA CoverageStep ==
  ASSUME CoverageInv, [CoverageNext]_coverageVars
  PROVE  CoverageInv'
<1>1. ASSUME NEW d \in Demands, NEW r \in Ranges, Demand(d, r)
      PROVE  CoverageInv'
  BY <1>1, CaptureKeeps
<1>2. ASSUME NEW d \in Demands, PlanRepair(d)
      PROVE  CoverageInv'
  BY <1>2, PlanRepairKeeps
<1>3. ASSUME NEW d \in Demands, CommitChunk(d)
      PROVE  CoverageInv'
  BY <1>3, ChunkCommitKeeps
<1>4. ASSUME NEW d \in Demands, DropChunk(d)
      PROVE  CoverageInv'
  <2>1. SetPlan(d, NoPlan) /\ UNCHANGED <<table, generation, admitted>>
    BY <1>4 DEF DropChunk
  <2> QED BY <2>1, NoPlanIsPlanned, PlanChanged
<1>5. CASE OtherCommit
  BY <1>5, LiveCommitKeeps
<1>6. CASE UNCHANGED coverageVars
  <2>1. UNCHANGED <<table, generation, plan, admitted>>
    BY <1>6 DEF coverageVars
  <2>2. CoverageTypeOK' /\ RepairsAreNews'
    BY <2>1 DEF CoverageInv, CoverageTypeOK, RepairsAreNews
  <2>3. (AllBars(table) = admitted)'
    BY <2>1 DEF CoverageInv, AllBars
  <2> QED BY <2>1, <2>2, <2>3 DEF CoverageInv
<1> QED BY <1>1, <1>2, <1>3, <1>4, <1>5, <1>6 DEF CoverageNext

LEMMA CoverageAlways ==
  CoverageSpec => []CoverageInv
<1>1. CoverageInit => CoverageInv
  BY CoverageStarts
<1>2. CoverageInv /\ [CoverageNext]_coverageVars => CoverageInv'
  BY CoverageStep
<1> QED BY <1>1, <1>2, PTL DEF CoverageSpec

(* history_range_is_covered on what _read_history_coverages_on_cursor reads *)
(* answers whether every bar of the range was committed in some receipt,    *)
(* whatever the order, the cuts and the overlaps of the receipts.           *)
THEOREM CoverageIsExactTheorem ==
  CoverageSpec => []CoverageIsExact
<1>1. ASSUME CoverageInv PROVE CoverageIsExact
  <2> SUFFICES ASSUME NEW r \in Ranges
               PROVE  RangeIsCovered(ReadCoverage(r[1], r[2]), r[1], r[2])
                        <=> BarsOf(r) \subseteq admitted
    BY DEF CoverageIsExact
  <2> DEFINE read == ReadCoverage(r[1], r[2])
  <2>1. table \in SUBSET Ranges /\ AllBars(table) = admitted
    BY <1>1 DEF CoverageInv, CoverageTypeOK
  <2>2. /\ read \in SUBSET Ranges
        /\ \A t \in BarsOf(r) :
             t \in AllBars(read) <=> t \in AllBars(table)
    BY <2>1, ReadSees
  <2> HIDE DEF read
  <2>3. RangeIsCovered(read, r[1], r[2])
          <=> BarsOf(r) \subseteq AllBars(read)
    BY <2>2, Covered
  <2> QED BY <2>1, <2>2, <2>3 DEF read
<1>2. CoverageInv => CoverageIsExact
  BY <1>1
<1> QED BY <1>2, CoverageAlways, PTL

(* history_uncovered_ranges names exactly the bars of the request that no   *)
(* receipt holds, in ranges that are in order and never touch.              *)
THEOREM GapsAreExactTheorem ==
  CoverageSpec => []GapsAreExact
<1>1. ASSUME CoverageInv, NEW r \in Ranges
      PROVE  LET gaps == UncoveredRanges(ReadCoverage(r[1], r[2]), r[1], r[2])
             IN /\ AllBars({gaps[i] : i \in DOMAIN gaps})
                     = BarsOf(r) \ admitted
                /\ \A i \in 1 .. Len(gaps) - 1 : gaps[i][2] < gaps[i + 1][1]
  <2> DEFINE read == ReadCoverage(r[1], r[2])
             gaps == UncoveredRanges(read, r[1], r[2])
  <2>1. table \in SUBSET Ranges /\ AllBars(table) = admitted
    BY <1>1 DEF CoverageInv, CoverageTypeOK
  <2>2. /\ read \in SUBSET Ranges
        /\ \A t \in BarsOf(r) :
             t \in AllBars(read) <=> t \in AllBars(table)
    BY <2>1, ReadSees
  <2> HIDE DEF read
  <2>3. /\ gaps \in Seq(Ranges) /\ Separated(gaps)
        /\ AllBars(RangesOf(gaps)) = BarsOf(r) \ AllBars(read)
    BY <2>2, GapsCut
  <2> HIDE DEF gaps
  <2>4. AllBars({gaps[i] : i \in DOMAIN gaps}) = BarsOf(r) \ admitted
    BY <2>1, <2>2, <2>3 DEF RangesOf
  <2>5. ASSUME NEW i \in 1 .. Len(gaps) - 1
        PROVE  gaps[i][2] < gaps[i + 1][1]
    <3>1. Len(gaps) \in Nat /\ DOMAIN gaps = 1..Len(gaps)
      BY <2>3
    <3>2. i \in DOMAIN gaps /\ i + 1 \in DOMAIN gaps /\ i < i + 1
      BY <3>1
    <3> QED BY <2>3, <3>2 DEF Separated
  <2>6. /\ AllBars({gaps[i] : i \in DOMAIN gaps}) = BarsOf(r) \ admitted
        /\ \A i \in 1 .. Len(gaps) - 1 : gaps[i][2] < gaps[i + 1][1]
    BY <2>4, <2>5
  <2> QED BY <2>6 DEF gaps, read
<1>2. CoverageInv => GapsAreExact
  BY <1>1 DEF GapsAreExact
<1> QED BY <1>2, CoverageAlways, PTL

(* A repair chunk that passes the check of its generation asks the provider *)
(* for no bar that is already held, down to its target: between the capture *)
(* of the generation and the fetch no receipt can have been written.        *)
THEOREM RepairsAreNewsTheorem ==
  CoverageSpec => []RepairsAreNews
<1>1. CoverageInv => RepairsAreNews
  BY DEF CoverageInv
<1> QED BY <1>1, CoverageAlways, PTL
=============================================================================
