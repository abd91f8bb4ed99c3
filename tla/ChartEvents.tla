---------------------------- MODULE ChartEvents ----------------------------
(* The canonical generation registry of runtime/chart_events.py, with the   *)
(* parties that use it: writers (runtime/chart_commits.py), fenced readers  *)
(* with the confirmed-history cache (ui/services/chart_history.py),         *)
(* publishers of paper and alert effects (ui/services/market_analysis_job)  *)
(* and the waiters of chart streams.                                        *)
(*                                                                          *)
(* A key is one (instrument, route, source interval) scope.  Bars are       *)
(* abstracted to db[k], the number of commits that changed the stored bars  *)
(* of k.  Guard tokens are unique, so a guard is named by its owner.        *)
EXTENDS Integers, Sequences, FiniteSets

CONSTANTS Keys,               \* chart scopes
          Writers, Readers, Publishers, Watchers, StableWaiters,
          None,               \* no writer
          MaxEvents,          \* _MAX_EVENTS_PER_KEY
          MaxRefreshKeys,     \* _MAX_REFRESH_KEYS
          MaxGenerationKeys,  \* _MAX_GENERATION_KEYS
          MaxVersions         \* bound on generations and stored versions

ASSUME ChartEventsAssumption ==
  /\ None \notin Writers
  /\ MaxEvents \in Nat \ {0}
  /\ MaxRefreshKeys \in Nat
  /\ MaxGenerationKeys \in Nat
  /\ MaxVersions \in Nat

VARIABLES
  db,            \* db[k]: version of the stored bars
  generations,   \* generations[k]; 0 when k is not in _generations
  events,        \* events[k]: the generations queued in _events
  writing,       \* writing[k]: owner of the guard in _writes_in_progress
  publishing,    \* publishing[k]: owners in _publications_in_progress
  wpc, wkey, wexp,                \* writers: step, scope, expected_generation
  rpc, rkey, rexp, rval,          \* readers: ..., the bars read
  cache,                          \* cache[k]: cached load [gen, val]
  qpc, qgen, qval,                \* publishers: generation and bars per scope
  upc, ukey, useen, uwoken, usilent,  \* waiters for updates
  spc, skey, swoken               \* waiters for a stable scope

registry == <<generations, events, writing, publishing>>
writers  == <<wpc, wkey, wexp>>
readers  == <<rpc, rkey, rexp, rval>>
pubs     == <<qpc, qgen, qval>>
watchers == <<upc, ukey, useen, usilent>>
vars == <<db, registry, writers, readers, cache, pubs, watchers, uwoken,
          spc, skey, swoken>>

Version == 0 .. MaxVersions
Absent == -1

WriterSteps == {"idle", "captured", "guarded", "mutated", "unchanged",
                "uncertain", "published"}
Guarding == {"guarded", "mutated", "unchanged", "uncertain", "published"}

TypeOK ==
  /\ db \in [Keys -> Version]
  /\ generations \in [Keys -> Version]
  /\ events \in [Keys -> Seq(Version)]
  /\ writing \in [Keys -> Writers \cup {None}]
  /\ publishing \in [Keys -> SUBSET Publishers]
  /\ wpc \in [Writers -> WriterSteps]
  /\ wkey \in [Writers -> Keys]
  /\ wexp \in [Writers -> Version]
  /\ rpc \in [Readers -> {"idle", "captured", "checked", "read"}]
  /\ rkey \in [Readers -> Keys]
  /\ rexp \in [Readers -> Version]
  /\ rval \in [Readers -> Version]
  /\ cache \in [Keys -> [gen : Version \cup {Absent}, val : Version]]
  /\ qpc \in [Publishers -> {"idle", "effect"}]
  /\ qgen \in [Publishers -> [Keys -> Version \cup {Absent}]]
  /\ qval \in [Publishers -> [Keys -> Version]]
  /\ upc \in [Watchers -> {"idle", "waiting"}]
  /\ ukey \in [Watchers -> Keys]
  /\ useen \in [Watchers -> Version]
  /\ uwoken \in [Watchers -> BOOLEAN]
  /\ usilent \in [Watchers -> BOOLEAN]
  /\ spc \in [StableWaiters -> {"idle", "waiting"}]
  /\ skey \in [StableWaiters -> Keys]
  /\ swoken \in [StableWaiters -> BOOLEAN]

(* Bars may be stored before the process starts; generations start at 0.    *)
Init ==
  /\ db = [k \in Keys |-> 0]
  /\ generations = [k \in Keys |-> 0]
  /\ events = [k \in Keys |-> <<>>]
  /\ writing = [k \in Keys |-> None]
  /\ publishing = [k \in Keys |-> {}]
  /\ wpc = [w \in Writers |-> "idle"]
  /\ wkey \in [Writers -> Keys]
  /\ wexp = [w \in Writers |-> 0]
  /\ rpc = [r \in Readers |-> "idle"]
  /\ rkey \in [Readers -> Keys]
  /\ rexp = [r \in Readers |-> 0]
  /\ rval = [r \in Readers |-> 0]
  /\ cache = [k \in Keys |-> [gen |-> Absent, val |-> 0]]
  /\ qpc = [q \in Publishers |-> "idle"]
  /\ qgen = [q \in Publishers |-> [k \in Keys |-> Absent]]
  /\ qval = [q \in Publishers |-> [k \in Keys |-> 0]]
  /\ upc = [u \in Watchers |-> "idle"]
  /\ ukey \in [Watchers -> Keys]
  /\ useen = [u \in Watchers |-> 0]
  /\ uwoken = [u \in Watchers |-> FALSE]
  /\ usilent = [u \in Watchers |-> FALSE]
  /\ spc = [s \in StableWaiters |-> "idle"]
  /\ skey \in [StableWaiters -> Keys]
  /\ swoken = [s \in StableWaiters |-> FALSE]

-----------------------------------------------------------------------------
(* Registry operations, each under _lock.                                   *)

(* Mutant: only the generation is compared, not the write guard. *)
MutantStableIgnoresWriter(k, expected) == generations[k] = expected

(* require_chart_bars_generation succeeds.                                  *)
Stable(k, expected) == writing[k] = None /\ generations[k] = expected

WaitedKeys == {ukey[u] : u \in {v \in Watchers : upc[v] = "waiting"}}
              \cup {skey[s] : s \in {v \in StableWaiters : spc[v] = "waiting"}}

(* Mutant: keys with a registered waiter are trimmed like any other. *)
MutantTrimIgnoresWaiters(k) == {k}

(* The keys that trimming leaves alone while k is recorded.                 *)
InUse(k) == WaitedKeys \cup {k}

LastEvents(q) == IF Len(q) > MaxEvents
                 THEN SubSeq(q, Len(q) - MaxEvents + 1, Len(q)) ELSE q

(* At most one stale entry is dropped when a table is over its limit.       *)
DropOne(f, size, limit, stale, empty) ==
  IF size > limit /\ stale # {} THEN {[f EXCEPT ![j] = empty] : j \in stale}
                                ELSE {f}

NextGeneration(k) == generations[k] + 1

(* The next generation of k with _record_chart_bars_updated_locked: queue   *)
(* the event, trim the tables, wake the waiters for updates.                *)
Advance(k) ==
  LET g == NextGeneration(k)
      gens == [generations EXCEPT ![k] = g]
      queues == [events EXCEPT ![k] = LastEvents(Append(@, g))]
  IN /\ events' \in DropOne(queues, Cardinality({j \in Keys : queues[j] # <<>>}),
                            MaxRefreshKeys,
                            {j \in Keys \ InUse(k) : queues[j] # <<>>}, <<>>)
     /\ generations' \in DropOne(gens, Cardinality({j \in Keys : gens[j] # 0}),
                                 MaxGenerationKeys,
                                 {j \in Keys \ InUse(k) : /\ gens[j] # 0
                                                       /\ events'[j] = <<>>
                                                       /\ writing[j] = None
                                                       /\ publishing[j] = {}}, 0)
     /\ uwoken' = [u \in Watchers |->
                     uwoken[u] \/ (upc[u] = "waiting" /\ ukey[u] = k)]

(* Releasing a write guard wakes the waiters for stability.                 *)
ReleaseWrite(k) ==
  /\ writing' = [writing EXCEPT ![k] = None]
  /\ swoken' = [s \in StableWaiters |->
                  swoken[s] \/ (spc[s] = "waiting" /\ skey[s] = k)]

-----------------------------------------------------------------------------
(* Writers.  A live commit captures the generation just before it begins; a *)
(* history commit carries the generation of the repair that asked for it.   *)

WriterGoto(w, step) == wpc' = [wpc EXCEPT ![w] = step]

CaptureForWrite(w, k) ==
  /\ wpc[w] = "idle"
  /\ WriterGoto(w, "captured")
  /\ wkey' = [wkey EXCEPT ![w] = k]
  /\ wexp' = [wexp EXCEPT ![w] = generations[k]]
  /\ UNCHANGED <<db, registry, readers, cache, pubs, watchers, uwoken, spc, skey, swoken>>

(* Mutant: effects in progress do not hold up a writer. *)
MutantWriteIgnoresPublications(w) ==
  writing[wkey[w]] = None /\ generations[wkey[w]] = wexp[w]

(* Mutant: a second writer may enter the scope. *)
MutantWriteIgnoresWriter(w) ==
  publishing[wkey[w]] = {} /\ generations[wkey[w]] = wexp[w]

(* The conditions of begin_chart_bars_write.                                *)
MayBegin(w) ==
  /\ writing[wkey[w]] = None
  /\ publishing[wkey[w]] = {}
  /\ generations[wkey[w]] = wexp[w]

(* begin_chart_bars_write                                                   *)
BeginWrite(w) ==
  LET k == wkey[w] IN
  /\ wpc[w] = "captured"
  /\ generations[k] < MaxVersions /\ db[k] < MaxVersions
  /\ MayBegin(w)
  /\ writing' = [writing EXCEPT ![k] = w]
  /\ WriterGoto(w, "guarded")
  /\ UNCHANGED <<db, generations, events, publishing, wkey, wexp, readers, cache,
                 pubs, watchers, uwoken, spc, skey, swoken>>

(* ChartBarsGenerationChanged: retried later with a fresh capture, or the   *)
(* request is settled as stale.                                             *)
WriteConflict(w) ==
  /\ wpc[w] = "captured"
  /\ ~MayBegin(w)
  /\ WriterGoto(w, "idle")
  /\ UNCHANGED <<db, registry, wkey, wexp, readers, cache, pubs, watchers, uwoken,
                 spc, skey, swoken>>

(* The storage transaction ends: changed or not, and its outcome known to   *)
(* the writer or not (an exception, or a receipt that does not validate).   *)
Store(w) ==
  LET k == wkey[w] IN
  /\ wpc[w] = "guarded"
  /\ \/ /\ db' = [db EXCEPT ![k] = @ + 1]
        /\ WriterGoto(w, "mutated") \/ WriterGoto(w, "uncertain")
     \/ /\ db' = db
        /\ WriterGoto(w, "unchanged") \/ WriterGoto(w, "uncertain")
  /\ UNCHANGED <<registry, wkey, wexp, readers, cache, pubs, watchers, uwoken,
                 spc, skey, swoken>>

(* publish_chart_bars_updated with expected_generation                      *)
PublishWrite(w) ==
  LET k == wkey[w] IN
  /\ wpc[w] = "mutated"
  /\ generations[k] = wexp[w]
  /\ Advance(k)
  /\ WriterGoto(w, "published")
  /\ UNCHANGED <<db, writing, publishing, wkey, wexp, readers, cache, pubs, watchers,
                 spc, skey, swoken>>

(* end_chart_bars_write                                                     *)
EndWrite(w) ==
  /\ wpc[w] \in {"unchanged", "published"}
  /\ ReleaseWrite(wkey[w])
  /\ WriterGoto(w, "idle")
  /\ UNCHANGED <<db, generations, events, publishing, wkey, wexp, readers, cache, pubs,
                 watchers, uwoken, spc, skey>>

(* invalidate_chart_bars_write: after an uncertain outcome, a publication   *)
(* that found another generation, or any failure of the finalization.       *)
InvalidateWrite(w) ==
  LET k == wkey[w] IN
  /\ wpc[w] \in {"mutated", "unchanged", "uncertain", "published"}
  /\ generations[k] >= wexp[w]
  /\ \/ generations[k] = wexp[w] /\ Advance(k)
     \/ generations[k] # wexp[w] /\ UNCHANGED <<generations, events, uwoken>>
  /\ ReleaseWrite(k)
  /\ WriterGoto(w, "idle")
  /\ UNCHANGED <<db, publishing, wkey, wexp, readers, cache, pubs, watchers, spc, skey>>

-----------------------------------------------------------------------------
(* Readers: _load_confirmed_chart_bars between its generation checks, and   *)
(* the result cache of coalesced_load_confirmed_chart_bars.                 *)

ReaderGoto(r, step) == rpc' = [rpc EXCEPT ![r] = step]

(* wait_for_chart_bars_stable returns, or the generation is passed in from  *)
(* an earlier look at the registry.                                         *)
CaptureForRead(r, k) ==
  /\ rpc[r] = "idle"
  /\ ReaderGoto(r, "captured")
  /\ rkey' = [rkey EXCEPT ![r] = k]
  /\ rexp' = [rexp EXCEPT ![r] = generations[k]]
  /\ UNCHANGED <<db, registry, writers, rval, cache, pubs, watchers, uwoken,
                 spc, skey, swoken>>

CheckBeforeRead(r) ==
  /\ rpc[r] = "captured"
  /\ Stable(rkey[r], rexp[r])
  /\ ReaderGoto(r, "checked")
  /\ UNCHANGED <<db, registry, writers, rkey, rexp, rval, cache, pubs, watchers, uwoken,
                 spc, skey, swoken>>

ReadBars(r) ==
  /\ rpc[r] = "checked"
  /\ rval' = [rval EXCEPT ![r] = db[rkey[r]]]
  /\ ReaderGoto(r, "read")
  /\ UNCHANGED <<db, registry, writers, rkey, rexp, cache, pubs, watchers, uwoken,
                 spc, skey, swoken>>

(* The check after the read passes; the load is served and cached.          *)
ServeRead(r) ==
  /\ rpc[r] = "read"
  /\ Stable(rkey[r], rexp[r])
  /\ cache' = [cache EXCEPT ![rkey[r]] = [gen |-> rexp[r], val |-> rval[r]]]
  /\ ReaderGoto(r, "idle")
  /\ UNCHANGED <<db, registry, writers, rkey, rexp, rval, pubs, watchers, uwoken,
                 spc, skey, swoken>>

RejectRead(r) ==
  /\ rpc[r] \in {"captured", "read"}
  /\ ~Stable(rkey[r], rexp[r])
  /\ ReaderGoto(r, "idle")
  /\ UNCHANGED <<db, registry, writers, rkey, rexp, rval, cache, pubs, watchers, uwoken,
                 spc, skey, swoken>>

-----------------------------------------------------------------------------
(* Publishers: an analysis collects validated bars of one or more scopes    *)
(* and later applies an effect computed from them (paper sync, alert).      *)

Collect(q, k) ==
  /\ qpc[q] = "idle"
  /\ writing[k] = None
  /\ qgen' = [qgen EXCEPT ![q][k] = generations[k]]
  /\ qval' = [qval EXCEPT ![q][k] = db[k]]
  /\ UNCHANGED <<db, registry, writers, readers, cache, qpc, watchers, uwoken,
                 spc, skey, swoken>>

Scopes(q) == {k \in Keys : qgen[q][k] # Absent}

(* begin_chart_bars_publication                                             *)
BeginPublication(q) ==
  /\ qpc[q] = "idle"
  /\ Scopes(q) # {}
  /\ \A k \in Scopes(q) : Stable(k, qgen[q][k])
  /\ publishing' = [k \in Keys |-> IF k \in Scopes(q) THEN publishing[k] \cup {q}
                                                      ELSE publishing[k]]
  /\ qpc' = [qpc EXCEPT ![q] = "effect"]
  /\ UNCHANGED <<db, generations, events, writing, writers, readers, cache, qgen, qval,
                 watchers, uwoken, spc, skey, swoken>>

(* end_chart_bars_publication, or the effect is dropped on a conflict.      *)
EndPublication(q) ==
  /\ \/ qpc[q] = "effect"
     \/ \E k \in Scopes(q) : ~Stable(k, qgen[q][k])
  /\ publishing' = [k \in Keys |-> publishing[k] \ {q}]
  /\ qpc' = [qpc EXCEPT ![q] = "idle"]
  /\ qgen' = [qgen EXCEPT ![q] = [k \in Keys |-> Absent]]
  /\ UNCHANGED <<db, generations, events, writing, writers, readers, cache, qval,
                 watchers, uwoken, spc, skey, swoken>>

-----------------------------------------------------------------------------
(* Waiters.                                                                 *)

(* chart_bars_updated_events_since: where the newer events are queued.      *)
EventsSince(k, seen) == {i \in DOMAIN events[k] : events[k][i] > seen}

FirstIs(i, evs) == \A j \in evs : i <= j

(* Mutant: an empty event list is taken for "nothing happened". *)
MutantOverflowNeedsEvents(k, previous, next, evs) ==
  next > previous /\ \E i \in evs : FirstIs(i, evs) /\ events[k][i] > previous + 1

(* _handle_canonical_events: with no event, or a first event that is not    *)
(* the next, the stream schedules a checkpoint instead of trusting deltas.  *)
Overflow(k, previous, next, evs) ==
  next > previous /\ \A i \in evs : FirstIs(i, evs) => events[k][i] > previous + 1

(* A stream moves from its cursor to the current generation; usilent[u]     *)
(* records a generation it passed without its event and without noticing.   *)
Deliver(u, k) ==
  LET evs == EventsSince(k, useen[u])
      got == {events[k][i] : i \in evs}
  IN /\ useen' = [useen EXCEPT ![u] = generations[k]]
     /\ usilent' = [usilent EXCEPT ![u] =
           @ \/ /\ ~Overflow(k, useen[u], generations[k], evs)
                /\ \E g \in useen[u] + 1 .. generations[k] : g \notin got]
     /\ upc' = [upc EXCEPT ![u] = "idle"]
     /\ uwoken' = [uwoken EXCEPT ![u] = FALSE]

(* wait_for_chart_bars_updated registers when nothing is new ...            *)
WaitUpdate(u) ==
  LET k == ukey[u] IN
  /\ upc[u] = "idle"
  /\ generations[k] = useen[u]
  /\ upc' = [upc EXCEPT ![u] = "waiting"]
  /\ UNCHANGED <<db, registry, writers, readers, cache, pubs, ukey, useen, usilent, uwoken,
                 spc, skey, swoken>>

(* ... and returns what is new at once, when woken, or at its timeout.      *)
ReturnUpdate(u) ==
  LET k == ukey[u] IN
  /\ \/ upc[u] = "idle" /\ generations[k] # useen[u]
     \/ upc[u] = "waiting" /\ uwoken[u]
  /\ Deliver(u, k)
  /\ UNCHANGED <<db, registry, writers, readers, cache, pubs, ukey, spc, skey, swoken>>

TimeoutUpdate(u) ==
  /\ upc[u] = "waiting"
  /\ Deliver(u, ukey[u])
  /\ UNCHANGED <<db, registry, writers, readers, cache, pubs, ukey, spc, skey, swoken>>

(* wait_for_chart_bars_stable: it returns at once when no writer is active, *)
(* and rechecks after every wake.                                           *)
WaitStable(s, k) ==
  /\ spc[s] = "idle"
  /\ writing[k] # None
  /\ spc' = [spc EXCEPT ![s] = "waiting"]
  /\ skey' = [skey EXCEPT ![s] = k]
  /\ UNCHANGED <<db, registry, writers, readers, cache, pubs, watchers, uwoken, swoken>>

WakeStable(s) ==
  /\ spc[s] = "waiting" /\ swoken[s]
  /\ spc' = [spc EXCEPT ![s] = IF writing[skey[s]] = None THEN "idle" ELSE "waiting"]
  /\ swoken' = [swoken EXCEPT ![s] = FALSE]
  /\ UNCHANGED <<db, registry, writers, readers, cache, pubs, watchers, uwoken, skey>>

(* The request deadline passes.                                             *)
TimeoutStable(s) ==
  /\ spc[s] = "waiting"
  /\ spc' = [spc EXCEPT ![s] = "idle"]
  /\ swoken' = [swoken EXCEPT ![s] = FALSE]
  /\ UNCHANGED <<db, registry, writers, readers, cache, pubs, watchers, uwoken, skey>>

WriterStep(w) == \/ BeginWrite(w) \/ WriteConflict(w) \/ Store(w)
                 \/ PublishWrite(w) \/ EndWrite(w) \/ InvalidateWrite(w)

Next ==
  \/ \E w \in Writers : WriterStep(w) \/ \E k \in Keys : CaptureForWrite(w, k)
  \/ \E r \in Readers : \/ \E k \in Keys : CaptureForRead(r, k)
                        \/ CheckBeforeRead(r) \/ ReadBars(r)
                        \/ ServeRead(r) \/ RejectRead(r)
  \/ \E q \in Publishers : \/ \E k \in Keys : Collect(q, k)
                           \/ BeginPublication(q) \/ EndPublication(q)
  \/ \E u \in Watchers : WaitUpdate(u) \/ ReturnUpdate(u) \/ TimeoutUpdate(u)
  \/ \E s \in StableWaiters : \/ \E k \in Keys : WaitStable(s, k)
                              \/ WakeStable(s) \/ TimeoutStable(s)

Spec == Init /\ [][Next]_vars

-----------------------------------------------------------------------------
(* Properties                                                               *)

(* The registry never needs to forget a generation: there are at most       *)
(* _MAX_GENERATION_KEYS scopes.                                             *)
KeysFit == IsFiniteSet(Keys) /\ Cardinality(Keys) <= MaxGenerationKeys

(* A load whose last generation check passes has read the bars that are     *)
(* stored now: no commit, known or uncertain, slips between its two checks. *)
(* The generation is also the token of the confirmed-history cache: an      *)
(* entry that still passes its check holds the stored bars.                 *)
ReadsValidated ==
  /\ \A r \in Readers :
       rpc[r] = "read" /\ Stable(rkey[r], rexp[r]) => rval[r] = db[rkey[r]]
  /\ \A k \in Keys : Stable(k, cache[k].gen) => cache[k].val = db[k]

(* While a paper or alert effect is applied, the bars of every scope it was *)
(* computed from are the stored ones; a writer has to wait for it.          *)
EffectsCurrent ==
  \A q \in Publishers :
    qpc[q] = "effect" => \A k \in Scopes(q) : qval[q][k] = db[k]

(* The guard protects the generation it was taken for: the writer that      *)
(* changed the bars always finds the generation it expects (publication     *)
(* cannot lose its compare-and-set) until it publishes, and exactly one     *)
(* writer works on a scope.                                                 *)
GuardOwnsGeneration ==
  \A w \in Writers :
    wpc[w] \in Guarding =>
      /\ writing[wkey[w]] = w
      /\ generations[wkey[w]] = wexp[w] + (IF wpc[w] = "published" THEN 1 ELSE 0)

(* No wake-up is lost: a sleeping update waiter that was not woken is       *)
(* really up to date, and a sleeping stability waiter that was not woken    *)
(* has an active writer to wait for, also when tables are trimmed.          *)
NoLostWakeup ==
  /\ \A u \in Watchers : upc[u] = "waiting" /\ ~uwoken[u] =>
                           useen[u] = generations[ukey[u]]
  /\ \A s \in StableWaiters : spc[s] = "waiting" /\ ~swoken[s] =>
                                writing[skey[s]] # None

(* The bounded event queue and the overflow test of the chart stream        *)
(* together never let a stream skip a generation without noticing.          *)
NoSilentGap == \A u \in Watchers : ~usilent[u]
============================================================================
