# MartinCall: TLA+ models and proofs

MartinCall is a trading terminal: a single Python process (FastAPI, asyncio and
threads) that ingests bars from providers, keeps confirmed bars in PostgreSQL,
streams charts to browsers, analyses markets in worker processes and drives
paper trading and alerts. Everything downstream relies on the *canonical* bar
store: one writer, ordered revisions, a generation per chart scope, and exact
knowledge of which ranges the provider has been mirrored for. That pipeline, the
process life around it, and the three consumers whose mistakes a user would
notice (the chart stream, alerts, paper trading) are modelled here.

Paths below are relative to `src/src/aef_terminal/`.

## 1. Inventory

| Part | Source | State | Operations |
|---|---|---|---|
| Canonical writer lease | `storage/repos/connection.py` | dedicated session, lease state, latched loss; advisory locks L (lease) and F (fence) in PostgreSQL | acquire with barrier, verify, latch loss, release, fenced transaction |
| Generation registry | `runtime/chart_events.py` | per scope: generation, event queue, write guard, publication guards, waiters; all under one lock | begin/end/invalidate write, begin/end publication, publish, wait for update, wait for stability, trimming |
| Chart commit runtime | `runtime/chart_commits.py` | per scope one lane: pending bars, reserved sequences, dedupe tail, history queue, turn flag, one task | submit live bars, submit history commit, drain, retry, shutdown, start |
| Bar and history repositories | `storage/repos/bars.py`, `history_commits.py`, `history_coverage.py`, `data/provider_contract.py` | rows with revision sequences, coverage receipts | ordered upsert, receipt, exact-snapshot reconciliation, coverage insert |
| Coverage and repair planning | `data/history_coverage.py`, `engine/history_repair.py`, `ui/services/chart_stream_gap_repair.py` | none (pure), reads receipts | union, covered?, uncovered ranges, target and chunk selection |
| History repair orchestrator | `data/history_repair.py` | per provider: running request, priority queue, callbacks, backoff, awaited generations, outcomes | schedule, look up, fetch, recheck, commit, continue, cancel |
| Confirmed history loads | `ui/services/chart_history.py` | result cache by generation, in-flight loads | fenced read, coalescing, cache |
| Market analysis publication | `ui/services/market_analysis_job.py` | validated generations of the scopes an analysis used | publication guard around paper and alert effects |
| Chart stream | `ui/services/chart_stream_coordinator.py`, `chart_stream_ws.py`, `chart_stream_payload_tracker.py` | event cursor, checkpoint task, bounded consumer queue, tracker of what was sent | canonical events, overflow, checkpoints, compaction, acknowledgement |
| Lifespan and task registry | `ui/app.py`, `ui/bootstrap.py`, `ui/services/background_tasks.py`, `runtime/async_tasks.py` | loops, restart policies and timers, runtime owners, the lease | start, supervise, restart, stop in order, defer cancellation |
| Alerts | `storage/repos/drawings.py`, `alerts/`, `ui/alert_commands.py`, `ui/services/server_alert_*.py`, `ui/server_alert_runtime.py` | rows, registry, quote inbox, crossing baselines, Telegram outbox | commands, firing, hydration, claim, send, finalize |
| Paper trading | `storage/repos/paper.py`, `paper_journal_runtime.py`, `ui/paper/` | orders, positions, fills, projection | place, patch, cancel, close, fill, reject, monitor tick |

How they interact: the lifespan acquires the lease before any writer starts and
releases it after every owner has drained. Streams hand confirmed bars to a
commit lane; repairs hand provider results to the same lane. The lane reserves a
revision sequence, takes the scope's write guard in the registry, runs one
fenced transaction, then publishes the next generation and releases the guard;
an unknown outcome advances the generation too. Readers, caches, repairs and
analyses capture a generation, work without any lock, and compare it again
before they publish what they computed. Streams are woken by publications and
read a bounded event queue. Alerts and paper orders are rows of their own with a
projection in memory that follows each commit; evaluators decide on the
projection and storage decides again.

What is hard: lanes are asyncio tasks whose storage work runs on threads;
registry calls come from several threads; every await is a point where rows are
replaced, corrected or requeued; a storage call may fail with its transaction
committed; sessions and processes die; queues and tables are bounded and
trimmed; shutdown interrupts retries; projections lag behind tables. `hazards`
in `PROJECT.json` lists these by line with the properties that watch them.

Parts without a model, with reasons, are in section 8.

## 2. Modules

| Module | Models |
|---|---|
| `WriterAuthority` | abstract specification: an authority epoch that only grows, commits only under the current epoch |
| `CanonicalWriterLease` | lease, fence, transactions, session loss and crashes; implements `WriterAuthority` |
| `ChartEvents` | generation registry with writers, readers and cache, publishers, update and stability waiters |
| `ChartCommitLane` | one commit lane and the rows of its scope |
| `HistoryCoverage` | range algebra, coverage table, repair walk |
| `HistoryRepair` | one provider lane of the repair orchestrator |
| `ChartStream` | one chart stream from the event log to the browser |
| `Lifespan` | process life: lease, owners, supervised loops, shutdown |
| `PriceAlerts` | alert rows, registry, commands, firings, Telegram outbox |
| `AlertQuotes` | quote inbox and crossing detection |
| `PaperJournal` | paper orders, positions, fills, projection and monitor |
| `CanonicalWriterLeaseProofs`, `ChartEventsProofs`, `ChartCommitLaneProofs`, `HistoryRepairProofs`, `LifespanProofs`, `PriceAlertsProofs`, `AlertQuotesProofs`, `PaperJournalProofs` | theorems about the module they are named for; `ChartEventsProofs` extends `ChartStream` and `HistoryCoverage` as well, which work on what the registry publishes |
| `MC...` | instances for TLC: symmetry sets, functions, a view |

Operators whose names start with `Mutant` are deliberate errors, one for each
property, which TLC must be able to tell from the code; no specification uses them.
`ChartStream` and `HistoryCoverage` name their specifications `StreamSpec` and
`CoverageSpec`, because one module extends them together with `ChartEvents`. Every
module states its types as `TypeOK` (`StreamTypeOK`, `CoverageTypeOK`). The lease's is
checked and proved; those of the registry, the stream, the coverage, the lifespan and
the quotes are part of the proved invariants. The other `TypeOK` also bound what the
instance counts, and their proofs state the weaker types they need (`LaneTyped`,
`RecordsTyped`, `TablesTyped`, `WaiterTyped`).
Variables marked `(history)` record the past for a property and are never read
by a guard.

### CanonicalWriterLease

`leader` and `barrier` are the holders of L and of F in exclusive mode; F in
shared mode is held by the transactions in a phase of `Shared`. Sessions are
numbered in the order in which they obtain L, which makes `established`, the
last session to pass the barrier, the authority epoch. Acquire is split at its
SQL statements (`AcquireLeader`, `AcquireBarrier`, `AcquireComplete`) because
other sessions act in between; the store's own lease lock is held throughout
(`LockFree`). A transaction is split at its verifications and its wait for F.
`conn[p] = leader` is what the `pg_locks` query sees. Closing a connection may
or may not reach the server at once. A crash keeps the dead process's
transactions on the server: one that had finished its verification may still
commit ("detached"), others are rolled back when the server notices.

Abstracted: owner names, connection pool, timeouts (a cancelled statement is
`RollbackWrite`). A process that only reads has no transitions.

### ChartEvents

`db[k]` counts the changes to the stored bars of a scope, so "the bars that
were read" and "the bars that are stored" are compared as numbers. A guard is
named by its owner since tokens are unique. `Store` ends with a known or an
unknown outcome. `Advance` is `_record_chart_bars_updated_locked` with the
trimming of both tables; which stale entry is dropped is left open (the code
takes the first in insertion order). `EventsSince` are the queue positions of the
events a waiter has not seen; the first and the last of them decide its overflow
test. Readers are `_load_confirmed_chart_bars`
cut at its two checks and its read; `ServeRead` also fills the cache, whose
hits the second part of `ReadsValidated` covers. `Collect` is a load that has
been validated, which is what `ReadsValidated` establishes.

### ChartCommitLane

A slot is a timestamp, a revision one content of its bar. `step` is the await
at which the lane task stands; the code between two awaits is one action. Rows
carry the sequence they were written under. The generation changes only here
because the lane is the scope's only writer; guards refused because an effect is
being published appear as `LiveRefused` and `HistoryUnavailable`. `LiveCommits`
leaves open which bars the receipt leaves out.

Abstracted: routes (a changed route is a refusal), metrics, delays, futures
storage tables (same protocol). Not modelled: cancellation of the lane task
(`Lifespan` models the rule that defers it until the physical attempt has
settled), eviction of idle lanes beyond 512, several loops.

### HistoryCoverage

Time is counted in bars of the timeframe. The unions and gaps are the code's
loops as folds; the order of the sorted receipts is `Before`, and each receipt is
merged after all that come before it (`LastReceipt`); `admitted` is the reference, the plain set of bars of all
committed receipts. A demand captures the generation, later reads receipts and
plans (other commits happen in between), and walks from the newest chunk to its
target, each chunk committed under the generation the last one produced.
Abstracted: contracts (one), response counts, the schedule shortcut for small
recent gaps.

### HistoryRepair

One provider lane; lanes share only a lock. A demand is one call of
`schedule()`; every verdict of it is an action (`Schedule...`), and the running
request stands at one of its awaits (`AtStage`). An envelope is walked chunk by
chunk, newest first; the bar arithmetic of the chunks is in `HistoryCoverage`.
A cancelled task is cancelled at an await. `Prioritized` is the stable sort of the
queue, as the set of the orders it may return. `futile` records what ended without
progress. `ScopesOf` bounds which charts a demand may be about. Abstracted: the
production cooldown, which is 0; wall time (`BackoffEnds`); rolling providers
answer with one chunk.

### ChartStream

One coordinator with one primary consumer on a native interval. A bar is the
generation that wrote it. `task` is the checkpoint task, `Load`, `LoadFails` and
the three flushes its ends; `Compact` is the queue at its limit; the tracker's
acknowledgement (`Remembered`) is part of `Send`. The browser side of a frame is
`resolveStreamBar` of `assets/js/20-live-candle-sync.js`: it orders confirmed bars by
the canonical revision their frame came with (`stamp`, `Takes`), never by their
content, so a frame may take it back. A provider frame (`ProviderPreview`) brings
previews of the whole live tail; the tracker resolves a slot that was sent before to
the confirmed bar, which then goes out under the current canonical revision.
`reported` is what events have told the coordinator (the events of one wait are
handled in their order, `AllHandled`), `outrun` the slots named in the stream
divergences of section 6.
A commit with an unknown outcome moves the generation without naming bars, so it
counts as reported only through later events. Not modelled: MTF lens consumers,
derived intervals, the future axis, reconnects, acquire and release of coordinators.

### Lifespan

`pc` and `at` are the position in the lifespan, in the startup calls and in the
nested `try/finally` of the stop sequence. Every startup call and every stop call
may fail. A loop waits, is in a physical call, or is done; `HandleDone` is the
done callback with the restart budget. A physical call that was cancelled goes on
until it returns (`deferred`), and a call that outlives its task is counted in
`physical`. Other owners are seen through the outcome of their stop call.

### PriceAlerts and AlertQuotes

`PriceAlerts`: `table` is `price_alerts`, `registry` its projection; a thread
that has committed publishes in a step of its own (`Publish`), so publications of
two threads may change places. A pass of an evaluator takes its time once
(`Evaluate`), so several alerts may fire at one time; a firing is an alert with that
time, and its message (`Message`) is what `telegram_alert_dedup_key` keeps of it with
the alert's id blanked: the time and the level, that is instrument, route, timeframe,
kind, direction and the price to two decimals. That no two passes begin in the same
millisecond is assumed. The outbox
takes a batch from the registry (which a hydration has `Replayed` from its snapshot
and the changes logged meanwhile), claims a row by compare-and-set, sends, and
finalizes the row it claimed. A send that fails may have arrived. `remembered` is
the process's memory of sent messages; a crash empties it, and a message that was sent
more than 15 minutes ago may be `Forgotten` when it comes up again. `cancelled`,
`raced` and `unsure` (history) name the exceptions of the properties. Left open: the
retry schedule, the lapse of a claim and of a remembered message (any time),
rejection of semantically equal alerts.

`AlertQuotes`: one route with fixed alerts. The registry follows each commit at
once here. The loop reads the `Unread` part of the inbox, or all of it after an
overflow. An event is worked off alert by alert (`Evaluate`, then `Persist` in
a thread, with commands and the monitor between them); the order of alerts within
an event is open. Freezing near a fired level and an unavailable price are the
skip branch of `Evaluate`. `lost` records events dropped by an overflow or slept
through.

### PaperJournal

One physical scope and timeframe. A transaction is one action: `Applies` is the
fill with position lock, expectation, netting, reversal, sibling cancellation,
resizing of the other exits and creation of protective orders. A request reads
(`Plan...`, `ReadForPatch`), then writes, then calls `mark_committed` (`Mark`),
all in separate steps. The monitor's refresh reads orders and positions at
different times (`ReadOrders`, `ReadPositions`) and works off a tick order by
order. Quantities are in half units so that reductions leave remainders. The
execution command is modelled by the two parts that a fill compares.

Left open or out: prices (an order is touched, rejected or left at any time),
option scopes, protection given as a distance and moved at the fill, two
repository methods without a caller (`cancel_paper_protective_orders`,
`update_paper_protective_levels`). Age follows insertion; the code's timestamps
may tie.

## 3. Runs

All runs pass. Distinct states in thousands.

| Run | Bounds | States | Shows |
|---|---|---|---|
| `lease` | 2 stores, 1 connection each, 3 sessions, fairness | 52 | `FencedWriters`, `AuthorityRefinement`, `LossLatched`, `WritesSettle` through hand-over, crash, session loss, release and transactions |
| `chart_reads` | 1 scope, 2 writers, 2 readers, 1 publisher, 3 versions | 5225 | `ReadsValidated`, `GuardOwnsGeneration`, `EffectsCurrent` |
| `chart_waiters` | 3 scopes, room for 2 generations and 1 queue of 2 events | 2214 | `NoLostWakeup`, `NoSilentGap` while tables are trimmed |
| `lane_safety` | 2 slots, 2 revisions, 3 live bars, 1 history commit, 1 unknown outcome, dedupe tail 1 | 4175 | `NothingLost`, `RevisionsOrdered`, `HistoryIsNewest` |
| `lane_liveness` | 1 slot, 2 live bars, 1 history commit | 57 | `LaneDrains` |
| `coverage` | 4 bars, chunks of 2, 2 walks, 4 generations | 148 | `CoverageIsExact`, `GapsAreExact`, `RepairsAreNews` |
| `repair_lane` | 3 demands on an exact and a rolling chart, envelopes of up to 2 chunks, queue, callbacks and outcomes of 1 | 569 | `NoOrphanSubscriber`, `NoFutileFetch`, `DemandsAnswered` |
| `lifespan` | 2 loops, 1 service loop, budget of 2 restarts | 424 | `NoOverlap`, `LeaseCoversRuntime`, `EveryOwnerStopped`, `ShutdownEnds`, `LoopsRestarted` |
| `chart_stream` | 2 slots (both reported by the provider, one in the recovery tail), queue of 2 frames, log of 1 event, 3 generations | 542 | `NothingForgotten`, `SentWasShown`, `ReportedIsShown` |
| `alerts` | 2 fixed alerts of one level and a dynamic one, 1 command thread, 3 timestamps, 1 failure, 1 crash or restart | 1415 | `NoDuplicateSend`, `SentMeansSent`, `IntentKept`, `RegistryIsCurrent`, `IntentIsSent` |
| `alert_quotes` | 2 alerts, 2 prices around a level, inbox of 1, 3 quotes, 2 generations, 1 error, 1 sleep | 572 | `CrossingsAreSeen`, `EventsArePassed` |
| `paper_journal` | a manual entry of 1 either way with stop and take, a signal of 2 with a stop, one close, one patch, crashes | 1754 | `BookBalances`, `ProtectionFits`, `ProjectionIsCurrent`, `FillsAreIntended`, `LiveExitsKept` |

Why the bounds are enough. Lease: a stale writer, the leader and a candidate are
three sessions; the general case is proved. Reads: scopes do not influence each
other except through trimming, so one scope suffices (effects over several scopes
are proved), and three scopes with room for two appear where tables are shared.
Lane: a bar, its correction and the return to its first content are three live
bars; the dedupe tail is exceeded by two slots; one unknown outcome is followed by
every kind of retry. Coverage: with four bars two receipts can be disjoint,
touch, overlap or contain one another, and a walk has a first and a last chunk.
Repair: one request runs, one is queued and the third evicts or is refused; a
walk continues once. Lifespan: one loop is stopped while the other restarts, and
the budget is used up. Stream: three generations overflow the log and the queue, and the
live tail reaches further back than the recovery tail, as the code's does (64 bars
and more).
Alerts: two alerts of one level fire in one pass, one is rearmed or a second pass
follows, and a crash between claim and finalization. Quotes: an overflow, a quote before and one after it. Paper: the
entries add to, reduce or reverse each other's position while exits are pending.

Every bound on a counter is a guard named in its module. Deadlock is checked
except where finite supplies end the run: identifiers in `paper_journal`,
timestamps in `alerts`, quotes in `alert_quotes`. Symmetry is used in safety runs
only, over sets whose members are interchangeable. `JournalView` leaves out the
rows of a projection that is marked out of date: they are never read.

## 4. Fairness

- **Lease**: the steps of a call that has begun are executed (each runs on a
  thread of its own), and the server eventually notices a client that is gone.
  Beginning anything, and every failure, is optional.
- **Lane**: the event loop runs a ready task; work is owed while it waits and while it
  is in flight (`Owes`); every physical attempt ends, well or
  badly, because statement and lock timeouts are set on it
  (`postgres_operation_timeouts`); attempts do not fail for ever (strong
  fairness, each failure is retried within 5 s).
- **Repair**: the task runs on; lookups, fetches and commits have timeouts.
- **Lifespan**: the lifespan goes on, a physical call returns, done callbacks and
  restart timers run. Loops need not end and need not make calls.
- **Stream**: due checkpoints are scheduled and end, events are handled, the
  socket sends; loading does not fail for ever, and a socket that is slow is not
  so slow for ever that every frame with bars is dropped from the queue.
- **Alerts**: hydration, publication and the outbox go on. Failures and crashes
  are bounded by the instance. Commands and firings need not happen.
- **Quotes**: the loop reads and works off what it has read.

## 5. Proofs

All theorems hold for every value of the constants. The assumptions on constants
are named in the module that declares them: bounds are numbers, sets of different
things are disjoint, and `None` (`Unsent`) is none of the values it stands beside. A proof
module has one lemma per conjunct of its invariant, split by action or by the kind of
step it makes.

| Module | Invariant | Theorems |
|---|---|---|
| `CanonicalWriterLeaseProofs` | `LeaseInv` | `TypeOK`, `FencedWriters`, `AuthorityRefinement`, `LossLatched` |
| `ChartEventsProofs` | `EventsInv`, `WaiterInv` | `ReadsValidated`, `EffectsCurrent`, `GuardOwnsGeneration` (with `KeysFit`); `NoLostWakeup`, `NoSilentGap` |
| - of `ChartStream` | `StreamInv` | `NothingForgotten`, `SentWasShown` |
| - of `HistoryCoverage` | `CoverageInv` | `CoverageIsExact`, `GapsAreExact`, `RepairsAreNews` |
| `ChartCommitLaneProofs` | `LaneInv` | `RevisionsOrdered`, `HistoryIsNewest`, `NothingLost` |
| `HistoryRepairProofs` | `RepairInv` | `NoOrphanSubscriber`, `NoFutileFetch` |
| `LifespanProofs` | `LifespanInv` | `NoOverlap`, `EveryOwnerStopped`, `LeaseCoversRuntime` |
| `PriceAlertsProofs` | `AlertsInv` | `NoDuplicateSend`, `SentMeansSent`, `IntentKept`, `RegistryIsCurrent` |
| `AlertQuotesProofs` | `QuotesInv` | `CrossingsAreSeen` |
| `PaperJournalProofs` | `JournalInv`, `ProjectionInv`, `Balanced`, `Aged`, `Fits` | `ProjectionIsCurrent`, `LiveExitsKept`, `FillsAreIntended`, `BookBalances`, `ProtectionFits` |

**Lease.** `FencedWriters` is not inductive: to know that a verification under the
fence sees the newest authority one needs that the holder of L has passed the
barrier or is a newcomer that has not (`LeaderEstablished`), that nobody passes the
barrier while a transaction is fenced (`BarrierExclusive`), and that sessions are
not shared between a finished and a running acquire (`SessionsDisjoint`).
`AuthorityTheorem` maps initial states to initial states and every step to a step
or a stutter of `WriterAuthority`. `LossLatchedTheorem` uses the smaller
`LostIsBare`: a store whose lease is lost has no connection.

**Registry.** The first three theorems have the hypothesis `KeysFit`: the scopes fit
into the registry, so no generation is forgotten. `EventsInv` says what a captured
generation is worth: `Checked(k, g)` - if g is still current, nobody has published
it and kept the guard - and `Snapshot(k, g, v)` - if g is still current, v is
stored, unless the active writer is bound to advance the generation. Readers, the
cache and publishers are three users of the same fact. The two theorems about
waiters need no such hypothesis, since trimming is what they are about: a queue
holds consecutive generations and ends with the current one (`QueuesAreLatest`),
hence the first event a waiter is given tells it whether one is missing, and what a
sleeping waiter needs is spared by the trimming.

**Stream.** The question is what a bar is worth that travels under a revision which
is not its own. Browser and tracker order by that revision, so `SentWasShown` is
not inductive: a frame the browser drops as older is still remembered. `StreamInv`
adds what bounds the bars of a frame. An event says what it wrote, and what the
browser shows under a revision is no older than the unhandled events up to it
(`EventsSound`); a loaded checkpoint is current as long as its generation is
(`TaskSound`); revisions run from storage to the browser (`RevisionsSound`). Of the
queue: a frame the browser would drop has nothing newer than it shows, and none has a
bar older than an unhandled event up to its revision wrote (`FrameSound`); a frame
of a smaller revision than one before it has nothing newer than that (`PairSound`);
and a frame ahead of the handled events is a checkpoint that brings nothing older than
what was sent or waits before it (`QueueAhead`). `NothingForgotten` needs little of this: the tracker's set of
invalidated slots carries a report from the event to the delivery. The work
is in the handling of a whole wait's events (`HandledTo`), in the compaction, which
always finds a frame to drop and keeps the order of the others (`LowestPriority`,
`RemovalThins`), and in the three kinds of frames (`EventFrame`, `ProviderFrame`, the
checkpoint's).

**Coverage.** `CoverageInv` says that the receipts in the table hold exactly the bars
that were admitted, and that no plan has a generation that is still to come. It
rests on four lemmas about the algorithms, for all sets of receipts: the union is in
order, without ranges that touch, and has exactly the bars of the receipts
(`UnionMerges`); a range is covered by one of them when all its bars are in some
receipt (`Covered`); the gaps are exactly the other bars (`GapsCut`); and a commit
adds the bars of its chunk however the provider cut it, although receipts already
covered are not written (`ChunkIsAdded`). `RepairsAreNews` then follows from the
generation alone: an admission that wrote anything moved it.

The folds of both models are over finite sets of positions or receipts. That such a
fold exists as a function, has the type of its step and keeps what its step keeps is
proved once (`FoldExists`, `FoldTyped`, `FoldInduction`), by `SetInduction`: a set of
subsets of a finite set that has every subset all of whose strict subsets it has,
has them all. This is induction over a set instead of over a predicate, so it needs
no theorem with an operator parameter.

**Lane.** The question is what a sequence reserved long ago is still worth after
refusals, unknown outcomes, corrections and partial receipts. `LaneInv`: a sequence
stands for one revision of a slot wherever it is kept - waiting (`LiveApart`), in
flight (`StoreMatches`) or stored - and is not shared with a history commit
(`HistoryApart`); a history commit with a sequence whose generation still lasts is
newer than every row (`HistoryFresh`), because any live batch that took a later
sequence would have moved the generation. The order check of the receipt, the exact
snapshot of the range and the fate of every accepted bar follow. `LaneInv` was
model-checked on the instance of `lane_safety` before it was proved.

**Repair.** An entry of `_awaiting_generation` is dropped as soon as a demand has
seen a newer generation, and a request may have been queued before its range became
futile, so the entry alone does not protect the provider. `RepairInv` adds that keys
are unique in the lane (`KeysUnique`), that none is of a generation its chart has
not reached (`NoneFromFuture`), that a futile range without an entry is of a
generation that is gone (`FutileBlocked`), and that a request beyond its lookup is
newer than every failure of its chart (`FetchFresh`). Subscribers need that a
demand waits on one key (`SubscribersKept`).

**Lifespan.** `LifespanInv`: a task waits for its physical call (`CallsAwaited`), no
loop, timer or task is unknown to the registry (`RegistryKnows`), there is nothing
to stop before the start (`NothingStarted`), the stages behind the stop sequence
stay done, although a loop may still crash and ask for a restart (`StopProgress`),
and an owner that did not drain is remembered (`LeaseKept`).

**Alerts.** `AlertsInv`: the intent of a row is its newest firing (`EventsFired`),
the outbox holds only firings and reports as sent only what was
(`OutboxSound`), a sent message is remembered, or its send was in doubt, or it is
forgotten (`SendsRemembered`, per message, since alerts of one level share it), and a
firing whose send was suppressed has its message sent (`EveryFiringKept`); and of
every alert whose publications did not race, a
publication of its present row is under way (`ChangesCurrent`), or the registry
shows that row, or will when the hydration has replayed its log over its snapshot
(`RegistryFollows`).

**Quotes.** A batch that is given up in the middle is read again, so a baseline may
be newer than all the loop has passed. `QuotesInv` says how far ahead it can be
(`BaselinesBehind`), that copies of a quote in inbox, batch and baselines have one
price (`OnePrice`), and that no event lost to an overflow or a sleep is newer than
a baseline (`LostBehind`).

**Paper.** Requests and the monitor act on copies of rows. `JournalInv` says what of
a copy stays true while its order is pending (`CopiesHold`: side, expectation and
position, but neither level nor size), that a position the monitor takes for closed
is closed and stays so (`ClosedSeen`), that an entry's positions and exits do not
exist before it has filled (`Unborn`), and that a pending stop or take faces an open
position (`Facing`). `ProjectionInv` follows a refresh through its two reads: as
long as no commit has moved the generation, what was read is what is stored.
`BookBalances` and `ProtectionFits` are about sums over finite sets of fills and
orders. Beyond `JournalInv` they need that a net fill consumes lots exactly
(`Balanced`: the fills of a group add up to its open positions), that the exits of a
group, and no others, have a creation age and none is younger than the table
(`Aged`: the sync shares what is open in order of creation), and that what the
pending stops, and the pending takes, of a group ask for is at most what is open
(`Fits`). What a sum does when an element joins, leaves or changes is proved by
`SetInduction` here too.

**Only model-checked.** The liveness properties (`WritesSettle`, `LaneDrains`,
`DemandsAnswered`, `ShutdownEnds`, `LoopsRestarted`, `ReportedIsShown`, `IntentIsSent`,
`EventsArePassed`), because fairness and ENABLED are outside the prover. Every other
property of the runs is a theorem.

Worth proving next: `ChartCommitLane` against the part of `HistoryRepair` that
assumes its outcome.

## 6. Where code and documents disagree, and what the properties exempt

Met while modelling; the properties are stated so that they hold of the code as
it is, and each exemption is named in the property.

- *Lane, resurrection.* A live batch that failed is requeued under the sequence
  it reserved (`runtime/chart_commits.py:552`). If a history snapshot with a
  newer sequence commits the absence of that bar meanwhile, the retry inserts
  the row inside the snapshot's coverage. `src/docs/ARCHITECTURE.md:812-814`
  describes this for out-of-process reservations only; the history turn between
  two live attempts makes it possible within one lane.
- *Lane, fair turn.* `history_turn` is set again only after a live batch succeeds
  (`runtime/chart_commits.py:1159`), so a second queued history commit waits as
  long as a live batch keeps failing. `src/tests/test_chart_commits.py:981`
  states the fair turn and exercises it with live work that succeeds.
  `LaneDrains` assumes that live attempts do not fail for ever.
- *Stream, acknowledgement.* The tracker settles an invalidated timestamp when a
  frame with that bar is acknowledged, also when the invalidation is newer than
  the frame (`chart_stream_payload_tracker.py:87`). The slot is then brought up to
  date only by the recovery tail or the next change (`outrun` in
  `NothingForgotten` and `ReportedIsShown`).
- *Stream, provider frames.* A provider frame carries the current canonical revision
  (`chart_stream_coordinator.py:914`), but the tracker resolves its previews to the
  confirmed bars sent before. If it is queued after an event's frame and before that
  frame's acknowledgement, it brings the old bar under the new revision, and the
  browser, which compares revisions only
  (`assets/js/20-live-candle-sync.js:310-323`), goes back to it after having shown the
  newer one. The tracker goes back as well. The live tail may be wider than the
  recovery tail, so such a slot too stays behind until its next change or a
  checkpoint that requires it (`outrun`).
- *Lane, correction.* `submit` compares with the dedupe memory first
  (`runtime/chart_commits.py:703`) and drops a return to the committed content
  while another revision is pending or in flight; that other revision is stored
  last. `src/tests/test_chart_commits.py:1234` states that corrections are
  accepted and drains the lane between submissions.
- *Repair, priority.* A continuation is preferred to the queue
  (`data/history_repair.py:570`): a background walk goes on to its target while a
  foreground demand waits.
- *Alerts, order of publication.* A row is published after its transaction and
  outside of it (`storage/repos/drawings.py:820`); two threads that change one
  alert may publish in the other order, and the registry keeps the older row
  until the next change or hydration (`raced`).
- *Alerts, refiring.* A dynamic alert that fires again replaces an intent that has
  not been sent (`server_alert_delivery.py:143`); the earlier firing is not sent
  (`cancelled`).
- *Alerts, one level.* Two alerts that fire in one pass and agree in instrument, route,
  timeframe, kind, direction and the price to two decimals share one dedup key; the
  second is answered "duplicate" and its row says sent, though only the other's
  message has left. `src/tests/test_telegram_alerts.py:236` wants this for one level;
  two decimals make one level also of 1.083 and 1.084 of a currency pair, and of two
  EMA alerts that differ in their tolerance. `SentMeansSent`, `IntentKept` and
  `IntentIsSent` speak of messages, not of alerts, for this reason.
- *Alerts, expiry.* A sent message is remembered for 15 minutes
  (`ui/telegram_runtime.py:37`). When its finalization fails and the loop does not come
  back to it sooner (an outage, a machine asleep), it is sent again (`unsure` in
  `NoDuplicateSend`).
- *Alerts, rearmed after delivery.* Rearming keeps `lastTelegramOk`
  (`storage/repos/drawings.py:319`). The next firing is then refused by
  `validate_telegram_delivery_runtime` ("inconsistent Telegram delivery status",
  `alerts/delivery_contract.py:156`), and the quote loop retries the same event
  (`ui/server_alert_runtime.py:549`), which holds up later quotes (`Refused` in
  `EventsArePassed`).
- *Paper, patch race.* A patch writes the execution command of the copy it read
  outside the transaction, and leaves the quantity (`storage/repos/paper.py:984`).
  If the protective sync resized the order in between, command and quantity
  disagree and later fills of the order raise `PAPER_ORDER_ID_COMMAND_COLLISION`
  (`MonitorFails`, `Answer`) until it is patched, resized or cancelled.
- *Paper, pending close.* A pending manual close is one of the exits the sync
  shares the position among: a close younger than exits that take the whole
  quantity is cancelled while the position stays open.
  `src/docs/ARCHITECTURE.md:2139-2140` says it "remains pending and retryable".

## 7. Limits

Generations that are forgotten beyond 4096 scopes start again at 0. What readers,
caches and publishers rely on is proved only without that (`KeysFit`); what waiters
are told is checked and proved with it, but `NoSilentGap` compares generation
numbers, and a forgotten scope counts from 0 again. A
COMMIT that becomes visible after the client has given up on it is modelled at
the moment the attempt ends, not later. In `alerts` and `paper_journal` every
commit is known to its thread: a COMMIT whose acknowledgement is lost, or a
`publish_committed` that raises, leaves a row that no thread publishes or marks, and
`RegistryIsCurrent` and `ProjectionIsCurrent` say nothing of that row until the next
change or hydration. In `paper_journal` two protected entries
never compete for a position that a third has reduced; the order in which
groups of exits share it is exercised only against a pending close. The modules
are composed by what they say of each other's interface (the lane's generation,
the lifespan's lease and drain outcomes, the registry seen by the quotes), not in
one state space.

## 8. Not modelled

- Live-preview half of the registry, coalescing of identical loads, MTF lens
  consumers: small protocols of the same kind as the modelled ones; next in line.
- Quote streams and tick ingestion: latest-value fan-out and buffered appends;
  next in line after those.
- IBKR connection manager and provider adapters: their behaviour is the broker
  gateway's, which is not in the repository.
- Indicators, engine, features, signals, ml, research, backtest, GEX and options:
  floating-point computations over series without shared state; this is most of
  the repository's lines and out of a model checker's reach.
- Schema and route authority: DDL, and single transactions under the modelled
  write cursor. Settings, instruments, drawings, watchlists: row-level CRUD.
- Browser assets: rendering. Their merge of streamed bars (`resolveStreamBar`) is part
  of `ChartStream`.

## 9. Running

    tlc -workers 2 -config CanonicalWriterLease.cfg MCCanonicalWriterLease
    tlapm CanonicalWriterLeaseProofs.tla

and likewise for the other configurations (`runs` in `PROJECT.json` pairs each
with its module) and for the other `...Proofs.tla`.
