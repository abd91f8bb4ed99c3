----------------------------- MODULE PriceAlerts -----------------------------
(***************************************************************************)
(* Price alerts: the table price_alerts and its compare-and-set updates    *)
(* (storage/repos/drawings.py), the registry that projects it              *)
(* (alerts/runtime_registry.py), the commands of browser and Telegram      *)
(* (ui/alert_commands.py), the evaluators that fire alerts                 *)
(* (ui/services/server_alert_monitor.py) and the Telegram outbox           *)
(* (ui/services/server_alert_delivery.py).                                 *)
(*                                                                         *)
(* A committed row is published to the registry after its transaction, in  *)
(* a step of its own.  When an alert fires is left open (AlertQuotes       *)
(* models the crossings); the retry schedule is left open too, rows are    *)
(* due at any time, and a sent message may be forgotten at any time.       *)
(*                                                                         *)
(* A firing is an alert and the time of the pass it fired in, which is     *)
(* trigger_event_at of its payload.  All alerts that fire in a pass share  *)
(* that time; no two passes begin in the same millisecond.                 *)
(***************************************************************************)
EXTENDS Naturals, Sequences, FiniteSets, FiniteSetsExt

CONSTANTS Alerts,       \* exact alert identities
          Dynamic,      \* the EMA and VSA alerts: they stay armed when they fire
          Level,        \* what Telegram's dedup key keeps of a firing but its time:
                        \* instrument, route, timeframe, kind, direction, and the
                        \* price to two decimals
          Commanders,   \* threads that execute commands
          Loops,        \* the loops of the alert monitor that run
          BatchSize,    \* SERVER_ALERT_DELIVERY_BATCH_SIZE
          MaxClock,     \* bound on timestamps
          MaxFailures,  \* bound on failing sends and storage calls
          MaxRestarts,  \* bound on process crashes and loop restarts
          None

ASSUME PriceAlertsAssumption ==
    /\ Dynamic \subseteq Alerts
    /\ DOMAIN Level = Alerts \X (0..MaxClock)
    /\ Loops \subseteq {"quotes", "monitor", "delivery"}
    /\ Commanders \cap Loops = {}
    /\ {BatchSize, MaxClock} \subseteq Nat \ {0}
    /\ {MaxFailures, MaxRestarts} \subseteq Nat

Threads == Commanders \cup Loops
Evaluators == Loops \cap {"quotes", "monitor"}
Stamps == 0..MaxClock
Firings == Alerts \X Stamps

\* telegram_alert_dedup_key, with the alert's id blanked: the message of a firing.
Message(a, e) == <<Level[a, e], e>>
Messages == {Message(f[1], f[2]) : f \in Firings}

VARIABLES
    table,      \* the rows of price_alerts
    registry,   \* _alerts of the registry
    hydration,  \* hydration of the registry
    published,  \* per thread: the committed change it has still to publish
    work,       \* per thread: what it has read and is about to do
    batch,      \* rest of the delivery tick's snapshot
    remembered, \* TELEGRAM_ALERT_DEDUP
    clock,      \* newest timestamp
    failures, restarts,
    fired,      \* firings so far (history)
    cancelled,  \* firings cancelled by a command or replaced by a later firing
                \* of the same alert (history)
    raced,      \* alerts changed again before a change was published (history)
    unsure,     \* messages sent with an error, before a crash, or so long ago that
                \* they are forgotten (history)
    sends       \* physical sends of each message (history)

history == <<fired, cancelled, raced, unsure, sends>>
vars == <<table, registry, hydration, published, work, batch, remembered,
          clock, failures, restarts, history>>

Rows == [gen : Stamps, armed : BOOLEAN, fired : BOOLEAN, last : Stamps,
         event : Stamps \cup {None},
         status : {"cancelled", "pending", "delivering", "sent"},
         claim : Nat, retries : Nat, ok : {"none", "yes", "no"}]

Change == [alerts : SUBSET Alerts, row : Rows \cup {None}]

ASSUME NoneIsNothing == None \notin Stamps \cup Rows \cup Change

TypeOK ==
    /\ table \in [Alerts -> Rows \cup {None}]
    /\ registry \in [Alerts -> Rows \cup {None}]
    /\ hydration.stage \in {"off", "begun", "read", "done"}
    /\ hydration.snapshot \in [Alerts -> Rows \cup {None}]
    /\ hydration.log \in Seq(Change)
    /\ published \in [Threads -> Change \cup {None}]
    /\ DOMAIN work = Threads
    /\ batch \subseteq [alert : Alerts, row : Rows]
    /\ Cardinality(batch) <= BatchSize
    /\ remembered \subseteq Messages
    /\ clock \in Stamps
    /\ failures \in 0..MaxFailures
    /\ restarts \in 0..MaxRestarts
    /\ raced \subseteq Alerts
    /\ fired \subseteq Firings /\ cancelled \subseteq fired
    /\ unsure \subseteq {Message(f[1], f[2]) : f \in fired}
    /\ sends \in [Messages -> Nat]
    \* a row of the table is armed or fired, and an intent has its payload
    /\ \A a \in Alerts : table[a] /= None =>
          /\ table[a].armed \/ table[a].fired
          /\ (table[a].event /= None) <=> (table[a].status \in {"pending", "delivering"})
          /\ (table[a].claim > 0) <=> (table[a].status = "delivering")

NewRow(stamp, ok) ==
    [gen |-> stamp, armed |-> TRUE, fired |-> FALSE, last |-> 0, event |-> None,
     status |-> "cancelled", claim |-> 0, retries |-> 0, ok |-> ok]

Nothing == [a \in Alerts |-> None]
Off == [stage |-> "off", snapshot |-> Nothing, log |-> <<>>]

Init ==
    /\ \E S \in SUBSET Alerts :
          table = [a \in Alerts |-> IF a \in S THEN NewRow(1, "none") ELSE None]
    /\ registry = Nothing
    /\ hydration = Off
    /\ published = [t \in Threads |-> None]
    /\ work = [t \in Threads |-> None]
    /\ batch = {}
    /\ remembered = {}
    /\ clock = 1
    /\ failures = 0 /\ restarts = 0
    /\ fired = {} /\ cancelled = {} /\ unsure = {} /\ raced = {}
    /\ sends = [m \in Messages |-> 0]

-----------------------------------------------------------------------------
(* Registry *)

Apply(rows, change) ==
    [a \in Alerts |-> IF a \in change.alerts THEN change.row ELSE rows[a]]

\* publish_committed, remove_committed, remove_scope_committed: during a hydration
\* the change is also kept for replay.
Publish(t) ==
    /\ published[t] /= None
    /\ registry' = Apply(registry, published[t])
    /\ hydration' = IF hydration.stage \in {"begun", "read"}
                    THEN [hydration EXCEPT !.log = Append(@, published[t])]
                    ELSE hydration
    /\ published' = [published EXCEPT ![t] = None]
    /\ UNCHANGED <<table, work, batch, remembered, clock, failures, restarts, history>>

\* The monitor starts with begin_hydration.
BeginHydration ==
    /\ hydration.stage = "off"
    /\ hydration' = [Off EXCEPT !.stage = "begun"]
    /\ UNCHANGED <<table, registry, published, work, batch, remembered, clock,
                   failures, restarts, history>>

\* read_price_alert_runtime_snapshot.
ReadSnapshot ==
    /\ hydration.stage = "begun"
    /\ hydration' = [hydration EXCEPT !.stage = "read", !.snapshot = table]
    /\ UNCHANGED <<table, registry, published, work, batch, remembered, clock,
                   failures, restarts, history>>

\* cancel_hydration: the read failed, the monitor is started again.
HydrationFails ==
    /\ hydration.stage = "begun"
    /\ failures < MaxFailures
    /\ failures' = failures + 1
    /\ hydration' = Off
    /\ UNCHANGED <<table, registry, published, work, batch, remembered, clock,
                   restarts, history>>

\* Mutant of Hydrate: the snapshot wins over what was published meanwhile.
MutantHydrate ==
    /\ hydration.stage = "read"
    /\ registry' = hydration.snapshot
    /\ hydration' = [Off EXCEPT !.stage = "done"]
    /\ UNCHANGED <<table, published, work, batch, remembered, clock, failures,
                   restarts, history>>

\* The position of the last change of alert a, if the log has one.
LastOf(log, a) ==
    {i \in DOMAIN log : /\ a \in log[i].alerts
                        /\ \A j \in DOMAIN log : a \in log[j].alerts => j <= i}

\* What a replay of the log leaves: the last change of an alert wins.
Replayed(rows, log) ==
    [a \in Alerts |-> IF LastOf(log, a) = {} THEN rows[a]
                      ELSE log[CHOOSE i \in LastOf(log, a) : TRUE].row]

\* hydrate: the changes that arrived meanwhile are replayed over the snapshot.
Hydrate ==
    /\ hydration.stage = "read"
    /\ registry' = Replayed(hydration.snapshot, hydration.log)
    /\ hydration' = [Off EXCEPT !.stage = "done"]
    /\ UNCHANGED <<table, published, work, batch, remembered, clock, failures,
                   restarts, history>>

\* A loop of the task group fails: its siblings are cancelled once their physical
\* calls have settled, an evaluator also in the middle of a pass, and the supervisor
\* starts the monitor again.
LoopsRestart ==
    /\ hydration.stage = "done"
    /\ restarts < MaxRestarts
    /\ \A t \in Loops : published[t] = None /\ (work[t] = None \/ t \in Evaluators)
    /\ restarts' = restarts + 1
    /\ hydration' = Off
    /\ work' = [t \in Threads |-> IF t \in Loops THEN None ELSE work[t]]
    /\ batch' = {}
    /\ UNCHANGED <<table, registry, published, remembered, clock, failures, history>>

\* The process dies: what was committed and not published is only in the table.
Crash ==
    /\ restarts < MaxRestarts
    /\ restarts' = restarts + 1
    /\ registry' = Nothing
    /\ hydration' = Off
    /\ published' = [t \in Threads |-> None]
    /\ work' = [t \in Threads |-> None]
    /\ batch' = {}
    /\ remembered' = {}
    /\ unsure' = unsure \cup {m \in Messages : sends[m] > 0}
    /\ UNCHANGED <<table, clock, failures, fired, cancelled, raced, sends>>

-----------------------------------------------------------------------------
(* Commands *)

Free(t) == work[t] = None /\ published[t] = None
Done(t) == work' = [work EXCEPT ![t] = None]

\* Alerts with a committed change that some thread has still to publish.
Unpublished ==
    UNION {published[t].alerts : t \in {u \in Threads : published[u] /= None}}

\* The change of alert a to row r is committed by t, which publishes it next.
Commits(t, a, r) ==
    /\ raced' = raced \cup (Unpublished \cap {a})
    /\ table' = [table EXCEPT ![a] = r]
    /\ published' = [published EXCEPT ![t] = [alerts |-> {a}, row |-> r]]

\* The firings of the alerts S whose intent is stored.
PendingOf(S) ==
    {<<a, table[a].event>> : a \in {b \in S : table[b] /= None /\ table[b].event /= None}}

\* _cancel_pending_alert_delivery with the next generation; what Telegram answered
\* last is kept.
Rearmed(r) == [NewRow(clock + 1, r.ok) EXCEPT !.last = r.last]

\* _mutate_alert reads the row and its generation, whichever command it is for.
CommandReads(t, a) ==
    /\ t \in Commanders /\ Free(t)
    /\ table[a] /= None
    /\ work' = [work EXCEPT ![t] = [alert |-> a, gen |-> table[a].gen]]
    /\ UNCHANGED <<table, registry, hydration, published, batch, remembered, clock,
                   failures, restarts, history>>

\* rearm_price_alert_exact, set_price_alert_enabled_exact and
\* delete_price_alert_exact: nothing happens when the generation has changed, or
\* when an armed alert is rearmed.
CommandCommits(t) ==
    /\ t \in Commanders /\ work[t] /= None
    /\ \E command \in {"update", "rearm", "remove"} :
          LET w == work[t]
              r == table[w.alert]
              idle == r.armed /\ ~r.fired /\ r.event = None
          IN  IF r = None \/ r.gen /= w.gen \/ (command = "rearm" /\ idle)
              THEN UNCHANGED <<table, published, clock, cancelled, raced>>
              ELSE /\ clock < MaxClock
                   /\ clock' = clock + 1
                   /\ Commits(t, w.alert,
                              IF command = "remove" THEN None ELSE Rearmed(r))
                   /\ cancelled' = cancelled \cup PendingOf({w.alert})
    /\ Done(t)
    /\ UNCHANGED <<registry, hydration, batch, remembered, failures, restarts,
                   fired, unsure, sends>>

\* create_or_rearm_price_alert_exact.
Create(t, a) ==
    /\ t \in Commanders /\ Free(t)
    /\ clock < MaxClock
    /\ clock' = clock + 1
    /\ Commits(t, a, IF table[a] = None THEN NewRow(clock + 1, "none")
                                        ELSE Rearmed(table[a]))
    /\ cancelled' = cancelled \cup PendingOf({a})
    /\ UNCHANGED <<registry, hydration, work, batch, remembered, failures, restarts,
                   fired, unsure, sends>>

\* delete_price_alert_scope_exact.
DeleteScope(t) ==
    /\ t \in Commanders /\ Free(t)
    /\ table /= Nothing
    /\ table' = Nothing
    /\ published' = [published EXCEPT ![t] = [alerts |-> Alerts, row |-> None]]
    /\ cancelled' = cancelled \cup PendingOf(Alerts)
    /\ raced' = raced \cup Unpublished
    /\ UNCHANGED <<registry, hydration, work, batch, remembered, clock, failures,
                   restarts, fired, unsure, sends>>

-----------------------------------------------------------------------------
(* Evaluation *)

Evaluates(t) == IF t = "quotes" THEN Alerts \ Dynamic ELSE Dynamic

\* The armed alerts the loop of t evaluates, as the registry shows them.
Active(t) ==
    {[alert |-> a, row |-> registry[a]] : a \in
       {b \in Evaluates(t) : registry[b] /= None /\ registry[b].armed}}

\* process_server_alert_quote_event, process_server_alert_monitor_tick: of a snapshot
\* (active_snapshot, active_route_snapshot) the alerts S change state or fire.  The
\* time is taken once for all of them.
Evaluate(t, S) ==
    /\ t \in Evaluators /\ Free(t)
    /\ hydration.stage = "done"
    /\ S /= {}
    /\ clock < MaxClock
    /\ clock' = clock + 1
    /\ work' = [work EXCEPT ![t] = [todo |-> S, at |-> clock + 1]]
    /\ UNCHANGED <<table, registry, hydration, published, batch, remembered,
                   failures, restarts, history>>

\* The pass of t goes on without w.
Proceed(t, w) ==
    LET rest == work[t].todo \ {w}
    IN  work' = [work EXCEPT ![t] = IF rest = {} THEN None
                                    ELSE [todo |-> rest, at |-> work[t].at]]

\* _persist_alert_evaluation_state: touch state is written, which leaves the
\* fields of this model as they are, and the row is published.
PersistState(t) ==
    /\ t = "monitor" /\ t \in Loops
    /\ work[t] /= None /\ published[t] = None
    /\ \E w \in work[t].todo :
          LET r == table[w.alert]
          IN  /\ published' =
                    IF r /= None /\ r.gen = w.row.gen /\ r.armed
                    THEN [published EXCEPT ![t] = [alerts |-> {w.alert}, row |-> r]]
                    ELSE published
              /\ Proceed(t, w)
    /\ UNCHANGED <<table, registry, hydration, batch, remembered, clock, failures,
                   restarts, history>>

\* The guards of persist_price_alert_delivery.
Fireable(w) ==
    LET r == table[w.alert]
    IN  /\ r /= None
        /\ r.gen = w.row.gen
        /\ r.armed
        /\ r.last = w.row.last
        /\ r.event = w.row.event

\* persist_price_alert_delivery: the firing and its delivery intent are committed
\* together.  A row whose last answer was a success is rejected by
\* validate_price_alert, which ends the pass.
Fire(t) ==
    /\ t \in Evaluators /\ work[t] /= None /\ published[t] = None
    /\ \E w \in work[t].todo :
          LET r == table[w.alert]
              e == work[t].at
          IN  IF ~Fireable(w) \/ r.ok = "yes"
              THEN /\ IF Fireable(w) THEN Done(t) ELSE Proceed(t, w)
                   /\ UNCHANGED <<table, published, fired, cancelled, raced>>
              ELSE /\ fired' = fired \cup {<<w.alert, e>>}
                   /\ cancelled' = cancelled \cup PendingOf({w.alert})
                   /\ Commits(t, w.alert,
                        [r EXCEPT !.armed = w.alert \in Dynamic, !.fired = TRUE,
                                  !.last = e, !.event = e,
                                  !.status = "pending", !.claim = 0,
                                  !.retries = w.row.retries])
                   /\ Proceed(t, w)
    /\ UNCHANGED <<registry, hydration, batch, remembered, clock, failures, restarts,
                   unsure, sends>>

-----------------------------------------------------------------------------
(* Delivery *)

Delivering == "delivery" \in Loops

\* Mutant of Outbox: a claim that was never completed is left alone.
MutantOutbox == {[alert |-> a, row |-> registry[a]] : a \in
                  {b \in Alerts : registry[b] /= None /\ registry[b].status = "pending"}}

\* pending_delivery_snapshot, telegram_delivery_due.
Outbox == {[alert |-> a, row |-> registry[a]] : a \in
             {b \in Alerts : registry[b] /= None /\ registry[b].event /= None}}

\* process_server_alert_delivery_tick takes a snapshot.
DeliveryTick ==
    /\ Delivering /\ Free("delivery")
    /\ hydration.stage = "done"
    /\ batch = {} /\ Outbox /= {}
    /\ \E B \in SUBSET Outbox :
          /\ Cardinality(B) = Min({BatchSize, Cardinality(Outbox)})
          /\ batch' = B
    /\ UNCHANGED <<table, registry, hydration, published, work, remembered, clock,
                   failures, restarts, history>>

\* The row of the table is still the row that was read.
Unchanged(a, r) ==
    /\ table[a] /= None
    /\ table[a].gen = r.gen
    /\ table[a].event = r.event
    /\ <<table[a].status, table[a].claim, table[a].retries>>
         = <<r.status, r.claim, r.retries>>

\* _claim_send_finalize_price_telegram_delivery claims one intent of the batch.
Claim ==
    /\ Delivering /\ Free("delivery")
    /\ \E b \in batch :
          /\ batch' = batch \ {b}
          /\ IF Unchanged(b.alert, b.row)
             THEN LET r == [table[b.alert] EXCEPT !.status = "delivering",
                                                  !.claim = @ + 1]
                  IN  /\ Commits("delivery", b.alert, r)
                      /\ work' = [work EXCEPT !["delivery"] =
                                   [alert |-> b.alert, row |-> r, step |-> "send",
                                    result |-> "none"]]
             ELSE UNCHANGED <<table, published, work, raced>>
    /\ UNCHANGED <<registry, hydration, remembered, clock, failures, restarts, fired, cancelled, unsure, sends>>

AtStep(step) ==
    /\ Delivering
    /\ work["delivery"] /= None
    /\ published["delivery"] = None
    /\ work["delivery"].step = step

\* The message of the claimed row.
Claimed == Message(work["delivery"].alert, work["delivery"].row.event)

Sent(result) ==
    work' = [work EXCEPT !["delivery"].step = "finalize", !["delivery"].result = result]

\* send_server_telegram_alert: a message sent less than 15 minutes ago is not sent
\* again, whichever alert it was sent for.
SendDuplicate ==
    /\ AtStep("send")
    /\ Claimed \in remembered
    /\ Sent("yes")
    /\ UNCHANGED <<table, registry, hydration, published, batch, remembered, clock,
                   failures, restarts, history>>

\* telegram_alert_recently_sent: the message was sent more than 15 minutes ago and is
\* no longer remembered.
Forgotten == remembered \cap {Claimed}

\* Mutant of SendOk: the message is not remembered.
MutantSendOk ==
    /\ AtStep("send")
    /\ sends' = [sends EXCEPT ![Claimed] = @ + 1]
    /\ unsure' = unsure \cup Forgotten
    /\ Sent("yes")
    /\ UNCHANGED <<table, registry, hydration, published, batch, remembered, clock,
                   failures, restarts, fired, cancelled, raced>>

\* The message was never sent or is forgotten.  It arrives and Telegram says so.
SendOk ==
    /\ AtStep("send")
    /\ sends' = [sends EXCEPT ![Claimed] = @ + 1]
    /\ remembered' = remembered \cup {Claimed}
    /\ unsure' = unsure \cup Forgotten
    /\ Sent("yes")
    /\ UNCHANGED <<table, registry, hydration, published, batch, clock,
                   failures, restarts, fired, cancelled, raced>>

\* send_telegram_message fails; the message may have arrived all the same.
SendFails ==
    /\ AtStep("send")
    /\ failures < MaxFailures
    /\ failures' = failures + 1
    /\ remembered' = remembered \ {Claimed}
    /\ \E arrived \in BOOLEAN :
          /\ sends' = IF arrived THEN [sends EXCEPT ![Claimed] = @ + 1] ELSE sends
          /\ unsure' = unsure \cup Forgotten \cup (IF arrived THEN {Claimed} ELSE {})
    /\ Sent("no")
    /\ UNCHANGED <<table, registry, hydration, published, batch, clock, restarts,
                   fired, cancelled, raced>>

\* telegram_delivery_patch.
Finalized(r, result) ==
    IF result = "yes"
    THEN [r EXCEPT !.status = "sent", !.event = None, !.retries = 0, !.claim = 0,
                   !.ok = "yes"]
    ELSE [r EXCEPT !.status = "pending", !.retries = @ + 1, !.claim = 0, !.ok = "no"]

\* Mutant of Finalize: the result is written to whatever row is there.
MutantFinalize ==
    /\ AtStep("finalize")
    /\ LET w == work["delivery"]
       IN  IF table[w.alert] /= None
           THEN Commits("delivery", w.alert, Finalized(table[w.alert], w.result))
           ELSE UNCHANGED <<table, published, raced>>
    /\ Done("delivery")
    /\ UNCHANGED <<registry, hydration, batch, remembered, clock, failures, restarts,
                   fired, cancelled, unsure, sends>>

\* Mutant of Finalize: a failed attempt settles the intent.
MutantFinalizeOnce ==
    /\ AtStep("finalize")
    /\ LET w == work["delivery"]
       IN  IF Unchanged(w.alert, w.row)
           THEN Commits("delivery", w.alert,
                        [Finalized(table[w.alert], "yes") EXCEPT !.ok = w.result])
           ELSE UNCHANGED <<table, published, raced>>
    /\ Done("delivery")
    /\ UNCHANGED <<registry, hydration, batch, remembered, clock, failures, restarts,
                   fired, cancelled, unsure, sends>>

\* The result is written to the row that was claimed, or to none.
Finalize ==
    /\ AtStep("finalize")
    /\ LET w == work["delivery"]
       IN  IF Unchanged(w.alert, w.row)
           THEN Commits("delivery", w.alert, Finalized(table[w.alert], w.result))
           ELSE UNCHANGED <<table, published, raced>>
    /\ Done("delivery")
    /\ UNCHANGED <<registry, hydration, batch, remembered, clock, failures, restarts,
                   fired, cancelled, unsure, sends>>

\* A storage call raises: the iteration is given up, the batch with it.
StorageFails(t) ==
    /\ work[t] /= None /\ published[t] = None
    /\ t = "delivery" => work[t].step = "finalize"
    /\ failures < MaxFailures
    /\ failures' = failures + 1
    /\ Done(t)
    /\ batch' = IF t = "delivery" THEN {} ELSE batch
    /\ UNCHANGED <<table, registry, hydration, published, remembered, clock, restarts,
                   history>>

DeliveryStep ==
    DeliveryTick \/ Claim \/ SendDuplicate \/ SendOk \/ SendFails \/ Finalize

HydrationStep == BeginHydration \/ ReadSnapshot \/ Hydrate \/ HydrationFails

ThreadStep(t) ==
    \/ Publish(t) \/ CommandCommits(t) \/ DeleteScope(t)
    \/ PersistState(t) \/ Fire(t) \/ StorageFails(t)
    \/ \E a \in Alerts : CommandReads(t, a) \/ Create(t, a)
    \/ \E S \in SUBSET Active(t) : Evaluate(t, S)

Next ==
    \/ HydrationStep \/ LoopsRestart \/ Crash
    \/ DeliveryStep
    \/ \E t \in Threads : ThreadStep(t)

Spec == Init /\ [][Next]_vars

\* The monitor is restarted and hydrated, threads go on, and the outbox is worked
\* off; commands and firings need not happen.
FairSpec ==
    /\ Spec
    /\ WF_vars(BeginHydration) /\ WF_vars(ReadSnapshot) /\ WF_vars(Hydrate)
    /\ WF_vars(DeliveryTick) /\ WF_vars(Claim)
    /\ WF_vars(SendDuplicate) /\ WF_vars(SendOk) /\ WF_vars(Finalize)
    /\ \A t \in Threads : WF_vars(Publish(t))

-----------------------------------------------------------------------------
(* Properties *)

\* A message is sent twice only if an attempt ended with an error, the process died
\* after a send, or 15 minutes had passed and it was forgotten: retries, lapsed leases
\* and failing finalizers do not repeat a message before.
NoDuplicateSend ==
    \A m \in Messages : sends[m] > 1 => m \in unsure

\* A row says "sent" only when the message of its last firing was sent, for the alert
\* itself or for one of the same level that fired in the same pass: a late finalizer
\* never settles the firing of another generation, and a suppressed duplicate is a
\* duplicate.
SentMeansSent ==
    \A a \in Alerts : table[a] /= None /\ table[a].status = "sent" =>
        sends[Message(a, table[a].last)] > 0

\* The message of a firing was sent (for it, or for an alert of the same level that
\* fired in the same pass), or its intent is still stored, or a command cancelled it
\* or the alert fired again: crashes, failing attempts and races between commands,
\* evaluators and the outbox lose none.
IntentKept ==
    \A f \in fired :
        \/ sends[Message(f[1], f[2])] > 0
        \/ f \in cancelled
        \/ table[f[1]] /= None /\ table[f[1]].event = f[2]

\* When every commit has been published, the hydrated registry shows the table;
\* only an alert that a second thread changed before the first had published its
\* change may differ, because publications are not ordered.
RegistryIsCurrent ==
    hydration.stage = "done" /\ (\A t \in Threads : published[t] = None)
        => \A a \in Alerts \ raced : registry[a] = table[a]

\* Stored intents come to their message in the end, again and again all of them, over crashes,
\* restarts and failing attempts, unless a command cancels one or the alert fires
\* again; the outbox reads the registry, so nothing is claimed of an alert whose
\* publications raced.
IntentIsSent ==
    []<>(raced /= {} \/ \A f \in fired : sends[Message(f[1], f[2])] > 0 \/ f \in cancelled)
=============================================================================
