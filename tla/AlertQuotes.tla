----------------------------- MODULE AlertQuotes -----------------------------
(***************************************************************************)
(* Price crossings: the bounded inbox of quote events of the alert         *)
(* registry (alerts/runtime_registry.py), the loop that works it off       *)
(* (server_price_alert_quote_loop, ui/server_alert_runtime.py) and the     *)
(* crossing baselines (ui/services/server_alert_monitor.py).               *)
(*                                                                         *)
(* One route with its fixed price alerts.  Rows are seen through the       *)
(* registry, which follows each commit at once (PriceAlerts separates the  *)
(* two).  A crossing is decided and then persisted in a thread: commands   *)
(* and the monitor's tick run in between.                                  *)
(***************************************************************************)
EXTENDS Naturals, Sequences, FiniteSets, FiniteSetsExt, SequencesExt

CONSTANTS Alerts,      \* the alerts of the route
          Direction,   \* direction of each alert
          Prices, Level,
          Capacity,    \* _MAX_QUOTE_EVENTS
          Limit,       \* events read at once
          MaxEvents,   \* bound on accepted quotes
          MaxGen,      \* bound on generations of an alert
          MaxErrors,   \* bound on failing storage calls
          MaxSleeps,   \* bound on sleeps of the server
          None

ASSUME AlertQuotesAssumption ==
    /\ Direction \in [Alerts -> {"above", "below", "any"}]
    /\ Prices \subseteq Nat /\ Level \in Nat
    /\ {Capacity, Limit, MaxEvents, MaxGen} \subseteq Nat \ {0}
    /\ {MaxErrors, MaxSleeps} \subseteq Nat

VARIABLES
    rows,      \* the alerts as the registry has them
    newest,    \* newest generation of each alert, a timestamp in the code
    inbox,     \* _quote_events
    ceiling,   \* _quote_sequence
    sequence,  \* SERVER_ALERT_QUOTE_SEQUENCE
    events,    \* rest of the events the loop has read
    turn,      \* the event in work: alerts still to evaluate, alert in persist
    baselines, \* SERVER_ALERT_CROSSING_BASELINES
    asleep,    \* server_sleeping()
    errors, sleeps,
    lost,      \* events that were dropped or slept through (history)
    fires      \* crossings that were committed (history)

vars == <<rows, newest, inbox, ceiling, sequence, events, turn, baselines, asleep,
          errors, sleeps, lost, fires>>

Row == [gen : 1..MaxGen, armed : BOOLEAN, delivered : BOOLEAN]
Event == [seq : 1..MaxEvents, price : Prices]

\* seq is the event the price is from (history).
Baseline == [gen : 1..MaxGen, price : Prices, seq : 1..MaxEvents]

Contiguous(s) == \A i \in DOMAIN s : s[i].seq = Head(s).seq + i - 1

TypeOK ==
    /\ rows \in [Alerts -> Row \cup {None}]
    /\ newest \in [Alerts -> 0..MaxGen]
    /\ inbox \in Seq(Event) /\ Len(inbox) <= Capacity
    /\ inbox /= <<>> => Last(inbox).seq = ceiling
    /\ ceiling \in 0..MaxEvents
    /\ sequence \in 0..ceiling
    /\ events \in Seq(Event) /\ Len(events) <= Limit
    /\ Contiguous(inbox) /\ Contiguous(events)
    /\ turn /= None => events /= <<>>
    /\ baselines \in [Alerts -> Baseline \cup {None}]
    /\ asleep \in BOOLEAN
    /\ errors \in 0..MaxErrors /\ sleeps \in 0..MaxSleeps
    /\ lost \subseteq 1..ceiling

NoBaselines == [a \in Alerts |-> None]

Init ==
    /\ rows \in [Alerts -> {None, [gen |-> 1, armed |-> TRUE, delivered |-> FALSE]}]
    /\ newest = [a \in Alerts |-> IF rows[a] = None THEN 0 ELSE 1]
    /\ inbox = <<>> /\ events = <<>>
    /\ ceiling = 0 /\ sequence = 0
    /\ turn = None
    /\ baselines = NoBaselines
    /\ asleep = FALSE
    /\ errors = 0 /\ sleeps = 0
    /\ lost = {} /\ fires = {}

Active == {a \in Alerts : rows[a] /= None /\ rows[a].armed}

-----------------------------------------------------------------------------
(* Quotes and commands *)

\* publish_quote_changes: the event is kept when the route has an armed alert; a
\* full inbox drops its oldest event.
Quote(p) ==
    /\ ceiling < MaxEvents
    /\ Active /= {}
    /\ ceiling' = ceiling + 1
    /\ LET longer == Append(inbox, [seq |-> ceiling + 1, price |-> p])
       IN  inbox' = IF Len(longer) > Capacity THEN Tail(longer) ELSE longer
    /\ UNCHANGED <<rows, newest, sequence, events, turn, baselines, asleep, errors,
                   sleeps, lost, fires>>

\* create, rearm and update: a new generation, which keeps what Telegram
\* answered last.
Rearm(a) ==
    /\ newest[a] < MaxGen
    /\ newest' = [newest EXCEPT ![a] = @ + 1]
    /\ rows' = [rows EXCEPT ![a] =
                  [gen |-> newest[a] + 1, armed |-> TRUE,
                   delivered |-> @ /= None /\ @.delivered]]
    /\ UNCHANGED <<inbox, ceiling, sequence, events, turn, baselines, asleep,
                   errors, sleeps, lost, fires>>

\* disable and delete.
RemoveAlert(a) ==
    /\ rows[a] /= None
    /\ rows' = [rows EXCEPT ![a] = None]
    /\ UNCHANGED <<newest, inbox, ceiling, sequence, events, turn, baselines,
                   asleep, errors, sleeps, lost, fires>>

\* The outbox has delivered the alert that fired.
Deliver(a) ==
    /\ rows[a] /= None /\ ~rows[a].armed /\ ~rows[a].delivered
    /\ rows' = [rows EXCEPT ![a].delivered = TRUE]
    /\ UNCHANGED <<newest, inbox, ceiling, sequence, events, turn, baselines,
                   asleep, errors, sleeps, lost, fires>>

\* _prune_crossing_baselines, in each tick of the monitor.
Prune ==
    /\ ~asleep
    /\ baselines' = [a \in Alerts |->
                      IF baselines[a] /= None /\ a \in Active
                         /\ rows[a].gen = baselines[a].gen
                      THEN baselines[a] ELSE None]
    /\ baselines' /= baselines
    /\ UNCHANGED <<rows, newest, inbox, ceiling, sequence, events, turn, asleep,
                   errors, sleeps, lost, fires>>

Sleep ==
    /\ ~asleep /\ sleeps < MaxSleeps
    /\ asleep' = TRUE
    /\ sleeps' = sleeps + 1
    /\ UNCHANGED <<rows, newest, inbox, ceiling, sequence, events, turn, baselines,
                   errors, lost, fires>>

\* reset_server_alert_on_sleep, in a tick of the monitor.
SleepReset ==
    /\ asleep /\ baselines /= NoBaselines
    /\ baselines' = NoBaselines
    /\ UNCHANGED <<rows, newest, inbox, ceiling, sequence, events, turn, asleep,
                   errors, sleeps, lost, fires>>

WakeUp ==
    /\ asleep
    /\ asleep' = FALSE
    /\ UNCHANGED <<rows, newest, inbox, ceiling, sequence, events, turn, baselines,
                   errors, sleeps, lost, fires>>

-----------------------------------------------------------------------------
(* The quote loop *)

First == Head(inbox).seq

\* Position of the oldest event of the inbox that the loop has not passed.
Unread == CHOOSE i \in DOMAIN inbox :
             inbox[i].seq > sequence /\ \A j \in 1..(i - 1) : inbox[j].seq <= sequence

\* Mutant of ReadEvents: baselines survive an overflow.
MutantReadEvents ==
    /\ events = <<>> /\ ceiling > sequence
    /\ events' = SubSeq(inbox, Unread, Min({Len(inbox), Unread + Limit - 1}))
    /\ lost' = lost \cup (sequence + 1 .. First - 1)
    /\ UNCHANGED <<rows, newest, inbox, ceiling, sequence, turn, baselines, asleep,
                   errors, sleeps, fires>>

\* wait_for_quote_events, read_quote_events: events the inbox has dropped are an
\* overflow, which costs the baselines.
ReadEvents ==
    /\ events = <<>> /\ ceiling > sequence
    /\ events' = SubSeq(inbox, Unread, Min({Len(inbox), Unread + Limit - 1}))
    /\ baselines' = IF sequence < First - 1 THEN NoBaselines ELSE baselines
    /\ lost' = lost \cup (sequence + 1 .. First - 1)
    /\ UNCHANGED <<rows, newest, inbox, ceiling, sequence, turn, asleep, errors,
                   sleeps, fires>>

Passed ==
    /\ sequence' = Head(events).seq
    /\ events' = Tail(events)

\* Mutant of SleepThrough: an asleep server keeps the event for later.
MutantSleepThrough ==
    /\ events /= <<>> /\ turn = None
    /\ asleep
    /\ baselines' = NoBaselines
    /\ events' = <<>>
    /\ UNCHANGED <<rows, newest, inbox, ceiling, sequence, turn, asleep, errors, sleeps,
                   lost, fires>>

\* An asleep server passes over the event.
SleepThrough ==
    /\ events /= <<>> /\ turn = None
    /\ asleep
    /\ baselines' = NoBaselines
    /\ lost' = lost \cup {Head(events).seq}
    /\ Passed
    /\ UNCHANGED <<rows, newest, inbox, ceiling, turn, asleep, errors, sleeps,
                   fires>>

\* process_server_alert_quote_event: the armed alerts of the route.
BeginEvent ==
    /\ events /= <<>> /\ turn = None
    /\ ~asleep
    /\ turn' = [todo |-> [a \in Active |-> rows[a]], persist |-> None]
    /\ UNCHANGED <<rows, newest, inbox, ceiling, sequence, events, baselines,
                   asleep, errors, sleeps, lost, fires>>

Price == Head(events).price
Todo == IF turn /= None /\ turn.persist = None THEN DOMAIN turn.todo ELSE {}

Rest(a) == [b \in DOMAIN turn.todo \ {a} |-> turn.todo[b]]

Observed(a) == [gen |-> turn.todo[a].gen, price |-> Price, seq |-> Head(events).seq]

\* alert_cross_hit.
CrossHit(previous, current, direction) ==
    LET up == previous < Level /\ Level <= current
        down == previous > Level /\ Level >= current
    IN  CASE direction = "above" -> up
          [] direction = "below" -> down
          [] OTHER -> up \/ down

Known(a) == baselines[a] /= None /\ baselines[a].gen = turn.todo[a].gen
Hit(a) == Known(a) /\ CrossHit(baselines[a].price, Price, Direction[a])

\* _process_cross_alert without a hit.
Observe(a) ==
    /\ a \in Todo
    /\ ~Hit(a)
    /\ baselines' = [baselines EXCEPT ![a] = Observed(a)]
    /\ turn' = [turn EXCEPT !.todo = Rest(a)]
    /\ UNCHANGED <<rows, newest, inbox, ceiling, sequence, events, asleep, errors,
                   sleeps, lost, fires>>

\* No price to evaluate, or the alert is frozen near the level it fired at.
Skip(a) ==
    /\ a \in Todo
    /\ turn' = [turn EXCEPT !.todo = Rest(a)]
    /\ UNCHANGED <<rows, newest, inbox, ceiling, sequence, events, baselines,
                   asleep, errors, sleeps, lost, fires>>

\* A hit: persist_price_alert_delivery is called in a thread.
Cross(a) ==
    /\ a \in Todo
    /\ Hit(a)
    /\ turn' = [turn EXCEPT !.persist = [alert |-> a, base |-> baselines[a]]]
    /\ UNCHANGED <<rows, newest, inbox, ceiling, sequence, events, baselines,
                   asleep, errors, sleeps, lost, fires>>

Persisting == turn /= None /\ turn.persist /= None

Fireable(a) == a \in Active /\ rows[a].gen = turn.todo[a].gen

\* The firing is committed.
Persist ==
    /\ Persisting
    /\ LET a == turn.persist.alert
       IN  /\ Fireable(a) /\ ~rows[a].delivered
           /\ rows' = [rows EXCEPT ![a].armed = FALSE]
           /\ baselines' = [baselines EXCEPT ![a] = Observed(a)]
           /\ fires' = fires \cup {[gen |-> rows[a].gen, base |-> turn.persist.base,
                                    seq |-> Head(events).seq]}
           /\ turn' = [todo |-> Rest(a), persist |-> None]
    /\ UNCHANGED <<newest, inbox, ceiling, sequence, events, asleep, errors, sleeps,
                   lost>>

\* The row has changed since the event began.
PersistRefused ==
    /\ Persisting
    /\ LET a == turn.persist.alert
       IN  /\ ~Fireable(a)
           /\ baselines' = [baselines EXCEPT ![a] = None]
           /\ turn' = [todo |-> Rest(a), persist |-> None]
    /\ UNCHANGED <<rows, newest, inbox, ceiling, sequence, events, asleep, errors,
                   sleeps, lost, fires>>

GiveUp == turn' = None /\ events' = <<>>

\* validate_price_alert rejects the pending row of an alert that was delivered
\* before: the loop gives the batch up and reads it again after three seconds.
PersistInvalid ==
    /\ Persisting
    /\ LET a == turn.persist.alert IN Fireable(a) /\ rows[a].delivered
    /\ GiveUp
    /\ UNCHANGED <<rows, newest, inbox, ceiling, sequence, baselines, asleep,
                   errors, sleeps, lost, fires>>

\* The storage call raises.
PersistFails ==
    /\ Persisting
    /\ errors < MaxErrors
    /\ errors' = errors + 1
    /\ GiveUp
    /\ UNCHANGED <<rows, newest, inbox, ceiling, sequence, baselines, asleep,
                   sleeps, lost, fires>>

EndEvent ==
    /\ turn /= None /\ DOMAIN turn.todo = {}
    /\ turn' = None
    /\ Passed
    /\ UNCHANGED <<rows, newest, inbox, ceiling, baselines, asleep, errors, sleeps,
                   lost, fires>>

Evaluate == \E a \in Alerts : Observe(a) \/ Cross(a)

Next ==
    \/ \E p \in Prices : Quote(p)
    \/ \E a \in Alerts : Rearm(a) \/ RemoveAlert(a) \/ Deliver(a) \/ Skip(a)
    \/ Prune \/ Sleep \/ SleepReset \/ WakeUp
    \/ ReadEvents \/ SleepThrough \/ BeginEvent \/ Evaluate
    \/ Persist \/ PersistRefused \/ PersistInvalid \/ PersistFails \/ EndEvent

Spec == Init /\ [][Next]_vars

\* The loop runs on; quotes, commands and sleeps need not come.
FairSpec ==
    /\ Spec
    /\ WF_vars(ReadEvents) /\ WF_vars(SleepThrough \/ BeginEvent) /\ WF_vars(Evaluate)
    /\ WF_vars(Persist \/ PersistRefused \/ PersistInvalid) /\ WF_vars(EndEvent)

-----------------------------------------------------------------------------
(* Properties *)

\* A committed crossing is one the alert's generation really saw: the earlier
\* price was observed by the same generation, and no event in between was
\* dropped by an overflow or slept through.
CrossingsAreSeen ==
    \A f \in fires :
        /\ f.base.gen = f.gen
        /\ f.base.seq < f.seq
        /\ \A e \in lost : ~(f.base.seq < e /\ e < f.seq)

\* An alert that was armed again after a delivered message still carries
\* lastTelegramOk; validate_price_alert refuses its next firing.
Refused(a) == rows[a] /= None /\ rows[a].armed /\ rows[a].delivered

\* Every quote that was accepted is passed in the end: no event holds up the
\* ones behind it, unless an alert was armed again after a delivery.
EventsArePassed ==
    \A e \in 1..MaxEvents :
        ceiling >= e ~> sequence >= e \/ \E a \in Alerts : Refused(a)
=============================================================================
