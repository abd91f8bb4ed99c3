--------------------------- MODULE PriceAlertsProofs ---------------------------
(***************************************************************************)
(* Theorems about the price alerts: PriceAlerts loses no intent before its *)
(* message is sent, repeats no message that it remembers, settles no       *)
(* firing whose message was not sent, and shows the table in the registry, *)
(* for any alerts, levels, threads and bounds.                             *)
(*                                                                         *)
(* AlertsInv says why.  An intent of the table is the newest firing of its *)
(* row; what the outbox holds has fired; a sent message is remembered, or  *)
(* in doubt or forgotten; and every alert whose publications did not race  *)
(* has a publication under way, or is shown by the registry, or by what    *)
(* the hydration will make of its log and snapshot.                        *)
(***************************************************************************)
EXTENDS PriceAlerts, TLAPS

SendWork == [alert : Alerts, row : Rows, step : {"send", "finalize"},
             result : {"none", "yes", "no"}]

Passes == [todo : SUBSET [alert : Alerts, row : Rows], at : Stamps]

RecordsTyped ==
    /\ table \in [Alerts -> Rows \cup {None}]
    /\ registry \in [Alerts -> Rows \cup {None}]
    /\ hydration \in [stage : {"off", "begun", "read", "done"},
                      snapshot : [Alerts -> Rows \cup {None}], log : Seq(Change)]
    /\ published \in [Threads -> Change \cup {None}]
    /\ DOMAIN work = Threads
    /\ \A t \in Commanders : work[t] /= None => work[t].alert \in Alerts
    /\ \A t \in Evaluators : work[t] /= None => work[t] \in Passes
    /\ Delivering /\ work["delivery"] /= None => work["delivery"] \in SendWork
    /\ batch \subseteq [alert : Alerts, row : Rows]
    /\ clock \in Stamps
    /\ remembered \subseteq Messages /\ fired \subseteq Firings
    /\ sends \in [Messages -> Nat]

\* The intent of a row is its newest firing.
EventsFired ==
    \A a \in Alerts : table[a] /= None /\ table[a].event /= None =>
        table[a].event = table[a].last /\ <<a, table[a].event>> \in fired

\* The outbox works on firings, and knows of a success what was sent.
OutboxSound ==
    /\ \A b \in batch : b.row.event /= None
    /\ Delivering /\ work["delivery"] /= None =>
          /\ <<work["delivery"].alert, work["delivery"].row.event>> \in fired
          /\ work["delivery"].result = "yes" => sends[Claimed] > 0

\* What IntentKept says of the firing of alert a at time e.
Kept(a, e) ==
    \/ sends[Message(a, e)] > 0
    \/ <<a, e>> \in cancelled
    \/ table[a] /= None /\ table[a].event = e

EveryFiringKept == \A a \in Alerts, e \in Stamps : <<a, e>> \in fired => Kept(a, e)

\* A sent message is remembered, or its send was in doubt, or it is forgotten.
SendsRemembered ==
    /\ \A m \in Messages : sends[m] > 0 => m \in remembered \cup unsure
    /\ \A m \in Messages : sends[m] > 1 => m \in unsure
    /\ \A m \in remembered : sends[m] > 0

\* Commands commit once, with nothing left to publish.
PublishedFirst ==
    \A t \in Commanders : work[t] /= None => published[t] = None

Tells(t, a) == published[t] /= None /\ a \in published[t].alerts

\* Without a race every publication under way shows the row of the table.
ChangesCurrent ==
    \A a \in Alerts \ raced, t \in Threads : Tells(t, a) => published[t].row = table[a]

\* What the registry shows of alert a, now or after the hydration, is the row r.
Shows(a, r) ==
    /\ hydration.stage = "done" => registry[a] = r
    /\ hydration.stage \in {"begun", "read"} =>
          \A i \in LastOf(hydration.log, a) : hydration.log[i].row = r
    /\ hydration.stage = "read" /\ LastOf(hydration.log, a) = {} => hydration.snapshot[a] = r

RegistryFollows ==
    \A a \in Alerts \ raced : (\E t \in Threads : Tells(t, a)) \/ Shows(a, table[a])

AlertsInv ==
    /\ RecordsTyped /\ EventsFired /\ OutboxSound /\ SendsRemembered
    /\ SentMeansSent /\ EveryFiringKept
    /\ PublishedFirst /\ ChangesCurrent /\ RegistryFollows

-----------------------------------------------------------------------------
(* Rows and changes *)

LEMMA Numbers ==
    /\ MaxClock \in Nat /\ 1 \in Stamps /\ 0 \in Stamps /\ Stamps \subseteq Nat
    /\ \A c \in Stamps : c < MaxClock => c + 1 \in Stamps
    /\ None \notin Stamps
<1>1. MaxClock \in Nat \ {0}
  BY PriceAlertsAssumption
<1>2. MaxClock \in Nat /\ MaxClock >= 1
  BY <1>1
<1> QED
  BY <1>2, NoneIsNothing DEF Stamps

\* What is known of a firing: its message, alert and time.
LEMMA MessageOf ==
    ASSUME NEW a, NEW e, <<a, e>> \in Firings
    PROVE  a \in Alerts /\ e \in Stamps /\ e /= None /\ Message(a, e) \in Messages
<1>1. a \in Alerts /\ e \in Stamps
  BY DEF Firings
<1>2. <<a, e>>[1] = a /\ <<a, e>>[2] = e
  OBVIOUS
<1>3. Message(a, e) \in Messages
  BY <1>2 DEF Messages
<1> QED
  BY <1>1, <1>3, Numbers

LEMMA Roles ==
    /\ Commanders \subseteq Threads /\ Evaluators \subseteq Threads /\ Loops \subseteq Threads
    /\ Commanders \cap Evaluators = {}
    /\ Delivering => "delivery" \in Threads /\ "delivery" \notin Commanders \cup Evaluators
  BY PriceAlertsAssumption DEF Threads, Evaluators, Delivering

LEMMA RowsMade ==
    /\ \A stamp \in Stamps, ok \in {"none", "yes", "no"} :
          /\ NewRow(stamp, ok) \in Rows
          /\ NewRow(stamp, ok).event = None /\ NewRow(stamp, ok).status = "cancelled"
    /\ \A r \in Rows : clock \in Stamps /\ clock < MaxClock =>
          /\ Rearmed(r) \in Rows /\ Rearmed(r).event = None /\ Rearmed(r).status = "cancelled"
    /\ \A r \in Rows, result \in {"none", "yes", "no"} :
          /\ Finalized(r, result) \in Rows /\ Finalized(r, result).last = r.last
          /\ result = "yes" => Finalized(r, result).event = None
          /\ result /= "yes" => /\ Finalized(r, result).event = r.event
                                /\ Finalized(r, result).status = "pending"
<1>1. ASSUME NEW stamp \in Stamps, NEW ok \in {"none", "yes", "no"}
      PROVE  /\ NewRow(stamp, ok) \in Rows
             /\ NewRow(stamp, ok).event = None /\ NewRow(stamp, ok).status = "cancelled"
  BY Numbers DEF NewRow, Rows
<1>2. ASSUME NEW r \in Rows, clock \in Stamps, clock < MaxClock
      PROVE  /\ Rearmed(r) \in Rows /\ Rearmed(r).event = None /\ Rearmed(r).status = "cancelled"
  <2>1. r.ok \in {"none", "yes", "no"} /\ r.last \in Stamps /\ clock + 1 \in Stamps
    BY <1>2, Numbers DEF Rows
  <2> QED
    BY <2>1, Numbers DEF Rearmed, NewRow, Rows
<1>3. ASSUME NEW r \in Rows, NEW result \in {"none", "yes", "no"}
      PROVE  /\ Finalized(r, result) \in Rows /\ Finalized(r, result).last = r.last
             /\ result = "yes" => Finalized(r, result).event = None
             /\ result /= "yes" => /\ Finalized(r, result).event = r.event
                                   /\ Finalized(r, result).status = "pending"
  <2>1. r.retries + 1 \in Nat /\ None \in Stamps \cup {None}
    BY DEF Rows
  <2>2. ASSUME NEW n \in Nat
        PROVE  /\ [r EXCEPT !.status = "pending", !.retries = n, !.claim = 0, !.ok = "no"] \in Rows
               /\ [r EXCEPT !.status = "sent", !.event = None, !.retries = 0, !.claim = 0,
                            !.ok = "yes"] \in Rows
    BY DEF Rows
  <2>3. Finalized(r, result) \in Rows
    BY <2>1, <2>2 DEF Finalized
  <2> QED
    BY <2>3 DEF Finalized, Rows
<1> QED
  BY <1>1, <1>2, <1>3

\* The changes that the threads commit to the table: the row is claimed, settled,
\* given up, or fires.
Claims(a, r) ==
    /\ table[a] /= None /\ r \in Rows /\ r.event = table[a].event /\ r.last = table[a].last
    /\ r.status /= "sent" /\ fired' = fired

Settles(a, r) ==
    /\ table[a] /= None /\ table[a].event /= None
    /\ sends[Message(a, table[a].event)] > 0
    /\ r \in Rows /\ r.event = None /\ r.last = table[a].last /\ fired' = fired

GivesUp(a) ==
    table[a] = None \/ table[a].event = None \/ <<a, table[a].event>> \in cancelled'

Resets(a, r) ==
    /\ GivesUp(a) /\ fired' = fired
    /\ r = None \/ (r \in Rows /\ r.event = None /\ r.status = "cancelled")

Fires(a, r) ==
    /\ GivesUp(a) /\ r \in Rows
    /\ r.event \in Stamps /\ r.last = r.event /\ r.status = "pending"
    /\ fired' = fired \cup {<<a, r.event>>}

RowChange(a, r) == Claims(a, r) \/ Settles(a, r) \/ Resets(a, r) \/ Fires(a, r)

\* A thread with nothing to publish commits a change of one row, or of all rows.
ChangesRow(t, a, r) ==
    /\ Commits(t, a, r) /\ RowChange(a, r) /\ published[t] = None
    /\ UNCHANGED <<registry, hydration>>

ChangesAll(t) == DeleteScope(t) /\ \A a \in Alerts : Resets(a, None)

LEMMA GivingUp ==
    ASSUME NEW S \in SUBSET Alerts, NEW a \in S, cancelled' = cancelled \cup PendingOf(S)
    PROVE  GivesUp(a)
  BY DEF PendingOf, GivesUp

LEMMA CommandMoves ==
    ASSUME AlertsInv, NEW t \in Threads, CommandCommits(t),
           ~UNCHANGED <<table, published, clock, cancelled, raced>>
    PROVE  \E a \in Alerts, r \in Rows \cup {None} : ChangesRow(t, a, r)
<1> DEFINE a == work[t].alert
<1>0. PICK command \in {"update", "rearm", "remove"} :
         \/ UNCHANGED <<table, published, clock, cancelled, raced>>
         \/ /\ table[a] /= None /\ clock < MaxClock
            /\ Commits(t, a, IF command = "remove" THEN None ELSE Rearmed(table[a]))
            /\ cancelled' = cancelled \cup PendingOf({a})
  BY DEF CommandCommits
<1> DEFINE r == IF command = "remove" THEN None ELSE Rearmed(table[a])
<1>1. /\ t \in Commanders /\ work[t] /= None /\ table[a] /= None
      /\ clock < MaxClock /\ Commits(t, a, r) /\ cancelled' = cancelled \cup PendingOf({a})
      /\ UNCHANGED <<registry, hydration, fired>>
  BY <1>0 DEF CommandCommits
<1>2. a \in Alerts /\ table[a] \in Rows /\ published[t] = None /\ clock \in Stamps
  BY <1>1 DEF AlertsInv, RecordsTyped, PublishedFirst
<1>3. r = None \/ (r \in Rows /\ r.event = None /\ r.status = "cancelled")
  BY <1>1, <1>2, RowsMade
<1>4. GivesUp(a)
  BY <1>1, <1>2, GivingUp
<1> HIDE DEF a, r
<1>5. Resets(a, r)
  BY <1>1, <1>3, <1>4 DEF Resets
<1> QED
  BY <1>1, <1>2, <1>3, <1>5 DEF ChangesRow, RowChange

LEMMA CreateMoves ==
    ASSUME AlertsInv, NEW t \in Threads, NEW a \in Alerts, Create(t, a)
    PROVE  \E r \in Rows \cup {None} : ChangesRow(t, a, r)
<1> DEFINE r == IF table[a] = None THEN NewRow(clock + 1, "none") ELSE Rearmed(table[a])
<1>1. /\ clock < MaxClock /\ Commits(t, a, r) /\ cancelled' = cancelled \cup PendingOf({a})
      /\ UNCHANGED <<registry, hydration, fired>> /\ published[t] = None
  BY DEF Create, Free
<1>2. table[a] \in Rows \cup {None} /\ clock \in Stamps
  BY DEF AlertsInv, RecordsTyped
<1>3. r \in Rows /\ r.event = None /\ r.status = "cancelled"
  BY <1>1, <1>2, RowsMade, Numbers
<1>4. GivesUp(a)
  BY <1>1, GivingUp
<1> HIDE DEF r
<1>5. Resets(a, r)
  BY <1>1, <1>3, <1>4 DEF Resets
<1> QED
  BY <1>1, <1>3, <1>5 DEF ChangesRow, RowChange

FiredRow(old, armed, e, n) ==
    [old EXCEPT !.armed = armed, !.fired = TRUE, !.last = e, !.event = e,
                !.status = "pending", !.claim = 0, !.retries = n]

LEMMA FiredRows ==
    ASSUME NEW old \in Rows, NEW armed \in BOOLEAN, NEW e \in Stamps, NEW n \in Nat
    PROVE  /\ FiredRow(old, armed, e, n) \in Rows
           /\ FiredRow(old, armed, e, n).event = e
           /\ FiredRow(old, armed, e, n).last = e
           /\ FiredRow(old, armed, e, n).status = "pending"
<1>1. FiredRow(old, armed, e, n) \in Rows
  BY DEF FiredRow, Rows
<1>2. FiredRow(old, armed, e, n).event = e /\ FiredRow(old, armed, e, n).last = e
  BY DEF FiredRow, Rows
<1>3. FiredRow(old, armed, e, n).status = "pending"
  BY DEF FiredRow, Rows
<1> QED
  BY <1>1, <1>2, <1>3

\* An evaluator decides about an alert of its pass and goes on without it.
LEMMA PassGoesOn ==
    ASSUME AlertsInv, NEW t \in Evaluators, work[t] /= None, NEW w \in work[t].todo
    PROVE  /\ w.alert \in Alerts /\ w.row \in Rows /\ work[t].at \in Stamps
           /\ Proceed(t, w) \/ Done(t) =>
                 /\ work'[t] = None \/ work'[t] \in Passes
                 /\ DOMAIN work' = Threads /\ \A u \in Threads \ {t} : work'[u] = work[u]
<1>1. work[t] \in Passes /\ DOMAIN work = Threads /\ t \in Threads
  BY Roles DEF AlertsInv, RecordsTyped
<1>2. w.alert \in Alerts /\ w.row \in Rows /\ work[t].at \in Stamps
  BY <1>1 DEF Passes
<1> DEFINE rest == [todo |-> work[t].todo \ {w}, at |-> work[t].at]
<1>3. rest \in Passes
  BY <1>1 DEF Passes
<1> HIDE DEF rest
<1>4. ASSUME Proceed(t, w) \/ Done(t)
      PROVE  work' = [work EXCEPT ![t] = None] \/ work' = [work EXCEPT ![t] = rest]
  BY <1>4, Zenon DEF Proceed, Done, rest
<1> QED
  BY <1>1, <1>2, <1>3, <1>4

LEMMA FireMoves ==
    ASSUME AlertsInv, NEW t \in Threads, Fire(t)
    PROVE  \/ \E a \in Alerts, r \in Rows : ChangesRow(t, a, r) /\ Fires(a, r)
           \/ UNCHANGED <<table, published, fired, cancelled, raced, registry, hydration>>
<1>1. /\ UNCHANGED <<registry, hydration>> /\ t \in Evaluators /\ work[t] /= None
      /\ published[t] = None
  BY DEF Fire
<1>2. PICK w \in work[t].todo :
         \/ UNCHANGED <<table, published, fired, cancelled, raced>>
         \/ /\ table[w.alert] /= None
            /\ fired' = fired \cup {<<w.alert, work[t].at>>}
            /\ cancelled' = cancelled \cup PendingOf({w.alert})
            /\ Commits(t, w.alert, FiredRow(table[w.alert], w.alert \in Dynamic, work[t].at,
                                            w.row.retries))
  BY Zenon DEF Fire, Fireable, FiredRow
<1>3. w.alert \in Alerts /\ w.row \in Rows /\ work[t].at \in Stamps
  BY <1>1, PassGoesOn
<1> DEFINE a == w.alert
           e == work[t].at
           armed == a \in Dynamic
           r == FiredRow(table[a], armed, e, w.row.retries)
<1>4. CASE UNCHANGED <<table, published, fired, cancelled, raced>>
  BY <1>1, <1>4
<1>5. CASE /\ table[a] /= None /\ fired' = fired \cup {<<a, e>>}
           /\ cancelled' = cancelled \cup PendingOf({a}) /\ Commits(t, a, r)
  <2>1. a \in Alerts /\ table[a] \in Rows /\ w.row.retries \in Nat /\ e \in Stamps
    BY <1>3, <1>5 DEF AlertsInv, RecordsTyped, Rows
  <2>2. armed \in BOOLEAN
    OBVIOUS
  <2> HIDE DEF armed, e
  <2>3. r \in Rows /\ r.event = e /\ r.last = e /\ r.status = "pending"
    BY <2>1, <2>2, FiredRows
  <2>4. GivesUp(a)
    BY <1>5, <2>1, GivingUp
  <2> HIDE DEF a, r
  <2>5. Fires(a, r)
    BY <1>5, <2>1, <2>3, <2>4 DEF Fires
  <2> QED
    BY <1>1, <1>5, <2>1, <2>3, <2>5 DEF ChangesRow, RowChange
<1> QED
  BY <1>2, <1>4, <1>5

LEMMA ClaimMoves ==
    ASSUME AlertsInv, Claim
    PROVE  \/ \E a \in Alerts, r \in Rows :
                 /\ ChangesRow("delivery", a, r) /\ <<a, r.event>> \in fired
                 /\ work' = [work EXCEPT !["delivery"] =
                                [alert |-> a, row |-> r, step |-> "send", result |-> "none"]]
           \/ UNCHANGED <<table, published, work, fired, cancelled, raced, registry, hydration>>
<1>1. PICK b \in batch :
         IF Unchanged(b.alert, b.row)
         THEN LET r == [table[b.alert] EXCEPT !.status = "delivering", !.claim = @ + 1]
              IN  /\ Commits("delivery", b.alert, r)
                  /\ work' = [work EXCEPT !["delivery"] =
                               [alert |-> b.alert, row |-> r, step |-> "send",
                                result |-> "none"]]
         ELSE UNCHANGED <<table, published, work, raced>>
  BY DEF Claim
<1>2. UNCHANGED <<registry, hydration, fired, cancelled>> /\ published["delivery"] = None
  BY DEF Claim, Free
<1>3. CASE Unchanged(b.alert, b.row)
  <2> DEFINE a == b.alert
             r == [table[a] EXCEPT !.status = "delivering", !.claim = @ + 1]
  <2>1. a \in Alerts /\ table[a] \in Rows /\ table[a] /= None /\ table[a].event /= None
    BY <1>3 DEF AlertsInv, RecordsTyped, OutboxSound, Unchanged
  <2>2. r \in Rows /\ r.event = table[a].event /\ r.last = table[a].last /\ r.status /= "sent"
    <3>1. ASSUME NEW old \in Rows, NEW n \in Nat, NEW new,
                 new = [old EXCEPT !.status = "delivering", !.claim = n]
          PROVE  new \in Rows /\ new.event = old.event /\ new.last = old.last
                 /\ new.status /= "sent"
      BY <3>1 DEF Rows
    <3>2. table[a].claim + 1 \in Nat
      BY <2>1 DEF Rows
    <3> QED
      BY <2>1, <3>1, <3>2
  <2>3. <<a, table[a].event>> \in fired
    BY <2>1 DEF AlertsInv, EventsFired
  <2>4. /\ Commits("delivery", a, r)
        /\ work' = [work EXCEPT !["delivery"] =
                      [alert |-> a, row |-> r, step |-> "send", result |-> "none"]]
    BY <1>1, <1>3
  <2> HIDE DEF a, r
  <2>5. Claims(a, r)
    BY <1>2, <2>1, <2>2 DEF Claims
  <2> QED
    BY <1>2, <2>1, <2>2, <2>3, <2>4, <2>5 DEF ChangesRow, RowChange
<1> QED
  BY <1>1, <1>2, <1>3

LEMMA FinalizeMoves ==
    ASSUME AlertsInv, Finalize
    PROVE  \/ \E a \in Alerts, r \in Rows : ChangesRow("delivery", a, r)
           \/ UNCHANGED <<table, published, fired, cancelled, raced, registry, hydration>>
<1> DEFINE w == work["delivery"]
           a == w.alert
           r == Finalized(table[a], w.result)
<1>1. /\ UNCHANGED <<registry, hydration, fired, cancelled>> /\ published["delivery"] = None
      /\ Delivering /\ w /= None
  BY DEF Finalize, AtStep
<1>2. CASE Unchanged(a, w.row)
  <2>1. Commits("delivery", a, r) /\ table[a] /= None /\ table[a].event = w.row.event
    BY <1>2 DEF Finalize, Unchanged
  <2>2. /\ w \in SendWork /\ <<a, w.row.event>> \in fired
        /\ w.result = "yes" => sends[Message(a, w.row.event)] > 0
    BY <1>1 DEF AlertsInv, RecordsTyped, OutboxSound, Claimed
  <2>3. a \in Alerts /\ table[a] \in Rows /\ w.result \in {"none", "yes", "no"}
        /\ w.row.event /= None
    <3>1. <<a, w.row.event>> \in Firings
      BY <2>2 DEF AlertsInv, RecordsTyped
    <3> QED
      BY <2>1, <2>2, <3>1, MessageOf DEF AlertsInv, RecordsTyped, SendWork
  <2>4. /\ r \in Rows /\ r.last = table[a].last
        /\ w.result = "yes" => r.event = None
        /\ w.result /= "yes" => r.event = table[a].event /\ r.status = "pending"
    BY <2>3, RowsMade
  <2>5. Claims(a, r) \/ Settles(a, r)
    BY <1>1, <2>1, <2>2, <2>3, <2>4 DEF Claims, Settles
  <2> HIDE DEF w, a, r
  <2> QED
    BY <1>1, <2>1, <2>3, <2>4, <2>5 DEF ChangesRow, RowChange
<1>3. CASE ~Unchanged(a, w.row)
  BY <1>1, <1>3 DEF Finalize
<1> QED
  BY <1>2, <1>3

-----------------------------------------------------------------------------
(* What a step does to the table and to the registry *)

Quietly == UNCHANGED <<table, fired, cancelled, raced>>

\* The row is published as it stands.
Shares(t, a) ==
    /\ published[t] = None /\ table[a] \in Rows
    /\ published' = [published EXCEPT ![t] = [alerts |-> {a}, row |-> table[a]]]
    /\ UNCHANGED <<registry, hydration>>

Hydrates ==
    /\ UNCHANGED published
    /\ \/ hydration' \in {Off, [Off EXCEPT !.stage = "begun"]} /\ UNCHANGED registry
       \/ ReadSnapshot
       \/ Hydrate

Moves ==
    \/ \E t \in Threads, a \in Alerts, r \in Rows \cup {None} : ChangesRow(t, a, r)
    \/ \E t \in Threads : ChangesAll(t)
    \/ /\ Quietly
       /\ \/ UNCHANGED <<registry, hydration, published>>
          \/ \E t \in Threads, a \in Alerts : Shares(t, a)
          \/ \E t \in Threads : Publish(t)
          \/ Hydrates
          \/ Crash

LEMMA TableMoves ==
    ASSUME AlertsInv, [Next]_vars
    PROVE  Moves
<1>1. ASSUME NEW t \in Threads, CommandCommits(t) PROVE Moves
  <2>1. CASE UNCHANGED <<table, published, clock, cancelled, raced>>
    BY <1>1, <2>1 DEF CommandCommits, Moves, Quietly
  <2> QED
    BY <1>1, <2>1, CommandMoves DEF Moves
<1>2. ASSUME NEW t \in Threads, NEW a \in Alerts, Create(t, a) PROVE Moves
  BY <1>2, CreateMoves DEF Moves
<1>3. ASSUME NEW t \in Threads, DeleteScope(t) PROVE Moves
  <2>1. cancelled' = cancelled \cup PendingOf(Alerts) /\ fired' = fired
    BY <1>3 DEF DeleteScope
  <2>2. \A a \in Alerts : GivesUp(a)
    BY <2>1, GivingUp
  <2> QED
    BY <1>3, <2>1, <2>2 DEF Moves, ChangesAll, Resets
<1>4. ASSUME NEW t \in Threads, Fire(t) PROVE Moves
  BY <1>4, FireMoves DEF Moves, Quietly
<1>5. CASE Claim \/ Finalize
  <2>1. "delivery" \in Threads
    BY <1>5, Roles DEF Claim, Finalize, AtStep
  <2> QED
    BY <1>5, <2>1, ClaimMoves, FinalizeMoves DEF Moves, Quietly
<1>6. ASSUME NEW t \in Threads, PersistState(t) PROVE Moves
  <2>1. t \in Evaluators /\ work[t] /= None /\ published[t] = None
    BY <1>6 DEF PersistState, Evaluators
  <2>2. PICK w \in work[t].todo :
           \/ UNCHANGED published
           \/ /\ table[w.alert] /= None
              /\ published' = [published EXCEPT ![t] = [alerts |-> {w.alert},
                                                       row |-> table[w.alert]]]
    BY <1>6 DEF PersistState
  <2>3. w.alert \in Alerts /\ table[w.alert] \in Rows \cup {None}
    BY <2>1, PassGoesOn DEF AlertsInv, RecordsTyped
  <2>4. Quietly /\ UNCHANGED <<registry, hydration>>
    BY <1>6 DEF PersistState, Quietly, history
  <2>5. Shares(t, w.alert) \/ UNCHANGED published
    BY <2>1, <2>2, <2>3, <2>4 DEF Shares
  <2> QED
    BY <2>3, <2>4, <2>5 DEF Moves
<1>7. ASSUME NEW t \in Threads, Publish(t) PROVE Moves
  <2>1. Quietly
    BY <1>7 DEF Publish, Quietly, history
  <2> QED
    BY <1>7, <2>1 DEF Moves
<1>8. CASE HydrationStep \/ LoopsRestart
  <2>1. Quietly /\ UNCHANGED published
    BY <1>8 DEF HydrationStep, LoopsRestart, BeginHydration, ReadSnapshot, Hydrate,
                HydrationFails, Quietly, history
  <2>2. Hydrates
    BY <1>8, <2>1 DEF HydrationStep, LoopsRestart, BeginHydration, HydrationFails, Hydrates
  <2> QED
    BY <2>1, <2>2 DEF Moves
<1>9. CASE Crash
  BY <1>9 DEF Crash, Moves, Quietly
<1>10. CASE \/ DeliveryTick \/ SendDuplicate \/ SendOk \/ SendFails
            \/ \E t \in Threads : StorageFails(t)
            \/ \E t \in Threads, a \in Alerts : CommandReads(t, a)
            \/ \E t \in Threads : \E S \in SUBSET Active(t) : Evaluate(t, S)
            \/ UNCHANGED vars
  <2>1. Quietly /\ UNCHANGED <<registry, hydration, published>>
    BY <1>10 DEF DeliveryTick, SendDuplicate, SendOk, SendFails, StorageFails, CommandReads,
                 Evaluate, Quietly, history, vars
  <2> QED
    BY <2>1 DEF Moves
<1> QED
  BY <1>1, <1>2, <1>3, <1>4, <1>5, <1>6, <1>7, <1>8, <1>9, <1>10
  DEF Next, DeliveryStep, ThreadStep

-----------------------------------------------------------------------------
(* Intents *)

LEMMA ClaimedMessage ==
    ASSUME AlertsInv, Delivering, work["delivery"] /= None
    PROVE  Claimed \in Messages
<1>1. <<work["delivery"].alert, work["delivery"].row.event>> \in Firings
  BY DEF AlertsInv, OutboxSound, RecordsTyped
<1> QED
  BY <1>1, MessageOf DEF Claimed

\* Firings, cancellations and races are remembered, and sends are never taken back.
LEMMA HistoryGrows ==
    ASSUME AlertsInv, [Next]_vars
    PROVE  /\ fired \subseteq fired' /\ cancelled \subseteq cancelled' /\ raced \subseteq raced'
           /\ \A m \in Messages : sends[m] > 0 => sends'[m] > 0
<1>1. fired \subseteq fired' /\ cancelled \subseteq cancelled' /\ raced \subseteq raced'
  <2>1. CASE Quietly
    BY <2>1 DEF Quietly
  <2>2. ASSUME NEW t \in Threads, NEW a \in Alerts, NEW r, ChangesRow(t, a, r)
        PROVE  fired \subseteq fired' /\ raced \subseteq raced'
    BY <2>2 DEF ChangesRow, Commits, RowChange, Claims, Settles, Resets, Fires
  <2>3. ASSUME NEW t, DeleteScope(t) PROVE fired \subseteq fired' /\ raced \subseteq raced'
    BY <2>3 DEF DeleteScope
  <2>4. cancelled \subseteq cancelled'
    BY DEF Next, vars, history, HydrationStep, BeginHydration, ReadSnapshot, Hydrate,
           HydrationFails, LoopsRestart, Crash, DeliveryStep, DeliveryTick, Claim, SendDuplicate,
           SendOk, SendFails, Finalize, ThreadStep, Publish, CommandReads, CommandCommits, Create,
           DeleteScope, Evaluate, PersistState, Fire, StorageFails
  <2> QED
    BY <2>1, <2>2, <2>3, <2>4, TableMoves DEF Moves, ChangesAll
<1>2. sends \in [Messages -> Nat]
  BY DEF AlertsInv, RecordsTyped
<1>3. UNCHANGED sends \/ \E m \in Messages : sends' = [sends EXCEPT ![m] = @ + 1]
  <2>1. ASSUME Delivering, work["delivery"] /= None
        PROVE  Claimed \in Messages
    BY <2>1, ClaimedMessage
  <2> QED
    BY <2>1 DEF Next, vars, history, HydrationStep, BeginHydration, ReadSnapshot, Hydrate,
           HydrationFails, LoopsRestart, Crash, DeliveryStep, DeliveryTick, Claim, SendDuplicate,
           SendOk, SendFails, AtStep, Finalize, ThreadStep, Publish, CommandReads, CommandCommits,
           Create, DeleteScope, Evaluate, PersistState, Fire, StorageFails
<1>4. \A m \in Messages : sends[m] > 0 => sends'[m] > 0
  BY <1>2, <1>3
<1> QED
  BY <1>1, <1>4

\* The new row of an alert, if the step changes it.
LEMMA NewRows ==
    ASSUME AlertsInv, [Next]_vars, NEW a \in Alerts
    PROVE  table'[a] = table[a] \/ RowChange(a, table'[a])
<1>1. table \in [Alerts -> Rows \cup {None}]
  BY DEF AlertsInv, RecordsTyped
<1>2. ASSUME NEW t \in Threads, NEW b \in Alerts, NEW r, ChangesRow(t, b, r)
      PROVE  table'[a] = table[a] \/ RowChange(a, table'[a])
  BY <1>1, <1>2 DEF ChangesRow, Commits
<1>3. ASSUME NEW t, ChangesAll(t) PROVE RowChange(a, table'[a])
  BY <1>3 DEF ChangesAll, DeleteScope, Nothing, RowChange
<1> QED
  BY <1>2, <1>3, TableMoves DEF Moves, Quietly

LEMMA EventsStep ==
    ASSUME AlertsInv, [Next]_vars
    PROVE  EventsFired'
<1>1. ASSUME NEW a \in Alerts, table'[a] /= None, table'[a].event /= None
      PROVE  table'[a].event = table'[a].last /\ <<a, table'[a].event>> \in fired'
  <2>1. CASE table'[a] = table[a]
    BY <1>1, <2>1, HistoryGrows DEF AlertsInv, EventsFired
  <2>2. CASE Claims(a, table'[a])
    BY <1>1, <2>2 DEF Claims, AlertsInv, EventsFired
  <2>3. CASE Fires(a, table'[a])
    BY <2>3 DEF Fires
  <2>4. ~Settles(a, table'[a]) /\ ~Resets(a, table'[a])
    BY <1>1 DEF Settles, Resets
  <2> QED
    BY <2>1, <2>2, <2>3, <2>4, NewRows DEF RowChange
<1> QED
  BY <1>1 DEF EventsFired

LEMMA SentStep ==
    ASSUME AlertsInv, [Next]_vars
    PROVE  SentMeansSent'
<1>1. ASSUME NEW a \in Alerts, table'[a] /= None, table'[a].status = "sent"
      PROVE  sends'[Message(a, table'[a].last)] > 0
  <2>1. CASE table'[a] = table[a]
    <3>1. sends[Message(a, table[a].last)] > 0 /\ table[a] \in Rows
      BY <1>1, <2>1 DEF AlertsInv, SentMeansSent, RecordsTyped
    <3>2. Message(a, table[a].last) \in Messages
      <4>1. <<a, table[a].last>> \in Firings
        BY <3>1 DEF Rows, Firings
      <4> QED
        BY <4>1, MessageOf
    <3> QED
      BY <2>1, <3>1, <3>2, HistoryGrows
  <2>2. CASE Settles(a, table'[a])
    <3>1. /\ table'[a].last = table[a].event /\ sends[Message(a, table[a].event)] > 0
          /\ <<a, table[a].event>> \in fired
      BY <2>2 DEF Settles, AlertsInv, EventsFired
    <3>2. Message(a, table[a].event) \in Messages
      BY <3>1, MessageOf DEF AlertsInv, RecordsTyped
    <3> QED
      BY <3>1, <3>2, HistoryGrows
  <2>3. ~Claims(a, table'[a]) /\ ~Resets(a, table'[a]) /\ ~Fires(a, table'[a])
    BY <1>1 DEF Claims, Resets, Fires
  <2> QED
    BY <2>1, <2>2, <2>3, NewRows DEF RowChange
<1> QED
  BY <1>1 DEF SentMeansSent

\* Only an evaluator adds a firing, and it stores the intent.
LEMMA FiringsStored ==
    ASSUME AlertsInv, [Next]_vars, NEW f \in fired', f \notin fired
    PROVE  \E a \in Alerts : table'[a] /= None /\ f = <<a, table'[a].event>>
<1>1. table \in [Alerts -> Rows \cup {None}]
  BY DEF AlertsInv, RecordsTyped
<1>2. ASSUME NEW t \in Threads, NEW a \in Alerts, NEW r \in Rows \cup {None}, ChangesRow(t, a, r)
      PROVE  table'[a] /= None /\ f = <<a, table'[a].event>>
  <2>1. table'[a] = r
    BY <1>1, <1>2 DEF ChangesRow, Commits
  <2>2. Fires(a, r)
    BY <1>2 DEF ChangesRow, RowChange, Claims, Settles, Resets
  <2>3. f = <<a, r.event>>
    BY <2>2 DEF Fires
  <2> QED
    BY <2>1, <2>2, <2>3, NoneIsNothing DEF Fires
<1> QED
  BY <1>2, TableMoves DEF Moves, Quietly, ChangesAll, DeleteScope

LEMMA IntentStep ==
    ASSUME AlertsInv, [Next]_vars
    PROVE  EveryFiringKept'
<1>1. SUFFICES ASSUME NEW a \in Alerts, NEW e \in Stamps, <<a, e>> \in fired' PROVE Kept(a, e)'
  BY DEF EveryFiringKept
<1>2. CASE <<a, e>> \notin fired
  <2>1. PICK b \in Alerts : table'[b] /= None /\ <<a, e>> = <<b, table'[b].event>>
    BY <1>1, <1>2, FiringsStored
  <2> QED
    BY <2>1 DEF Kept
<1>3. CASE <<a, e>> \in fired
  <2>1. Kept(a, e)
    BY <1>3 DEF AlertsInv, EveryFiringKept
  <2>2. Message(a, e) \in Messages /\ e /= None
    <3>1. <<a, e>> \in Firings
      BY DEF Firings
    <3> QED
      BY <3>1, MessageOf
  <2>3. CASE sends[Message(a, e)] > 0 \/ <<a, e>> \in cancelled
    BY <2>2, <2>3, HistoryGrows DEF Kept
  <2>4. CASE table[a] /= None /\ table[a].event = e
    <3>1. CASE table'[a] = table[a]
      BY <2>4, <3>1 DEF Kept
    <3>2. CASE Claims(a, table'[a])
      BY <2>4, <3>2, NoneIsNothing DEF Claims, Kept
    <3>3. CASE Settles(a, table'[a])
      BY <2>2, <2>4, <3>3, HistoryGrows DEF Settles, Kept
    <3>4. CASE GivesUp(a)
      BY <2>2, <2>4, <3>4 DEF GivesUp, Kept
    <3> QED
      BY <3>1, <3>2, <3>3, <3>4, NewRows DEF RowChange, Resets, Fires
  <2> QED
    BY <2>1, <2>3, <2>4 DEF Kept
<1> QED
  BY <1>2, <1>3

-----------------------------------------------------------------------------
(* What the threads work on *)

IsClaimed(w) == w \in SendWork /\ <<w.alert, w.row.event>> \in fired /\ w.result = "none"

Answered(v, w, result) ==
    /\ v /= None
    /\ w = [v EXCEPT !.step = "finalize", !.result = result]
    /\ result = "yes" => sends'[Message(v.alert, v.row.event)] > 0

ThreadMoves(t) ==
    \/ work'[t] = work[t] /\ published'[t] \in {published[t], None}
    \/ work'[t] = None
    \/ t \in Commanders /\ published'[t] = None /\ work'[t].alert \in Alerts
    \/ t \in Evaluators /\ work'[t] \in Passes
    \/ /\ Delivering /\ t = "delivery"
       /\ \/ IsClaimed(work'[t])
          \/ \E result \in {"yes", "no"} : Answered(work[t], work'[t], result)

LEMMA WorkMoves ==
    ASSUME AlertsInv, [Next]_vars
    PROVE  DOMAIN work' = Threads /\ \A t \in Threads : ThreadMoves(t)
<1>1. /\ DOMAIN work = Threads /\ published \in [Threads -> Change \cup {None}]
      /\ registry \in [Alerts -> Rows \cup {None}] /\ sends \in [Messages -> Nat]
      /\ \A m \in remembered : sends[m] > 0
  BY DEF AlertsInv, RecordsTyped, SendsRemembered
<1> DEFINE Goal == DOMAIN work' = Threads /\ \A t \in Threads : ThreadMoves(t)
<1>2. CASE UNCHANGED <<work, published>>
  BY <1>1, <1>2 DEF ThreadMoves
<1>3. ASSUME NEW t \in Threads, work' = [work EXCEPT ![t] = None],
             \A u \in Threads \ {t} : published'[u] = published[u]
      PROVE  Goal
  BY <1>1, <1>3 DEF ThreadMoves
<1>4. ASSUME NEW t \in Threads, CommandCommits(t) \/ StorageFails(t)
      PROVE  Goal
  <2>1. work' = [work EXCEPT ![t] = None]
    BY <1>4 DEF CommandCommits, StorageFails, Done
  <2>2. \A u \in Threads \ {t} : published'[u] = published[u]
    BY <1>1, <1>4 DEF CommandCommits, StorageFails, Commits
  <2> QED
    BY <1>3, <2>1, <2>2
<1>14. ASSUME NEW t \in Threads, PersistState(t) \/ Fire(t)
       PROVE  Goal
  <2>1. t \in Evaluators /\ work[t] /= None
    BY <1>14 DEF PersistState, Fire, Evaluators
  <2>2. PICK w \in work[t].todo : Proceed(t, w) \/ Done(t)
    BY <1>14 DEF PersistState, Fire
  <2>3. \A u \in Threads \ {t} : published'[u] = published[u]
    BY <1>1, <1>14 DEF PersistState, Fire, Commits
  <2>4. /\ work'[t] = None \/ work'[t] \in Passes
        /\ DOMAIN work' = Threads /\ \A u \in Threads \ {t} : work'[u] = work[u]
    BY <2>1, <2>2, PassGoesOn
  <2> QED
    BY <2>1, <2>3, <2>4 DEF ThreadMoves
<1>5. CASE Finalize
  <2>1. "delivery" \in Threads /\ work' = [work EXCEPT !["delivery"] = None]
    BY <1>5, Roles DEF Finalize, AtStep, Done
  <2>2. \A u \in Threads \ {"delivery"} : published'[u] = published[u]
    BY <1>1, <1>5 DEF Finalize, Commits
  <2> QED
    BY <1>3, <2>1, <2>2
<1>6. ASSUME NEW t \in Threads, Publish(t) PROVE Goal
  BY <1>1, <1>6 DEF Publish, ThreadMoves
<1>7. ASSUME NEW t \in Threads, DeleteScope(t) \/ \E a \in Alerts : Create(t, a) PROVE Goal
  <2>1. work' = work /\ work[t] = None /\ \A u \in Threads \ {t} : published'[u] = published[u]
    BY <1>1, <1>7 DEF DeleteScope, Create, Commits, Free
  <2> QED
    BY <1>1, <2>1 DEF ThreadMoves
<1>8. ASSUME NEW t \in Threads, NEW a \in Alerts, CommandReads(t, a) PROVE Goal
  <2>1. work' = [work EXCEPT ![t] = [alert |-> a, gen |-> table[a].gen]]
    BY <1>8 DEF CommandReads
  <2>2. t \in Commanders /\ published[t] = None /\ UNCHANGED published
    BY <1>8 DEF CommandReads, Free
  <2> QED
    BY <1>1, <2>1, <2>2 DEF ThreadMoves
<1>9. ASSUME NEW t \in Threads, NEW S \in SUBSET Active(t), Evaluate(t, S) PROVE Goal
  <2> DEFINE w == [todo |-> S, at |-> clock + 1]
  <2>1. /\ t \in Evaluators /\ UNCHANGED published /\ clock < MaxClock
        /\ work' = [work EXCEPT ![t] = w]
    BY <1>9 DEF Evaluate
  <2>2. w \in Passes
    <3>1. Active(t) \subseteq [alert : Alerts, row : Rows]
      BY <1>1, PriceAlertsAssumption DEF Active, Evaluates
    <3>2. clock + 1 \in Stamps
      BY <2>1, Numbers DEF AlertsInv, RecordsTyped
    <3> QED
      BY <3>1, <3>2 DEF Passes
  <2> HIDE DEF w
  <2> QED
    BY <1>1, <2>1, <2>2 DEF ThreadMoves
<1>10. CASE Claim
  <2>1. Delivering /\ "delivery" \in Threads
    BY <1>10, Roles DEF Claim
  <2>2. CASE UNCHANGED <<table, published, work>>
    BY <1>2, <2>2
  <2>3. ASSUME NEW a \in Alerts, NEW r \in Rows, ChangesRow("delivery", a, r), <<a, r.event>> \in fired,
               work' = [work EXCEPT !["delivery"] =
                          [alert |-> a, row |-> r, step |-> "send", result |-> "none"]]
        PROVE  Goal
    <3> DEFINE w == [alert |-> a, row |-> r, step |-> "send", result |-> "none"]
    <3>1. IsClaimed(w)
      BY <2>3 DEF IsClaimed, SendWork
    <3>2. \A u \in Threads \ {"delivery"} : published'[u] = published[u]
      BY <1>1, <2>3 DEF ChangesRow, Commits
    <3> HIDE DEF w
    <3>3. work' = [work EXCEPT !["delivery"] = w]
      BY <2>3 DEF w
    <3> QED
      BY <1>1, <2>1, <3>1, <3>2, <3>3 DEF ThreadMoves
  <2> QED
    BY <1>10, <2>2, <2>3, ClaimMoves
<1>11. CASE SendDuplicate \/ SendOk \/ SendFails
  <2> DEFINE v == work["delivery"]
             m == Claimed
  <2>1. /\ Delivering /\ "delivery" \in Threads /\ v /= None /\ UNCHANGED published
    BY <1>11, Roles DEF SendDuplicate, SendOk, SendFails, AtStep
  <2>2. m \in Messages
    BY <2>1, ClaimedMessage
  <2>3. \E result \in {"yes", "no"} :
           /\ work' = [work EXCEPT !["delivery"] =
                         [v EXCEPT !.step = "finalize", !.result = result]]
           /\ result = "yes" => sends'[m] > 0
    <3>1. CASE SendDuplicate
      BY <1>1, <3>1 DEF SendDuplicate, Sent, history
    <3>2. CASE SendOk
      <4>1. Sent("yes") /\ sends' = [sends EXCEPT ![m] = @ + 1]
        BY <3>2 DEF SendOk
      <4>2. sends'[m] > 0
        BY <1>1, <2>2, <4>1
      <4> QED
        BY <4>1, <4>2, Zenon DEF Sent
    <3>3. CASE SendFails
      <4>1. Sent("no")
        BY <3>3 DEF SendFails
      <4> QED
        BY <4>1 DEF Sent
    <3> QED
      BY <1>11, <3>1, <3>2, <3>3
  <2>4. PICK result \in {"yes", "no"} :
           /\ work' = [work EXCEPT !["delivery"] =
                         [v EXCEPT !.step = "finalize", !.result = result]]
           /\ result = "yes" => sends'[m] > 0
    BY <2>3
  <2>5. Answered(v, work'["delivery"], result)
    BY <1>1, <2>1, <2>4 DEF Answered, Claimed
  <2>6. DOMAIN work' = Threads /\ \A u \in Threads \ {"delivery"} : work'[u] = work[u]
    BY <1>1, <2>4
  <2> HIDE DEF v
  <2> QED
    BY <2>1, <2>5, <2>6 DEF ThreadMoves, v
<1>12. CASE Crash
  BY <1>12 DEF Crash, ThreadMoves
<1>15. CASE LoopsRestart
  BY <1>1, <1>15 DEF LoopsRestart, ThreadMoves
<1>13. CASE HydrationStep \/ DeliveryTick \/ UNCHANGED vars
  <2>1. UNCHANGED <<work, published>>
    BY <1>13 DEF HydrationStep, BeginHydration, ReadSnapshot, Hydrate, HydrationFails,
                 DeliveryTick, vars
  <2> QED
    BY <1>2, <2>1
<1> QED
  BY <1>4, <1>5, <1>6, <1>7, <1>8, <1>9, <1>10, <1>11, <1>12, <1>13, <1>14, <1>15
  DEF Next, DeliveryStep, ThreadStep

LEMMA PublishedFirstStep ==
    ASSUME AlertsInv, [Next]_vars
    PROVE  PublishedFirst'
<1>1. ASSUME NEW t \in Commanders, work'[t] /= None
      PROVE  published'[t] = None
  <2>1. t \in Threads /\ t \notin Evaluators /\ ~(Delivering /\ t = "delivery")
    BY Roles
  <2>2. ThreadMoves(t)
    BY <2>1, WorkMoves
  <2> QED
    BY <1>1, <2>1, <2>2 DEF ThreadMoves, AlertsInv, PublishedFirst
<1> QED
  BY <1>1 DEF PublishedFirst

LEMMA OutboxStep ==
    ASSUME AlertsInv, [Next]_vars
    PROVE  OutboxSound'
<1>1. \A b \in batch' : b.row.event /= None
  <2>1. CASE DeliveryTick
    <3>1. \A b \in Outbox : b.row.event /= None
      BY DEF Outbox
    <3>2. batch' \subseteq Outbox
      BY <2>1 DEF DeliveryTick
    <3> QED
      BY <3>1, <3>2
  <2>2. CASE ~DeliveryTick
    <3>1. batch' \subseteq batch
      BY <2>2 DEF Next, vars, history, HydrationStep, BeginHydration, ReadSnapshot, Hydrate,
           HydrationFails, LoopsRestart, Crash, DeliveryStep, Claim, SendDuplicate, SendOk,
           SendFails, Finalize, ThreadStep, Publish, CommandReads, CommandCommits, Create,
           DeleteScope, Evaluate, PersistState, Fire, StorageFails
    <3> QED
      BY <3>1 DEF AlertsInv, OutboxSound
  <2> QED
    BY <2>1, <2>2
<1>2. ASSUME Delivering, work'["delivery"] /= None
      PROVE  /\ <<work'["delivery"].alert, work'["delivery"].row.event>> \in fired'
             /\ work'["delivery"].result = "yes" => sends'[Claimed'] > 0
  <2> DEFINE v == work["delivery"]
             w == work'["delivery"]
             m == Message(v.alert, v.row.event)
  <2>1. ThreadMoves("delivery") /\ "delivery" \notin Commanders \cup Evaluators
    BY <1>2, Roles, WorkMoves
  <2> DEFINE Goal == /\ <<w.alert, w.row.event>> \in fired'
                     /\ w.result = "yes" => sends'[Message(w.alert, w.row.event)] > 0
  <2>2. fired \subseteq fired' /\ \A n \in Messages : sends[n] > 0 => sends'[n] > 0
    BY HistoryGrows
  <2>3. v /= None => /\ v \in SendWork /\ <<v.alert, v.row.event>> \in fired
                     /\ m \in Messages /\ (v.result = "yes" => sends[m] > 0)
    BY <1>2, ClaimedMessage DEF AlertsInv, OutboxSound, RecordsTyped, Claimed
  <2>4. ASSUME w = v PROVE Goal
    BY <1>2, <2>2, <2>3, <2>4
  <2>5. ASSUME IsClaimed(w) PROVE Goal
    BY <2>2, <2>5 DEF IsClaimed
  <2>6. ASSUME NEW result \in {"yes", "no"}, Answered(v, w, result)
        PROVE  Goal
    <3>1. w.row = v.row /\ w.alert = v.alert /\ w.result = result
      BY <2>3, <2>6 DEF Answered, SendWork
    <3> QED
      BY <2>2, <2>3, <2>6, <3>1 DEF Answered
  <2> HIDE DEF v, w
  <2>7. w = v \/ IsClaimed(w) \/ \E result \in {"yes", "no"} : Answered(v, w, result)
    BY <1>2, <2>1 DEF ThreadMoves, v, w
  <2>8. Goal
    BY <2>4, <2>5, <2>6, <2>7
  <2> QED
    BY <2>8 DEF w, Claimed, Message
<1> QED
  BY <1>1, <1>2 DEF OutboxSound, Delivering

\* A send is remembered or in doubt, and in doubt when the message had been forgotten;
\* a failing one may only have forgotten it; a crash empties the memory and puts every
\* sent message in doubt.
LEMMA SendMoves ==
    ASSUME AlertsInv, [Next]_vars
    PROVE  \/ UNCHANGED <<sends, remembered, unsure>>
           \/ \E m \in Messages :
                 /\ sends' = [sends EXCEPT ![m] = @ + 1]
                 /\ unsure \cup (remembered \cap {m}) \subseteq unsure'
                 /\ \/ remembered' = remembered \cup {m}
                    \/ remembered' = remembered \ {m} /\ m \in unsure'
           \/ \E m \in Messages :
                 /\ UNCHANGED sends /\ remembered' = remembered \ {m}
                 /\ unsure' = unsure \cup (remembered \cap {m})
           \/ /\ UNCHANGED sends /\ remembered' = {}
              /\ unsure' = unsure \cup {m \in Messages : sends[m] > 0}
<1>1. CASE SendOk \/ SendFails
  <2>1. Claimed \in Messages
    BY <1>1, ClaimedMessage DEF SendOk, SendFails, AtStep
  <2>2. CASE SendOk
    BY <2>1, <2>2 DEF SendOk, Forgotten
  <2>3. CASE SendFails
    BY <2>1, <2>3 DEF SendFails, Forgotten
  <2> QED
    BY <1>1, <2>2, <2>3
<1>2. CASE Crash
  BY <1>2 DEF Crash
<1>3. ASSUME NEW t \in Threads, ThreadStep(t)
      PROVE  UNCHANGED <<sends, remembered, unsure>>
  BY <1>3 DEF history, ThreadStep, Publish, CommandReads, CommandCommits, Create, DeleteScope,
              Evaluate, PersistState, Fire, StorageFails
<1>4. CASE DeliveryTick \/ Claim \/ SendDuplicate \/ Finalize
  BY <1>4 DEF history, DeliveryTick, Claim, SendDuplicate, Finalize
<1>5. CASE HydrationStep \/ LoopsRestart \/ UNCHANGED vars
  BY <1>5 DEF vars, history, HydrationStep, BeginHydration, ReadSnapshot, Hydrate,
              HydrationFails, LoopsRestart
<1> QED
  BY <1>1, <1>2, <1>3, <1>4, <1>5 DEF Next, DeliveryStep

LEMMA SendsStep ==
    ASSUME AlertsInv, [Next]_vars
    PROVE  SendsRemembered'
<1>1. /\ sends \in [Messages -> Nat] /\ remembered \subseteq Messages
      /\ \A m \in Messages : sends[m] \in Nat /\ (sends[m] > 0 => m \in remembered \cup unsure)
      /\ \A m \in Messages : sends[m] > 1 => m \in unsure
      /\ \A m \in remembered : sends[m] > 0
  BY DEF AlertsInv, RecordsTyped, SendsRemembered
<1>2. CASE UNCHANGED <<sends, remembered, unsure>>
  BY <1>1, <1>2 DEF SendsRemembered
<1>3. ASSUME NEW m \in Messages, sends' = [sends EXCEPT ![m] = @ + 1],
             unsure \cup (remembered \cap {m}) \subseteq unsure',
             \/ remembered' = remembered \cup {m}
             \/ remembered' = remembered \ {m} /\ m \in unsure'
      PROVE  SendsRemembered'
  <2>1. sends'[m] = sends[m] + 1 /\ \A n \in Messages : n /= m => sends'[n] = sends[n]
    BY <1>1, <1>3
  <2>2. sends[m] > 0 => m \in unsure'
    BY <1>1, <1>3
  <2>3. \A n \in Messages : sends'[n] > 0 => n \in remembered' \cup unsure'
    BY <1>1, <1>3, <2>1
  <2>4. \A n \in Messages : sends'[n] > 1 => n \in unsure'
    BY <1>1, <1>3, <2>1, <2>2
  <2>5. \A n \in remembered' : sends'[n] > 0
    BY <1>1, <1>3, <2>1
  <2> QED
    BY <2>3, <2>4, <2>5 DEF SendsRemembered
<1>4. ASSUME NEW m \in Messages, UNCHANGED sends, remembered' = remembered \ {m},
             unsure' = unsure \cup (remembered \cap {m})
      PROVE  SendsRemembered'
  BY <1>1, <1>4 DEF SendsRemembered
<1>5. CASE /\ UNCHANGED sends /\ remembered' = {}
           /\ unsure' = unsure \cup {m \in Messages : sends[m] > 0}
  BY <1>1, <1>5 DEF SendsRemembered
<1> QED
  BY <1>2, <1>3, <1>4, <1>5, SendMoves

-----------------------------------------------------------------------------
(* The registry *)

\* A change that is logged is the last one of its alerts, and of no other alert.
LEMMA LoggingOwn ==
    ASSUME NEW log \in Seq(Change), NEW c \in Change, NEW a \in c.alerts
    PROVE  LastOf(Append(log, c), a) = {Len(log) + 1} /\ Append(log, c)[Len(log) + 1] = c
<1> DEFINE next == Append(log, c)
           n == Len(log) + 1
<1>1. /\ DOMAIN log = 1..Len(log) /\ DOMAIN next = 1..n /\ n \in Nat /\ n \in DOMAIN next
      /\ next[n] = c /\ \A i \in DOMAIN log : next[i] = log[i]
  OBVIOUS
<1>2. /\ \A i \in DOMAIN next : i \in DOMAIN log \/ i = n
      /\ \A i \in DOMAIN log : i \in DOMAIN next /\ i /= n /\ i <= n /\ ~(n <= i)
      /\ n <= n
  BY <1>1
<1> HIDE DEF next, n
<1>3. LastOf(next, a) = {n}
  BY <1>1, <1>2 DEF LastOf
<1> QED
  BY <1>1, <1>3 DEF next, n

LEMMA LoggingOthers ==
    ASSUME NEW log \in Seq(Change), NEW c \in Change, NEW a, a \notin c.alerts
    PROVE  /\ LastOf(Append(log, c), a) = LastOf(log, a)
           /\ \A i \in LastOf(log, a) : Append(log, c)[i] = log[i]
<1> DEFINE next == Append(log, c)
           n == Len(log) + 1
<1>1. /\ DOMAIN log = 1..Len(log) /\ DOMAIN next = 1..n /\ n \in Nat /\ n \in DOMAIN next
      /\ next[n] = c /\ \A i \in DOMAIN log : next[i] = log[i]
  OBVIOUS
<1>2. /\ \A i \in DOMAIN next : i \in DOMAIN log \/ i = n
      /\ \A i \in DOMAIN log : i \in DOMAIN next /\ i /= n /\ i <= n /\ ~(n <= i)
      /\ n <= n
  BY <1>1
<1> HIDE DEF next, n
<1>3. LastOf(next, a) = LastOf(log, a)
  BY <1>1, <1>2 DEF LastOf
<1>4. LastOf(log, a) \subseteq DOMAIN log
  BY DEF LastOf
<1> QED
  BY <1>1, <1>3, <1>4 DEF next, n

LEMMA Replaying ==
    ASSUME NEW rows, NEW log, NEW a \in Alerts, NEW r,
           \A i \in LastOf(log, a) : log[i].row = r, LastOf(log, a) = {} => rows[a] = r
    PROVE  Replayed(rows, log)[a] = r
<1> DEFINE i == CHOOSE j \in LastOf(log, a) : TRUE
<1>1. Replayed(rows, log)[a] = IF LastOf(log, a) = {} THEN rows[a] ELSE log[i].row
  BY DEF Replayed
<1>2. LastOf(log, a) /= {} => i \in LastOf(log, a)
  OBVIOUS
<1> HIDE DEF i
<1> QED
  BY <1>1, <1>2

LEMMA RegistryFacts ==
    ASSUME AlertsInv
    PROVE  /\ table \in [Alerts -> Rows \cup {None}] /\ registry \in [Alerts -> Rows \cup {None}]
           /\ published \in [Threads -> Change \cup {None}] /\ hydration.log \in Seq(Change)
           /\ hydration \in [stage : {"off", "begun", "read", "done"},
                             snapshot : [Alerts -> Rows \cup {None}], log : Seq(Change)]
           /\ None \notin Change /\ None \notin Rows
  BY NoneIsNothing DEF AlertsInv, RecordsTyped

\* A committed change is told by its thread, and what another thread tells of another
\* alert stays as it was.
LEMMA Telling ==
    ASSUME AlertsInv, NEW t \in Threads, NEW S \in SUBSET Alerts, NEW r \in Rows \cup {None},
           published[t] = None,
           published' = [published EXCEPT ![t] = [alerts |-> S, row |-> r]]
    PROVE  /\ \A a \in Alerts : Tells(t, a)' <=> a \in S
           /\ published'[t].row = r
           /\ \A u \in Threads, a \in Alerts : u /= t => (Tells(u, a)' <=> Tells(u, a))
           /\ \A u \in Threads : u /= t => published'[u] = published[u]
           /\ \A a \in Alerts : ~Tells(t, a)
<1>1. [alerts |-> S, row |-> r] \in Change
  BY DEF Change
<1> QED
  BY <1>1, RegistryFacts DEF Tells

LEMMA ChangesStep ==
    ASSUME AlertsInv, [Next]_vars
    PROVE  ChangesCurrent'
<1>1. \A a \in Alerts \ raced, t \in Threads : Tells(t, a) => published[t].row = table[a]
  BY DEF AlertsInv, ChangesCurrent
<1>2. ASSUME NEW t \in Threads, NEW b \in Alerts, NEW r \in Rows \cup {None}, ChangesRow(t, b, r)
      PROVE  ChangesCurrent'
  <2>1. /\ published[t] = None /\ table' = [table EXCEPT ![b] = r]
        /\ raced' = raced \cup (Unpublished \cap {b})
        /\ published' = [published EXCEPT ![t] = [alerts |-> {b}, row |-> r]]
    BY <1>2 DEF ChangesRow, Commits
  <2>2. \A u \in Threads : Tells(u, b) => b \in raced'
    BY <2>1 DEF Tells, Unpublished
  <2>3. {b} \in SUBSET Alerts
    OBVIOUS
  <2>4. /\ \A a \in Alerts : Tells(t, a)' <=> a \in {b}
        /\ published'[t].row = r
        /\ \A u \in Threads, a \in Alerts : u /= t => (Tells(u, a)' <=> Tells(u, a))
        /\ \A u \in Threads : u /= t => published'[u] = published[u]
    BY <2>1, <2>3, Telling
  <2>5. ASSUME NEW a \in Alerts \ raced', NEW u \in Threads, Tells(u, a)'
        PROVE  published'[u].row = table'[a]
    <3>1. CASE a = b
      BY <2>1, <2>2, <2>4, <2>5, <3>1, RegistryFacts
    <3>2. CASE a /= b
      BY <1>1, <2>1, <2>4, <2>5, <3>2, RegistryFacts
    <3> QED
      BY <3>1, <3>2
  <2> QED
    BY <2>5 DEF ChangesCurrent
<1>3. ASSUME NEW t \in Threads, ChangesAll(t) PROVE ChangesCurrent'
  <2>1. /\ published[t] = None /\ table' = Nothing
        /\ raced' = raced \cup Unpublished
        /\ published' = [published EXCEPT ![t] = [alerts |-> Alerts, row |-> None]]
    BY <1>3 DEF ChangesAll, DeleteScope, Free
  <2>2. \A u \in Threads, a \in Alerts : Tells(u, a) => a \in raced'
    BY <2>1 DEF Tells, Unpublished
  <2>3. /\ published'[t].row = None
        /\ \A u \in Threads, a \in Alerts : u /= t => (Tells(u, a)' <=> Tells(u, a))
    BY <2>1, Telling
  <2> QED
    BY <2>1, <2>2, <2>3 DEF ChangesCurrent, Nothing
<1>4. CASE Quietly /\ UNCHANGED published
  BY <1>1, <1>4 DEF Quietly, ChangesCurrent, Tells
<1>5. ASSUME NEW t \in Threads, NEW b \in Alerts, Shares(t, b), Quietly PROVE ChangesCurrent'
  <2> DEFINE r == table[b]
  <2>1. /\ {b} \in SUBSET Alerts /\ r \in Rows \cup {None} /\ published[t] = None
        /\ published' = [published EXCEPT ![t] = [alerts |-> {b}, row |-> r]]
    BY <1>5 DEF Shares
  <2> HIDE DEF r
  <2>2. /\ \A a \in Alerts : Tells(t, a)' <=> a \in {b}
        /\ published'[t].row = r
        /\ \A u \in Threads, a \in Alerts : u /= t => (Tells(u, a)' <=> Tells(u, a))
        /\ \A u \in Threads : u /= t => published'[u] = published[u]
    BY <2>1, Telling
  <2> QED
    BY <1>1, <1>5, <2>2 DEF Quietly, ChangesCurrent, r
<1>6. ASSUME NEW t \in Threads, Publish(t), Quietly PROVE ChangesCurrent'
  <2>1. \A u \in Threads : published'[u] \in {published[u], None}
    BY <1>6, RegistryFacts DEF Publish
  <2> QED
    BY <1>1, <1>6, <2>1 DEF Quietly, ChangesCurrent, Tells
<1>7. CASE Crash
  BY <1>7 DEF Crash, ChangesCurrent, Tells
<1> QED
  BY <1>2, <1>3, <1>4, <1>5, <1>6, <1>7, TableMoves DEF Moves, Hydrates

LEMMA FollowsStep ==
    ASSUME AlertsInv, [Next]_vars
    PROVE  RegistryFollows'
<1>1. \A a \in Alerts \ raced : (\E t \in Threads : Tells(t, a)) \/ Shows(a, table[a])
  BY DEF AlertsInv, RegistryFollows
<1>2. raced \subseteq raced'
  BY HistoryGrows
<1>3. ASSUME NEW t \in Threads, NEW S \in SUBSET Alerts, NEW r \in Rows \cup {None},
             published[t] = None,
             published' = [published EXCEPT ![t] = [alerts |-> S, row |-> r]],
             UNCHANGED <<registry, hydration>>, \A a \in Alerts \ S : table'[a] = table[a]
      PROVE  RegistryFollows'
  <2>1. /\ \A a \in Alerts : Tells(t, a)' <=> a \in S
        /\ \A u \in Threads, a \in Alerts : u /= t => (Tells(u, a)' <=> Tells(u, a))
        /\ \A a \in Alerts : ~Tells(t, a)
    BY <1>3, Telling
  <2>2. ASSUME NEW a \in Alerts \ raced' PROVE (\E u \in Threads : Tells(u, a)') \/ Shows(a, table[a])'
    <3>1. CASE a \in S
      BY <2>1, <3>1
    <3>2. CASE a \notin S
      <4>1. Shows(a, table[a]) => Shows(a, table[a])'
        BY <1>3, <3>2 DEF Shows
      <4> QED
        BY <1>1, <1>2, <2>1, <4>1
    <3> QED
      BY <3>1, <3>2
  <2> QED
    BY <2>2 DEF RegistryFollows
<1>4. ASSUME NEW t \in Threads, NEW b \in Alerts, NEW r \in Rows \cup {None}, ChangesRow(t, b, r)
      PROVE  RegistryFollows'
  <2>1. /\ published[t] = None /\ table' = [table EXCEPT ![b] = r]
        /\ published' = [published EXCEPT ![t] = [alerts |-> {b}, row |-> r]]
        /\ UNCHANGED <<registry, hydration>>
    BY <1>4 DEF ChangesRow, Commits
  <2>2. {b} \in SUBSET Alerts /\ \A a \in Alerts \ {b} : table'[a] = table[a]
    BY <2>1, RegistryFacts
  <2> QED
    BY <1>3, <2>1, <2>2
<1>5. ASSUME NEW t \in Threads, ChangesAll(t) PROVE RegistryFollows'
  <2>1. /\ published[t] = None /\ UNCHANGED <<registry, hydration>>
        /\ published' = [published EXCEPT ![t] = [alerts |-> Alerts, row |-> None]]
    BY <1>5 DEF ChangesAll, DeleteScope, Free
  <2> QED
    BY <1>3, <2>1
<1>6. CASE Quietly /\ UNCHANGED <<registry, hydration, published>>
  BY <1>1, <1>6 DEF Quietly, RegistryFollows, Tells, Shows
<1>7. ASSUME NEW t \in Threads, NEW b \in Alerts, Shares(t, b), Quietly PROVE RegistryFollows'
  <2>1. /\ published[t] = None /\ UNCHANGED <<registry, hydration, table>>
        /\ published' = [published EXCEPT ![t] = [alerts |-> {b}, row |-> table[b]]]
        /\ {b} \in SUBSET Alerts /\ table[b] \in Rows \cup {None}
    BY <1>7 DEF Shares, Quietly
  <2> QED
    BY <1>3, <2>1
<1>8. ASSUME NEW t \in Threads, Publish(t), Quietly PROVE RegistryFollows'
  <2> DEFINE c == published[t]
             log == hydration.log
  <2>1. /\ c /= None /\ c \in Change /\ log \in Seq(Change) /\ UNCHANGED <<table, raced>>
        /\ registry' = Apply(registry, c) /\ published' = [published EXCEPT ![t] = None]
        /\ hydration' = IF hydration.stage \in {"begun", "read"}
                        THEN [hydration EXCEPT !.log = Append(log, c)] ELSE hydration
    BY <1>8, RegistryFacts DEF Publish, Quietly
  <2>2. \A u \in Threads, a \in Alerts : u /= t /\ Tells(u, a) => Tells(u, a)'
    BY <2>1, RegistryFacts DEF Tells
  <2>3. /\ hydration'.stage = hydration.stage /\ hydration'.snapshot = hydration.snapshot
        /\ hydration.stage \in {"begun", "read"} => hydration'.log = Append(log, c)
    BY <2>1, RegistryFacts
  <2>4. ASSUME NEW a \in Alerts \ raced PROVE (\E u \in Threads : Tells(u, a)') \/ Shows(a, table[a])'
    <3>1. CASE a \in c.alerts
      <4>1. c.row = table[a]
        BY <2>1, <3>1 DEF AlertsInv, ChangesCurrent, Tells
      <4>2. registry'[a] = table[a]
        BY <2>1, <3>1, <4>1 DEF Apply
      <4> HIDE DEF log, c
      <4>3. LastOf(Append(log, c), a) = {Len(log) + 1} /\ Append(log, c)[Len(log) + 1] = c
        <5>1. log \in Seq(Change) /\ c \in Change /\ a \in c.alerts
          BY <2>1, <3>1
        <5> QED
          BY <5>1, LoggingOwn
      <4>4. Shows(a, table[a])'
        BY <2>1, <2>3, <4>1, <4>2, <4>3 DEF Shows
      <4> QED
        BY <4>4
    <3>2. CASE a \notin c.alerts
      <4>1. ~Tells(t, a)
        BY <3>2 DEF Tells
      <4>2. registry'[a] = registry[a]
        BY <2>1, <3>2 DEF Apply
      <4> HIDE DEF log, c
      <4>3. /\ LastOf(Append(log, c), a) = LastOf(log, a)
            /\ \A i \in LastOf(log, a) : Append(log, c)[i] = log[i]
        <5>1. log \in Seq(Change) /\ c \in Change /\ a \notin c.alerts
          BY <2>1, <3>2
        <5> QED
          BY <5>1, LoggingOthers
      <4>4. Shows(a, table[a]) => Shows(a, table[a])'
        <5>1. CASE hydration.stage \in {"begun", "read"}
          <6>1. hydration'.log = Append(log, c) /\ table' = table
            BY <2>1, <2>3, <5>1
          <6> QED
            BY <2>3, <4>2, <4>3, <5>1, <6>1 DEF Shows, log
        <5>2. CASE hydration.stage \notin {"begun", "read"}
          BY <2>1, <2>3, <4>2, <5>2 DEF Shows
        <5> QED
          BY <5>1, <5>2
      <4> QED
        BY <1>1, <2>2, <4>1, <4>4
    <3> QED
      BY <3>1, <3>2
  <2> QED
    BY <2>1, <2>4 DEF RegistryFollows
<1>9. CASE Quietly /\ Hydrates
  <2>1. UNCHANGED <<published, table, raced>>
    BY <1>9 DEF Quietly, Hydrates
  <2>2. \A a \in Alerts \ raced : Shows(a, table[a]) => Shows(a, table[a])'
    <3>1. CASE hydration' = Off
      BY <3>1 DEF Off, Shows
    <3>2. CASE hydration' = [Off EXCEPT !.stage = "begun"]
      BY <3>2 DEF Off, Shows, LastOf
    <3>3. CASE ReadSnapshot
      <4>1. hydration.stage = "begun" /\ hydration'.stage = "read"
            /\ hydration'.snapshot = table /\ hydration'.log = hydration.log
        BY <3>3, RegistryFacts DEF ReadSnapshot
      <4> QED
        BY <2>1, <4>1 DEF Shows
    <3>4. CASE Hydrate
      <4>1. /\ hydration.stage = "read" /\ hydration'.stage = "done"
            /\ registry' = Replayed(hydration.snapshot, hydration.log)
        BY <3>4 DEF Hydrate, Off
      <4> QED
        BY <2>1, <4>1, Replaying DEF Shows
    <3> QED
      BY <1>9, <3>1, <3>2, <3>3, <3>4 DEF Hydrates
  <2>3. \A a \in Alerts, t \in Threads : Tells(t, a)' <=> Tells(t, a)
    BY <2>1 DEF Tells
  <2>4. ASSUME NEW a \in Alerts \ raced', ~Shows(a, table[a])' PROVE \E t \in Threads : Tells(t, a)'
    BY <1>1, <2>1, <2>2, <2>3, <2>4
  <2> QED
    BY <2>4 DEF RegistryFollows
<1>10. CASE Crash
  BY <1>10 DEF Crash, RegistryFollows, Shows, Off
<1> QED
  BY <1>4, <1>5, <1>6, <1>7, <1>8, <1>9, <1>10, TableMoves DEF Moves

-----------------------------------------------------------------------------
(* Types *)

RegistryTyped ==
    /\ table \in [Alerts -> Rows \cup {None}]
    /\ registry \in [Alerts -> Rows \cup {None}]
    /\ hydration \in [stage : {"off", "begun", "read", "done"},
                      snapshot : [Alerts -> Rows \cup {None}], log : Seq(Change)]
    /\ published \in [Threads -> Change \cup {None}]

LEMMA RegistryStep ==
    ASSUME AlertsInv, [Next]_vars
    PROVE  RegistryTyped'
<1>1. RegistryTyped
  BY RegistryFacts DEF RegistryTyped
<1>2. Nothing \in [Alerts -> Rows \cup {None}] /\ Off.log = <<>> /\ <<>> \in Seq(Change)
  BY DEF Nothing, Off
<1>3. ASSUME NEW t \in Threads, NEW S \in SUBSET Alerts, NEW r \in Rows \cup {None},
             table' \in [Alerts -> Rows \cup {None}], UNCHANGED <<registry, hydration>>,
             published' = [published EXCEPT ![t] = [alerts |-> S, row |-> r]]
      PROVE  RegistryTyped'
  <2>1. [alerts |-> S, row |-> r] \in Change
    BY DEF Change
  <2> QED
    BY <1>1, <1>3, <2>1 DEF RegistryTyped
<1>4. ASSUME NEW t \in Threads, NEW a \in Alerts, NEW r \in Rows \cup {None}, ChangesRow(t, a, r)
      PROVE  RegistryTyped'
  <2>1. table' = [table EXCEPT ![a] = r] /\ UNCHANGED <<registry, hydration>>
        /\ published' = [published EXCEPT ![t] = [alerts |-> {a}, row |-> r]]
    BY <1>4 DEF ChangesRow, Commits
  <2>2. table' \in [Alerts -> Rows \cup {None}]
    BY <1>1, <2>1 DEF RegistryTyped
  <2> QED
    BY <1>3, <2>1, <2>2
<1>5. ASSUME NEW t \in Threads, ChangesAll(t) PROVE RegistryTyped'
  BY <1>2, <1>3, <1>5 DEF ChangesAll, DeleteScope
<1>6. CASE UNCHANGED <<table, registry, hydration, published>>
  BY <1>1, <1>6 DEF RegistryTyped
<1>7. ASSUME NEW t \in Threads, NEW a \in Alerts, Shares(t, a), Quietly PROVE RegistryTyped'
  <2> DEFINE r == table[a]
  <2>1. /\ {a} \in SUBSET Alerts /\ r \in Rows \cup {None} /\ UNCHANGED <<registry, hydration>>
        /\ published' = [published EXCEPT ![t] = [alerts |-> {a}, row |-> r]]
        /\ table' \in [Alerts -> Rows \cup {None}]
    BY <1>1, <1>7 DEF Shares, Quietly, RegistryTyped
  <2> HIDE DEF r
  <2> QED
    BY <1>3, <2>1
<1>8. ASSUME NEW t \in Threads, Publish(t), Quietly PROVE RegistryTyped'
  <2> DEFINE c == published[t]
  <2>1. /\ c \in Change /\ UNCHANGED table /\ registry' = Apply(registry, c)
        /\ published' = [published EXCEPT ![t] = None]
        /\ hydration' = IF hydration.stage \in {"begun", "read"}
                        THEN [hydration EXCEPT !.log = Append(@, c)] ELSE hydration
    BY <1>1, <1>8 DEF Publish, Quietly, RegistryTyped
  <2> HIDE DEF c
  <2>2. registry' \in [Alerts -> Rows \cup {None}]
    BY <1>1, <2>1 DEF Apply, Change, RegistryTyped
  <2>3. Append(hydration.log, c) \in Seq(Change)
    BY <1>1, <2>1 DEF RegistryTyped
  <2>4. hydration' \in [stage : {"off", "begun", "read", "done"},
                        snapshot : [Alerts -> Rows \cup {None}], log : Seq(Change)]
    BY <1>1, <2>1, <2>3 DEF RegistryTyped
  <2> QED
    BY <1>1, <2>1, <2>2, <2>4 DEF RegistryTyped
<1>9. CASE Quietly /\ Hydrates
  <2>1. UNCHANGED <<table, published>>
    BY <1>9 DEF Quietly, Hydrates
  <2>2. CASE hydration' \in {Off, [Off EXCEPT !.stage = "begun"]} /\ UNCHANGED registry
    <3> DEFINE H == [stage : {"off", "begun", "read", "done"},
                     snapshot : [Alerts -> Rows \cup {None}], log : Seq(Change)]
    <3>1. Off \in H
      BY <1>2 DEF Off
    <3>2. [Off EXCEPT !.stage = "begun"] \in H
      BY <3>1
    <3> QED
      BY <1>1, <2>1, <2>2, <3>1, <3>2 DEF RegistryTyped
  <2>3. CASE ReadSnapshot
    BY <1>1, <2>1, <2>3 DEF ReadSnapshot, RegistryTyped
  <2>4. CASE Hydrate
    <3> DEFINE log == hydration.log
               rows == hydration.snapshot
    <3>1. rows \in [Alerts -> Rows \cup {None}] /\ log \in Seq(Change)
      BY <1>1 DEF RegistryTyped
    <3>2. registry' = Replayed(rows, log) /\ hydration' = [Off EXCEPT !.stage = "done"]
      BY <2>4 DEF Hydrate
    <3> HIDE DEF log, rows
    <3>3. ASSUME NEW a \in Alerts PROVE Replayed(rows, log)[a] \in Rows \cup {None}
      <4> DEFINE i == CHOOSE j \in LastOf(log, a) : TRUE
      <4>1. Replayed(rows, log)[a] = IF LastOf(log, a) = {} THEN rows[a] ELSE log[i].row
        BY DEF Replayed
      <4>2. LastOf(log, a) /= {} => i \in DOMAIN log
        <5>1. LastOf(log, a) \subseteq DOMAIN log
          BY DEF LastOf
        <5> QED
          BY <5>1
      <4>3. \A j \in DOMAIN log : log[j].row \in Rows \cup {None}
        <5>1. \A j \in DOMAIN log : log[j] \in Change
          BY <3>1
        <5> QED
          BY <5>1 DEF Change
      <4> HIDE DEF i
      <4> QED
        BY <3>1, <4>1, <4>2, <4>3
    <3>4. Replayed(rows, log) \in [Alerts -> Rows \cup {None}]
      <4>1. DOMAIN Replayed(rows, log) = Alerts /\ Replayed(rows, log) = [a \in Alerts |-> Replayed(rows, log)[a]]
        BY DEF Replayed
      <4> QED
        BY <3>3, <4>1
    <3> QED
      BY <1>1, <1>2, <2>1, <3>2, <3>4 DEF RegistryTyped, Off
  <2> QED
    BY <1>9, <2>2, <2>3, <2>4 DEF Hydrates
<1>10. CASE Crash
  BY <1>1, <1>2, <1>10 DEF Crash, RegistryTyped, Off
<1> QED
  BY <1>4, <1>5, <1>6, <1>7, <1>8, <1>9, <1>10, TableMoves DEF Moves, Quietly

LEMMA WorkStep ==
    ASSUME AlertsInv, [Next]_vars
    PROVE  /\ DOMAIN work' = Threads
           /\ \A t \in Commanders : work'[t] /= None => work'[t].alert \in Alerts
           /\ \A t \in Evaluators : work'[t] /= None => work'[t] \in Passes
           /\ Delivering /\ work'["delivery"] /= None => work'["delivery"] \in SendWork
<1>1. ASSUME NEW t \in Commanders, work'[t] /= None PROVE work'[t].alert \in Alerts
  <2>1. ThreadMoves(t) /\ t \notin Evaluators /\ ~(Delivering /\ t = "delivery")
    BY WorkMoves, Roles
  <2> QED
    BY <1>1, <2>1 DEF ThreadMoves, AlertsInv, RecordsTyped
<1>2. ASSUME NEW t \in Evaluators, work'[t] /= None PROVE work'[t] \in Passes
  <2>1. ThreadMoves(t) /\ t \notin Commanders /\ ~(Delivering /\ t = "delivery")
    BY WorkMoves, Roles
  <2> QED
    BY <1>2, <2>1 DEF ThreadMoves, AlertsInv, RecordsTyped
<1>3. ASSUME Delivering, work'["delivery"] /= None PROVE work'["delivery"] \in SendWork
  <2> DEFINE v == work["delivery"]
             w == work'["delivery"]
  <2>1. ThreadMoves("delivery") /\ "delivery" \notin Commanders \cup Evaluators
    BY <1>3, Roles, WorkMoves
  <2>2. v /= None => v \in SendWork
    BY <1>3 DEF AlertsInv, RecordsTyped
  <2>3. ASSUME NEW result \in {"yes", "no"}, Answered(v, w, result) PROVE w \in SendWork
    BY <2>2, <2>3 DEF Answered, SendWork
  <2>4. IsClaimed(w) => w \in SendWork
    BY DEF IsClaimed
  <2> HIDE DEF v, w
  <2>5. w = v \/ IsClaimed(w) \/ \E result \in {"yes", "no"} : Answered(v, w, result)
    BY <1>3, <2>1 DEF ThreadMoves, v, w
  <2> QED
    BY <1>3, <2>2, <2>3, <2>4, <2>5 DEF w
<1> QED
  BY <1>1, <1>2, <1>3, WorkMoves

LEMMA TypedStep ==
    ASSUME AlertsInv, [Next]_vars
    PROVE  RecordsTyped'
<1>1. batch' \subseteq [alert : Alerts, row : Rows]
  <2>1. CASE DeliveryTick
    <3>1. Outbox \subseteq [alert : Alerts, row : Rows]
      BY RegistryFacts DEF Outbox
    <3>2. batch' \subseteq Outbox
      BY <2>1 DEF DeliveryTick
    <3> QED
      BY <3>1, <3>2
  <2>2. CASE ~DeliveryTick
    <3>1. batch' \subseteq batch
      BY <2>2 DEF Next, vars, history, HydrationStep, BeginHydration, ReadSnapshot, Hydrate,
           HydrationFails, LoopsRestart, Crash, DeliveryStep, Claim, SendDuplicate, SendOk,
           SendFails, Finalize, ThreadStep, Publish, CommandReads, CommandCommits, Create,
           DeleteScope, Evaluate, PersistState, Fire, StorageFails
    <3> QED
      BY <3>1 DEF AlertsInv, RecordsTyped
  <2> QED
    BY <2>1, <2>2
<1>2. clock' \in Stamps
  <2> DEFINE Ticks == clock' = clock \/ (clock < MaxClock /\ clock' = clock + 1)
  <2>1. ASSUME NEW t \in Threads, ThreadStep(t) PROVE Ticks
    BY <2>1 DEF history, ThreadStep, Publish, CommandReads, CommandCommits, Create,
                DeleteScope, Evaluate, PersistState, Fire, StorageFails
  <2>2. ASSUME DeliveryStep PROVE Ticks
    BY <2>2 DEF history, DeliveryStep, DeliveryTick, Claim, SendDuplicate, SendOk, SendFails,
                Finalize
  <2>3. ASSUME HydrationStep \/ LoopsRestart \/ Crash \/ UNCHANGED vars PROVE Ticks
    BY <2>3 DEF vars, history, HydrationStep, BeginHydration, ReadSnapshot, Hydrate, HydrationFails,
                LoopsRestart, Crash
  <2>4. Ticks
    BY <2>1, <2>2, <2>3 DEF Next
  <2> QED
    BY <2>4, Numbers DEF AlertsInv, RecordsTyped
<1>3. fired' \subseteq Firings
  <2>1. fired \subseteq Firings
    BY DEF AlertsInv, RecordsTyped
  <2>2. fired' = fired \/ \E a \in Alerts, e \in Stamps : fired' = fired \cup {<<a, e>>}
    BY TableMoves DEF Moves, Quietly, ChangesAll, DeleteScope, ChangesRow, RowChange, Claims,
                      Settles, Resets, Fires
  <2> QED
    BY <2>1, <2>2 DEF Firings
<1>4. remembered' \subseteq Messages /\ sends' \in [Messages -> Nat]
  <2>1. remembered \subseteq Messages /\ sends \in [Messages -> Nat]
    BY DEF AlertsInv, RecordsTyped
  <2> QED
    BY <2>1, SendMoves
<1> QED
  BY <1>1, <1>2, <1>3, <1>4, WorkStep, RegistryStep DEF RecordsTyped, RegistryTyped, Delivering

-----------------------------------------------------------------------------
(* The invariant and what follows from it *)

LEMMA AlertsInit == Init => AlertsInv
<1> SUFFICES ASSUME Init PROVE AlertsInv
  OBVIOUS
<1>1. PICK S \in SUBSET Alerts :
         table = [a \in Alerts |-> IF a \in S THEN NewRow(1, "none") ELSE None]
  BY DEF Init
<1>2. NewRow(1, "none") \in Rows /\ NewRow(1, "none").event = None
      /\ NewRow(1, "none").status = "cancelled"
  BY RowsMade, Numbers
<1>3. RecordsTyped
  <2>1. /\ registry = Nothing /\ hydration = Off /\ published = [t \in Threads |-> None]
        /\ work = [t \in Threads |-> None] /\ batch = {} /\ remembered = {} /\ clock = 1
        /\ fired = {} /\ sends = [m \in Messages |-> 0]
    BY DEF Init
  <2>2. Off \in [stage : {"off", "begun", "read", "done"},
                 snapshot : [Alerts -> Rows \cup {None}], log : Seq(Change)]
    <3>1. Nothing \in [Alerts -> Rows \cup {None}] /\ <<>> \in Seq(Change)
      BY DEF Nothing
    <3> QED
      BY <3>1 DEF Off
  <2>3. registry \in [Alerts -> Rows \cup {None}] /\ table \in [Alerts -> Rows \cup {None}]
    BY <1>1, <1>2, <2>1 DEF Nothing
  <2> QED
    BY <2>1, <2>2, <2>3, Numbers, Roles DEF RecordsTyped
<1>4. EventsFired /\ SentMeansSent
  BY <1>1, <1>2 DEF EventsFired, SentMeansSent
<1>5. OutboxSound /\ PublishedFirst
  BY Roles DEF Init, OutboxSound, PublishedFirst
<1>6. SendsRemembered /\ EveryFiringKept
  BY DEF Init, SendsRemembered, EveryFiringKept
<1>7. ChangesCurrent /\ RegistryFollows
  BY DEF Init, ChangesCurrent, RegistryFollows, Tells, Shows, Off
<1> QED
  BY <1>3, <1>4, <1>5, <1>6, <1>7 DEF AlertsInv

LEMMA AlertsInvariant == Spec => []AlertsInv
<1>1. AlertsInv /\ [Next]_vars => AlertsInv'
  BY TypedStep, EventsStep, OutboxStep, SendsStep, SentStep, IntentStep, PublishedFirstStep,
     ChangesStep, FollowsStep DEF AlertsInv
<1> QED
  BY <1>1, AlertsInit, PTL DEF Spec

\* A message is sent once, unless a send of it was in doubt or it was forgotten after
\* 15 minutes: retries, lapsed leases and restarts repeat nothing that is known to have
\* arrived, whichever alerts of one level it was sent for.
THEOREM NoDuplicateSendTheorem == Spec => []NoDuplicateSend
<1>1. AlertsInv => NoDuplicateSend
  BY DEF AlertsInv, SendsRemembered, RecordsTyped, NoDuplicateSend
<1> QED
  BY <1>1, AlertsInvariant, PTL

\* A row is settled only when the message of its newest firing was sent, for this alert
\* or for one of its level in the same pass, whatever happened to the row between claim
\* and finalization.
THEOREM SentMeansSentTheorem == Spec => []SentMeansSent
<1>1. AlertsInv => SentMeansSent
  BY DEF AlertsInv
<1> QED
  BY <1>1, AlertsInvariant, PTL

\* No firing is lost before its message is sent, for it or for an alert of its level in
\* the same pass, over crashes, failing attempts and races.
THEOREM IntentKeptTheorem == Spec => []IntentKept
<1>1. ASSUME AlertsInv, NEW f \in fired
      PROVE  Kept(f[1], f[2])
  <2>1. PICK a \in Alerts, e \in Stamps : f = <<a, e>>
    BY <1>1 DEF AlertsInv, RecordsTyped, Firings
  <2>2. Kept(a, e) /\ f[1] = a /\ f[2] = e
    BY <1>1, <2>1 DEF AlertsInv, EveryFiringKept
  <2> QED
    BY <2>2
<1>2. ASSUME AlertsInv, NEW f \in fired
      PROVE  \/ sends[Message(f[1], f[2])] > 0
             \/ f \in cancelled
             \/ table[f[1]] /= None /\ table[f[1]].event = f[2]
  <2>1. f = <<f[1], f[2]>>
    BY <1>2 DEF AlertsInv, RecordsTyped, Firings
  <2> QED
    BY <1>1, <1>2, <2>1 DEF Kept
<1>3. AlertsInv => IntentKept
  BY <1>2 DEF IntentKept
<1> QED
  BY <1>3, AlertsInvariant, PTL

\* With nothing left to publish the hydrated registry shows the table, up to alerts
\* whose publications raced; hydrations lose no change that arrives meanwhile.
THEOREM RegistryIsCurrentTheorem == Spec => []RegistryIsCurrent
<1>1. AlertsInv => RegistryIsCurrent
  BY DEF AlertsInv, RegistryFollows, RegistryIsCurrent, Tells, Shows
<1> QED
  BY <1>1, AlertsInvariant, PTL
=============================================================================
