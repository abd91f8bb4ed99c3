---------------------------- MODULE PaperJournal ----------------------------
(***************************************************************************)
(* The paper-trading journal of one physical scope and timeframe: the      *)
(* tables paper_orders, paper_positions and paper_fills with the           *)
(* transactions that change them (storage/repos/paper.py), the requests    *)
(* that place, patch, cancel and close (ui/paper/), the projection of      *)
(* pending orders and open positions (paper_journal_runtime.py) and the    *)
(* monitor that fills, rejects or cancels what it finds in the projection  *)
(* (ui/services/server_alert_monitor.py).                                  *)
(*                                                                         *)
(* Prices are left out: a pending order may be touched, rejected by its    *)
(* plan or left alone at any time.  Quantities are whole numbers, long     *)
(* positive.  An execution command is what the fill compares of it: the    *)
(* quantity and the trigger level, a number that a patch increases; the    *)
(* command of a manual close has neither.                                  *)
(***************************************************************************)
EXTENDS Integers, Sequences, FiniteSets, FiniteSetsExt, Functions

CONSTANTS Entries,   \* ids of entry orders
          Signals,   \* the ones that a signal makes
          Sizes,     \* Sizes[e]: signed quantities that entry e may ask for
          Closes,    \* ids of manual close commands
          Protect,   \* Protect[e]: which of "stop" and "take" entry e asks for
          Traders,   \* request threads
          SignalQty, \* quantity of a signal's entry
          Movable,   \* bound: the orders that a request patches ...
          MaxPatches,\* ... and how often
          None

Monitor == "monitor"
Threads == Traders \cup {Monitor}
Children == Entries \X {"stop", "take"}
Orders == Entries \cup Closes \cup Children
Exits == Closes \cup Children
Positions == Entries \X {"pos", "rev"}

\* What the entry of a signal expects of the open position.
AnyPosition == [state |-> "any"]
Absent == [state |-> "absent"]
Expectations ==
    {AnyPosition, Absent} \cup [state : {"open"}, pos : Positions, qty : Int, version : Nat]

OrderRows ==
    [id : Orders, role : {"entry", "close", "stop", "take"}, side : {-1, 1}, qty : Nat \ {0},
     level : Nat, pos : Positions \cup {None}, expect : Expectations, at : Nat,
     status : {"pending", "filled", "cancelled"}, command : {None} \cup [qty : Nat, level : Nat]]

PositionRows == [status : {"open", "closed"}, qty : Int, version : Nat]

ASSUME PaperJournalAssumption ==
    /\ Protect \in [Entries -> SUBSET {"stop", "take"}]
    /\ Signals \subseteq Entries
    /\ Sizes \in [Entries -> SUBSET (Int \ {0})]
    /\ SignalQty \in Nat \ {0}
    /\ \A e \in Signals : Sizes[e] \subseteq {-SignalQty, SignalQty}
    /\ MaxPatches \in Nat
    /\ IsFiniteSet(Orders)
    /\ Entries \cap Closes = {} /\ Children \cap (Entries \cup Closes) = {}

ASSUME NoneIsNoRow == None \notin OrderRows \cup PositionRows

VARIABLES
    orders,     \* paper_orders
    positions,  \* paper_positions
    fills,      \* paper_fills of each order
    work,       \* per request thread: what it has read and is about to do
    marks,      \* threads that have committed and not yet called mark_committed
    stale,      \* _loaded_generation differs from _generation
    moved,      \* _generation has moved since the refresh captured it
    snapshot,   \* _pending_orders and _open_positions
    tick        \* the monitor's tick: step, orders left and open positions

journal == <<orders, positions, fills>>
runtime == <<stale, moved, snapshot>>
vars == <<journal, work, marks, runtime, tick>>

Abs(n) == IF n < 0 THEN -n ELSE n
Sign(n) == IF n < 0 THEN -1 ELSE 1

\* The group of orders that share one protected quantity.
Group(o) == IF o \in Children THEN o[1] ELSE o

\* _paper_order_command_payload.
Command(r) == IF r.role = "close" THEN None ELSE [qty |-> r.qty, level |-> r.level]

NewOrder(o, role, side, qty, pos, expect) ==
    LET r == [id |-> o, role |-> role, side |-> side, qty |-> qty, level |-> 0,
              pos |-> pos, expect |-> expect, at |-> 0, status |-> "pending",
              command |-> None]
    IN  [r EXCEPT !.command = Command(r)]

\* The row as it is inserted, younger than every other.
Created(r) ==
    [r EXCEPT !.at = 1 + Cardinality({o \in Orders : orders[o] /= None})]

Pending == {o \in Orders : orders[o] /= None /\ orders[o].status = "pending"}
Open == {p \in Positions : positions[p] /= None /\ positions[p].status = "open"}

Nothing == [orders |-> {}, open |-> {}]
Idle == [step |-> "idle", orders |-> {}, open |-> {}]

TypeOK ==
    /\ orders \in [Orders -> OrderRows \cup {None}]
    /\ \A o \in Orders : orders[o] /= None =>
          orders[o].id = o /\ (o \in Exits => orders[o].pos \in Positions)
    /\ positions \in [Positions -> PositionRows \cup {None}]
    /\ \A p \in Positions : positions[p] /= None =>
          (positions[p].status = "open") <=> (positions[p].qty /= 0)
    /\ fills \in [Orders -> Seq([pos : Positions, delta : Int])]
    /\ DOMAIN work = Traders
    /\ marks \subseteq Threads
    /\ stale \in BOOLEAN /\ moved \in BOOLEAN
    /\ snapshot \in [orders : SUBSET OrderRows, open : SUBSET Positions]
    /\ tick \in [step : {"idle", "orders", "positions", "publish", "run"},
                 orders : SUBSET OrderRows, open : SUBSET Positions]

Init ==
    /\ orders = [o \in Orders |-> None]
    /\ positions = [p \in Positions |-> None]
    /\ fills = [o \in Orders |-> <<>>]
    /\ work = [t \in Traders |-> None]
    /\ marks = {}
    /\ stale = TRUE /\ moved = FALSE
    /\ snapshot = Nothing
    /\ tick = Idle

-----------------------------------------------------------------------------
(* The fill transaction *)

\* Mutant: an exit takes whatever position is open.
MutantLocked(r) == Open

\* _locked_paper_fill_position: an exit looks for the position it was made for,
\* an entry for the one that is open.
Locked(r) == IF r.id \in Exits THEN Open \cap {r.pos} ELSE Open

\* _paper_position_expectation_rejection.
Unexpected(r, ps) ==
    \/ r.expect.state = "absent" /\ ps /= {}
    \/ /\ r.expect.state = "open"
       /\ \A p \in ps : [pos |-> p, qty |-> positions[p].qty,
                         version |-> positions[p].version]
                          /= [pos |-> r.expect.pos, qty |-> r.expect.qty,
                              version |-> r.expect.version]

\* _paper_fill_delta.
Delta(r, q) ==
    CASE r.role = "close" -> -q
      [] r.role \in {"stop", "take"} -> r.side * Min({Abs(q), r.qty})
      [] OTHER -> r.side * r.qty

QtyOf(p) == IF positions[p] = None THEN 0 ELSE positions[p].qty

Moved(p, q) ==
    [status |-> IF q = 0 THEN "closed" ELSE "open", qty |-> q,
     version |-> IF positions[p] = None THEN 1 ELSE positions[p].version + 1]

\* _transition_paper_position: a fill that goes through zero closes the position
\* and opens another one.
Reverses(q, d) == q * (q + d) < 0
Final(r, p, d) == IF Reverses(QtyOf(p), d) THEN <<r.id, "rev">> ELSE p

Transitioned(r, p, d) ==
    LET q == QtyOf(p) + d
    IN  IF Reverses(QtyOf(p), d)
        THEN [positions EXCEPT ![p] = Moved(p, 0), ![Final(r, p, d)] = Moved(Final(r, p, d), q)]
        ELSE [positions EXCEPT ![p] = Moved(p, q)]

\* The pending exits of position p, order o left out.
ExitsOf(p, o) == {x \in (Pending \cap Exits) \ {o} : orders[x].pos = p}

\* Orders the fill of r cancels: the siblings of an exit, and every exit of a
\* position that it closes.
Dead(r, p, d) ==
    {x \in Pending \ {r.id} : r.id \in Children /\ x \in Children /\ Group(x) = Group(r.id)}
      \cup (IF QtyOf(p) + d = 0 \/ Reverses(QtyOf(p), d) THEN ExitsOf(p, r.id) ELSE {})

\* _sync_paper_protective_orders: the groups of exits share the quantity q in the
\* order of their creation.
GroupQty(X, g) == Max({orders[x].qty : x \in {y \in X : Group(y) = g}})
Groups(X) == {Group(y) : y \in X}
GroupAt(X, g) == Min({orders[x].at : x \in {y \in X : Group(y) = g}})

\* Mutant: exits keep their quantity when the position shrinks.
MutantAdmitted(X, x, q) == GroupQty(X, Group(x))

Admitted(X, x, q) ==
    LET earlier == {g \in Groups(X) : GroupAt(X, g) < GroupAt(X, Group(x))}
        taken == SumFunctionOnSet([g \in Groups(X) |-> GroupQty(X, g)], earlier)
    IN  Min({GroupQty(X, Group(x)), Max({0, q - taken})})

Resized(r, n) ==
    LET s == [r EXCEPT !.qty = n] IN
    CASE n = 0 -> [r EXCEPT !.status = "cancelled"]
      [] n = r.qty -> r
      [] OTHER -> [s EXCEPT !.command = Command(s)]

\* _paper_entry_protective_qty, 0 when the entry only reduces.
ProtectiveQty(q, d) ==
    IF Reverses(q, d) THEN Abs(q + d) ELSE IF q * d >= 0 THEN Abs(d) ELSE 0

\* _create_paper_fill_protective_orders.
ChildrenOf(r, q, d) ==
    IF r.id \in Entries /\ ProtectiveQty(q, d) > 0
    THEN {<<r.id, k>> : k \in Protect[r.id]} ELSE {}

\* _apply_paper_fill_with_cursor for a position p that is locked or new.
Execute(r, p) ==
    LET q == QtyOf(p)
        d == Delta(r, q)
        final == Final(r, p, d)
        dead == Dead(r, p, d)
        kept == IF q + d = 0 THEN {} ELSE ExitsOf(final, r.id) \ dead
        new == ChildrenOf(r, q, d)
    IN  /\ positions' = Transitioned(r, p, d)
        /\ fills' = [fills EXCEPT ![r.id] = Append(@, [pos |-> final, delta |-> d])]
        /\ \E share \in [kept -> UNION {0..orders[o].qty : o \in kept}] :
              /\ \A o \in kept : share[o] = Admitted(kept, o, Abs(q + d))
              /\ orders' = [o \in Orders |->
                    CASE o = r.id -> [orders[o] EXCEPT !.status = "filled", !.qty = Abs(d),
                                                       !.pos = final]
                      [] o \in dead -> [orders[o] EXCEPT !.status = "cancelled"]
                      [] o \in kept -> Resized(orders[o], share[o])
                      [] o \in new -> Created(NewOrder(o, o[2], -Sign(q + d),
                                                 ProtectiveQty(q, d), final, AnyPosition))
                      [] OTHER -> orders[o]]

Cancelled(o) == [orders EXCEPT ![o].status = "cancelled"]

\* Mutant: a settled order fills again.
MutantFillable(r) == orders[r.id].command = Command(r)

\* _paper_fill_existing_order_outcome: the order is pending and the caller's copy
\* has its current command.
Fillable(r) ==
    /\ orders[r.id].status = "pending"
    /\ orders[r.id].command = Command(r)

\* apply_filled_paper_order commits.
Applies(r) ==
    /\ Fillable(r)
    /\ LET ps == Locked(r)
       IN  IF Unexpected(r, ps) \/ (r.id \in Exits /\ ps = {})
           THEN /\ orders' = Cancelled(r.id)
                /\ UNCHANGED <<positions, fills>>
           ELSE \E p \in (IF ps = {} THEN {<<r.id, "pos">>} ELSE ps) : Execute(r, p)

-----------------------------------------------------------------------------
(* Requests *)

Free(t) == t \in Traders /\ work[t] = None /\ t \notin marks
Does(t, w) == work' = [work EXCEPT ![t] = w]
Commits(t) == marks' = marks \cup {t}

\* create_paper_order_action: a manual entry.
PlanEntry(t, e) ==
    /\ Free(t) /\ e \notin Signals
    /\ \E n \in Sizes[e] :
          Does(t, [step |-> "reserve",
                   row |-> NewOrder(e, "entry", Sign(n), Abs(n), None, AnyPosition)])
    /\ UNCHANGED <<journal, marks, runtime, tick>>

\* paper_open_signal_position: no position is open.
PlanOpen(t, e) ==
    /\ Free(t) /\ e \in Signals /\ Open = {}
    /\ \E n \in Sizes[e] :
          Does(t, [step |-> "reserve", row |-> NewOrder(e, "entry", Sign(n), SignalQty, None, Absent)])
    /\ UNCHANGED <<journal, marks, runtime, tick>>

\* paper_flip_signal_position: the signal opposes the open position.
PlanFlip(t, e) ==
    /\ Free(t) /\ e \in Signals
    /\ \E p \in Open, n \in Sizes[e] :
          LET q == positions[p].qty
          IN  /\ n * q < 0
              /\ Does(t, [step |-> "reserve",
                          row |-> NewOrder(e, "entry", Sign(n), Abs(q) + SignalQty, None,
                                    [state |-> "open", pos |-> p, qty |-> q,
                                     version |-> positions[p].version])])
    /\ UNCHANGED <<journal, marks, runtime, tick>>

\* close_paper_trade_action reads an open position.
PlanClose(t, c) ==
    /\ Free(t)
    /\ \E p \in Open :
          LET q == positions[p].qty
          IN  Does(t, [step |-> "reserve",
                       row |-> NewOrder(c, "close", -Sign(q), Abs(q), p,
                                        AnyPosition)])
    /\ UNCHANGED <<journal, marks, runtime, tick>>

\* The command in r is the command the order was created with; a signal resumes
\* its stored command.
SameCommand(r) ==
    LET s == orders[r.id]
    IN  \/ r.role = "close" /\ s.pos = r.pos
        \/ r.expect /= AnyPosition /\ s.expect /= AnyPosition
        \/ r.role = "entry" /\ <<s.side, s.qty, s.expect>> = <<r.side, r.qty, r.expect>>

\* upsert_paper_order inserts the order.
Reserve(t) ==
    /\ t \in Traders /\ work[t] /= None /\ work[t].step = "reserve"
    /\ LET r == Created(work[t].row)
       IN  /\ orders[r.id] = None
           /\ orders' = [orders EXCEPT ![r.id] = r]
           /\ Does(t, [step |-> "resolve", row |-> r])
    /\ Commits(t)
    /\ UNCHANGED <<positions, fills, runtime, tick>>

\* The id is taken: the stored order is used, or the request fails.
ReserveAgain(t) ==
    /\ t \in Traders /\ work[t] /= None /\ work[t].step = "reserve"
    /\ LET r == work[t].row
       IN  /\ orders[r.id] /= None
           /\ Does(t, IF SameCommand(r) THEN [step |-> "resolve", row |-> orders[r.id]]
                                        ELSE None)
    /\ UNCHANGED <<journal, marks, runtime, tick>>

\* A client sends a command again that it has no answer to.
Resubmit(t, o) ==
    /\ Free(t)
    /\ o \in Entries \cup Closes
    /\ orders[o] /= None
    /\ Does(t, [step |-> "resolve", row |-> orders[o]])
    /\ UNCHANGED <<journal, marks, runtime, tick>>

Resolving(t) ==
    t \in Traders /\ work[t] /= None /\ work[t].step = "resolve" /\ t \notin marks

\* A settled command is only replayed, an untouched one stays pending, and a fill
\* with an outdated copy of the order fails.
Answer(t) ==
    /\ Resolving(t)
    /\ Does(t, None)
    /\ UNCHANGED <<journal, marks, runtime, tick>>

\* submit_paper_order_execution fills the order.
Fill(t) ==
    /\ Resolving(t)
    /\ work[t].row.status = "pending"
    /\ Applies(work[t].row)
    /\ Does(t, None) /\ Commits(t)
    /\ UNCHANGED <<runtime, tick>>

\* reject_paper_order_execution_if_pending.
Reject(t) ==
    /\ Resolving(t)
    /\ work[t].row.id \in Pending
    /\ orders' = Cancelled(work[t].row.id)
    /\ Does(t, None) /\ Commits(t)
    /\ UNCHANGED <<positions, fills, runtime, tick>>

\* cancel_paper_order_action.
Cancel(t, o) ==
    /\ Free(t)
    /\ o \in Pending
    /\ orders' = Cancelled(o)
    /\ Commits(t)
    /\ UNCHANGED <<positions, fills, work, runtime, tick>>

Patches == MapThenSumSet(LAMBDA o : IF orders[o] = None THEN 0 ELSE orders[o].level, Orders)

\* patch_paper_order_action reads the order ...
ReadForPatch(t, o) ==
    /\ Free(t)
    /\ o \in Pending \cap Movable /\ Patches < MaxPatches
    /\ Does(t, [step |-> "patch", row |-> orders[o]])
    /\ UNCHANGED <<journal, marks, runtime, tick>>

\* ... and update_paper_order_if_pending writes the new level, with the command of
\* the copy that was read; the quantity is not written.
Patch(t) ==
    /\ t \in Traders /\ work[t] /= None /\ work[t].step = "patch"
    /\ LET r == [work[t].row EXCEPT !.level = @ + 1]
       IN  IF r.id \in Pending
           THEN /\ orders' = [orders EXCEPT ![r.id].level = r.level,
                                            ![r.id].command = Command(r)]
                /\ Commits(t)
           ELSE UNCHANGED <<orders, marks>>
    /\ Does(t, None)
    /\ UNCHANGED <<positions, fills, runtime, tick>>

-----------------------------------------------------------------------------
(* The projection and the monitor *)

\* mark_committed.
Mark(t) ==
    /\ t \in marks
    /\ marks' = marks \ {t}
    /\ stale' = TRUE /\ moved' = TRUE
    /\ UNCHANGED <<journal, work, snapshot, tick>>

\* active_snapshot finds the projection out of date.
Refresh ==
    /\ tick.step = "idle" /\ stale /\ Monitor \notin marks
    /\ tick' = [Idle EXCEPT !.step = "orders"]
    /\ moved' = FALSE
    /\ UNCHANGED <<journal, work, marks, stale, snapshot>>

\* _refresh_snapshot_owned: orders first ...
ReadOrders ==
    /\ tick.step = "orders"
    /\ tick' = [tick EXCEPT !.step = "positions", !.orders = {orders[o] : o \in Pending}]
    /\ UNCHANGED <<journal, work, marks, runtime>>

\* Mutant: the positions of the last projection are kept.
MutantReadPositions ==
    /\ tick.step = "positions"
    /\ tick' = [tick EXCEPT !.step = "publish", !.open = snapshot.open]
    /\ UNCHANGED <<journal, work, marks, runtime>>

\* ... then positions.
ReadPositions ==
    /\ tick.step = "positions"
    /\ tick' = [tick EXCEPT !.step = "publish", !.open = Open]
    /\ UNCHANGED <<journal, work, marks, runtime>>

\* Mutant: a commit during the refresh is overlooked.
MutantPublishSnapshot ==
    /\ tick.step = "publish"
    /\ snapshot' = [orders |-> tick.orders, open |-> tick.open]
    /\ stale' = FALSE /\ moved' = FALSE
    /\ tick' = [tick EXCEPT !.step = "run"]
    /\ UNCHANGED <<journal, work, marks>>

\* publish_snapshot: the rows are read again when the generation has moved.
PublishSnapshot ==
    /\ tick.step = "publish"
    /\ IF moved
       THEN /\ tick' = [Idle EXCEPT !.step = "orders"]
            /\ UNCHANGED <<stale, snapshot>>
       ELSE /\ snapshot' = [orders |-> tick.orders, open |-> tick.open]
            /\ stale' = FALSE
            /\ tick' = [tick EXCEPT !.step = "run"]
    /\ moved' = FALSE
    /\ UNCHANGED <<journal, work, marks>>

\* active_snapshot finds it up to date.
Reuse ==
    /\ tick.step = "idle" /\ ~stale /\ Monitor \notin marks
    /\ snapshot.orders /= {}
    /\ tick' = [step |-> "run", orders |-> snapshot.orders, open |-> snapshot.open]
    /\ UNCHANGED <<journal, work, marks, runtime>>

Rank == [stop |-> 0, close |-> 1, take |-> 2]

\* _qualified_paper_orders: exits before entries, the exits of a position by role
\* and age.
Before(r, s) ==
    \/ r.id \in Exits /\ s.id \in Entries
    \/ /\ r.id \in Exits /\ s.id \in Exits
       /\ r.pos = s.pos
       /\ Rank[r.role] < Rank[s.role] \/ (r.role = s.role /\ r.at < s.at)
    \/ r.id \in Entries /\ s.id \in Entries /\ r.at < s.at

Turn(r) ==
    /\ tick.step = "run" /\ Monitor \notin marks
    /\ r \in tick.orders
    /\ \A s \in tick.orders : ~Before(s, r)

\* The rest of the tick without r.
Rest(R) == IF R = {} THEN Idle ELSE [tick EXCEPT !.orders = R]
Left(r) == tick' = Rest(tick.orders \ {r})

Detached(r) == r.id \in Exits /\ r.pos \notin tick.open

\* The order is not touched, or is no longer pending.
Pass(r) ==
    /\ Turn(r)
    /\ ~Detached(r) \/ r.id \notin Pending
    /\ Left(r)
    /\ UNCHANGED <<journal, work, marks, runtime>>

\* cancel_paper_order_if_pending for an exit without an open position.
CancelDetached(r) ==
    /\ Turn(r)
    /\ Detached(r) /\ r.id \in Pending
    /\ orders' = Cancelled(r.id)
    /\ Left(r) /\ Commits(Monitor)
    /\ UNCHANGED <<positions, fills, work, runtime>>

\* _reject_paper_execution.
MonitorRejects(r) ==
    /\ Turn(r)
    /\ ~Detached(r) /\ r.id \in Pending
    /\ orders' = Cancelled(r.id)
    /\ Left(r) /\ Commits(Monitor)
    /\ UNCHANGED <<positions, fills, work, runtime>>

\* _apply_paper_execution.
MonitorFills(r) ==
    /\ Turn(r)
    /\ ~Detached(r)
    /\ Applies(r)
    /\ Left(r) /\ Commits(Monitor)
    /\ UNCHANGED <<work, runtime>>

\* The order has another command by now, or was cancelled; a close of a position
\* that is closed is only replayed.
Collides(r) ==
    LET s == orders[r.id]
    IN  \/ s.status = "pending" /\ s.command /= Command(r)
        \/ /\ s.status = "cancelled"
           /\ r.role = "close" => positions[r.pos].status /= "closed"

\* The fill raises, and the tick with it.
MonitorFails(r) ==
    /\ Turn(r)
    /\ ~Detached(r) /\ Collides(r)
    /\ tick' = Idle
    /\ UNCHANGED <<journal, work, marks, runtime>>

\* The process dies; requests, projection and tick are gone.
Crash ==
    /\ work' = [t \in Traders |-> None]
    /\ marks' = {}
    /\ stale' = TRUE /\ moved' = FALSE
    /\ snapshot' = Nothing
    /\ tick' = Idle
    /\ UNCHANGED journal

Request(t) ==
    \/ \E e \in Entries : PlanEntry(t, e) \/ PlanOpen(t, e) \/ PlanFlip(t, e)
    \/ \E c \in Closes : PlanClose(t, c)
    \/ Reserve(t) \/ ReserveAgain(t)
    \/ \E o \in Orders : Resubmit(t, o) \/ Cancel(t, o) \/ ReadForPatch(t, o)
    \/ Answer(t) \/ Fill(t) \/ Reject(t) \/ Patch(t)

MonitorStep ==
    \/ Refresh \/ ReadOrders \/ ReadPositions \/ PublishSnapshot \/ Reuse
    \/ \E r \in tick.orders :
          Pass(r) \/ CancelDetached(r) \/ MonitorRejects(r) \/ MonitorFills(r)
            \/ MonitorFails(r)

Next ==
    \/ \E t \in Traders : Request(t)
    \/ \E t \in Threads : Mark(t)
    \/ MonitorStep
    \/ Crash

Spec == Init /\ [][Next]_vars

-----------------------------------------------------------------------------
(* Properties *)

\* What order o has moved, over all its fill rows.
FilledQty(o) == SumFunction([i \in DOMAIN fills[o] |-> fills[o][i].delta])

\* The book balances: one position is open at a time and holds what was filled, and
\* an order has one fill row exactly when it is filled, whatever requests are
\* repeated and whoever fills.
BookBalances ==
    /\ Cardinality(Open) <= 1
    /\ SumFunction([o \in Orders |-> FilledQty(o)]) = SumFunction([p \in Open |-> positions[p].qty])
    /\ \A o \in Orders : Len(fills[o]) =
          IF orders[o] /= None /\ orders[o].status = "filled" THEN 1 ELSE 0

\* What the groups of exits in X take of a position together.
Demand(X) == SumFunction([g \in Groups(X) |-> GroupQty(X, g)])

\* Protection fits: a pending stop or take faces an open position, and the groups
\* together are no larger than it, over additions, reductions, reversals, single
\* cancellations and exits.
ProtectionFits ==
    LET X == Pending \cap Children
    IN  \A x \in X :
          /\ orders[x].pos \in Open
          /\ orders[x].side * positions[orders[x].pos].qty < 0
          /\ Demand({y \in X : orders[y].pos = orders[x].pos}) <= Abs(positions[orders[x].pos].qty)

\* An exit fills on the position it was placed for and only takes it towards zero;
\* a signal entry fills on the position it was planned on: it opens a new one.
FillsAreIntended ==
    [][\A o \in Orders : fills'[o] /= fills[o] =>
          LET f == fills'[o][Len(fills'[o])]
              p == orders[o].pos
          IN  /\ o \in Exits => /\ f.pos = p
                                /\ f.delta * positions[p].qty < 0
                                /\ Abs(f.delta) <= Abs(positions[p].qty)
              /\ orders[o].expect /= AnyPosition =>
                   f.pos = <<o, IF orders[o].expect = Absent THEN "pos" ELSE "rev">>]_vars

\* The monitor cancels an exit only when its position is gone, although orders and
\* positions are read at different times.
LiveExitsKept ==
    [][\A r \in tick.orders :
          CancelDetached(r) => positions[r.pos].status = "closed"]_vars

\* When every commit has been marked, a loaded projection shows the tables.
ProjectionIsCurrent ==
    ~stale /\ marks = {} =>
        snapshot = [orders |-> {orders[o] : o \in Pending}, open |-> Open]
=============================================================================
