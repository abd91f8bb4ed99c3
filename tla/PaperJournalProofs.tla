-------------------------- MODULE PaperJournalProofs --------------------------
(***************************************************************************)
(* Theorems about the paper journal: PaperJournal shows the tables in a    *)
(* marked projection, keeps the exits of open positions, and fills every   *)
(* order on the position it was meant for, for any orders, traders and     *)
(* bounds.                                                                 *)
(*                                                                         *)
(* Requests and the monitor work on copies of rows.  JournalInv says what  *)
(* of a copy stays true while its order is pending, that a position that   *)
(* is closed never opens again, and that an exit faces its position.       *)
(***************************************************************************)
EXTENDS PaperJournal, FiniteSetTheorems, WellFoundedInduction, TLAPS

Roles(o) == IF o \in Closes THEN {"close"} ELSE IF o \in Entries THEN {"entry"} ELSE {"stop", "take"}

\* What a signal's entry expects, and the quantity it asks for.
Expects(r) ==
    \/ r.expect = AnyPosition
    \/ r.id \in Entries /\ r.expect = Absent
    \/ /\ r.id \in Entries
       /\ r.expect.state = "open" /\ r.expect.qty \in Int
       /\ r.qty = Abs(r.expect.qty) + SignalQty /\ r.side * r.expect.qty < 0

\* A row of paper_orders, or a copy of one: an exit names one of the positions ps.
Row(r, ps) ==
    /\ r \in OrderRows /\ r.role \in Roles(r.id) /\ Expects(r)
    /\ r.id \in Exits => r.pos \in Positions /\ ps[r.pos] /= None

\* A copy of a row of os: while the order is pending, all but level and size is the same.
Copy(r, os, ps) ==
    /\ Row(r, ps) /\ os[r.id] /= None
    /\ os[r.id].status = "pending" =>
          /\ os[r.id].side = r.side /\ os[r.id].expect = r.expect
          /\ r.id \in Exits => os[r.id].pos = r.pos

TablesTyped ==
    /\ orders \in [Orders -> OrderRows \cup {None}]
    /\ positions \in [Positions -> PositionRows \cup {None}]
    /\ fills \in [Orders -> Seq([pos : Positions, delta : Int])]
    /\ \A o \in Orders : orders[o] /= None => orders[o].id = o /\ Row(orders[o], positions)
    /\ \A p \in Positions : positions[p] /= None =>
          (positions[p].status = "open") <=> (positions[p].qty /= 0)

\* A request holds a row that it made, or a copy.
Holds(w, os, ps) ==
    /\ Row(w.row, ps)
    /\ w.step = "reserve" => w.row.id \in Entries \cup Closes /\ w.row.status = "pending"
    /\ w.step /= "reserve" => Copy(w.row, os, ps)

CopiesHold ==
    /\ DOMAIN work = Traders
    /\ snapshot \in [orders : SUBSET OrderRows, open : SUBSET Positions]
    /\ tick \in [step : {"idle", "orders", "positions", "publish", "run"},
                 orders : SUBSET OrderRows, open : SUBSET Positions]
    /\ \A t \in Traders : work[t] /= None => Holds(work[t], orders, positions)
    /\ \A r \in tick.orders \cup snapshot.orders : Copy(r, orders, positions)

OneOpen == \A p, q \in Open : p = q

\* Before an entry has filled, its positions and its exits do not exist.
Unborn ==
    \A e \in Entries : orders[e] = None \/ orders[e].status = "pending" =>
        /\ positions[<<e, "pos">>] = None /\ positions[<<e, "rev">>] = None
        /\ \A k \in {"stop", "take"} : orders[<<e, k>>] = None

\* A pending stop or take faces an open position.
Facing ==
    \A x \in Pending \cap Children :
        orders[x].pos \in Open /\ orders[x].side * positions[orders[x].pos].qty < 0

FilledOnce ==
    \A o \in Orders :
        /\ orders[o] /= None /\ orders[o].status = "filled" => Len(fills[o]) = 1
        /\ orders[o] = None \/ orders[o].status /= "filled" => fills[o] = <<>>

\* What the monitor takes for closed is closed.
ClosedSeen ==
    /\ tick.step \in {"publish", "run"} =>
          \A r \in tick.orders : r.id \in Exits /\ r.pos \notin tick.open =>
              positions[r.pos].status = "closed"
    /\ \A r \in snapshot.orders : r.id \in Exits /\ r.pos \notin snapshot.open =>
          positions[r.pos].status = "closed"

TablesInv == TablesTyped /\ OneOpen /\ Unborn /\ Facing /\ FilledOnce

JournalInv == TablesInv /\ CopiesHold /\ ClosedSeen

PendingRows == {orders[o] : o \in Pending}

\* A refresh that no commit has overtaken, and the projection it leaves, are current.
ProjectionInv ==
    /\ ~stale /\ marks = {} => snapshot.orders = PendingRows /\ snapshot.open = Open
    /\ ~moved /\ marks = {} =>
          /\ tick.step \in {"positions", "publish"} => tick.orders = PendingRows
          /\ tick.step = "publish" => tick.open = Open

-----------------------------------------------------------------------------
(* Ids, rows and arithmetic *)

LEMMA Ids ==
    /\ Entries \cap Exits = {} /\ Closes \cap Children = {} /\ Entries \cup Exits = Orders
    /\ \A e \in Entries, k \in {"stop", "take"} :
          <<e, k>> \in Children /\ <<e, k>> \in Orders /\ <<e, k>> \notin Entries
    /\ \A e \in Entries, k \in {"pos", "rev"} : <<e, k>> \in Positions
  BY PaperJournalAssumption DEF Exits, Orders, Children, Positions

LEMMA NoneIsApart == /\ \A r \in OrderRows : r /= None
                    /\ \A s \in PositionRows : s /= None
  BY NoneIsNoRow

\* Row s has the terms of row r: what no transaction changes of a row.
SameTerms(s, r) ==
    /\ s \in OrderRows /\ s /= None
    /\ s.id = r.id /\ s.role = r.role /\ s.side = r.side /\ s.expect = r.expect

Commands == {None} \cup [qty : Nat, level : Nat]

LEMMA CommandType == \A r \in OrderRows : Command(r) \in Commands
  BY DEF OrderRows, Command, Commands

LEMMA SameRow == \A r \in OrderRows : SameTerms(r, r)
  BY NoneIsApart DEF SameTerms

LEMMA CancelledRows ==
    ASSUME NEW r \in OrderRows, NEW s, s = [r EXCEPT !.status = "cancelled"]
    PROVE  SameTerms(s, r) /\ s.status = "cancelled" /\ s.qty = r.qty /\ s.pos = r.pos /\ s.at = r.at
<1>1. s \in OrderRows
  BY DEF OrderRows, Commands
<1>2. /\ s.id = r.id /\ s.role = r.role /\ s.side = r.side /\ s.expect = r.expect
      /\ s.status = "cancelled" /\ s.qty = r.qty /\ s.pos = r.pos /\ s.at = r.at
  BY DEF OrderRows
<1> QED
  BY <1>1, <1>2, NoneIsApart DEF SameTerms

LEMMA LeveledRows ==
    ASSUME NEW r \in OrderRows, NEW n \in Nat, NEW c \in Commands, NEW s, s = [r EXCEPT !.level = n, !.command = c]
    PROVE  SameTerms(s, r) /\ s.status = r.status /\ s.qty = r.qty /\ s.pos = r.pos /\ s.at = r.at
<1>1. s \in OrderRows
  BY DEF OrderRows, Commands
<1>2. /\ s.id = r.id /\ s.role = r.role /\ s.side = r.side /\ s.expect = r.expect
      /\ s.status = r.status /\ s.qty = r.qty /\ s.pos = r.pos /\ s.at = r.at
  BY DEF OrderRows
<1> QED
  BY <1>1, <1>2, NoneIsApart DEF SameTerms

LEMMA StampedRows ==
    ASSUME NEW r \in OrderRows, NEW n \in Nat, NEW s, s = [r EXCEPT !.at = n]
    PROVE  SameTerms(s, r) /\ s.status = r.status /\ s.qty = r.qty /\ s.pos = r.pos /\ s.at = n
<1>1. s \in OrderRows
  BY DEF OrderRows, Commands
<1>2. /\ s.id = r.id /\ s.role = r.role /\ s.side = r.side /\ s.expect = r.expect
      /\ s.status = r.status /\ s.qty = r.qty /\ s.pos = r.pos /\ s.at = n
  BY DEF OrderRows
<1> QED
  BY <1>1, <1>2, NoneIsApart DEF SameTerms

LEMMA SizedRows ==
    ASSUME NEW r \in OrderRows, NEW n \in Nat \ {0}, NEW s, s = [r EXCEPT !.qty = n]
    PROVE  SameTerms(s, r) /\ s.status = r.status /\ s.qty = n /\ s.pos = r.pos /\ s.at = r.at
<1>1. s \in OrderRows
  BY DEF OrderRows, Commands
<1>2. /\ s.id = r.id /\ s.role = r.role /\ s.side = r.side /\ s.expect = r.expect
      /\ s.status = r.status /\ s.qty = n /\ s.pos = r.pos /\ s.at = r.at
  BY DEF OrderRows
<1> QED
  BY <1>1, <1>2, NoneIsApart DEF SameTerms

LEMMA CommandedRows ==
    ASSUME NEW r \in OrderRows, NEW c \in Commands, NEW s, s = [r EXCEPT !.command = c]
    PROVE  SameTerms(s, r) /\ s.status = r.status /\ s.qty = r.qty /\ s.pos = r.pos /\ s.at = r.at
<1>1. s \in OrderRows
  BY DEF OrderRows, Commands
<1>2. /\ s.id = r.id /\ s.role = r.role /\ s.side = r.side /\ s.expect = r.expect
      /\ s.status = r.status /\ s.qty = r.qty /\ s.pos = r.pos /\ s.at = r.at
  BY DEF OrderRows
<1> QED
  BY <1>1, <1>2, NoneIsApart DEF SameTerms

LEMMA CreatedRows ==
    ASSUME NEW r \in OrderRows, NEW s, s = Created(r)
    PROVE  /\ SameTerms(s, r) /\ s.status = r.status /\ s.qty = r.qty /\ s.pos = r.pos
           /\ s.at = 1 + Cardinality({o \in Orders : orders[o] /= None})
<1> DEFINE n == 1 + Cardinality({o \in Orders : orders[o] /= None})
<1>1. n \in Nat
  <2>1. IsFiniteSet({o \in Orders : orders[o] /= None})
    BY PaperJournalAssumption, FS_Subset
  <2> QED
    BY <2>1, FS_CardinalityType
<1>2. s = [r EXCEPT !.at = n]
  BY DEF Created
<1> HIDE DEF n
<1>3. SameTerms(s, r) /\ s.status = r.status /\ s.qty = r.qty /\ s.pos = r.pos /\ s.at = n
  BY <1>1, <1>2, StampedRows
<1> QED
  BY <1>3 DEF n

\* A resized exit is cancelled or goes on with its new quantity.
LEMMA ResizedRows ==
    ASSUME NEW r \in OrderRows, NEW n \in Nat
    PROVE  /\ SameTerms(Resized(r, n), r) /\ Resized(r, n).pos = r.pos /\ Resized(r, n).at = r.at
           /\ Resized(r, n).status \in {r.status, "cancelled"}
           /\ Resized(r, n).status /= "cancelled" => n /= 0 /\ Resized(r, n).qty = n
<1>1. CASE n = 0
  <2>1. Resized(r, n) = [r EXCEPT !.status = "cancelled"]
    BY <1>1 DEF Resized, OrderRows
  <2> QED
    BY <2>1, CancelledRows
<1>2. CASE n /= 0 /\ n = r.qty
  BY <1>2, SameRow DEF Resized
<1>3. CASE n /= 0 /\ n /= r.qty
  <2> DEFINE s == [r EXCEPT !.qty = n]
  <2>1. SameTerms(s, r) /\ s.pos = r.pos /\ s.status = r.status /\ s.qty = n /\ s.at = r.at
    BY <1>3, SizedRows
  <2>2. Resized(r, n) = [s EXCEPT !.command = Command(s)]
    BY <1>3 DEF Resized
  <2> HIDE DEF s
  <2>3. s \in OrderRows /\ Command(s) \in Commands
    BY <2>1, CommandType DEF SameTerms
  <2>4. /\ SameTerms(Resized(r, n), s) /\ Resized(r, n).pos = s.pos
        /\ Resized(r, n).status = s.status /\ Resized(r, n).qty = s.qty /\ Resized(r, n).at = s.at
    BY <2>2, <2>3, CommandedRows
  <2> QED
    BY <1>3, <2>1, <2>4 DEF SameTerms
<1> QED
  BY <1>1, <1>2, <1>3

LEMMA NewOrders ==
    ASSUME NEW o \in Orders, NEW role \in Roles(o), NEW side \in {-1, 1}, NEW qty \in Nat \ {0},
           NEW pos \in Positions \cup {None}, NEW expect \in Expectations,
           NEW s, s = NewOrder(o, role, side, qty, pos, expect)
    PROVE  /\ s \in OrderRows /\ s.status = "pending"
           /\ s.id = o /\ s.role = role /\ s.side = side /\ s.qty = qty
           /\ s.pos = pos /\ s.expect = expect
<1> DEFINE r == [id |-> o, role |-> role, side |-> side, qty |-> qty, level |-> 0,
                 pos |-> pos, expect |-> expect, at |-> 0, status |-> "pending",
                 command |-> None]
<1>1. r \in OrderRows
  BY DEF OrderRows, Roles
<1>2. s = [r EXCEPT !.command = Command(r)]
  BY DEF NewOrder
<1>3. /\ r.status = "pending" /\ r.id = o /\ r.role = role /\ r.side = side /\ r.qty = qty
      /\ r.pos = pos /\ r.expect = expect
  OBVIOUS
<1> HIDE DEF r
<1>4. Command(r) \in Commands
  BY <1>1, CommandType
<1> QED
  BY <1>1, <1>2, <1>3, <1>4 DEF OrderRows, Commands

LEMMA Products ==
    \A a, b \in Int : /\ a * b \in Int
                      /\ a * b < 0 <=> (a < 0 /\ b > 0) \/ (a > 0 /\ b < 0)
                      /\ a * b >= 0 <=> (a <= 0 /\ b <= 0) \/ (a >= 0 /\ b >= 0)
  OBVIOUS

LEMMA Absolutes ==
    /\ \A n \in Int : Abs(n) \in Nat /\ (n < 0 => Abs(n) = -n) /\ (n >= 0 => Abs(n) = n)
    /\ \A n \in Int : Sign(n) \in {-1, 1} /\ (Sign(n) = -1 <=> n < 0)
  BY DEF Abs, Sign

LEMMA MinPair ==
    ASSUME NEW a \in Int, NEW b \in Int
    PROVE  Min({a, b}) = IF a <= b THEN a ELSE b
<1>1. \E m \in {a, b} : \A y \in {a, b} : m <= y
  <2>1. CASE a <= b
    BY <2>1
  <2>2. CASE ~(a <= b)
    BY <2>2
  <2> QED
    BY <2>1, <2>2
<1>2. Min({a, b}) \in {a, b} /\ \A y \in {a, b} : Min({a, b}) <= y
  BY <1>1 DEF Min
<1> QED
  BY <1>2

LEMMA MaxPair ==
    ASSUME NEW a \in Int, NEW b \in Int
    PROVE  Max({a, b}) = IF a >= b THEN a ELSE b
<1>1. \E m \in {a, b} : \A y \in {a, b} : m >= y
  <2>1. CASE a >= b
    BY <2>1
  <2>2. CASE ~(a >= b)
    BY <2>2
  <2> QED
    BY <2>1, <2>2
<1>2. Max({a, b}) \in {a, b} /\ \A y \in {a, b} : Max({a, b}) >= y
  BY <1>1 DEF Max
<1> QED
  BY <1>2

\* An exit takes its position towards zero, and not through it.
LEMMA ExitDelta ==
    ASSUME NEW r, NEW ps, Row(r, ps), r.id \in Exits, NEW q \in Int \ {0},
           r.id \in Children => r.side * q < 0
    PROVE  /\ Delta(r, q) \in Int /\ Delta(r, q) * q < 0
           /\ Abs(Delta(r, q)) <= Abs(q) /\ Abs(Delta(r, q)) \in Nat \ {0}
           /\ ~Reverses(q, Delta(r, q))
<1> DEFINE d == Delta(r, q)
<1>1. /\ d \in Int /\ d /= 0
      /\ q > 0 => d < 0 /\ q + d >= 0
      /\ q < 0 => d > 0 /\ q + d <= 0
  <2>1. CASE r.id \in Closes
    <3>1. r.role = "close"
      BY <2>1 DEF Row, Roles
    <3> QED
      BY <3>1 DEF Delta
  <2>2. CASE r.id \in Children
    <3>1. /\ r.role \in {"stop", "take"} /\ r.qty \in Nat \ {0} /\ r.side \in {-1, 1}
      BY <2>2, Ids DEF Row, Roles, Exits, OrderRows
    <3> DEFINE m == Min({Abs(q), r.qty})
    <3>2. Abs(q) \in Nat \ {0}
      BY Absolutes
    <3>3. m \in Nat \ {0} /\ m <= Abs(q)
      BY <3>1, <3>2, MinPair
    <3>4. d = r.side * m
      BY <3>1 DEF Delta
    <3> HIDE DEF d, m
    <3>5. q > 0 => r.side = -1
      BY <2>2, <3>1
    <3>6. q < 0 => r.side = 1
      BY <2>2, <3>1
    <3>7. CASE q > 0
      BY <3>3, <3>4, <3>5, <3>7, Absolutes
    <3>8. CASE q < 0
      BY <3>3, <3>4, <3>6, <3>8, Absolutes
    <3> QED
      BY <3>7, <3>8
  <2> QED
    BY <2>1, <2>2 DEF Exits
<1> HIDE DEF d
<1>2. d * q < 0 /\ ~(q * (q + d) < 0) /\ q + d \in Int
  BY <1>1, Products
<1>3. Abs(d) <= Abs(q) /\ Abs(d) \in Nat \ {0}
  BY <1>1, Absolutes
<1> QED
  BY <1>1, <1>2, <1>3 DEF d, Reverses

LEMMA EntryDelta ==
    ASSUME NEW r, NEW ps, Row(r, ps), r.id \in Entries, NEW q
    PROVE  /\ Delta(r, q) \in Int /\ Delta(r, q) /= 0
           /\ Delta(r, q) = r.side * r.qty /\ Abs(Delta(r, q)) = r.qty
<1>1. r.role = "entry" /\ r.side \in {-1, 1} /\ r.qty \in Nat \ {0}
  BY Ids DEF Row, Roles, Exits, OrderRows
<1>2. Delta(r, q) = r.side * r.qty
  BY <1>1 DEF Delta
<1>3. CASE r.side = 1
  BY <1>1, <1>2, <1>3, Absolutes
<1>4. CASE r.side = -1
  BY <1>1, <1>2, <1>4, Absolutes
<1> QED
  BY <1>1, <1>3, <1>4

\* What faces a position goes on facing it while it does not reach zero.
LEMMA StillFaces ==
    ASSUME NEW q \in Int, NEW d \in Int, ~Reverses(q, d), q + d /= 0,
           NEW side \in {-1, 1}, side * q < 0
    PROVE  side * (q + d) < 0
<1>1. q /= 0 /\ ~(q * (q + d) < 0) /\ q + d \in Int
  BY DEF Reverses
<1>2. (q > 0 /\ q + d > 0) \/ (q < 0 /\ q + d < 0)
  BY <1>1, Products
<1> QED
  BY <1>2

\* A protected entry leaves a position, and its exits face it.
LEMMA ProtectiveQtys ==
    ASSUME NEW q \in Int, NEW d \in Int, ProtectiveQty(q, d) > 0
    PROVE  /\ ProtectiveQty(q, d) \in Nat \ {0} /\ q + d /= 0
           /\ -Sign(q + d) \in {-1, 1} /\ (-Sign(q + d)) * (q + d) < 0
<1>1. q + d \in Int
  OBVIOUS
<1>2. ProtectiveQty(q, d) \in Nat \ {0} /\ q + d /= 0
  <2>1. CASE Reverses(q, d)
    <3>1. q + d /= 0
      BY <2>1 DEF Reverses
    <3> QED
      BY <1>1, <2>1, <3>1, Absolutes DEF ProtectiveQty
  <2>2. CASE ~Reverses(q, d)
    <3>1. q * d >= 0 /\ ProtectiveQty(q, d) = Abs(d)
      BY <2>2 DEF ProtectiveQty
    <3>2. Abs(d) \in Nat /\ d /= 0
      BY <3>1, Absolutes
    <3>3. q + d /= 0
      BY <3>1, <3>2, Products
    <3> QED
      BY <3>1, <3>2, <3>3
  <2> QED
    BY <2>1, <2>2
<1>3. CASE q + d < 0
  BY <1>1, <1>2, <1>3, Absolutes
<1>4. CASE q + d > 0
  BY <1>1, <1>2, <1>4, Absolutes
<1> QED
  BY <1>1, <1>2, <1>3, <1>4

\* The entry of a flip goes through zero.
LEMMA FlipReverses ==
    ASSUME NEW q \in Int, NEW side \in {-1, 1}, side * q < 0
    PROVE  Reverses(q, side * (Abs(q) + SignalQty))
<1>1. SignalQty \in Nat \ {0}
  BY PaperJournalAssumption
<1>2. CASE side = 1
  <2>1. q < 0 /\ q + side * (Abs(q) + SignalQty) = SignalQty
    BY <1>1, <1>2, Absolutes
  <2> QED
    BY <1>1, <2>1, Products DEF Reverses
<1>3. CASE side = -1
  <2>1. q > 0 /\ q + side * (Abs(q) + SignalQty) = -SignalQty
    BY <1>1, <1>3, Absolutes
  <2> QED
    BY <1>1, <2>1, Products DEF Reverses
<1> QED
  BY <1>2, <1>3

-----------------------------------------------------------------------------
(* Sums over finite sets *)

\* What holds of a finite set when it holds of its strict subsets holds of S: the
\* induction is over the set T of the subsets it holds of.
LEMMA SetInduction ==
    ASSUME NEW S, IsFiniteSet(S), NEW T,
           \A s \in SUBSET S : (\A u \in SUBSET s : u /= s => u \in T) => s \in T
    PROVE  SUBSET S \subseteq T
<1> DEFINE U == {s \in SUBSET S : s \notin T}
<1> SUFFICES ASSUME U /= {} PROVE FALSE
  OBVIOUS
<1>1. IsWellFoundedOn(StrictSubsetOrdering(S), SUBSET S)
  <2>1. IsWellFoundedOn(StrictSubsetOrdering(S), FiniteSubsetsOf(S))
    BY FS_StrictSubsetOrderingWellFounded, Zenon
  <2>2. FiniteSubsetsOf(S) = SUBSET S
    BY FS_FiniteSubsetsOfFinite
  <2> QED BY <2>1, <2>2, Zenon
<1>2. \E x \in U : \A y \in U : ~ (<<y, x>> \in StrictSubsetOrdering(S))
  <2>1. U \subseteq SUBSET S
    OBVIOUS
  <2> HIDE DEF U
  <2> DEFINE R == StrictSubsetOrdering(S)
             P == SUBSET S
  <2>2. IsWellFoundedOn(R, P) /\ U \subseteq P
    BY <1>1, <2>1
  <2>3. U /= {}
    OBVIOUS
  <2> HIDE DEF R, P
  <2>4. \E x \in U : \A y \in U : ~ (<<y, x>> \in R)
    BY <2>2, <2>3, WFMin
  <2> QED BY <2>4 DEF R
<1>3. PICK x \in U : \A y \in U : ~ (<<y, x>> \in StrictSubsetOrdering(S))
  BY <1>2
<1>4. \A u \in SUBSET x : u /= x => u \in T
  BY <1>3 DEF StrictSubsetOrdering
<1> QED BY <1>3, <1>4

\* g adds f up over the subsets of S, as SumFunctionOnSet does.
Adds(g, f, S) ==
    g = [s \in SUBSET S |-> IF s = {} THEN 0 ELSE LET x == CHOOSE x \in s : TRUE IN f[x] + g[s \ {x}]]

LEMMA SumIs ==
    ASSUME NEW f, NEW S
    PROVE  SumFunctionOnSet(f, S) = (CHOOSE g : Adds(g, f, S))[S]
  BY DEF SumFunctionOnSet, FoldFunctionOnSet, MapThenFoldSet, Adds

\* Two functions that add f up over the subsets of S are the same.
LEMMA AddsUnique ==
    ASSUME NEW f, NEW S, IsFiniteSet(S), NEW g, NEW h, Adds(g, f, S), Adds(h, f, S)
    PROVE  g = h
<1> DEFINE T == {s \in SUBSET S : g[s] = h[s]}
<1>1. ASSUME NEW s \in SUBSET S, \A u \in SUBSET s : u /= s => u \in T
      PROVE  g[s] = h[s]
  <2>1. CASE s = {}
    BY <2>1 DEF Adds
  <2>2. CASE s /= {}
    <3> DEFINE x == CHOOSE x \in s : TRUE
    <3>1. x \in s
      BY <2>2
    <3> HIDE DEF x
    <3>2. s \ {x} \in SUBSET s /\ s \ {x} /= s
      BY <3>1
    <3>3. g[s \ {x}] = h[s \ {x}]
      BY <1>1, <3>2
    <3>4. g[s] = f[x] + g[s \ {x}] /\ h[s] = f[x] + h[s \ {x}]
      BY <2>2 DEF Adds, x
    <3> QED BY <3>3, <3>4
  <2> QED BY <2>1, <2>2
<1>2. \A s \in SUBSET S : (\A u \in SUBSET s : u /= s => u \in T) => s \in T
  BY <1>1
<1> HIDE DEF T
<1>3. SUBSET S \subseteq T
  BY <1>2, SetInduction
<1>4. \A s \in SUBSET S : g[s] = h[s]
  BY <1>3 DEF T
<1>5. /\ g = [s \in SUBSET S |-> g[s]]
      /\ h = [s \in SUBSET S |-> h[s]]
  BY DEF Adds
<1> QED BY <1>4, <1>5

\* It adds f up over the subsets of a subset, too.
LEMMA AddsRestricts ==
    ASSUME NEW f, NEW S, NEW g, Adds(g, f, S), NEW R \in SUBSET S
    PROVE  Adds([s \in SUBSET R |-> g[s]], f, R)
<1> DEFINE h == [s \in SUBSET R |-> g[s]]
<1>1. ASSUME NEW s \in SUBSET R
      PROVE  h[s] = IF s = {} THEN 0 ELSE LET x == CHOOSE x \in s : TRUE IN f[x] + h[s \ {x}]
  <2>1. s \in SUBSET S /\ h[s] = g[s]
    OBVIOUS
  <2>2. g[s] = IF s = {} THEN 0 ELSE LET x == CHOOSE x \in s : TRUE IN f[x] + g[s \ {x}]
    BY <2>1 DEF Adds
  <2>3. \A x : h[s \ {x}] = g[s \ {x}]
    OBVIOUS
  <2> HIDE DEF h
  <2> QED BY <2>1, <2>2, <2>3
<1>2. h = [s \in SUBSET R |-> h[s]]
  OBVIOUS
<1> HIDE DEF h
<1>3. h = [s \in SUBSET R |-> IF s = {} THEN 0 ELSE LET x == CHOOSE x \in s : TRUE IN f[x] + h[s \ {x}]]
  BY <1>1, <1>2
<1>4. Adds(h, f, R)
  BY <1>3 DEF Adds
<1> QED BY <1>4 DEF h

\* A finite set has one: the recursion is well founded.
LEMMA AddsExists ==
    ASSUME NEW f, NEW S, IsFiniteSet(S)
    PROVE  \E g : Adds(g, f, S)
<1> DEFINE T == {s \in SUBSET S : \E g : Adds(g, f, s)}
           V(s) == CHOOSE g : Adds(g, f, s)
<1>1. ASSUME NEW s \in SUBSET S, \A u \in SUBSET s : u /= s => u \in T
      PROVE  \E g : Adds(g, f, s)
  <2> DEFINE Pick(u) == CHOOSE x \in u : TRUE
             g == [u \in SUBSET s |-> IF u = {} THEN 0
                                      ELSE f[Pick(u)] + V(u \ {Pick(u)})[u \ {Pick(u)}]]
  <2>1. \A u \in SUBSET s : u /= s => Adds(V(u), f, u)
    BY <1>1
  <2>2. \A u \in SUBSET s : IsFiniteSet(u)
    BY FS_Subset
  <2>3. \A u \in SUBSET s : u /= {} => Pick(u) \in u
    OBVIOUS
  <2> HIDE DEF V, Pick
  <2>4. ASSUME NEW u \in SUBSET s, u /= s
        PROVE  V(u)[u] = g[u]
    <3>1. Adds(V(u), f, u)
      BY <2>1, <2>4
    <3>2. CASE u = {}
      BY <3>1, <3>2 DEF Adds
    <3>3. CASE u /= {}
      <4> DEFINE x == Pick(u)
                 w == u \ {x}
      <4>1. x \in u /\ w \in SUBSET s /\ w /= s /\ w \in SUBSET u
        BY <2>3, <3>3
      <4>2. V(u)[u] = f[x] + V(u)[w]
        BY <3>1, <3>3 DEF Adds, Pick
      <4>3. g[u] = f[x] + V(w)[w]
        BY <3>3
      <4> HIDE DEF x, w, g
      <4>4. Adds([v \in SUBSET w |-> V(u)[v]], f, w)
        BY <3>1, <4>1, AddsRestricts
      <4>5. Adds(V(w), f, w) /\ IsFiniteSet(w)
        BY <2>1, <2>2, <4>1
      <4>6. [v \in SUBSET w |-> V(u)[v]] = V(w)
        BY <4>4, <4>5, AddsUnique
      <4>7. V(u)[w] = V(w)[w]
        BY <4>6
      <4> QED BY <4>2, <4>3, <4>7
    <3> QED BY <3>2, <3>3
  <2>5. ASSUME NEW u \in SUBSET s
        PROVE  g[u] = IF u = {} THEN 0 ELSE LET x == Pick(u) IN f[x] + g[u \ {x}]
    <3>1. CASE u = {}
      BY <3>1
    <3>2. CASE u /= {}
      <4> DEFINE x == Pick(u)
                 w == u \ {x}
      <4>1. w \in SUBSET s /\ w /= s
        BY <2>3, <3>2
      <4>2. g[u] = f[x] + V(w)[w]
        BY <3>2
      <4> HIDE DEF x, w, g
      <4>3. V(w)[w] = g[w]
        BY <2>4, <4>1
      <4> QED BY <3>2, <4>2, <4>3 DEF x, w
    <3> QED BY <3>1, <3>2
  <2>6. g = [u \in SUBSET s |-> g[u]]
    OBVIOUS
  <2> HIDE DEF g
  <2>7. g = [u \in SUBSET s |-> IF u = {} THEN 0 ELSE LET x == Pick(u) IN f[x] + g[u \ {x}]]
    BY <2>5, <2>6
  <2> QED BY <2>7 DEF Adds, Pick
<1>2. \A s \in SUBSET S : (\A u \in SUBSET s : u /= s => u \in T) => s \in T
  BY <1>1
<1> HIDE DEF T
<1>3. SUBSET S \subseteq T
  BY <1>2, SetInduction
<1> QED BY <1>3 DEF T

\* The sum over a finite set, one element taken out.
LEMMA SumStep ==
    ASSUME NEW f, NEW S, IsFiniteSet(S)
    PROVE  /\ S = {} => SumFunctionOnSet(f, S) = 0
           /\ S /= {} => \E x \in S : SumFunctionOnSet(f, S) = f[x] + SumFunctionOnSet(f, S \ {x})
<1> DEFINE V(s) == CHOOSE g : Adds(g, f, s)
<1>1. \A s \in SUBSET S : Adds(V(s), f, s) /\ IsFiniteSet(s)
  BY FS_Subset, AddsExists
<1>2. \A s \in SUBSET S : SumFunctionOnSet(f, s) = V(s)[s]
  BY SumIs
<1> HIDE DEF V
<1>3. S = {} => SumFunctionOnSet(f, S) = 0
  BY <1>1, <1>2 DEF Adds
<1>4. ASSUME S /= {}
      PROVE  \E x \in S : SumFunctionOnSet(f, S) = f[x] + SumFunctionOnSet(f, S \ {x})
  <2> DEFINE x == CHOOSE x \in S : TRUE
             w == S \ {x}
  <2>1. x \in S /\ w \in SUBSET S
    BY <1>4
  <2>2. SumFunctionOnSet(f, S) = f[x] + V(S)[w]
    <3>1. Adds(V(S), f, S) /\ SumFunctionOnSet(f, S) = V(S)[S] /\ S \in SUBSET S
      BY <1>1, <1>2
    <3> QED BY <3>1, <1>4 DEF Adds
  <2> HIDE DEF x, w
  <2>3. Adds([v \in SUBSET w |-> V(S)[v]], f, w)
    BY <1>1, <2>1, AddsRestricts
  <2>4. [v \in SUBSET w |-> V(S)[v]] = V(w)
    BY <1>1, <2>1, <2>3, AddsUnique
  <2>5. V(S)[w] = SumFunctionOnSet(f, w)
    BY <1>2, <2>1, <2>4
  <2> QED BY <2>1, <2>2, <2>5 DEF w
<1> QED BY <1>3, <1>4

\* The sum over a finite set of integers is an integer.
LEMMA SumType ==
    ASSUME NEW f, NEW S, IsFiniteSet(S), \A x \in S : f[x] \in Int
    PROVE  SumFunctionOnSet(f, S) \in Int
<1> DEFINE T == {s \in SUBSET S : SumFunctionOnSet(f, s) \in Int}
<1>1. ASSUME NEW s \in SUBSET S, \A u \in SUBSET s : u /= s => u \in T
      PROVE  SumFunctionOnSet(f, s) \in Int
  <2>1. IsFiniteSet(s)
    BY FS_Subset
  <2>2. CASE s = {}
    BY <2>1, <2>2, SumStep
  <2>3. CASE s /= {}
    <3>1. PICK x \in s : SumFunctionOnSet(f, s) = f[x] + SumFunctionOnSet(f, s \ {x})
      BY <2>1, <2>3, SumStep
    <3>2. SumFunctionOnSet(f, s \ {x}) \in Int
      BY <1>1
    <3> QED BY <3>1, <3>2
  <2> QED BY <2>2, <2>3
<1>2. \A s \in SUBSET S : (\A u \in SUBSET s : u /= s => u \in T) => s \in T
  BY <1>1
<1> HIDE DEF T
<1>3. SUBSET S \subseteq T
  BY <1>2, SetInduction
<1> QED BY <1>3 DEF T

\* Any element can be taken out.
LEMMA SumWithout ==
    ASSUME NEW f, NEW S, IsFiniteSet(S), \A x \in S : f[x] \in Int, NEW y \in S
    PROVE  SumFunctionOnSet(f, S) = f[y] + SumFunctionOnSet(f, S \ {y})
<1> DEFINE T == {s \in SUBSET S : \A z \in s : SumFunctionOnSet(f, s) = f[z] + SumFunctionOnSet(f, s \ {z})}
<1>1. ASSUME NEW s \in SUBSET S, \A u \in SUBSET s : u /= s => u \in T, NEW z \in s
      PROVE  SumFunctionOnSet(f, s) = f[z] + SumFunctionOnSet(f, s \ {z})
  <2>1. IsFiniteSet(s)
    BY FS_Subset
  <2>2. PICK x \in s : SumFunctionOnSet(f, s) = f[x] + SumFunctionOnSet(f, s \ {x})
    BY <2>1, SumStep
  <2>3. CASE x = z
    BY <2>2, <2>3
  <2>4. CASE x /= z
    <3> DEFINE u == s \ {x}
               w == s \ {z}
               v == s \ {x, z}
    <3>1. /\ z \in u /\ u \in SUBSET s /\ u /= s /\ u \ {z} = v
          /\ x \in w /\ w \in SUBSET s /\ w /= s /\ w \ {x} = v /\ v \in SUBSET S
      BY <2>4
    <3> HIDE DEF u, w, v
    <3>2. SumFunctionOnSet(f, u) = f[z] + SumFunctionOnSet(f, v)
      BY <1>1, <3>1
    <3>3. SumFunctionOnSet(f, w) = f[x] + SumFunctionOnSet(f, v)
      BY <1>1, <3>1
    <3>4. IsFiniteSet(v) /\ \A i \in v : f[i] \in Int
      BY <3>1, FS_Subset
    <3>5. SumFunctionOnSet(f, v) \in Int /\ f[x] \in Int /\ f[z] \in Int
      BY <3>4, SumType
    <3>6. SumFunctionOnSet(f, s) = f[x] + SumFunctionOnSet(f, u)
      BY <2>2 DEF u
    <3>7. SumFunctionOnSet(f, s) = f[z] + SumFunctionOnSet(f, w)
      BY <3>2, <3>3, <3>5, <3>6
    <3> QED BY <3>7 DEF w
  <2> QED BY <2>3, <2>4
<1>2. \A s \in SUBSET S : (\A u \in SUBSET s : u /= s => u \in T) => s \in T
  BY <1>1
<1> HIDE DEF T
<1>3. SUBSET S \subseteq T
  BY <1>2, SetInduction
<1> QED BY <1>3 DEF T

\* The sum depends on the values only.
LEMMA SumEqual ==
    ASSUME NEW f, NEW h, NEW S, IsFiniteSet(S), \A x \in S : f[x] \in Int /\ f[x] = h[x]
    PROVE  SumFunctionOnSet(f, S) = SumFunctionOnSet(h, S)
<1> DEFINE T == {s \in SUBSET S : SumFunctionOnSet(f, s) = SumFunctionOnSet(h, s)}
<1>1. ASSUME NEW s \in SUBSET S, \A u \in SUBSET s : u /= s => u \in T
      PROVE  SumFunctionOnSet(f, s) = SumFunctionOnSet(h, s)
  <2>1. IsFiniteSet(s)
    BY FS_Subset
  <2>2. CASE s = {}
    BY <2>1, <2>2, SumStep
  <2>3. CASE s /= {}
    <3>1. PICK x \in s : SumFunctionOnSet(f, s) = f[x] + SumFunctionOnSet(f, s \ {x})
      BY <2>1, <2>3, SumStep
    <3>2. SumFunctionOnSet(f, s \ {x}) = SumFunctionOnSet(h, s \ {x})
      BY <1>1
    <3>3. \A i \in s : h[i] \in Int
      OBVIOUS
    <3>4. SumFunctionOnSet(h, s) = h[x] + SumFunctionOnSet(h, s \ {x})
      BY <2>1, <3>3, SumWithout
    <3>5. f[x] = h[x]
      OBVIOUS
    <3> QED BY <3>1, <3>2, <3>4, <3>5
  <2> QED BY <2>2, <2>3
<1>2. \A s \in SUBSET S : (\A u \in SUBSET s : u /= s => u \in T) => s \in T
  BY <1>1
<1> HIDE DEF T
<1>3. SUBSET S \subseteq T
  BY <1>2, SetInduction
<1> QED BY <1>3 DEF T

\* A sum does not grow when its values shrink.
LEMMA SumAtMost ==
    ASSUME NEW f, NEW h, NEW S, IsFiniteSet(S),
           \A x \in S : f[x] \in Int /\ h[x] \in Int /\ f[x] <= h[x]
    PROVE  SumFunctionOnSet(f, S) <= SumFunctionOnSet(h, S)
<1> DEFINE T == {s \in SUBSET S : SumFunctionOnSet(f, s) <= SumFunctionOnSet(h, s)}
<1>1. ASSUME NEW s \in SUBSET S, \A u \in SUBSET s : u /= s => u \in T
      PROVE  SumFunctionOnSet(f, s) <= SumFunctionOnSet(h, s)
  <2>1. IsFiniteSet(s)
    BY FS_Subset
  <2>2. CASE s = {}
    BY <2>1, <2>2, SumStep
  <2>3. CASE s /= {}
    <3>1. PICK x \in s : SumFunctionOnSet(f, s) = f[x] + SumFunctionOnSet(f, s \ {x})
      BY <2>1, <2>3, SumStep
    <3>2. SumFunctionOnSet(f, s \ {x}) <= SumFunctionOnSet(h, s \ {x})
      BY <1>1
    <3>3. IsFiniteSet(s \ {x}) /\ \A i \in s : f[i] \in Int /\ h[i] \in Int
      BY <2>1, FS_RemoveElement
    <3>4. SumFunctionOnSet(h, s) = h[x] + SumFunctionOnSet(h, s \ {x})
      BY <2>1, <3>3, SumWithout
    <3>5. f[x] <= h[x] /\ f[x] \in Int /\ h[x] \in Int
      OBVIOUS
    <3>6. SumFunctionOnSet(f, s \ {x}) \in Int /\ SumFunctionOnSet(h, s \ {x}) \in Int
      BY <3>3, SumType
    <3> QED BY <3>1, <3>2, <3>4, <3>5, <3>6
  <2> QED BY <2>2, <2>3
<1>2. \A s \in SUBSET S : (\A u \in SUBSET s : u /= s => u \in T) => s \in T
  BY <1>1
<1> HIDE DEF T
<1>3. SUBSET S \subseteq T
  BY <1>2, SetInduction
<1> QED BY <1>3 DEF T

\* The sum over no element and over one.
LEMMA SumOfFew ==
    /\ \A f : SumFunctionOnSet(f, {}) = 0
    /\ \A f, x : f[x] \in Int => SumFunctionOnSet(f, {x}) = f[x]
<1>1. ASSUME NEW f
      PROVE  SumFunctionOnSet(f, {}) = 0
  BY FS_EmptySet, SumStep
<1>2. ASSUME NEW f, NEW x, f[x] \in Int
      PROVE  SumFunctionOnSet(f, {x}) = f[x]
  <2>1. SumFunctionOnSet(f, {x}) = f[x] + SumFunctionOnSet(f, {x} \ {x})
    BY <1>2, FS_Singleton, SumWithout
  <2>2. {x} \ {x} = {}
    OBVIOUS
  <2> QED
    BY <1>1, <1>2, <2>1, <2>2
<1> QED
  BY <1>1, <1>2

LEMMA SumOfZeros ==
    ASSUME NEW f, NEW S, IsFiniteSet(S), \A x \in S : f[x] = 0
    PROVE  SumFunctionOnSet(f, S) = 0
<1> DEFINE T == {s \in SUBSET S : SumFunctionOnSet(f, s) = 0}
<1>1. ASSUME NEW s \in SUBSET S, \A u \in SUBSET s : u /= s => u \in T
      PROVE  SumFunctionOnSet(f, s) = 0
  <2>1. IsFiniteSet(s)
    BY FS_Subset
  <2>2. CASE s = {}
    BY <2>2, SumOfFew
  <2>3. CASE s /= {}
    <3>1. PICK x \in s : SumFunctionOnSet(f, s) = f[x] + SumFunctionOnSet(f, s \ {x})
      BY <2>1, <2>3, SumStep
    <3>2. SumFunctionOnSet(f, s \ {x}) = 0 /\ f[x] = 0
      BY <1>1
    <3> QED
      BY <3>1, <3>2
  <2> QED
    BY <2>2, <2>3
<1>2. \A s \in SUBSET S : (\A u \in SUBSET s : u /= s => u \in T) => s \in T
  BY <1>1
<1> HIDE DEF T
<1>3. SUBSET S \subseteq T
  BY <1>2, SetInduction
<1> QED
  BY <1>3 DEF T

\* A sum changes by what one of its values changes.
LEMMA SumChanges ==
    ASSUME NEW f, NEW h, NEW S, IsFiniteSet(S), NEW y \in S,
           \A x \in S : f[x] \in Int /\ h[x] \in Int,
           \A x \in S \ {y} : h[x] = f[x]
    PROVE  SumFunctionOnSet(h, S) = SumFunctionOnSet(f, S) + (h[y] - f[y])
<1>1. IsFiniteSet(S \ {y})
  BY FS_RemoveElement
<1>2. SumFunctionOnSet(f, S) = f[y] + SumFunctionOnSet(f, S \ {y})
  BY SumWithout
<1>3. SumFunctionOnSet(h, S) = h[y] + SumFunctionOnSet(h, S \ {y})
  BY SumWithout
<1>4. SumFunctionOnSet(f, S \ {y}) = SumFunctionOnSet(h, S \ {y})
  BY <1>1, SumEqual
<1>5. SumFunctionOnSet(f, S \ {y}) \in Int
  BY <1>1, SumType
<1> QED
  BY <1>2, <1>3, <1>4, <1>5

\* A part of what is not negative is not larger than the whole.
LEMMA SumOfPart ==
    ASSUME NEW f, NEW S, IsFiniteSet(S), \A x \in S : f[x] \in Nat, NEW R \in SUBSET S
    PROVE  SumFunctionOnSet(f, R) <= SumFunctionOnSet(f, S)
<1> DEFINE T == {s \in SUBSET S : \A u \in SUBSET s : SumFunctionOnSet(f, u) <= SumFunctionOnSet(f, s)}
<1>1. ASSUME NEW s \in SUBSET S, \A u \in SUBSET s : u /= s => u \in T, NEW u \in SUBSET s
      PROVE  SumFunctionOnSet(f, u) <= SumFunctionOnSet(f, s)
  <2>1. IsFiniteSet(s) /\ IsFiniteSet(u) /\ \A x \in s : f[x] \in Int
    BY FS_Subset
  <2>2. SumFunctionOnSet(f, u) \in Int
    BY <2>1, SumType
  <2>3. CASE u = s
    BY <2>2, <2>3
  <2>4. CASE u /= s
    <3>1. PICK x \in s : x \notin u
      BY <2>4
    <3> DEFINE v == s \ {x}
    <3>2. v \in SUBSET s /\ v /= s /\ u \in SUBSET v /\ IsFiniteSet(v)
      BY <2>1, <3>1, FS_Subset
    <3>3. SumFunctionOnSet(f, s) = f[x] + SumFunctionOnSet(f, v)
      BY <2>1, SumWithout
    <3> HIDE DEF v
    <3>4. SumFunctionOnSet(f, u) <= SumFunctionOnSet(f, v)
      BY <1>1, <3>2
    <3>5. SumFunctionOnSet(f, v) \in Int /\ f[x] \in Nat
      BY <2>1, <3>2, SumType
    <3> QED
      BY <2>2, <3>3, <3>4, <3>5
  <2> QED
    BY <2>3, <2>4
<1>2. \A s \in SUBSET S : (\A u \in SUBSET s : u /= s => u \in T) => s \in T
  BY <1>1
<1> HIDE DEF T
<1>3. SUBSET S \subseteq T
  BY <1>2, SetInduction
<1> QED
  BY <1>3 DEF T

\* A function has a largest value over a finite set.
LEMMA MaxOf ==
    ASSUME NEW f, NEW S, IsFiniteSet(S), S /= {}, \A x \in S : f[x] \in Int
    PROVE  \E m \in S : Max({f[x] : x \in S}) = f[m] /\ \A x \in S : f[x] <= f[m]
<1> DEFINE T == {s \in SUBSET S : s /= {} => \E m \in s : \A x \in s : f[x] <= f[m]}
<1>1. ASSUME NEW s \in SUBSET S, \A u \in SUBSET s : u /= s => u \in T, s /= {}
      PROVE  \E m \in s : \A x \in s : f[x] <= f[m]
  <2>1. PICK y \in s : TRUE
    BY <1>1
  <2>2. \A x \in s : f[x] \in Int
    OBVIOUS
  <2>3. CASE s = {y}
    BY <2>2, <2>3
  <2>4. CASE s /= {y}
    <3>1. s \ {y} \in SUBSET s /\ s \ {y} /= s /\ s \ {y} /= {}
      BY <2>1, <2>4
    <3>2. PICK m \in s \ {y} : \A x \in s \ {y} : f[x] <= f[m]
      BY <1>1, <3>1
    <3>3. CASE f[y] <= f[m]
      BY <3>2, <3>3
    <3>4. CASE f[m] <= f[y]
      <4>1. \A x \in s : f[x] <= f[y]
        BY <2>2, <3>2, <3>4
      <4> QED
        BY <4>1
    <3> QED
      BY <2>2, <3>3, <3>4
  <2> QED
    BY <2>3, <2>4
<1>2. \A s \in SUBSET S : (\A u \in SUBSET s : u /= s => u \in T) => s \in T
  BY <1>1
<1> HIDE DEF T
<1>3. SUBSET S \subseteq T
  BY <1>2, SetInduction
<1>4. PICK m \in S : \A x \in S : f[x] <= f[m]
  BY <1>3 DEF T
<1> DEFINE R == {f[x] : x \in S}
<1>5. f[m] \in R /\ \A y \in R : f[m] >= y
  BY <1>4
<1>6. \A y \in R : y \in Int
  OBVIOUS
<1>7. Max(R) \in R /\ \A y \in R : Max(R) >= y
  <2> HIDE DEF R
  <2> QED
    BY <1>5 DEF Max
<1>8. Max(R) = f[m]
  <2> HIDE DEF R
  <2> QED
    BY <1>5, <1>6, <1>7
<1> QED
  BY <1>4, <1>8

\* Groups that share the quantity q in turn, each at most what those of an earlier turn
\* leave of it, take no more than q.
LEMMA SharesFit ==
    ASSUME NEW G, IsFiniteSet(G), NEW turn \in [G -> Int], NEW w \in [G -> Nat], NEW q \in Nat,
           \A g, h \in G : turn[g] = turn[h] => g = h,
           NEW s \in [G -> Nat],
           \A g \in G : s[g] <= w[g],
           \A g \in G : s[g] = 0 \/ s[g] <= q - SumFunctionOnSet(w, {h \in G : turn[h] < turn[g]}),
           NEW C \in SUBSET G
    PROVE  SumFunctionOnSet(s, C) <= q
<1> DEFINE T == {c \in SUBSET G : SumFunctionOnSet(s, c) <= q}
<1>1. ASSUME NEW c \in SUBSET G, \A u \in SUBSET c : u /= c => u \in T
      PROVE  SumFunctionOnSet(s, c) <= q
  <2>1. IsFiniteSet(c) /\ \A x \in c : s[x] \in Int /\ turn[x] \in Int
    BY FS_Subset
  <2>2. CASE c = {}
    BY <2>1, <2>2, SumStep
  <2>3. CASE c /= {}
    <3>4. PICK g \in c : \A x \in c : turn[x] <= turn[g]
      BY <2>1, <2>3, MaxOf
    <3> DEFINE earlier == {h \in G : turn[h] < turn[g]}
               rest == c \ {g}
    <3>5. rest \in SUBSET earlier
      BY <2>1, <3>4
    <3>6. rest \in SUBSET c /\ rest /= c /\ IsFiniteSet(rest) /\ IsFiniteSet(earlier)
      BY <2>1, FS_Subset
    <3>7. SumFunctionOnSet(s, c) = s[g] + SumFunctionOnSet(s, rest)
      BY <2>1, SumWithout
    <3>8. s[g] <= w[g] /\ (s[g] = 0 \/ s[g] <= q - SumFunctionOnSet(w, earlier))
      OBVIOUS
    <3>9. \A x \in earlier : w[x] \in Nat
      OBVIOUS
    <3>10. \A x \in rest : s[x] \in Int /\ w[x] \in Int /\ s[x] <= w[x]
      <4>1. \A x \in G : s[x] \in Int /\ w[x] \in Int
        OBVIOUS
      <4>2. \A x \in rest : x \in G
        OBVIOUS
      <4> HIDE DEF earlier, rest
      <4> QED
        BY <4>1, <4>2
    <3> HIDE DEF earlier, rest
    <3>11. SumFunctionOnSet(s, rest) <= q
      BY <1>1, <3>6
    <3>12. SumFunctionOnSet(s, rest) <= SumFunctionOnSet(w, rest)
      BY <3>6, <3>10, SumAtMost
    <3>13. SumFunctionOnSet(w, rest) <= SumFunctionOnSet(w, earlier)
      BY <3>5, <3>6, <3>9, SumOfPart
    <3>14. /\ SumFunctionOnSet(s, rest) \in Int /\ SumFunctionOnSet(w, rest) \in Int
           /\ s[g] \in Nat
      BY <3>6, <3>10, SumType
    <3>15. SumFunctionOnSet(w, earlier) \in Int
      BY <3>6, <3>9, SumType
    <3> QED
      BY <3>7, <3>8, <3>11, <3>12, <3>13, <3>14, <3>15
  <2> QED
    BY <2>2, <2>3
<1>2. \A c \in SUBSET G : (\A u \in SUBSET c : u /= c => u \in T) => c \in T
  BY <1>1
<1> HIDE DEF T
<1>3. SUBSET G \subseteq T
  BY <1>2, SetInduction
<1> QED
  BY <1>3 DEF T

-----------------------------------------------------------------------------
(* What a step does to the tables *)

Inserts(r) ==
    /\ r.id \in Entries \cup Closes /\ Row(r, positions) /\ r.status = "pending"
    /\ r.at = 1 + Cardinality({o \in Orders : orders[o] /= None})
    /\ orders[r.id] = None /\ orders' = [orders EXCEPT ![r.id] = r]
    /\ UNCHANGED <<positions, fills>>

Cancels(o) == o \in Pending /\ orders' = Cancelled(o) /\ UNCHANGED <<positions, fills>>

Relevels(o) ==
    /\ o \in Pending
    /\ \E n \in Nat, c \in Commands : orders' = [orders EXCEPT ![o].level = n, ![o].command = c]
    /\ UNCHANGED <<positions, fills>>

\* Position p is the one that the fill of r finds locked, or the new one of an entry.
Finds(r, p) ==
    \/ p \in Locked(r)
    \/ Locked(r) = {} /\ r.id \notin Exits /\ p = <<r.id, "pos">>

Executes(r, p) ==
    /\ Copy(r, orders, positions) /\ r.id \in Pending
    /\ ~Unexpected(r, Locked(r)) /\ Finds(r, p)
    /\ Execute(r, p)

\* Positions stay, and a closed position stays closed.
PositionsPersist ==
    \A p \in Positions : positions[p] /= None =>
        /\ positions'[p] /= None
        /\ positions[p].status = "closed" => positions'[p].status = "closed"

\* Orders stay, and no order becomes pending or changes its terms.
Persists ==
    /\ PositionsPersist
    /\ \A o \in Orders : orders[o] /= None =>
          /\ orders'[o] /= None
          /\ orders'[o].status = "pending" =>
                /\ orders[o].status = "pending"
                /\ orders'[o].side = orders[o].side /\ orders'[o].expect = orders[o].expect
                /\ o \in Exits => orders'[o].pos = orders[o].pos

\* Row s of the next tables is row r but for status, level, command and an exit's size.
Follows(s, r) ==
    /\ SameTerms(s, r) /\ s.pos = r.pos
    /\ s.status = r.status \/ (r.status = "pending" /\ s.status = "cancelled")
    /\ r.id \in Exits \/ s.qty = r.qty

LEMMA RowFollows ==
    ASSUME NEW r, NEW s, NEW ps, Row(r, ps), Follows(s, r)
    PROVE  Row(s, ps)
<1>1. Entries \cap Exits = {}
  BY Ids
<1>2. Expects(s)
  BY <1>1 DEF Row, Expects, Follows, SameTerms
<1> QED
  BY <1>2 DEF Row, Follows, SameTerms

LEMMA RowStays ==
    ASSUME NEW r, NEW ps, NEW qs, Row(r, ps),
           \A p \in Positions : ps[p] /= None => qs[p] /= None
    PROVE  Row(r, qs)
  BY DEF Row

\* Row o of the next tables follows the present one, is settled, or is new.
RowPersists(o) ==
    \/ orders'[o] = orders[o]
    \/ orders[o] /= None /\ Follows(orders'[o], orders[o])
    \/ /\ orders'[o] /= None /\ orders'[o].id = o /\ Row(orders'[o], positions')
       /\ orders[o] /= None => orders'[o].status /= "pending"

LEMMA TablesPersist ==
    ASSUME TablesTyped, PositionsPersist, \A o \in Orders : RowPersists(o),
           orders' \in [Orders -> OrderRows \cup {None}],
           positions' \in [Positions -> PositionRows \cup {None}],
           fills' \in [Orders -> Seq([pos : Positions, delta : Int])],
           \A p \in Positions : positions'[p] /= None =>
               (positions'[p].status = "open") <=> (positions'[p].qty /= 0)
    PROVE  TablesTyped' /\ Persists
<1>1. \A p \in Positions : positions[p] /= None => positions'[p] /= None
  BY DEF PositionsPersist
<1>2. ASSUME NEW o \in Orders, orders'[o] /= None
      PROVE  orders'[o].id = o /\ Row(orders'[o], positions')
  <2>1. CASE orders'[o] = orders[o]
    BY <1>1, <1>2, <2>1, RowStays DEF TablesTyped
  <2>2. CASE orders[o] /= None /\ Follows(orders'[o], orders[o])
    <3>1. orders[o].id = o /\ Row(orders[o], positions)
      BY <2>2 DEF TablesTyped
    <3>2. orders'[o].id = o
      BY <2>2, <3>1 DEF Follows, SameTerms
    <3>3. Row(orders'[o], positions)
      BY <2>2, <3>1, RowFollows
    <3> QED
      BY <1>1, <3>2, <3>3, RowStays
  <2> QED
    BY <2>1, <2>2 DEF RowPersists
<1>3. ASSUME NEW o \in Orders, orders[o] /= None
      PROVE  /\ orders'[o] /= None
             /\ orders'[o].status = "pending" =>
                   /\ orders[o].status = "pending"
                   /\ orders'[o].side = orders[o].side /\ orders'[o].expect = orders[o].expect
                   /\ o \in Exits => orders'[o].pos = orders[o].pos
  BY <1>3 DEF RowPersists, Follows, SameTerms
<1>4. TablesTyped'
  BY <1>2 DEF TablesTyped
<1>5. Persists
  BY <1>3 DEF Persists, PositionsPersist
<1> QED
  BY <1>4, <1>5

\* A step that leaves positions and fills.
LEMMA RowsPersist ==
    ASSUME TablesTyped, UNCHANGED <<positions, fills>>, \A o \in Orders : RowPersists(o),
           orders' \in [Orders -> OrderRows \cup {None}]
    PROVE  TablesTyped' /\ Persists
<1>1. PositionsPersist
  BY DEF PositionsPersist
<1> QED
  BY <1>1, TablesPersist DEF TablesTyped

\* Positions and fills stay, nothing is filled, and no exit of an entry is made.
LEMMA RowsOnly ==
    ASSUME TablesInv, UNCHANGED <<positions, fills>>, \A o \in Orders : RowPersists(o),
           orders' \in [Orders -> OrderRows \cup {None}],
           \A o \in Orders : (orders'[o] /= None /\ orders'[o].status = "filled") <=>
                                 (orders[o] /= None /\ orders[o].status = "filled"),
           \A x \in Children : orders[x] = None => orders'[x] = None
    PROVE  TablesInv' /\ Persists
<1>1. TablesTyped' /\ Persists
  BY RowsPersist DEF TablesInv
<1>2. OneOpen'
  BY DEF TablesInv, OneOpen, Open
<1>3. Unborn'
  <2>1. ASSUME NEW e \in Entries, orders'[e] = None \/ orders'[e].status = "pending"
        PROVE  orders[e] = None \/ orders[e].status = "pending"
    BY <1>1, <2>1, Ids DEF Persists
  <2>2. ASSUME NEW e \in Entries, NEW k \in {"stop", "take"}, orders[<<e, k>>] = None
        PROVE  orders'[<<e, k>>] = None
    BY <2>2, Ids
  <2> QED
    BY <2>1, <2>2 DEF TablesInv, Unborn
<1>4. Facing'
  <2>1. ASSUME NEW x \in Pending' \cap Children
        PROVE  /\ x \in Pending /\ orders'[x].side = orders[x].side
               /\ orders'[x].pos = orders[x].pos
    <3>1. x \in Orders /\ x \in Exits /\ orders'[x] /= None /\ orders'[x].status = "pending"
      BY DEF Pending, Orders, Exits
    <3> QED
      BY <1>1, <3>1 DEF Persists, Pending
  <2>2. Open' = Open
    BY DEF Open
  <2> QED
    BY <2>1, <2>2 DEF TablesInv, Facing
<1>5. FilledOnce'
  BY DEF TablesInv, FilledOnce
<1> QED
  BY <1>1, <1>2, <1>3, <1>4, <1>5 DEF TablesInv

LEMMA InsertPreserves ==
    ASSUME TablesInv, NEW r, Inserts(r)
    PROVE  TablesInv' /\ Persists
<1>1. r.id \in Orders /\ r \in OrderRows /\ r.id \notin Children
  BY Ids, PaperJournalAssumption DEF Inserts, Row, OrderRows, Orders
<1>2. orders \in [Orders -> OrderRows \cup {None}]
  BY DEF TablesInv, TablesTyped
<1>3. \A o \in Orders : orders'[o] = IF o = r.id THEN r ELSE orders[o]
  BY <1>2 DEF Inserts
<1>4. orders' \in [Orders -> OrderRows \cup {None}]
  BY <1>1, <1>2 DEF Inserts
<1>5. \A o \in Orders : RowPersists(o)
  BY <1>1, <1>3, NoneIsApart DEF RowPersists, Inserts
<1>6. Children \subseteq Orders
  BY DEF Orders
<1> QED
  BY <1>1, <1>3, <1>4, <1>5, <1>6, RowsOnly DEF Inserts

LEMMA CancelPreserves ==
    ASSUME TablesInv, NEW o, Cancels(o)
    PROVE  TablesInv' /\ Persists
<1>1. o \in Orders /\ orders[o] /= None /\ orders[o].status = "pending"
  BY DEF Cancels, Pending
<1>2. orders \in [Orders -> OrderRows \cup {None}]
  BY DEF TablesInv, TablesTyped
<1> DEFINE s == [orders[o] EXCEPT !.status = "cancelled"]
<1>3. /\ SameTerms(s, orders[o]) /\ s.status = "cancelled" /\ s.qty = orders[o].qty
      /\ s.pos = orders[o].pos
  BY <1>1, <1>2, CancelledRows
<1>4. orders' = [orders EXCEPT ![o] = s]
  BY DEF Cancels, Cancelled
<1> HIDE DEF s
<1>5. \A x \in Orders : orders'[x] = IF x = o THEN s ELSE orders[x]
  BY <1>2, <1>4
<1>6. s \in OrderRows /\ s /= None
  BY <1>3 DEF SameTerms
<1>7. orders' \in [Orders -> OrderRows \cup {None}]
  BY <1>2, <1>4, <1>6
<1>8. \A x \in Orders : RowPersists(x)
  BY <1>1, <1>3, <1>5 DEF RowPersists, Follows
<1>9. Children \subseteq Orders
  BY DEF Orders
<1> QED
  BY <1>1, <1>3, <1>5, <1>6, <1>7, <1>8, <1>9, RowsOnly DEF Cancels

LEMMA RelevelPreserves ==
    ASSUME TablesInv, NEW o, Relevels(o)
    PROVE  TablesInv' /\ Persists
<1>1. o \in Orders /\ orders[o] /= None /\ orders[o].status = "pending"
  BY DEF Relevels, Pending
<1>2. orders \in [Orders -> OrderRows \cup {None}]
  BY DEF TablesInv, TablesTyped
<1>3. PICK n \in Nat, c \in Commands :
          orders' = [orders EXCEPT ![o].level = n, ![o].command = c]
  BY DEF Relevels
<1> DEFINE s == [orders[o] EXCEPT !.level = n, !.command = c]
<1>4. /\ SameTerms(s, orders[o]) /\ s.status = orders[o].status /\ s.qty = orders[o].qty
      /\ s.pos = orders[o].pos
  <2>1. orders[o] \in OrderRows
    BY <1>1, <1>2
  <2>2. \A r \in OrderRows : \A u : u = [r EXCEPT !.level = n, !.command = c] =>
            SameTerms(u, r) /\ u.status = r.status /\ u.qty = r.qty /\ u.pos = r.pos /\ u.at = r.at
    BY LeveledRows
  <2> QED
    BY <2>1, <2>2
<1>5. orders' = [orders EXCEPT ![o] = s]
  BY <1>1, <1>2, <1>3
<1> HIDE DEF s
<1>6. \A x \in Orders : orders'[x] = IF x = o THEN s ELSE orders[x]
  BY <1>2, <1>5
<1>7. s \in OrderRows /\ s /= None
  BY <1>4 DEF SameTerms
<1>8. orders' \in [Orders -> OrderRows \cup {None}]
  BY <1>2, <1>5, <1>7
<1>9. \A x \in Orders : RowPersists(x)
  BY <1>1, <1>4, <1>6 DEF RowPersists, Follows
<1>10. Children \subseteq Orders
  BY DEF Orders
<1> QED
  BY <1>1, <1>4, <1>6, <1>7, <1>8, <1>9, <1>10, RowsOnly DEF Relevels

-----------------------------------------------------------------------------
(* The fill *)

LEMMA MovedTo ==
    ASSUME TablesTyped, NEW p \in Positions, NEW q \in Int
    PROVE  /\ Moved(p, q) \in PositionRows /\ Moved(p, q) /= None
           /\ Moved(p, q).qty = q /\ Moved(p, q).status \in {"open", "closed"}
           /\ Moved(p, q).status = "open" <=> q /= 0
<1> DEFINE v == IF positions[p] = None THEN 1 ELSE positions[p].version + 1
           s == IF q = 0 THEN "closed" ELSE "open"
<1>1. v \in Nat
  BY DEF TablesTyped, PositionRows
<1>2. s \in {"open", "closed"} /\ (s = "open" <=> q /= 0)
  OBVIOUS
<1>3. Moved(p, q) = [status |-> s, qty |-> q, version |-> v]
  BY DEF Moved
<1> HIDE DEF s, v
<1>4. Moved(p, q) \in PositionRows
  BY <1>1, <1>2, <1>3 DEF PositionRows
<1> QED
  BY <1>2, <1>3, <1>4, NoneIsApart

\* The position that a fill finds: the open one, or none and the entry makes its own.
LEMMA Found ==
    ASSUME TablesInv, NEW r, NEW p, Executes(r, p)
    PROVE  /\ Row(r, positions) /\ r \in OrderRows /\ r.id \in Orders /\ r.id \in Pending
           /\ p \in Positions /\ QtyOf(p) \in Int
           /\ \/ p \in Open /\ QtyOf(p) = positions[p].qty /\ QtyOf(p) /= 0
              \/ /\ Open = {} /\ r.id \in Entries /\ p = <<r.id, "pos">>
                 /\ positions[p] = None /\ QtyOf(p) = 0
           /\ r.id \in Exits => p \in Open /\ p = r.pos /\ p = orders[r.id].pos
<1>1. Row(r, positions) /\ r \in OrderRows /\ r.id \in Orders /\ r.id \in Pending
  BY DEF Executes, Copy, Row, Pending
<1>2. /\ orders[r.id] /= None /\ orders[r.id].status = "pending"
      /\ r.id \in Exits => orders[r.id].pos = r.pos
  BY <1>1 DEF Executes, Copy, Pending
<1>3. \A s \in Open : s \in Positions /\ positions[s] /= None /\ positions[s].qty \in Int
                         /\ positions[s].qty /= 0
  BY DEF Open, TablesInv, TablesTyped, PositionRows
<1>4. CASE p \in Locked(r)
  <2>1. p \in Open /\ (r.id \in Exits => p = r.pos)
    BY <1>4 DEF Locked
  <2> QED
    BY <1>1, <1>2, <1>3, <2>1 DEF QtyOf
<1>5. CASE Locked(r) = {} /\ r.id \notin Exits /\ p = <<r.id, "pos">>
  <2>1. Open = {} /\ r.id \in Entries
    BY <1>1, <1>5, Ids DEF Locked
  <2>2. p \in Positions /\ positions[p] = None
    BY <1>2, <1>5, <2>1, Ids DEF TablesInv, Unborn
  <2> QED
    BY <1>1, <1>2, <1>5, <2>1, <2>2 DEF QtyOf
<1> QED
  BY <1>4, <1>5 DEF Executes, Finds

\* What it moves: an exit goes towards zero, an entry may go through it.
LEMMA Moves ==
    ASSUME TablesInv, NEW r, NEW p, Executes(r, p), NEW d, d = Delta(r, QtyOf(p))
    PROVE  /\ d \in Int /\ Abs(d) \in Nat \ {0}
           /\ r.id \in Exits => d * QtyOf(p) < 0 /\ Abs(d) <= Abs(QtyOf(p))
           /\ r.id \in Entries => d = r.side * r.qty /\ Abs(d) = r.qty
           /\ Reverses(QtyOf(p), d) => r.id \in Entries /\ p \in Open
           /\ p \notin Open => QtyOf(p) + d /= 0
<1>1. /\ Row(r, positions) /\ r.id \in Orders /\ r.id \in Pending
      /\ p \in Positions /\ QtyOf(p) \in Int
      /\ \/ p \in Open /\ QtyOf(p) = positions[p].qty /\ QtyOf(p) /= 0
         \/ r.id \in Entries /\ p \notin Open /\ QtyOf(p) = 0
      /\ r.id \in Exits => p \in Open /\ p = r.pos /\ p = orders[r.id].pos
  BY Found
<1> DEFINE q == QtyOf(p)
<1>2. CASE r.id \in Exits
  <2>1. q \in Int \ {0} /\ p \in Open /\ q = positions[p].qty
    BY <1>1, <1>2, Ids
  <2>2. r.id \in Children => r.side * q < 0
    <3>1. ASSUME r.id \in Children
          PROVE  r.side * q < 0
      <4>1. orders[r.id].side = r.side
        BY <1>1 DEF Executes, Copy, Pending
      <4>2. orders[r.id].side * positions[orders[r.id].pos].qty < 0
        BY <1>1, <3>1 DEF TablesInv, Facing
      <4>3. positions[orders[r.id].pos].qty = q
        BY <1>1, <1>2, <2>1
      <4> QED
        BY <4>1, <4>2, <4>3
    <3> QED
      BY <3>1
  <2> HIDE DEF q
  <2>3. /\ Delta(r, q) \in Int /\ Delta(r, q) * q < 0
        /\ Abs(Delta(r, q)) <= Abs(q) /\ Abs(Delta(r, q)) \in Nat \ {0}
        /\ ~Reverses(q, Delta(r, q))
    BY <1>1, <1>2, <2>1, <2>2, ExitDelta
  <2>4. r.id \notin Entries /\ d = Delta(r, q)
    BY <1>2, Ids DEF q
  <2> QED
    BY <2>1, <2>3, <2>4 DEF q
<1>3. CASE r.id \in Entries
  <2>1. r.id \notin Exits /\ r.qty \in Nat \ {0}
    BY <1>1, <1>3, Ids DEF Row, OrderRows
  <2>2. d \in Int /\ d /= 0 /\ d = r.side * r.qty /\ Abs(d) = r.qty
    BY <1>1, <1>3, EntryDelta
  <2>3. QtyOf(p) = 0 => ~Reverses(QtyOf(p), d) /\ QtyOf(p) + d /= 0
    BY <2>2, Products DEF Reverses
  <2> QED
    BY <1>1, <1>3, <2>1, <2>2, <2>3
<1> QED
  BY <1>1, <1>2, <1>3, Ids

\* The position that a fill leaves, and the entry whose position it made.
LEMMA Leaves ==
    ASSUME TablesInv, NEW r, NEW p, Executes(r, p), NEW q, q = QtyOf(p),
           NEW d, d = Delta(r, q), NEW f, f = Final(r, p, d)
    PROVE  /\ positions' \in [Positions -> PositionRows \cup {None}]
           /\ \A s \in Positions : positions'[s] /= None =>
                 (positions'[s].status = "open") <=> (positions'[s].qty /= 0)
           /\ PositionsPersist
           /\ f \in Positions /\ positions'[f] /= None
           /\ Open' = IF q + d = 0 THEN {} ELSE {f}
           /\ q + d /= 0 => positions'[f].qty = q + d
           /\ \A s \in Positions : positions[s] = None /\ positions'[s] /= None =>
                 r.id \in Entries /\ s \in {<<r.id, "pos">>, <<r.id, "rev">>}
           /\ Reverses(q, d) => f = <<r.id, "rev">> /\ positions[f] = None /\ q + d /= 0
           /\ ~Reverses(q, d) => f = p
<1>1. /\ r.id \in Orders /\ r.id \in Pending /\ p \in Positions /\ q \in Int
      /\ \/ p \in Open /\ q /= 0 /\ positions[p] /= None
         \/ /\ Open = {} /\ r.id \in Entries /\ p = <<r.id, "pos">>
            /\ positions[p] = None /\ q = 0
  BY Found DEF Open
<1>2. /\ d \in Int
      /\ Reverses(q, d) => r.id \in Entries /\ p \in Open
  BY Moves
<1>3. positions' = Transitioned(r, p, d)
  BY DEF Executes, Execute
<1>4. /\ TablesTyped /\ positions \in [Positions -> PositionRows \cup {None}]
      /\ \A s \in Positions : positions[s] /= None =>
            (positions[s].status = "open") <=> (positions[s].qty /= 0)
  BY DEF TablesInv, TablesTyped
<1>5. Open \subseteq {p}
  BY <1>1 DEF TablesInv, OneOpen
<1>6. q + d \in Int /\ 0 \in Int
  BY <1>1, <1>2
<1>7. p \in Open => positions[p].status = "open"
  BY DEF Open
<1>8. \A s \in Positions : s \in Open <=> positions[s] /= None /\ positions[s].status = "open"
  BY DEF Open
<1>9. \A s : s \in Open' <=> s \in Positions /\ positions'[s] /= None
                                /\ positions'[s].status = "open"
  BY DEF Open
<1>10. CASE ~Reverses(q, d)
  <2> DEFINE m == Moved(p, q + d)
  <2>1. positions' = [positions EXCEPT ![p] = m] /\ f = p
    BY <1>3, <1>10 DEF Transitioned, Final
  <2>2. m \in PositionRows /\ m /= None /\ m.qty = q + d /\ (m.status = "open" <=> q + d /= 0)
    BY <1>1, <1>4, <1>6, MovedTo
  <2> HIDE DEF m
  <2>3. \A s \in Positions : positions'[s] = IF s = p THEN m ELSE positions[s]
    BY <1>4, <2>1
  <2>4. positions' \in [Positions -> PositionRows \cup {None}]
    BY <1>1, <1>4, <2>1, <2>2
  <2>5. PositionsPersist
    BY <1>1, <1>7, <2>2, <2>3 DEF PositionsPersist
  <2>6. \A s \in Positions : positions'[s] /= None =>
                 (positions'[s].status = "open") <=> (positions'[s].qty /= 0)
    BY <1>4, <2>2, <2>3
  <2>7. Open' = IF q + d = 0 THEN {} ELSE {p}
    <3>1. \A s \in Positions : s /= p => s \notin Open'
      BY <1>5, <1>8, <1>9, <2>3
    <3>2. p \in Open' <=> q + d /= 0
      BY <1>1, <1>9, <2>2, <2>3
    <3> QED
      BY <1>9, <3>1, <3>2
  <2> QED
    BY <1>1, <1>10, <2>1, <2>2, <2>3, <2>4, <2>5, <2>6, <2>7
<1>11. CASE Reverses(q, d)
  <2> DEFINE m == Moved(p, 0)
             n == Moved(f, q + d)
  <2>1. f = <<r.id, "rev">> /\ r.id \in Entries /\ p \in Open /\ positions[p] /= None
    BY <1>1, <1>2, <1>11 DEF Final, Open
  <2>2. f \in Positions /\ positions[f] = None /\ f /= p
    BY <1>1, <2>1, Ids DEF TablesInv, Unborn, Pending
  <2>3. positions' = [positions EXCEPT ![p] = m, ![f] = n]
    BY <1>3, <1>11 DEF Transitioned
  <2>4. m \in PositionRows /\ m /= None /\ m.qty = 0 /\ m.status /= "open"
    BY <1>1, <1>4, <1>6, MovedTo
  <2>5. q + d /= 0
    BY <1>1, <1>11 DEF Reverses
  <2>6. n \in PositionRows /\ n /= None /\ n.qty = q + d /\ n.status = "open"
    BY <1>4, <1>6, <2>2, <2>5, MovedTo
  <2> HIDE DEF m, n
  <2>7. \A s \in Positions :
            positions'[s] = IF s = p THEN m ELSE IF s = f THEN n ELSE positions[s]
    BY <1>4, <2>2, <2>3
  <2>8. positions' \in [Positions -> PositionRows \cup {None}]
    BY <1>1, <1>4, <2>2, <2>3, <2>4, <2>6
  <2>9. PositionsPersist
    BY <1>7, <2>1, <2>2, <2>4, <2>7 DEF PositionsPersist
  <2>10. \A s \in Positions : positions'[s] /= None =>
                 (positions'[s].status = "open") <=> (positions'[s].qty /= 0)
    BY <1>4, <2>4, <2>5, <2>6, <2>7
  <2>11. Open' = {f}
    <3>1. \A s \in Positions : s \notin {p, f} => s \notin Open'
      BY <1>5, <1>8, <1>9, <2>7
    <3>2. f \in Open' /\ p \notin Open'
      BY <1>1, <1>9, <2>2, <2>4, <2>6, <2>7
    <3> QED
      BY <1>9, <3>1, <3>2
  <2> QED
    BY <1>11, <2>1, <2>2, <2>5, <2>6, <2>7, <2>8, <2>9, <2>10, <2>11
<1> QED
  BY <1>10, <1>11

FillDelta(r, p) == Delta(r, QtyOf(p))
FillPos(r, p) == Final(r, p, FillDelta(r, p))

FillQty(r, p) == QtyOf(p) + FillDelta(r, p)
FillDead(r, p) == Dead(r, p, FillDelta(r, p))
FillKept(r, p) ==
    IF FillQty(r, p) = 0 THEN {} ELSE ExitsOf(FillPos(r, p), r.id) \ FillDead(r, p)
FillNew(r, p) == ChildrenOf(r, QtyOf(p), FillDelta(r, p))
FillShare(r, p, o) == Admitted(FillKept(r, p), o, Abs(FillQty(r, p)))
FillMade(r, p, o) ==
    Created(NewOrder(o, o[2], -Sign(FillQty(r, p)), ProtectiveQty(QtyOf(p), FillDelta(r, p)),
                     FillPos(r, p), AnyPosition))

\* The exits that a fill cancels, resizes and makes are others.
LEMMA FillSets ==
    ASSUME TablesInv, NEW r, NEW p, Executes(r, p)
    PROVE  /\ FillDead(r, p) \subseteq Pending \ {r.id}
           /\ FillKept(r, p) \subseteq (Pending \cap Exits) \ {r.id}
           /\ FillNew(r, p) \subseteq Children
           /\ FillDead(r, p) \cap FillKept(r, p) = {} /\ FillDead(r, p) \cap FillNew(r, p) = {}
           /\ FillKept(r, p) \cap FillNew(r, p) = {} /\ r.id \notin FillNew(r, p)
           /\ FillDead(r, p) \cup FillKept(r, p) \cup FillNew(r, p) \subseteq Orders
           /\ \A o \in FillNew(r, p) :
                 /\ orders[o] = None /\ o[1] = r.id /\ r.id \in Entries
                 /\ o[2] \in {"stop", "take"}
                 /\ ProtectiveQty(QtyOf(p), FillDelta(r, p)) > 0
<1> DEFINE dead == FillDead(r, p)
           kept == FillKept(r, p)
           new == FillNew(r, p)
<1>1. r.id \in Orders /\ r.id \in Pending
  BY Found
<1>2. \A o \in Pending : o \in Orders /\ orders[o] /= None
  BY DEF Pending
<1>3. dead \subseteq Pending \ {r.id} /\ kept \subseteq (Pending \cap Exits) \ {r.id}
      /\ kept \cap dead = {}
  BY DEF Dead, ExitsOf, FillDead, FillKept
<1>4. ASSUME NEW o \in new
      PROVE  /\ o \in Children /\ orders[o] = None /\ o[1] = r.id /\ r.id \in Entries
             /\ o[2] \in {"stop", "take"} /\ ProtectiveQty(QtyOf(p), FillDelta(r, p)) > 0
  <2>1. /\ r.id \in Entries /\ ProtectiveQty(QtyOf(p), FillDelta(r, p)) > 0
        /\ \E k \in Protect[r.id] : o = <<r.id, k>>
    BY <1>4 DEF ChildrenOf, FillNew
  <2>2. PICK k \in {"stop", "take"} : o = <<r.id, k>>
    BY <2>1, PaperJournalAssumption
  <2> QED
    BY <1>1, <2>1, <2>2, Ids DEF TablesInv, Unborn, Pending
<1> HIDE DEF dead, kept, new
<1>5. new \subseteq Children /\ \A o \in new : o \in Orders /\ orders[o] = None
  BY <1>4 DEF Orders
<1>6. r.id \notin new /\ dead \cap new = {} /\ kept \cap new = {}
  BY <1>1, <1>2, <1>3, <1>5
<1>7. dead \cup kept \cup new \subseteq Orders
  BY <1>2, <1>3, <1>5
<1> QED
  BY <1>3, <1>4, <1>5, <1>6, <1>7 DEF dead, kept, new

\* The rows that a fill writes: its own, those of the exits it cancels, of the exits it
\* resizes to their share of the position it leaves, and of the exits it makes.
FillWrites(r, p) ==
    /\ orders' = [o \in Orders |-> orders'[o]]
    /\ orders'[r.id] = [orders[r.id] EXCEPT !.status = "filled",
                            !.qty = Abs(FillDelta(r, p)), !.pos = FillPos(r, p)]
    /\ \A o \in FillDead(r, p) : orders'[o] = [orders[o] EXCEPT !.status = "cancelled"]
    /\ \A o \in FillKept(r, p) :
          /\ FillShare(r, p, o) \in Nat
          /\ orders'[o] = Resized(orders[o], FillShare(r, p, o))
    /\ \A o \in FillNew(r, p) : orders'[o] = FillMade(r, p, o)
    /\ \A o \in Orders \ {r.id} :
          o \notin FillDead(r, p) \cup FillKept(r, p) \cup FillNew(r, p) =>
              orders'[o] = orders[o]

LEMMA FillRows ==
    ASSUME TablesInv, NEW r, NEW p, Executes(r, p)
    PROVE  FillWrites(r, p)
<1> DEFINE dead == FillDead(r, p)
           kept == FillKept(r, p)
           new == FillNew(r, p)
           d == FillDelta(r, p)
           f == FillPos(r, p)
           room == UNION {0..orders[o].qty : o \in kept}
           Made(o) == FillMade(r, p, o)
<1>1. PICK share \in [kept -> room] :
          /\ \A o \in kept : share[o] = FillShare(r, p, o)
          /\ orders' = [o \in Orders |->
              CASE o = r.id -> [orders[o] EXCEPT !.status = "filled", !.qty = Abs(d), !.pos = f]
                [] o \in dead -> [orders[o] EXCEPT !.status = "cancelled"]
                [] o \in kept -> Resized(orders[o], share[o])
                [] o \in new -> Made(o)
                [] OTHER -> orders[o]]
  <2>1. Execute(r, p)
    BY DEF Executes
  <2> QED
    BY <2>1 DEF Execute, FillDead, FillKept, FillNew, FillShare, FillMade, FillQty, FillPos, FillDelta
<1>2. r.id \in Orders /\ r.id \in Pending
  BY Found
<1>3. /\ dead \subseteq Pending \ {r.id} /\ kept \subseteq (Pending \cap Exits) \ {r.id}
      /\ dead \cap kept = {} /\ dead \cap new = {} /\ kept \cap new = {} /\ r.id \notin new
      /\ dead \cup kept \cup new \subseteq Orders
  BY FillSets
<1>4. \A o \in kept : share[o] \in Nat
  <2>1. \A o \in kept : orders[o].qty \in Nat
    <3>1. \A o \in Pending : orders[o] \in OrderRows
      BY DEF Pending, TablesInv, TablesTyped
    <3> QED
      BY <1>3, <3>1 DEF OrderRows
  <2>2. room \subseteq Nat
    BY <2>1
  <2> QED
    BY <1>1, <2>2
<1> DEFINE W(o) == CASE o = r.id -> [orders[o] EXCEPT !.status = "filled", !.qty = Abs(d), !.pos = f]
                     [] o \in dead -> [orders[o] EXCEPT !.status = "cancelled"]
                     [] o \in kept -> Resized(orders[o], share[o])
                     [] o \in new -> Made(o)
                     [] OTHER -> orders[o]
<1> HIDE DEF Made, d, f, room, dead, kept, new
<1>5. orders' = [o \in Orders |-> W(o)]
  BY <1>1
<1>6. \A o \in kept : share[o] = FillShare(r, p, o)
  BY <1>1
<1> HIDE DEF W
<1>7. orders' = [o \in Orders |-> orders'[o]] /\ \A o \in Orders : orders'[o] = W(o)
  BY <1>5
<1>8. /\ r.id \notin dead /\ r.id \notin kept /\ r.id \notin new
      /\ \A o \in dead : o \in Orders /\ o /= r.id /\ o \notin kept /\ o \notin new
      /\ \A o \in kept : o \in Orders /\ o /= r.id /\ o \notin dead /\ o \notin new
      /\ \A o \in new : o \in Orders /\ o /= r.id /\ o \notin dead /\ o \notin kept
  BY <1>3
<1>9. orders'[r.id] = [orders[r.id] EXCEPT !.status = "filled", !.qty = Abs(d), !.pos = f]
  <2>1. W(r.id) = [orders[r.id] EXCEPT !.status = "filled", !.qty = Abs(d), !.pos = f]
    BY <1>8 DEF W
  <2> QED
    BY <1>2, <1>7, <2>1
<1>10. \A o \in dead : orders'[o] = [orders[o] EXCEPT !.status = "cancelled"]
  <2>1. \A o \in dead : W(o) = [orders[o] EXCEPT !.status = "cancelled"]
    BY <1>8 DEF W
  <2> QED
    BY <1>7, <1>8, <2>1
<1>11. \A o \in kept : orders'[o] = Resized(orders[o], share[o])
  <2>1. \A o \in kept : W(o) = Resized(orders[o], share[o])
    BY <1>8 DEF W
  <2> QED
    BY <1>7, <1>8, <2>1
<1>12. \A o \in kept : FillShare(r, p, o) \in Nat /\ orders'[o] = Resized(orders[o], FillShare(r, p, o))
  BY <1>4, <1>6, <1>11
<1>13. \A o \in new : orders'[o] = Made(o)
  <2>1. \A o \in new : W(o) = Made(o)
    BY <1>8 DEF W
  <2> QED
    BY <1>7, <1>8, <2>1
<1>14. \A o \in Orders \ {r.id} : o \notin dead \cup kept \cup new => orders'[o] = orders[o]
  <2>1. \A o \in Orders \ {r.id} : o \notin dead \cup kept \cup new => W(o) = orders[o]
    BY DEF W
  <2> QED
    BY <1>7, <2>1
<1> QED
  BY <1>7, <1>9, <1>10, <1>12, <1>13, <1>14 DEF FillWrites, Made, d, f, dead, kept, new

\* What a fill does to the orders: settles its own and some exits, resizes others of
\* the position it leaves, and makes the exits of an entry that face that position.
LEMMA FilledOrders ==
    ASSUME TablesInv, NEW r, NEW p, Executes(r, p)
    PROVE  /\ orders' \in [Orders -> OrderRows \cup {None}]
           /\ \A o \in Orders : RowPersists(o)
           /\ orders'[r.id] /= None /\ orders'[r.id].status = "filled"
           /\ \A o \in Orders \ {r.id} : orders'[o] /= None =>
                 \/ orders[o] /= None /\ Follows(orders'[o], orders[o])
                    /\ (o \in Dead(r, p, FillDelta(r, p)) => orders'[o].status /= "pending")
                 \/ /\ orders[o] = None /\ o \in Children /\ o[1] = r.id /\ r.id \in Entries
                    /\ orders'[o].pos = FillPos(r, p) /\ FillPos(r, p) \in Open'
                    /\ orders'[o].side * positions'[FillPos(r, p)].qty < 0
                    /\ orders'[o].status = "pending"
<1> DEFINE q == QtyOf(p)
           d == Delta(r, q)
           f == Final(r, p, d)
           dead == FillDead(r, p)
           kept == FillKept(r, p)
           new == FillNew(r, p)
<1>4. /\ PositionsPersist /\ f \in Positions /\ positions'[f] /= None
      /\ Open' = IF q + d = 0 THEN {} ELSE {f}
      /\ q + d /= 0 => positions'[f].qty = q + d
  BY Leaves
<1> HIDE DEF q, d, f
<1>0. /\ q = QtyOf(p) /\ d = Delta(r, q) /\ f = Final(r, p, d)
      /\ d = FillDelta(r, p) /\ f = FillPos(r, p) /\ q + d = FillQty(r, p)
  BY DEF q, d, f, FillDelta, FillPos, FillQty
<1>2. /\ Row(r, positions) /\ r.id \in Orders /\ r.id \in Pending /\ q \in Int
  BY <1>0, Found
<1>3. d \in Int /\ Abs(d) \in Nat \ {0} /\ (r.id \in Entries => Abs(d) = r.qty)
  BY <1>0, Moves
<1>5. /\ orders \in [Orders -> OrderRows \cup {None}]
      /\ \A o \in Orders : orders[o] /= None => orders[o].id = o /\ Row(orders[o], positions)
  BY DEF TablesInv, TablesTyped
<1>7. \A o \in Pending : o \in Orders /\ orders[o] /= None /\ orders[o] \in OrderRows
                            /\ orders[o].status = "pending"
  BY <1>5 DEF Pending
<1> HIDE DEF dead, kept, new
<1>6. dead \subseteq Pending \ {r.id} /\ kept \subseteq (Pending \cap Exits) \ {r.id}
  BY FillSets DEF dead, kept
<1>9. /\ new \subseteq Children
      /\ \A o \in new : /\ orders[o] = None /\ o[1] = r.id /\ r.id \in Entries
                        /\ o[2] \in {"stop", "take"} /\ ProtectiveQty(q, d) > 0
  BY <1>0, FillSets DEF new
<1>10. /\ r.id \notin dead \cup kept \cup new /\ dead \cap kept = {} /\ dead \cap new = {}
       /\ kept \cap new = {} /\ new \subseteq Orders /\ dead \subseteq Orders /\ kept \subseteq Orders
  BY <1>2, FillSets DEF dead, kept, new
<1>8. FillWrites(r, p)
  BY FillRows
<1>11. orders'[r.id] = [orders[r.id] EXCEPT !.status = "filled", !.qty = Abs(d), !.pos = f]
  BY <1>0, <1>8 DEF FillWrites
<1>12. \A o \in dead : orders'[o] = [orders[o] EXCEPT !.status = "cancelled"]
  BY <1>8 DEF FillWrites, dead
<1>13. \A o \in kept : /\ FillShare(r, p, o) \in Nat
                       /\ orders'[o] = Resized(orders[o], FillShare(r, p, o))
  BY <1>8 DEF FillWrites, kept
<1>14. \A o \in new : orders'[o] = FillMade(r, p, o)
  BY <1>8 DEF FillWrites, new
<1>15. /\ orders' = [o \in Orders |-> orders'[o]]
       /\ \A o \in Orders : o \notin {r.id} \cup dead \cup kept \cup new => orders'[o] = orders[o]
  BY <1>8 DEF FillWrites, dead, kept, new
<1>16. /\ SameTerms(orders'[r.id], orders[r.id]) /\ orders'[r.id].status = "filled"
       /\ orders'[r.id].qty = Abs(d) /\ orders'[r.id].pos = f
  <2> DEFINE n == Abs(d)
             old == orders[r.id]
             u == [old EXCEPT !.status = "filled", !.qty = n, !.pos = f]
  <2>1. n \in Nat \ {0} /\ old \in OrderRows /\ f \in Positions /\ orders'[r.id] = u
    BY <1>2, <1>3, <1>4, <1>7, <1>11
  <2> HIDE DEF n, old
  <2>2. u \in OrderRows
    BY <2>1 DEF OrderRows
  <2>3. /\ u.id = old.id /\ u.role = old.role /\ u.side = old.side /\ u.expect = old.expect
        /\ u.status = "filled" /\ u.qty = n /\ u.pos = f
    BY <2>1 DEF OrderRows
  <2> HIDE DEF u
  <2>4. SameTerms(u, old) /\ u.status = "filled" /\ u.qty = n /\ u.pos = f
    BY <2>2, <2>3, NoneIsApart DEF SameTerms
  <2>5. SameTerms(orders'[r.id], old) /\ orders'[r.id].status = "filled"
        /\ orders'[r.id].qty = n /\ orders'[r.id].pos = f
    BY <2>1, <2>4
  <2> QED
    BY <2>5 DEF n, old
<1>17. ASSUME NEW o \in dead
       PROVE  Follows(orders'[o], orders[o]) /\ orders'[o].status = "cancelled"
  <2> DEFINE s == [orders[o] EXCEPT !.status = "cancelled"]
  <2>1. orders[o] \in OrderRows /\ orders[o].status = "pending" /\ orders'[o] = s
    BY <1>6, <1>7, <1>12
  <2>2. SameTerms(s, orders[o]) /\ s.status = "cancelled" /\ s.qty = orders[o].qty
        /\ s.pos = orders[o].pos
    BY <2>1, CancelledRows
  <2> HIDE DEF s
  <2> QED
    BY <2>1, <2>2 DEF Follows
<1>18. ASSUME NEW o \in kept
       PROVE  Follows(orders'[o], orders[o])
  <2>1. orders[o] \in OrderRows /\ orders[o].id = o /\ o \in Exits /\ orders[o].status = "pending"
    BY <1>5, <1>6, <1>7
  <2> QED
    BY <1>13, <2>1, ResizedRows DEF Follows
<1>19. ASSUME NEW o \in new
       PROVE  /\ orders'[o] \in OrderRows /\ orders'[o] /= None /\ orders'[o].id = o
              /\ Row(orders'[o], positions') /\ orders'[o].status = "pending"
              /\ orders'[o].pos = f /\ f \in Open' /\ orders'[o].side * positions'[f].qty < 0
  <2> DEFINE n == NewOrder(o, o[2], -Sign(q + d), ProtectiveQty(q, d), f, AnyPosition)
             side == -Sign(q + d)
             qty == ProtectiveQty(q, d)
  <2>1. /\ qty \in Nat \ {0} /\ q + d /= 0 /\ side \in {-1, 1} /\ side * (q + d) < 0
    BY <1>2, <1>3, <1>9, ProtectiveQtys
  <2>2. o \in Orders /\ o[2] \in Roles(o) /\ o \in Exits /\ AnyPosition \in Expectations
    BY <1>9, <1>10, Ids DEF Roles, Exits, Expectations
  <2>3. n = NewOrder(o, o[2], side, qty, f, AnyPosition)
    OBVIOUS
  <2>4. orders'[o] = Created(n)
    BY <1>0, <1>14 DEF FillMade
  <2> HIDE DEF n, side, qty
  <2>5. /\ n \in OrderRows /\ n.status = "pending" /\ n.id = o /\ n.role = o[2]
        /\ n.side = side /\ n.pos = f /\ n.expect = AnyPosition
    BY <1>4, <2>1, <2>2, <2>3, NewOrders
  <2>6. SameTerms(orders'[o], n) /\ orders'[o].status = "pending" /\ orders'[o].pos = f
    BY <2>4, <2>5, CreatedRows
  <2>7. Row(orders'[o], positions')
    BY <1>4, <2>2, <2>5, <2>6 DEF Row, SameTerms, Expects
  <2>8. f \in Open' /\ positions'[f].qty = q + d
    BY <1>4, <2>1
  <2> QED
    BY <2>1, <2>5, <2>6, <2>7, <2>8 DEF SameTerms
<1>20. ASSUME NEW o \in Orders
       PROVE  RowPersists(o) /\ orders'[o] \in OrderRows \cup {None}
  <2>1. CASE o = r.id
    <3>1. orders'[o].id = o /\ orders'[o] /= None /\ orders'[o] \in OrderRows
      BY <1>2, <1>5, <1>7, <1>16, <2>1 DEF SameTerms
    <3>2. Row(orders'[o], positions')
      <4>1. Row(orders[o], positions) /\ orders[o].id = o /\ orders[o].expect = r.expect
        BY <1>2, <1>5, <1>7, <2>1 DEF Executes, Copy
      <4>2. Expects(orders'[o])
        <5>1. r.id \in Entries => orders'[o].qty = r.qty /\ orders'[o].side = r.side
                                     /\ orders'[o].expect = r.expect /\ orders'[o].id = r.id
          BY <1>2, <1>3, <1>7, <1>16, <2>1, <4>1 DEF SameTerms, Executes, Copy
        <5>2. Expects(r)
          BY <1>2 DEF Row
        <5>3. r.id \notin Entries => orders'[o].expect = AnyPosition
          BY <1>16, <2>1, <4>1 DEF SameTerms, Row, Expects
        <5> QED
          BY <5>1, <5>2, <5>3 DEF Expects
      <4> QED
        BY <1>4, <1>16, <2>1, <3>1, <4>1, <4>2 DEF Row, SameTerms
    <3> QED
      BY <1>16, <2>1, <3>1, <3>2 DEF RowPersists
  <2>2. CASE o \in dead
    BY <1>6, <1>7, <1>17, <2>2 DEF RowPersists, Follows, SameTerms
  <2>3. CASE o \in kept
    BY <1>6, <1>7, <1>18, <2>3 DEF RowPersists, Follows, SameTerms
  <2>4. CASE o \in new
    BY <1>9, <1>19, <2>4 DEF RowPersists
  <2>5. CASE o \notin {r.id} \cup dead \cup kept \cup new
    BY <1>5, <1>15, <2>5 DEF RowPersists
  <2> QED
    BY <2>1, <2>2, <2>3, <2>4, <2>5
<1>21. orders' \in [Orders -> OrderRows \cup {None}]
  BY <1>15, <1>20
<1>22. ASSUME NEW o \in Orders \ {r.id}, orders'[o] /= None
       PROVE  \/ /\ orders[o] /= None /\ Follows(orders'[o], orders[o])
                 /\ o \in dead => orders'[o].status /= "pending"
              \/ /\ orders[o] = None /\ o \in Children /\ o[1] = r.id /\ r.id \in Entries
                 /\ orders'[o].pos = f /\ f \in Open'
                 /\ orders'[o].side * positions'[f].qty < 0
                 /\ orders'[o].status = "pending"
  <2>1. CASE o \in dead
    BY <1>6, <1>7, <1>17, <2>1
  <2>2. CASE o \in kept
    BY <1>6, <1>7, <1>10, <1>18, <2>2
  <2>3. CASE o \in new
    BY <1>9, <1>19, <2>3
  <2>4. CASE o \notin dead \cup kept \cup new
    <3>1. orders'[o] = orders[o]
      BY <1>15, <2>4
    <3>2. orders[o] /= None /\ orders[o] \in OrderRows
      BY <1>5, <1>22, <3>1
    <3> QED
      BY <2>4, <3>1, <3>2, SameRow DEF Follows
  <2> QED
    BY <2>1, <2>2, <2>3, <2>4
<1> QED
  BY <1>0, <1>16, <1>20, <1>21, <1>22 DEF SameTerms, dead, FillDead

LEMMA FilledFills ==
    ASSUME TablesInv, NEW r, NEW p, Executes(r, p)
    PROVE  /\ fills' \in [Orders -> Seq([pos : Positions, delta : Int])]
           /\ Len(fills'[r.id]) = 1
           /\ fills'[r.id][1].pos = FillPos(r, p) /\ fills'[r.id][1].delta = FillDelta(r, p)
           /\ \A o \in Orders \ {r.id} : fills'[o] = fills[o]
<1> DEFINE f == [pos |-> FillPos(r, p), delta |-> FillDelta(r, p)]
<1>1. r.id \in Orders /\ r.id \in Pending
  BY Found
<1>2. FillDelta(r, p) \in Int /\ FillPos(r, p) \in Positions
  BY Moves, Leaves DEF FillDelta, FillPos
<1>3. fills \in [Orders -> Seq([pos : Positions, delta : Int])] /\ fills[r.id] = <<>>
  BY <1>1 DEF TablesInv, TablesTyped, FilledOnce, Pending
<1>4. fills' = [fills EXCEPT ![r.id] = Append(fills[r.id], f)]
  BY DEF Executes, Execute, FillDelta, FillPos
<1>5. f \in [pos : Positions, delta : Int] /\ f.pos = FillPos(r, p) /\ f.delta = FillDelta(r, p)
  BY <1>2
<1> HIDE DEF f
<1>6. Append(fills[r.id], f) = <<f>> /\ <<f>> \in Seq([pos : Positions, delta : Int])
      /\ Len(<<f>>) = 1 /\ <<f>>[1] = f
  BY <1>3, <1>5
<1>7. fills'[r.id] = <<f>>
  BY <1>1, <1>3, <1>4, <1>6
<1>8. fills' \in [Orders -> Seq([pos : Positions, delta : Int])]
  BY <1>3, <1>4, <1>6
<1> QED
  BY <1>3, <1>4, <1>5, <1>6, <1>7, <1>8

LEMMA ExecutePreserves ==
    ASSUME TablesInv, NEW r, NEW p, Executes(r, p)
    PROVE  TablesInv' /\ Persists
<1> DEFINE q == QtyOf(p)
           d == FillDelta(r, p)
           f == FillPos(r, p)
           dead == Dead(r, p, d)
<1>1. /\ r.id \in Orders /\ r.id \in Pending /\ p \in Positions /\ q \in Int
      /\ \/ p \in Open /\ q = positions[p].qty
         \/ Open = {} /\ r.id \in Entries
  BY Found
<1>2. d \in Int /\ (p \notin Open => q + d /= 0)
  BY Moves DEF FillDelta
<1>3. /\ positions' \in [Positions -> PositionRows \cup {None}]
      /\ \A s \in Positions : positions'[s] /= None =>
                 (positions'[s].status = "open") <=> (positions'[s].qty /= 0)
      /\ PositionsPersist
      /\ Open' = IF q + d = 0 THEN {} ELSE {f}
      /\ q + d /= 0 => positions'[f].qty = q + d
      /\ \A s \in Positions : positions[s] = None /\ positions'[s] /= None =>
                 r.id \in Entries /\ s \in {<<r.id, "pos">>, <<r.id, "rev">>}
      /\ ~Reverses(q, d) => f = p
  BY Leaves DEF FillDelta, FillPos
<1>4. /\ orders' \in [Orders -> OrderRows \cup {None}]
      /\ \A o \in Orders : RowPersists(o)
      /\ orders'[r.id] /= None /\ orders'[r.id].status = "filled"
      /\ \A o \in Orders \ {r.id} : orders'[o] /= None =>
                 \/ orders[o] /= None /\ Follows(orders'[o], orders[o])
                    /\ (o \in dead => orders'[o].status /= "pending")
                 \/ /\ orders[o] = None /\ o \in Children /\ o[1] = r.id /\ r.id \in Entries
                    /\ orders'[o].pos = f /\ f \in Open'
                    /\ orders'[o].side * positions'[f].qty < 0
                    /\ orders'[o].status = "pending"
  BY FilledOrders
<1>5. /\ fills' \in [Orders -> Seq([pos : Positions, delta : Int])]
      /\ Len(fills'[r.id]) = 1
      /\ \A o \in Orders \ {r.id} : fills'[o] = fills[o]
  BY FilledFills
<1>d. dead = {x \in Pending \ {r.id} : r.id \in Children /\ x \in Children /\ Group(x) = Group(r.id)}
               \cup (IF q + d = 0 \/ Reverses(q, d) THEN ExitsOf(p, r.id) ELSE {})
  BY DEF Dead
<1> HIDE DEF q, d, f, dead
<1>6. TablesTyped' /\ Persists
  BY <1>3, <1>4, <1>5, TablesPersist DEF TablesInv
<1>7. OneOpen'
  BY <1>3 DEF OneOpen
<1>8. Unborn'
  <2> SUFFICES ASSUME NEW e \in Entries, orders'[e] = None \/ orders'[e].status = "pending"
               PROVE  /\ positions'[<<e, "pos">>] = None /\ positions'[<<e, "rev">>] = None
                      /\ \A k \in {"stop", "take"} : orders'[<<e, k>>] = None
    BY DEF Unborn
  <2>1. e /= r.id /\ e \in Orders
    BY <1>4, Ids
  <2>2. orders[e] = None \/ orders[e].status = "pending"
    BY <1>6, <2>1 DEF Persists
  <2>3. /\ positions[<<e, "pos">>] = None /\ positions[<<e, "rev">>] = None
        /\ \A k \in {"stop", "take"} : orders[<<e, k>>] = None
    BY <2>2 DEF TablesInv, Unborn
  <2>4. positions'[<<e, "pos">>] = None /\ positions'[<<e, "rev">>] = None
    BY <1>3, <2>1, <2>3, Ids
  <2>5. ASSUME NEW k \in {"stop", "take"}
        PROVE  orders'[<<e, k>>] = None
    <3>1. <<e, k>> \in Orders /\ <<e, k>> /= r.id /\ orders[<<e, k>>] = None
      BY <1>1, <2>3, Ids DEF Pending
    <3> QED
      BY <1>4, <2>1, <3>1
  <2> QED
    BY <2>4, <2>5
<1>9. Facing'
  <2> SUFFICES ASSUME NEW x \in Pending' \cap Children
               PROVE  /\ orders'[x].pos \in Open'
                      /\ orders'[x].side * positions'[orders'[x].pos].qty < 0
    BY DEF Facing
  <2>1. x \in Orders \ {r.id} /\ x \in Exits /\ orders'[x] /= None /\ orders'[x].status = "pending"
    BY <1>4 DEF Pending, Orders, Exits
  <2>2. CASE orders[x] = None
    BY <1>4, <2>1, <2>2
  <2>3. CASE orders[x] /= None
    <3>1. Follows(orders'[x], orders[x]) /\ x \notin dead
      BY <1>4, <2>1, <2>3
    <3>2. /\ x \in Pending /\ orders'[x].pos = orders[x].pos /\ orders'[x].side = orders[x].side
      BY <2>1, <2>3, <3>1 DEF Follows, SameTerms, Pending
    <3>3. orders[x].pos \in Open /\ orders[x].side * positions[orders[x].pos].qty < 0
      BY <3>2 DEF TablesInv, Facing
    <3>4. p \in Open /\ orders[x].pos = p /\ q = positions[p].qty
      BY <1>1, <3>3 DEF TablesInv, OneOpen
    <3>5. x \in ExitsOf(p, r.id)
      BY <2>1, <3>2, <3>4 DEF ExitsOf
    <3>6. q + d /= 0 /\ ~Reverses(q, d)
      BY <1>d, <3>1, <3>5
    <3>7. orders[x].side \in {-1, 1}
      BY <2>1, <2>3 DEF TablesInv, TablesTyped, OrderRows
    <3>8. orders[x].side * (q + d) < 0
      BY <1>1, <1>2, <3>3, <3>4, <3>6, <3>7, StillFaces
    <3> QED
      BY <1>3, <3>2, <3>4, <3>6, <3>8
  <2> QED
    BY <2>2, <2>3
<1>10. FilledOnce'
  <2> SUFFICES ASSUME NEW o \in Orders
               PROVE  /\ orders'[o] /= None /\ orders'[o].status = "filled" => Len(fills'[o]) = 1
                      /\ orders'[o] = None \/ orders'[o].status /= "filled" => fills'[o] = <<>>
    BY DEF FilledOnce
  <2>1. CASE o = r.id
    BY <1>4, <1>5, <2>1
  <2>2. CASE o /= r.id
    <3>1. fills'[o] = fills[o]
      BY <1>5, <2>2
    <3>2. CASE orders[o] = None
      BY <1>4, <2>2, <3>1, <3>2 DEF TablesInv, FilledOnce
    <3>3. CASE orders[o] /= None
      <4>1. orders'[o] /= None
        BY <1>6, <3>3 DEF Persists
      <4>2. orders'[o].status = orders[o].status
              \/ (orders[o].status = "pending" /\ orders'[o].status = "cancelled")
        BY <1>4, <2>2, <3>3, <4>1 DEF Follows
      <4> QED
        BY <3>1, <3>3, <4>1, <4>2 DEF TablesInv, FilledOnce
    <3> QED
      BY <3>2, <3>3
  <2> QED
    BY <2>1, <2>2
<1> QED
  BY <1>6, <1>7, <1>8, <1>9, <1>10 DEF TablesInv

-----------------------------------------------------------------------------
(* The steps *)

TableMove ==
    \/ UNCHANGED journal
    \/ \E r \in OrderRows : Inserts(r)
    \/ \E o \in Orders : Cancels(o) \/ Relevels(o)
    \/ \E r \in OrderRows, p \in Positions : Executes(r, p)

LEMMA MovePreserves ==
    ASSUME TablesInv, TableMove
    PROVE  TablesInv' /\ Persists
<1>1. CASE UNCHANGED journal
  <2>1. \A o \in Orders : RowPersists(o)
    BY <1>1 DEF RowPersists, journal
  <2>2. orders' \in [Orders -> OrderRows \cup {None}]
    BY <1>1 DEF journal, TablesInv, TablesTyped
  <2> QED
    BY <1>1, <2>1, <2>2, RowsOnly DEF journal, Orders
<1>2. CASE \E r \in OrderRows : Inserts(r)
  BY <1>2, InsertPreserves
<1>3. CASE \E o \in Orders : Cancels(o)
  BY <1>3, CancelPreserves
<1>4. CASE \E o \in Orders : Relevels(o)
  BY <1>4, RelevelPreserves
<1>5. CASE \E r \in OrderRows, p \in Positions : Executes(r, p)
  BY <1>5, ExecutePreserves
<1> QED
  BY <1>1, <1>2, <1>3, <1>4, <1>5 DEF TableMove

\* A copy stays a copy.
LEMMA CopiesStay ==
    ASSUME TablesInv, Persists, NEW r
    PROVE  /\ Row(r, positions) => Row(r, positions')
           /\ Copy(r, orders, positions) => Copy(r, orders', positions')
<1>1. Row(r, positions) => Row(r, positions')
  BY RowStays DEF Persists, PositionsPersist
<1>2. Row(r, positions) => r.id \in Orders
  BY DEF Row, OrderRows
<1> QED
  BY <1>1, <1>2 DEF Copy, Persists

LEMMA RowsAreCopies ==
    ASSUME TablesInv, NEW o \in Orders, orders[o] /= None
    PROVE  orders[o].id = o /\ orders[o] \in OrderRows /\ Copy(orders[o], orders, positions)
  BY DEF TablesInv, TablesTyped, Copy

LEMMA AppliesMoves ==
    ASSUME TablesInv, NEW r, Copy(r, orders, positions), Applies(r)
    PROVE  Cancels(r.id) \/ \E p \in Positions : Executes(r, p)
<1>1. r.id \in Orders /\ r.id \in Pending
  BY DEF Copy, Row, OrderRows, Applies, Fillable, Pending
<1>2. CASE Unexpected(r, Locked(r)) \/ (r.id \in Exits /\ Locked(r) = {})
  BY <1>1, <1>2 DEF Applies, Cancels
<1>3. CASE ~(Unexpected(r, Locked(r)) \/ (r.id \in Exits /\ Locked(r) = {}))
  <2>1. PICK p \in (IF Locked(r) = {} THEN {<<r.id, "pos">>} ELSE Locked(r)) : Execute(r, p)
    BY <1>3 DEF Applies
  <2>2. Finds(r, p)
    BY <1>3, <2>1 DEF Finds
  <2>3. Executes(r, p)
    BY <1>1, <1>3, <2>1, <2>2 DEF Executes
  <2> QED
    BY <2>3, Found
<1> QED
  BY <1>2, <1>3

LEMMA RequestMoves ==
    ASSUME JournalInv, NEW t \in Traders, Request(t)
    PROVE  TableMove
<1>0. TablesInv /\ (work[t] /= None => Holds(work[t], orders, positions))
  BY DEF JournalInv, CopiesHold
<1>1. CASE UNCHANGED journal
  BY <1>1 DEF TableMove
<1>2. ASSUME Reserve(t)
      PROVE  TableMove
  <2> DEFINE w == work[t].row
             r == Created(w)
  <2>1. /\ Row(w, positions) /\ w.id \in Entries \cup Closes /\ w.status = "pending"
        /\ w \in OrderRows
    BY <1>0, <1>2 DEF Reserve, Holds, Row
  <2>2. orders[r.id] = None /\ orders' = [orders EXCEPT ![r.id] = r] /\ UNCHANGED <<positions, fills>>
    BY <1>2 DEF Reserve
  <2>3. /\ SameTerms(r, w) /\ r.status = w.status /\ r.qty = w.qty /\ r.pos = w.pos
        /\ r.at = 1 + Cardinality({o \in Orders : orders[o] /= None})
    BY <2>1, CreatedRows
  <2> HIDE DEF r, w
  <2>4. Row(r, positions)
    BY <2>1, <2>3, RowFollows DEF Follows
  <2>5. Inserts(r) /\ r \in OrderRows
    BY <2>1, <2>2, <2>3, <2>4 DEF Inserts, SameTerms
  <2> QED
    BY <2>5 DEF TableMove
<1>3. ASSUME Fill(t)
      PROVE  TableMove
  <2> DEFINE r == work[t].row
  <2>1. Copy(r, orders, positions) /\ Applies(r) /\ r \in OrderRows /\ r.id \in Orders
    BY <1>0, <1>3 DEF Fill, Resolving, Holds, Copy, Row, OrderRows
  <2> HIDE DEF r
  <2> QED
    BY <1>0, <2>1, AppliesMoves DEF TableMove
<1>4. ASSUME Reject(t)
      PROVE  TableMove
  BY <1>4 DEF Reject, Cancels, TableMove, Pending
<1>5. ASSUME NEW o \in Orders, Cancel(t, o)
      PROVE  TableMove
  BY <1>5 DEF Cancel, Cancels, TableMove
<1>6. ASSUME Patch(t)
      PROVE  TableMove
  <2> DEFINE w == work[t].row
             n == w.level + 1
             r == [w EXCEPT !.level = n]
  <2>1. w \in OrderRows /\ n \in Nat
    BY <1>0, <1>6 DEF Patch, Holds, Row, OrderRows
  <2>2. \/ UNCHANGED orders
        \/ /\ r.id \in Pending
           /\ orders' = [orders EXCEPT ![r.id].level = r.level, ![r.id].command = Command(r)]
    BY <1>6 DEF Patch
  <2>3. UNCHANGED <<positions, fills>>
    BY <1>6 DEF Patch
  <2> HIDE DEF w, n
  <2>4. r \in OrderRows /\ r.level = n
    BY <2>1 DEF OrderRows
  <2> HIDE DEF r
  <2>5. Command(r) \in Commands
    BY <2>4, CommandType
  <2>6. UNCHANGED orders \/ (r.id \in Orders /\ Relevels(r.id))
    BY <2>1, <2>2, <2>3, <2>4, <2>5 DEF Relevels, Pending
  <2> QED
    BY <2>3, <2>6 DEF TableMove, journal
<1> QED
  BY <1>1, <1>2, <1>3, <1>4, <1>5, <1>6
     DEF Request, PlanEntry, PlanOpen, PlanFlip, PlanClose, ReserveAgain, Resubmit,
         ReadForPatch, Answer

LEMMA StepMoves ==
    ASSUME JournalInv, [Next]_vars
    PROVE  TableMove
<1>0. TablesInv /\ \A r \in tick.orders : Copy(r, orders, positions)
  BY DEF JournalInv, CopiesHold
<1>1. ASSUME NEW t \in Traders, Request(t)
      PROVE  TableMove
  BY <1>1, RequestMoves
<1>2. ASSUME NEW r \in tick.orders, CancelDetached(r) \/ MonitorRejects(r)
      PROVE  TableMove
  BY <1>2 DEF CancelDetached, MonitorRejects, Cancels, TableMove, Pending
<1>3. ASSUME NEW r \in tick.orders, MonitorFills(r)
      PROVE  TableMove
  <2>1. r \in OrderRows /\ r.id \in Orders /\ Copy(r, orders, positions) /\ Applies(r)
    BY <1>0, <1>3 DEF MonitorFills, Copy, Row, OrderRows
  <2> QED
    BY <1>0, <2>1, AppliesMoves DEF TableMove
<1>4. ASSUME NEW r \in tick.orders, Pass(r) \/ MonitorFails(r)
      PROVE  UNCHANGED journal
  BY <1>4 DEF Pass, MonitorFails
<1>5. ASSUME NEW t \in Threads, Mark(t)
      PROVE  UNCHANGED journal
  BY <1>5 DEF Mark
<1>6. Refresh \/ ReadOrders \/ ReadPositions \/ PublishSnapshot \/ Reuse \/ Crash \/ UNCHANGED vars
          => UNCHANGED journal
  BY DEF Refresh, ReadOrders, ReadPositions, PublishSnapshot, Reuse, Crash, vars
<1>7. UNCHANGED journal => TableMove
  BY DEF TableMove
<1> QED
  BY <1>1, <1>2, <1>3, <1>4, <1>5, <1>6, <1>7 DEF Next, MonitorStep

\* The rows that requests make.
LEMMA EntryRows ==
    ASSUME NEW e \in Entries, NEW side \in {-1, 1}, NEW qty \in Nat \ {0},
           NEW expect \in Expectations, NEW r, r = NewOrder(e, "entry", side, qty, None, expect),
           \/ expect \in {AnyPosition, Absent}
           \/ /\ expect.state = "open" /\ expect.qty \in Int
              /\ qty = Abs(expect.qty) + SignalQty /\ side * expect.qty < 0
    PROVE  Row(r, positions) /\ r.id \in Entries /\ r.status = "pending"
<1>1. e \in Orders /\ e \notin Exits /\ "entry" \in Roles(e)
  BY Ids, PaperJournalAssumption DEF Roles
<1>2. /\ r \in OrderRows /\ r.status = "pending" /\ r.id = e /\ r.role = "entry"
      /\ r.side = side /\ r.qty = qty /\ r.expect = expect
  BY <1>1, NewOrders
<1> QED
  BY <1>1, <1>2 DEF Row, Expects

LEMMA CloseRows ==
    ASSUME TablesInv, NEW c \in Closes, NEW p \in Open, NEW r,
           r = NewOrder(c, "close", -Sign(positions[p].qty), Abs(positions[p].qty), p, AnyPosition)
    PROVE  Row(r, positions) /\ r.id \in Closes /\ r.status = "pending"
<1> DEFINE side == -Sign(positions[p].qty)
           qty == Abs(positions[p].qty)
<1>1. p \in Positions /\ positions[p] /= None /\ positions[p].qty \in Int \ {0}
  BY DEF Open, TablesInv, TablesTyped, PositionRows
<1>2. side \in {-1, 1} /\ qty \in Nat \ {0}
  BY <1>1, Absolutes
<1>3. c \in Orders /\ c \in Exits /\ "close" \in Roles(c) /\ AnyPosition \in Expectations
  BY Ids DEF Roles, Exits, Expectations
<1> HIDE DEF side, qty
<1>4. r = NewOrder(c, "close", side, qty, p, AnyPosition)
  BY DEF side, qty
<1>5. /\ r \in OrderRows /\ r.status = "pending" /\ r.id = c /\ r.role = "close"
      /\ r.pos = p /\ r.expect = AnyPosition
  BY <1>1, <1>2, <1>3, <1>4, NewOrders
<1> QED
  BY <1>1, <1>3, <1>5 DEF Row, Expects

\* What a request does with its work.
Takes(t, w) == work' = [work EXCEPT ![t] = w] /\ (w = None \/ Holds(w, orders', positions'))

LEMMA PlansTake ==
    ASSUME JournalInv, NEW t \in Traders, UNCHANGED journal,
           (\E e \in Entries : PlanEntry(t, e) \/ PlanOpen(t, e) \/ PlanFlip(t, e))
               \/ \E c \in Closes : PlanClose(t, c)
    PROVE  \E w : Takes(t, w)
<1>0. TablesInv /\ AnyPosition \in Expectations /\ Absent \in Expectations
  BY DEF JournalInv, Expectations
<1>1. ASSUME NEW r, Row(r, positions), r.id \in Entries \cup Closes, r.status = "pending",
             Does(t, [step |-> "reserve", row |-> r])
      PROVE  \E w : Takes(t, w)
  <2> DEFINE w == [step |-> "reserve", row |-> r]
  <2>1. Holds(w, orders', positions')
    BY <1>1 DEF Holds, journal
  <2> QED
    BY <1>1, <2>1 DEF Takes, Does
<1>2. ASSUME NEW e \in Entries, NEW n \in Sizes[e]
      PROVE  n \in Int \ {0} /\ Sign(n) \in {-1, 1} /\ Abs(n) \in Nat \ {0}
  <2>1. n \in Int \ {0}
    BY PaperJournalAssumption
  <2> QED
    BY <2>1, Absolutes
<1>3. SignalQty \in Nat \ {0}
  BY PaperJournalAssumption
<1>4. ASSUME NEW e \in Entries, PlanEntry(t, e)
      PROVE  \E w : Takes(t, w)
  <2>1. PICK n \in Sizes[e] :
            Does(t, [step |-> "reserve",
                     row |-> NewOrder(e, "entry", Sign(n), Abs(n), None, AnyPosition)])
    BY <1>4 DEF PlanEntry
  <2> DEFINE r == NewOrder(e, "entry", Sign(n), Abs(n), None, AnyPosition)
  <2>2. Row(r, positions) /\ r.id \in Entries /\ r.status = "pending"
    BY <1>0, <1>2, EntryRows
  <2>3. Does(t, [step |-> "reserve", row |-> r])
    BY <2>1
  <2> HIDE DEF r
  <2> QED
    BY <1>1, <2>2, <2>3
<1>5. ASSUME NEW e \in Entries, PlanOpen(t, e)
      PROVE  \E w : Takes(t, w)
  <2>1. PICK n \in Sizes[e] :
            Does(t, [step |-> "reserve",
                     row |-> NewOrder(e, "entry", Sign(n), SignalQty, None, Absent)])
    BY <1>5 DEF PlanOpen
  <2> DEFINE r == NewOrder(e, "entry", Sign(n), SignalQty, None, Absent)
  <2>2. Row(r, positions) /\ r.id \in Entries /\ r.status = "pending"
    BY <1>0, <1>2, <1>3, EntryRows
  <2>3. Does(t, [step |-> "reserve", row |-> r])
    BY <2>1
  <2> HIDE DEF r
  <2> QED
    BY <1>1, <2>2, <2>3
<1>6. ASSUME NEW e \in Entries, PlanFlip(t, e)
      PROVE  \E w : Takes(t, w)
  <2>1. PICK p \in Open, n \in Sizes[e] :
            /\ n * positions[p].qty < 0
            /\ Does(t, [step |-> "reserve",
                        row |-> NewOrder(e, "entry", Sign(n), Abs(positions[p].qty) + SignalQty, None,
                                  [state |-> "open", pos |-> p, qty |-> positions[p].qty,
                                   version |-> positions[p].version])])
    BY <1>6 DEF PlanFlip
  <2> DEFINE q == positions[p].qty
             expect == [state |-> "open", pos |-> p, qty |-> q, version |-> positions[p].version]
             size == Abs(q) + SignalQty
             r == NewOrder(e, "entry", Sign(n), size, None, expect)
  <2>2. p \in Positions /\ q \in Int /\ positions[p].version \in Nat
    BY <1>0 DEF Open, TablesInv, TablesTyped, PositionRows
  <2>3. expect \in Expectations /\ expect.state = "open" /\ expect.qty = q
    BY <2>2 DEF Expectations
  <2>4. size \in Nat \ {0}
    BY <1>3, <2>2, Absolutes
  <2>5. Sign(n) * q < 0
    <3>1. n \in Int \ {0} /\ Sign(n) \in {-1, 1} /\ (Sign(n) = -1 <=> n < 0)
      BY <1>2, Absolutes
    <3>2. (n < 0 /\ q > 0) \/ (n > 0 /\ q < 0)
      BY <2>1, <2>2, <3>1, Products
    <3> QED
      BY <2>2, <3>1, <3>2
  <2>6. Does(t, [step |-> "reserve", row |-> r])
    BY <2>1
  <2>7. Row(r, positions) /\ r.id \in Entries /\ r.status = "pending"
    <3>1. Sign(n) \in {-1, 1} /\ r = NewOrder(e, "entry", Sign(n), size, None, expect)
          /\ size = Abs(expect.qty) + SignalQty /\ expect.qty \in Int /\ Sign(n) * expect.qty < 0
      BY <1>2, <2>2, <2>5
    <3> HIDE DEF r, size, expect, q
    <3> QED
      BY <2>3, <2>4, <3>1, EntryRows
  <2> HIDE DEF r
  <2> QED
    BY <1>1, <2>6, <2>7
<1>7. ASSUME NEW c \in Closes, PlanClose(t, c)
      PROVE  \E w : Takes(t, w)
  <2>1. PICK p \in Open :
            Does(t, [step |-> "reserve",
                     row |-> NewOrder(c, "close", -Sign(positions[p].qty), Abs(positions[p].qty), p,
                                      AnyPosition)])
    BY <1>7 DEF PlanClose
  <2> DEFINE r == NewOrder(c, "close", -Sign(positions[p].qty), Abs(positions[p].qty), p,
                           AnyPosition)
  <2>2. Row(r, positions) /\ r.id \in Closes /\ r.status = "pending"
    BY <1>0, CloseRows
  <2>3. Does(t, [step |-> "reserve", row |-> r])
    BY <2>1
  <2> HIDE DEF r
  <2> QED
    BY <1>1, <2>2, <2>3
<1> QED
  BY <1>4, <1>5, <1>6, <1>7

LEMMA RequestTakes ==
    ASSUME JournalInv, NEW t \in Traders, Request(t), TablesInv'
    PROVE  UNCHANGED work \/ \E w : Takes(t, w)
<1>0. TablesInv /\ DOMAIN work = Traders
  BY DEF JournalInv, CopiesHold
<1>1. ASSUME NEW o \in Orders, orders[o] /= None, UNCHANGED journal,
             NEW s, s /= "reserve", Does(t, [step |-> s, row |-> orders[o]])
      PROVE  \E w : Takes(t, w)
  <2> DEFINE w == [step |-> s, row |-> orders[o]]
  <2>1. Copy(orders[o], orders, positions)
    BY <1>0, <1>1, RowsAreCopies
  <2>2. Copy(w.row, orders', positions') /\ w.step /= "reserve"
    BY <1>1, <2>1 DEF journal
  <2>3. Holds(w, orders', positions')
    BY <2>2 DEF Holds, Copy
  <2> QED
    BY <1>1, <2>3 DEF Takes, Does
<1>2. Does(t, None) => \E w : Takes(t, w)
  BY DEF Does, Takes
<1>3. ASSUME Reserve(t)
      PROVE  \E w : Takes(t, w)
  <2> DEFINE r == Created(work[t].row)
             w == [step |-> "resolve", row |-> r]
  <2>1. /\ Row(work[t].row, positions) /\ orders[r.id] = None
        /\ orders' = [orders EXCEPT ![r.id] = r] /\ Does(t, w)
        /\ work[t].row.id \in Entries \cup Closes /\ UNCHANGED positions
    BY <1>3 DEF Reserve, JournalInv, CopiesHold, Holds
  <2>2. work[t].row \in OrderRows
    BY <2>1 DEF Row
  <2>3. SameTerms(r, work[t].row) /\ r.pos = work[t].row.pos /\ r.status = work[t].row.status
        /\ r.qty = work[t].row.qty
    BY <2>2, CreatedRows
  <2> HIDE DEF r
  <2>4. Row(r, positions) /\ r /= None /\ r.id \in Orders
    BY <2>1, <2>3, RowFollows DEF Follows, SameTerms, OrderRows
  <2>5. orders'[r.id] = r
    BY <1>0, <2>1, <2>4 DEF TablesInv, TablesTyped
  <2>6. Copy(r, orders', positions')
    BY <2>1, <2>4, <2>5 DEF Copy
  <2>7. Holds(w, orders', positions')
    BY <2>6 DEF Holds, Copy
  <2> QED
    BY <2>1, <2>7 DEF Takes, Does
<1>4. ASSUME ReserveAgain(t)
      PROVE  \E w : Takes(t, w)
  <2> DEFINE o == work[t].row.id
  <2>1. /\ Row(work[t].row, positions) /\ orders[o] /= None /\ UNCHANGED journal
        /\ Does(t, [step |-> "resolve", row |-> orders[o]]) \/ Does(t, None)
    BY <1>4 DEF ReserveAgain, JournalInv, CopiesHold, Holds
  <2>2. o \in Orders
    BY <2>1 DEF Row, OrderRows
  <2> HIDE DEF o
  <2> QED
    BY <1>1, <1>2, <2>1, <2>2
<1>5. ASSUME NEW o \in Orders, Resubmit(t, o)
      PROVE  \E w : Takes(t, w)
  BY <1>1, <1>5 DEF Resubmit
<1>6. ASSUME NEW o \in Orders, ReadForPatch(t, o)
      PROVE  \E w : Takes(t, w)
  BY <1>1, <1>6 DEF ReadForPatch, Pending
<1>7. ASSUME NEW o \in Orders, Cancel(t, o)
      PROVE  UNCHANGED work
  BY <1>7 DEF Cancel
<1>8. Answer(t) \/ Fill(t) \/ Reject(t) \/ Patch(t) => Does(t, None)
  BY DEF Answer, Fill, Reject, Patch
<1>9. ASSUME (\E e \in Entries : PlanEntry(t, e) \/ PlanOpen(t, e) \/ PlanFlip(t, e))
                 \/ \E c \in Closes : PlanClose(t, c)
      PROVE  \E w : Takes(t, w)
  <2>1. UNCHANGED journal
    BY <1>9 DEF PlanEntry, PlanOpen, PlanFlip, PlanClose
  <2> QED
    BY <1>9, <2>1, PlansTake
<1> QED
  BY <1>2, <1>3, <1>4, <1>5, <1>6, <1>7, <1>8, <1>9 DEF Request

\* Projection and tick hold what they held, or the pending rows just read.
Shows ==
    /\ snapshot' \in [orders : SUBSET OrderRows, open : SUBSET Positions]
    /\ tick' \in [step : {"idle", "orders", "positions", "publish", "run"},
                  orders : SUBSET OrderRows, open : SUBSET Positions]
    /\ \/ tick'.orders \cup snapshot'.orders \subseteq tick.orders \cup snapshot.orders
       \/ /\ UNCHANGED journal
          /\ tick'.orders \cup snapshot'.orders \subseteq
                PendingRows \cup tick.orders \cup snapshot.orders

LEMMA PendingRowsTyped ==
    ASSUME TablesInv
    PROVE  PendingRows \subseteq OrderRows /\ Open \subseteq Positions
  BY RowsAreCopies DEF PendingRows, Pending, Open

LEMMA MonitorShows ==
    ASSUME JournalInv, [Next]_vars
    PROVE  Shows
<1>0. /\ TablesInv
      /\ snapshot \in [orders : SUBSET OrderRows, open : SUBSET Positions]
      /\ tick \in [step : {"idle", "orders", "positions", "publish", "run"},
                   orders : SUBSET OrderRows, open : SUBSET Positions]
  BY DEF JournalInv, CopiesHold
<1>1. PendingRows \subseteq OrderRows /\ Open \subseteq Positions
  BY <1>0, PendingRowsTyped
<1>2. ASSUME UNCHANGED <<snapshot, tick>>
      PROVE  Shows
  BY <1>0, <1>2 DEF Shows
<1>3. ASSUME NEW t \in Traders, Request(t)
      PROVE  UNCHANGED <<snapshot, tick>>
  BY <1>3 DEF Request, PlanEntry, PlanOpen, PlanFlip, PlanClose, Reserve, ReserveAgain,
              Resubmit, Cancel, ReadForPatch, Answer, Fill, Reject, Patch, runtime
<1>4. ASSUME NEW t \in Threads, Mark(t)
      PROVE  UNCHANGED <<snapshot, tick>>
  BY <1>4 DEF Mark
<1>5. ASSUME NEW R, tick' = Rest(R), R \subseteq tick.orders, UNCHANGED snapshot
      PROVE  Shows
  BY <1>0, <1>5 DEF Rest, Idle, Shows
<1>6. ASSUME NEW r \in tick.orders,
             Pass(r) \/ CancelDetached(r) \/ MonitorRejects(r) \/ MonitorFills(r)
      PROVE  Shows
  <2>1. tick' = Rest(tick.orders \ {r}) /\ UNCHANGED snapshot
    BY <1>6 DEF Pass, CancelDetached, MonitorRejects, MonitorFills, Left, runtime
  <2> QED
    BY <1>5, <2>1
<1>7. ASSUME NEW r \in tick.orders, MonitorFails(r)
      PROVE  Shows
  BY <1>0, <1>7 DEF MonitorFails, Idle, Shows, runtime
<1>8. Refresh => Shows
  BY <1>0 DEF Refresh, Idle, Shows
<1>9. ASSUME ReadOrders
      PROVE  Shows
  BY <1>0, <1>1, <1>9 DEF ReadOrders, Shows, PendingRows, runtime
<1>10. ASSUME ReadPositions
       PROVE  Shows
  BY <1>0, <1>1, <1>10 DEF ReadPositions, Shows, runtime
<1>11. ASSUME PublishSnapshot
       PROVE  Shows
  BY <1>0, <1>11 DEF PublishSnapshot, Idle, Shows
<1>12. Reuse => Shows
  BY <1>0 DEF Reuse, Shows, runtime
<1>13. Crash => Shows
  BY <1>0 DEF Crash, Shows, Idle, Nothing
<1> QED
  BY <1>2, <1>3, <1>4, <1>6, <1>7, <1>8, <1>9, <1>10, <1>11, <1>12, <1>13
     DEF Next, MonitorStep, vars, runtime

LEMMA WorkHolds ==
    ASSUME JournalInv, [Next]_vars, TablesInv', Persists
    PROVE  /\ DOMAIN work' = Traders
           /\ \A t \in Traders : work'[t] /= None => Holds(work'[t], orders', positions')
<1>0. TablesInv /\ DOMAIN work = Traders
      /\ \A t \in Traders : work[t] /= None => Holds(work[t], orders, positions)
  BY DEF JournalInv, CopiesHold
<1>1. \A t \in Traders : work[t] /= None => Holds(work[t], orders', positions')
  BY <1>0, CopiesStay DEF Holds
<1>2. CASE UNCHANGED work
  BY <1>0, <1>1, <1>2
<1>3. CASE \E t \in Traders : \E w : Takes(t, w)
  BY <1>0, <1>1, <1>3 DEF Takes
<1>4. CASE Crash
  BY <1>4 DEF Crash
<1>5. ASSUME NEW t \in Traders, Request(t)
      PROVE  UNCHANGED work \/ \E w : Takes(t, w)
  BY <1>5, RequestTakes
<1>6. ASSUME NEW t \in Threads, Mark(t)
      PROVE  UNCHANGED work
  BY <1>6 DEF Mark
<1>7. ASSUME MonitorStep \/ UNCHANGED vars
      PROVE  UNCHANGED work
  BY <1>7 DEF MonitorStep, Refresh, ReadOrders, ReadPositions, PublishSnapshot, Reuse, Pass,
              CancelDetached, MonitorRejects, MonitorFills, MonitorFails, vars
<1> QED
  BY <1>2, <1>3, <1>4, <1>5, <1>6, <1>7 DEF Next

LEMMA CopiesPreserved ==
    ASSUME JournalInv, [Next]_vars, TablesInv', Persists
    PROVE  CopiesHold'
<1>1. Shows /\ TablesInv /\ \A r \in tick.orders \cup snapshot.orders : Copy(r, orders, positions)
  BY MonitorShows DEF JournalInv, CopiesHold
<1>2. \A r \in tick.orders \cup snapshot.orders : Copy(r, orders', positions')
  BY <1>1, CopiesStay
<1>3. ASSUME NEW r \in PendingRows
      PROVE  Copy(r, orders, positions)
  BY <1>1, RowsAreCopies DEF PendingRows, Pending
<1>4. \A r \in tick'.orders \cup snapshot'.orders : Copy(r, orders', positions')
  BY <1>1, <1>2, <1>3 DEF Shows, journal
<1> QED
  BY <1>1, <1>4, WorkHolds DEF CopiesHold, Shows

\* The exits of R that have no position in O belong to closed positions.
Detaches(R, O, ps) ==
    \A r \in R : r.id \in Exits /\ r.pos \notin O => ps[r.pos].status = "closed"

LEMMA DetachesStays ==
    ASSUME TablesInv, Persists, NEW R, NEW O, \A r \in R : Copy(r, orders, positions),
           Detaches(R, O, positions)
    PROVE  Detaches(R, O, positions')
<1>1. \A r \in R : r.id \in Exits => r.pos \in Positions /\ positions[r.pos] /= None
  BY DEF Copy, Row
<1> QED
  BY <1>1 DEF Detaches, Persists, PositionsPersist

LEMMA ClosedSeenPreserved ==
    ASSUME JournalInv, [Next]_vars, Persists
    PROVE  ClosedSeen'
<1> DEFINE Tick == tick.step \in {"publish", "run"} => Detaches(tick.orders, tick.open, positions)
           Shot == Detaches(snapshot.orders, snapshot.open, positions)
<1>0. /\ TablesInv /\ Tick /\ Shot
      /\ \A r \in tick.orders \cup snapshot.orders : Copy(r, orders, positions)
      /\ tick \in [step : {"idle", "orders", "positions", "publish", "run"},
                   orders : SUBSET OrderRows, open : SUBSET Positions]
  BY DEF JournalInv, CopiesHold, ClosedSeen, Detaches
<1>1. \/ tick.step \notin {"publish", "run"}
      \/ Detaches(tick.orders, tick.open, positions')
  BY <1>0, DetachesStays
<1>2. Detaches(snapshot.orders, snapshot.open, positions')
  BY <1>0, DetachesStays
<1> DEFINE Goal == /\ tick'.step \in {"publish", "run"} => Detaches(tick'.orders, tick'.open, positions')
                   /\ Detaches(snapshot'.orders, snapshot'.open, positions')
<1>3. ASSUME UNCHANGED <<snapshot, tick>>
      PROVE  Goal
  BY <1>1, <1>2, <1>3
<1>4. ASSUME UNCHANGED snapshot, tick'.step \notin {"publish", "run"}
      PROVE  Goal
  BY <1>2, <1>4
<1>5. ASSUME NEW t \in Traders, Request(t)
      PROVE  UNCHANGED <<snapshot, tick>>
  BY <1>5 DEF Request, PlanEntry, PlanOpen, PlanFlip, PlanClose, Reserve, ReserveAgain,
              Resubmit, Cancel, ReadForPatch, Answer, Fill, Reject, Patch, runtime
<1>6. ASSUME NEW t \in Threads, Mark(t)
      PROVE  UNCHANGED <<snapshot, tick>>
  BY <1>6 DEF Mark
<1>7. ASSUME NEW r \in tick.orders,
             Pass(r) \/ CancelDetached(r) \/ MonitorRejects(r) \/ MonitorFills(r)
      PROVE  Goal
  <2>1. tick' = Rest(tick.orders \ {r}) /\ UNCHANGED snapshot /\ tick.step = "run"
    BY <1>7 DEF Pass, CancelDetached, MonitorRejects, MonitorFills, Left, runtime, Turn
  <2>2. \/ tick'.step = "idle"
        \/ tick'.orders \subseteq tick.orders /\ tick'.open = tick.open
    BY <1>0, <2>1 DEF Rest, Idle
  <2>3. CASE tick'.step = "idle"
    BY <1>4, <2>1, <2>3
  <2>4. CASE tick'.orders \subseteq tick.orders /\ tick'.open = tick.open
    BY <1>1, <1>2, <2>1, <2>4 DEF Detaches
  <2> QED
    BY <2>2, <2>3, <2>4
<1>8. ASSUME NEW r \in tick.orders, MonitorFails(r)
      PROVE  Goal
  BY <1>4, <1>8 DEF MonitorFails, Idle, runtime
<1>9. ASSUME Refresh
      PROVE  Goal
  BY <1>4, <1>9 DEF Refresh, Idle
<1>10. ASSUME ReadOrders
       PROVE  Goal
  BY <1>0, <1>4, <1>10 DEF ReadOrders, runtime
<1>11. ASSUME ReadPositions
       PROVE  Goal
  <2>1. /\ tick' = [tick EXCEPT !.step = "publish", !.open = Open]
        /\ UNCHANGED <<positions, snapshot>>
    BY <1>11 DEF ReadPositions, journal, runtime
  <2>2. tick'.open = Open /\ tick'.orders = tick.orders
    BY <1>0, <2>1
  <2>3. ASSUME NEW r \in tick.orders, r.id \in Exits, r.pos \notin Open
        PROVE  positions[r.pos].status = "closed"
    <3>1. r.pos \in Positions /\ positions[r.pos] \in PositionRows
      BY <1>0, <2>3, NoneIsApart DEF Copy, Row, TablesInv, TablesTyped
    <3>2. positions[r.pos] /= None /\ positions[r.pos].status \in {"open", "closed"}
      BY <3>1, NoneIsApart DEF PositionRows
    <3> QED
      BY <2>3, <3>1, <3>2 DEF Open
  <2> QED
    BY <1>2, <2>1, <2>2, <2>3 DEF Detaches
<1>12. ASSUME PublishSnapshot
       PROVE  Goal
  <2>1. tick.step = "publish" /\ UNCHANGED positions
    BY <1>12 DEF PublishSnapshot, journal
  <2>2. CASE moved
    BY <1>2, <1>12, <2>2 DEF PublishSnapshot, Idle
  <2>3. CASE ~moved
    <3>1. /\ snapshot' = [orders |-> tick.orders, open |-> tick.open]
          /\ tick' = [tick EXCEPT !.step = "run"]
      BY <1>12, <2>3 DEF PublishSnapshot
    <3>2. tick'.orders = tick.orders /\ tick'.open = tick.open
      BY <1>0, <3>1
    <3> QED
      BY <1>1, <2>1, <3>1, <3>2
  <2> QED
    BY <2>2, <2>3
<1>13. ASSUME Reuse
       PROVE  Goal
  BY <1>2, <1>13 DEF Reuse, runtime
<1>14. ASSUME Crash
       PROVE  Goal
  BY <1>14 DEF Crash, Idle, Nothing, Detaches
<1>15. Goal
  BY <1>3, <1>5, <1>6, <1>7, <1>8, <1>9, <1>10, <1>11, <1>12, <1>13, <1>14
     DEF Next, MonitorStep, vars, runtime
<1> QED
  BY <1>15 DEF ClosedSeen, Detaches

LEMMA JournalInit == Init => JournalInv
<1> SUFFICES ASSUME Init
             PROVE  JournalInv
  OBVIOUS
<1>1. TablesTyped
  BY DEF Init, TablesTyped
<1>2. OneOpen /\ Unborn /\ Facing /\ FilledOnce
  BY Ids DEF Init, OneOpen, Open, Unborn, Facing, Pending, FilledOnce, Orders
<1>3. CopiesHold /\ ClosedSeen
  BY DEF Init, CopiesHold, ClosedSeen, Idle, Nothing
<1> QED
  BY <1>1, <1>2, <1>3 DEF JournalInv, TablesInv

LEMMA JournalStep == JournalInv /\ [Next]_vars => JournalInv'
<1> SUFFICES ASSUME JournalInv, [Next]_vars
             PROVE  JournalInv'
  OBVIOUS
<1>1. TablesInv' /\ Persists
  BY StepMoves, MovePreserves DEF JournalInv
<1> QED
  BY <1>1, CopiesPreserved, ClosedSeenPreserved DEF JournalInv

\* The journal is sound at every moment.
THEOREM JournalInvariant == Spec => []JournalInv
  BY JournalInit, JournalStep, PTL DEF Spec

-----------------------------------------------------------------------------
(* Exits are kept, and fills are intended *)

LEMMA LiveExitsKeptStep ==
    ASSUME JournalInv
    PROVE  \A r \in tick.orders : CancelDetached(r) => positions[r.pos].status = "closed"
  BY DEF JournalInv, ClosedSeen, CancelDetached, Turn, Detached

\* The monitor cancels an exit only when its position is gone, although orders and
\* positions are read at different times: _pending_orders and _open_positions of one
\* projection may disagree, but a position that is closed never opens again.
THEOREM LiveExitsKeptTheorem == Spec => LiveExitsKept
<1>1. JournalInv => [\A r \in tick.orders : CancelDetached(r) => positions[r.pos].status = "closed"]_vars
  BY LiveExitsKeptStep
<1> QED
  BY JournalInvariant, <1>1, PTL DEF LiveExitsKept

\* What FillsAreIntended says of order o.
Intended(o) ==
    LET f == fills'[o][Len(fills'[o])]
        p == orders[o].pos
    IN  /\ o \in Exits => /\ f.pos = p
                          /\ f.delta * positions[p].qty < 0
                          /\ Abs(f.delta) <= Abs(positions[p].qty)
        /\ orders[o].expect /= AnyPosition =>
             f.pos = <<o, IF orders[o].expect = Absent THEN "pos" ELSE "rev">>

LEMMA ExecuteIntends ==
    ASSUME TablesInv, NEW r, NEW p, Executes(r, p)
    PROVE  Intended(r.id)
<1> DEFINE q == QtyOf(p)
           d == FillDelta(r, p)
           f == FillPos(r, p)
           o == r.id
<1>1. /\ Row(r, positions) /\ r \in OrderRows /\ o \in Orders /\ o \in Pending
      /\ p \in Positions /\ q \in Int
      /\ \/ p \in Open /\ q = positions[p].qty /\ q /= 0
         \/ Open = {} /\ o \in Entries /\ p = <<o, "pos">> /\ q = 0
      /\ o \in Exits => p \in Open /\ p = r.pos /\ p = orders[o].pos
  BY Found
<1>2. /\ d \in Int
      /\ o \in Exits => d * q < 0 /\ Abs(d) <= Abs(q)
      /\ o \in Entries => d = r.side * r.qty
      /\ Reverses(q, d) => o \in Entries /\ p \in Open
  BY Moves DEF FillDelta
<1>3. /\ Reverses(q, d) => f = <<o, "rev">>
      /\ ~Reverses(q, d) => f = p
  BY DEF FillPos, Final
<1>4. /\ Len(fills'[o]) = 1 /\ fills'[o][1].pos = f /\ fills'[o][1].delta = d
  BY FilledFills
<1>5. orders[o].expect = r.expect
  BY <1>1 DEF Executes, Copy, Pending
<1> HIDE DEF q, d, f
<1>6. ASSUME o \in Exits
      PROVE  f = orders[o].pos /\ d * positions[orders[o].pos].qty < 0
             /\ Abs(d) <= Abs(positions[orders[o].pos].qty)
  <2>1. o \notin Entries
    BY <1>6, Ids
  <2> QED
    BY <1>1, <1>2, <1>3, <1>6, <2>1
<1>7. ASSUME r.expect = Absent
      PROVE  f = <<o, "pos">>
  <2>1. o \in Entries /\ o \notin Exits
    <3>1. Absent /= AnyPosition /\ Absent.state = "absent"
      BY DEF Absent, AnyPosition
    <3> QED
      BY <1>1, <1>7, <3>1, Ids DEF Row, Expects
  <2>2. Open = {}
    <3>1. Locked(r) = {}
      BY <1>7 DEF Executes, Unexpected, Absent
    <3> QED
      BY <2>1, <3>1 DEF Locked
  <2> QED
    BY <1>1, <1>2, <1>3, <2>2
<1>8. ASSUME r.expect /= AnyPosition, r.expect /= Absent
      PROVE  f = <<o, "rev">>
  <2>1. /\ o \in Entries /\ r.expect.state = "open" /\ r.expect.qty \in Int
        /\ r.qty = Abs(r.expect.qty) + SignalQty /\ r.side * r.expect.qty < 0
    BY <1>1, <1>8 DEF Row, Expects
  <2>2. o \notin Exits /\ r.side \in {-1, 1}
    BY <1>1, <2>1, Ids DEF OrderRows
  <2>3. PICK s \in Open : positions[s].qty = r.expect.qty
    <3>1. PICK s \in Locked(r) :
              [pos |-> s, qty |-> positions[s].qty, version |-> positions[s].version]
                  = [pos |-> r.expect.pos, qty |-> r.expect.qty, version |-> r.expect.version]
      BY <2>1 DEF Executes, Unexpected
    <3> QED
      BY <2>2, <3>1 DEF Locked
  <2>4. s = p /\ q = r.expect.qty
    BY <1>1, <2>3 DEF TablesInv, OneOpen
  <2>5. Reverses(q, d)
    BY <1>2, <2>1, <2>2, <2>4, FlipReverses
  <2> QED
    BY <1>3, <2>5
<1>9. f = <<o, "pos">> \/ f = <<o, "rev">> \/ r.expect = AnyPosition
  BY <1>7, <1>8
<1> QED
  BY <1>4, <1>5, <1>6, <1>7, <1>8 DEF Intended

LEMMA FillsAreIntendedStep ==
    ASSUME JournalInv, [Next]_vars, NEW o \in Orders, fills'[o] /= fills[o]
    PROVE  Intended(o)
<1>1. TableMove /\ TablesInv
  BY StepMoves DEF JournalInv
<1>2. PICK r \in OrderRows, p \in Positions : Executes(r, p)
  BY <1>1 DEF TableMove, Inserts, Cancels, Relevels, journal
<1>3. o = r.id
  BY <1>1, <1>2, FilledFills
<1> QED
  BY <1>1, <1>2, <1>3, ExecuteIntends

\* An exit fills on the position it was placed for and only takes it towards zero, and
\* a signal entry fills on the position it was planned on, although the position may
\* change between the request or the tick and _apply_paper_fill_with_cursor.
THEOREM FillsAreIntendedTheorem == Spec => FillsAreIntended
<1>1. JournalInv /\ [Next]_vars => [\A o \in Orders : fills'[o] /= fills[o] => Intended(o)]_vars
  BY FillsAreIntendedStep
<1>2. Spec => [][\A o \in Orders : fills'[o] /= fills[o] => Intended(o)]_vars
  BY JournalInvariant, <1>1, PTL DEF Spec
<1> QED
  BY <1>2 DEF FillsAreIntended, Intended

-----------------------------------------------------------------------------
(* The book balances *)

Balanced ==
    SumFunction([o \in Orders |-> FilledQty(o)]) = SumFunction([p \in Open |-> positions[p].qty])

\* What the fill rows q of one order have moved.
LEMMA RowsMoved ==
    ASSUME NEW q \in Seq([pos : Positions, delta : Int])
    PROVE  /\ q = <<>> => SumFunction([i \in DOMAIN q |-> q[i].delta]) = 0
           /\ Len(q) = 1 => /\ SumFunction([i \in DOMAIN q |-> q[i].delta]) = q[1].delta
                            /\ q[1].delta \in Int
           /\ q = <<>> \/ Len(q) = 1 => SumFunction([i \in DOMAIN q |-> q[i].delta]) \in Int
<1> DEFINE f == [i \in DOMAIN q |-> q[i].delta]
<1>1. SumFunction(f) = SumFunctionOnSet(f, DOMAIN q)
  BY DEF SumFunction
<1>2. ASSUME q = <<>>
      PROVE  SumFunction(f) = 0
  <2>1. DOMAIN q = {}
    BY <1>2
  <2> QED
    BY <1>1, <2>1, SumOfFew
<1>3. ASSUME Len(q) = 1
      PROVE  SumFunction(f) = q[1].delta /\ q[1].delta \in Int
  <2>1. DOMAIN q = {1} /\ q[1] \in [pos : Positions, delta : Int]
    <3> DEFINE R == [pos : Positions, delta : Int]
    <3>1. q \in Seq(R) /\ Len(q) = 1
      BY <1>3
    <3> HIDE DEF f, R
    <3>2. DOMAIN q = {1} /\ q[1] \in R
      BY <3>1
    <3> QED
      BY <3>2 DEF R
  <2>2. f[1] = q[1].delta /\ q[1].delta \in Int
    BY <2>1
  <2> HIDE DEF f
  <2> QED
    BY <1>1, <2>1, <2>2, SumOfFew
<1> QED
  BY <1>2, <1>3

\* What the positions P of the table ps hold when there is at most one.
LEMMA PositionsHold ==
    ASSUME NEW ps, NEW P
    PROVE  /\ P = {} => SumFunction([p \in P |-> ps[p].qty]) = 0
           /\ \A x : P = {x} /\ ps[x].qty \in Int => SumFunction([p \in P |-> ps[p].qty]) = ps[x].qty
<1> DEFINE f == [p \in P |-> ps[p].qty]
<1>1. SumFunction(f) = SumFunctionOnSet(f, P)
  BY DEF SumFunction
<1>2. ASSUME P = {}
      PROVE  SumFunction(f) = 0
  BY <1>1, <1>2, SumOfFew
<1>3. ASSUME NEW x, P = {x}, ps[x].qty \in Int
      PROVE  SumFunction(f) = ps[x].qty
  <2>1. f[x] = ps[x].qty
    BY <1>3
  <2> HIDE DEF f
  <2> QED
    BY <1>1, <1>3, <2>1, SumOfFew
<1> QED
  BY <1>2, <1>3

\* A fill adds its delta to what was filled and to the position.
LEMMA FillBalances ==
    ASSUME TablesInv, TablesInv', Balanced, NEW r, NEW p, Executes(r, p)
    PROVE  Balanced'
<1> DEFINE f == [o \in Orders |-> FilledQty(o)]
           h == [o \in Orders |-> FilledQty(o)']
           q == QtyOf(p)
           d == FillDelta(r, p)
           s == FillPos(r, p)
           held == SumFunction([x \in Open |-> positions[x].qty])
           heldNow == SumFunction([x \in Open' |-> positions'[x].qty])
<1>1. /\ r.id \in Orders /\ r.id \in Pending /\ q \in Int /\ p \in Positions
      /\ \/ p \in Open /\ q = positions[p].qty
         \/ Open = {} /\ q = 0
  BY Found
<1>2. d \in Int /\ (p \notin Open => q + d /= 0)
  BY Moves DEF FillDelta
<1>3. /\ Open' = IF q + d = 0 THEN {} ELSE {s}
      /\ q + d /= 0 => positions'[s].qty = q + d
  BY Leaves DEF FillDelta, FillPos
<1>4. /\ fills' \in [Orders -> Seq([pos : Positions, delta : Int])]
      /\ Len(fills'[r.id]) = 1 /\ fills'[r.id][1].delta = d
      /\ \A o \in Orders \ {r.id} : fills'[o] = fills[o]
  BY FilledFills
<1>5. fills \in [Orders -> Seq([pos : Positions, delta : Int])] /\ fills[r.id] = <<>>
      /\ \A o \in Orders : fills[o] = <<>> \/ Len(fills[o]) = 1
  BY <1>1 DEF TablesInv, TablesTyped, FilledOnce, Pending
<1> HIDE DEF q, d, s
<1>6. \A o \in Orders : f[o] \in Int
  <2>1. ASSUME NEW o \in Orders
        PROVE  f[o] \in Int
    <3> DEFINE m == fills[o]
    <3>1. f[o] = SumFunction([i \in DOMAIN m |-> m[i].delta])
      BY DEF FilledQty
    <3>2. m \in Seq([pos : Positions, delta : Int]) /\ (m = <<>> \/ Len(m) = 1)
      BY <1>5
    <3> HIDE DEF f, m
    <3>3. SumFunction([i \in DOMAIN m |-> m[i].delta]) \in Int
      BY <3>2, RowsMoved
    <3> QED
      BY <3>1, <3>3
  <2> QED
    BY <2>1
<1>7. f[r.id] = 0
  BY <1>1, <1>5, RowsMoved DEF FilledQty
<1>8. h[r.id] = d
  BY <1>1, <1>4, RowsMoved DEF FilledQty
<1>9. \A o \in Orders \ {r.id} : h[o] = f[o]
  BY <1>4 DEF FilledQty
<1>10. /\ DOMAIN f = Orders /\ DOMAIN h = Orders /\ IsFiniteSet(Orders)
  BY PaperJournalAssumption
<1>11. held = q
  <2>1. CASE Open = {} /\ q = 0
    BY <2>1, PositionsHold
  <2>2. CASE p \in Open /\ q = positions[p].qty
    <3>1. Open = {p}
      BY <2>2 DEF TablesInv, OneOpen
    <3> QED
      BY <1>1, <2>2, <3>1, PositionsHold
  <2> QED
    BY <1>1, <2>1, <2>2
<1>12. heldNow = q + d
  <2>1. CASE q + d = 0
    BY <1>3, <2>1, PositionsHold
  <2>2. CASE q + d /= 0
    <3>1. Open' = {s} /\ positions'[s].qty = q + d /\ q + d \in Int
      BY <1>1, <1>2, <1>3, <2>2
    <3> QED
      BY <3>1, PositionsHold
  <2> QED
    BY <2>1, <2>2
<1>13. Balanced <=> SumFunction(f) = held
  BY DEF Balanced
<1>14. Balanced' <=> SumFunction(h) = heldNow
  BY DEF Balanced
<1> HIDE DEF f, h, held, heldNow
<1>15. \A o \in Orders : h[o] \in Int
  BY <1>2, <1>6, <1>8, <1>9
<1>16. SumFunctionOnSet(h, Orders) = SumFunctionOnSet(f, Orders) + (h[r.id] - f[r.id])
  BY <1>1, <1>6, <1>9, <1>10, <1>15, SumChanges
<1>17. SumFunction(f) = SumFunctionOnSet(f, Orders) /\ SumFunction(h) = SumFunctionOnSet(h, Orders)
  BY <1>10 DEF SumFunction
<1> QED
  BY <1>1, <1>2, <1>7, <1>8, <1>11, <1>12, <1>13, <1>14, <1>16, <1>17

LEMMA BalanceStep == JournalInv /\ JournalInv' /\ Balanced /\ [Next]_vars => Balanced'
<1> SUFFICES ASSUME JournalInv, JournalInv', Balanced, [Next]_vars
             PROVE  Balanced'
  OBVIOUS
<1>1. TableMove /\ TablesInv /\ TablesInv'
  BY StepMoves DEF JournalInv
<1>2. CASE UNCHANGED <<positions, fills>>
  <2>1. Open' = Open
    BY <1>2 DEF Open
  <2> QED
    BY <1>2, <2>1 DEF Balanced, FilledQty
<1>3. CASE \E r \in OrderRows, p \in Positions : Executes(r, p)
  BY <1>1, <1>3, FillBalances
<1> QED
  BY <1>1, <1>2, <1>3 DEF TableMove, Inserts, Cancels, Relevels, journal

LEMMA BalanceInit == Init => Balanced
<1> SUFFICES ASSUME Init
             PROVE  Balanced
  OBVIOUS
<1> DEFINE f == [o \in Orders |-> FilledQty(o)]
<1>1. Open = {}
  BY DEF Init, Open
<1>2. SumFunction([p \in Open |-> positions[p].qty]) = 0
  BY <1>1, PositionsHold
<1>3. \A o \in Orders : f[o] = 0
  <2>1. <<>> \in Seq([pos : Positions, delta : Int]) /\ \A o \in Orders : fills[o] = <<>>
    BY DEF Init
  <2> QED
    BY <2>1, RowsMoved DEF FilledQty
<1>4. SumFunction(f) = SumFunctionOnSet(f, Orders) /\ IsFiniteSet(Orders)
  BY PaperJournalAssumption DEF SumFunction
<1> HIDE DEF f
<1>5. SumFunctionOnSet(f, Orders) = 0
  BY <1>3, <1>4, SumOfZeros
<1> QED
  BY <1>2, <1>4, <1>5 DEF Balanced, f

\* The book balances: one position is open at a time and holds what all the fills have
\* moved, and an order has one fill exactly when it is filled, whatever requests are
\* repeated, whoever fills, and through additions, reductions and reversals.
THEOREM BookBalancesTheorem == Spec => []BookBalances
<1>1. JournalInv /\ Balanced => BookBalances
  <2> SUFFICES ASSUME JournalInv, Balanced
               PROVE  BookBalances
    OBVIOUS
  <2>1. Cardinality(Open) <= 1
    <3>1. CASE Open = {}
      BY <3>1, FS_EmptySet
    <3>2. ASSUME NEW p \in Open
          PROVE  Cardinality(Open) <= 1
      <4>1. Open = {p}
        BY DEF JournalInv, TablesInv, OneOpen
      <4> QED
        BY <4>1, FS_Singleton
    <3> QED
      BY <3>1, <3>2
  <2>2. \A o \in Orders : Len(fills[o]) =
            IF orders[o] /= None /\ orders[o].status = "filled" THEN 1 ELSE 0
    <3>1. Len(<<>>) = 0
      OBVIOUS
    <3> QED
      BY <3>1 DEF JournalInv, TablesInv, FilledOnce
  <2> QED
    BY <2>1, <2>2 DEF BookBalances, Balanced
<1>2. Init => Balanced
  BY BalanceInit
<1>3. JournalInv /\ JournalInv' /\ Balanced /\ [Next]_vars => Balanced'
  BY BalanceStep
<1> QED
  BY <1>1, <1>2, <1>3, JournalInvariant, PTL DEF Spec

-----------------------------------------------------------------------------
(* Protection fits *)

Existing == {o \in Orders : orders[o] /= None}

\* The exits of a group, and no others, are made at one time, and no order is younger
\* than the table.
Aged ==
    /\ \A o \in Existing : orders[o].at <= Cardinality(Existing)
    /\ \A x, y \in Existing \cap Exits :
          Group(x) = Group(y) <=> orders[x].at = orders[y].at

\* The quantity of group g of the exits X, and what they need, of the rows in os.
Size(os, X, g) == Max({os[x].qty : x \in {y \in X : Group(y) = g}})
Needs(os, X) == SumFunction([g \in Groups(X) |-> Size(os, X, g)])

Protected == Pending \cap Children

\* Stops and takes need no more than the open position.
Fits == \A p \in Open : Needs(orders, Protected) <= Abs(positions[p].qty)

LEMMA GroupsOf ==
    ASSUME NEW X \in SUBSET Orders
    PROVE  Groups(X) \subseteq Orders /\ IsFiniteSet(Groups(X)) /\ IsFiniteSet(X)
<1>1. \A o \in Orders : Group(o) \in Orders
  BY DEF Group, Orders, Children
<1>2. Groups(X) \subseteq Orders
  BY <1>1 DEF Groups
<1> QED
  BY <1>2, PaperJournalAssumption, FS_Subset

\* A group is as large as its largest exit.
LEMMA SizeOf ==
    ASSUME NEW os, NEW X \in SUBSET Orders, \A x \in X : os[x].qty \in Nat, NEW g \in Groups(X)
    PROVE  \E m \in X : /\ Group(m) = g /\ Size(os, X, g) = os[m].qty
                        /\ \A x \in X : Group(x) = g => os[x].qty <= Size(os, X, g)
<1> DEFINE M == {y \in X : Group(y) = g}
           f == [x \in M |-> os[x].qty]
<1>1. M /= {} /\ IsFiniteSet(M)
  BY GroupsOf, FS_Subset DEF Groups
<1>2. \A x \in M : f[x] \in Int /\ f[x] = os[x].qty
  OBVIOUS
<1>3. \E m \in M : Max({f[x] : x \in M}) = f[m] /\ \A x \in M : f[x] <= f[m]
  <2> HIDE DEF f, M
  <2> QED
    BY <1>1, <1>2, MaxOf
<1>4. Size(os, X, g) = Max({f[x] : x \in M})
  BY DEF Size
<1> QED
  BY <1>2, <1>3, <1>4

LEMMA NeedsNone == \A os : Needs(os, {}) = 0
<1> SUFFICES ASSUME NEW os
             PROVE  Needs(os, {}) = 0
  OBVIOUS
<1> DEFINE f == [g \in Groups({}) |-> Size(os, {}, g)]
<1>1. DOMAIN f = {}
  BY DEF Groups
<1>2. Needs(os, {}) = SumFunctionOnSet(f, DOMAIN f)
  BY DEF Needs, SumFunction
<1> HIDE DEF f
<1> QED
  BY <1>1, <1>2, SumOfFew

LEMMA NeedsTyped ==
    ASSUME NEW os, NEW X \in SUBSET Orders, \A x \in X : os[x].qty \in Nat
    PROVE  Needs(os, X) \in Int
<1> DEFINE f == [g \in Groups(X) |-> Size(os, X, g)]
<1>1. IsFiniteSet(Groups(X))
  BY GroupsOf
<1>2. \A g \in Groups(X) : f[g] \in Int
  BY SizeOf
<1>3. Needs(os, X) = SumFunctionOnSet(f, Groups(X))
  BY DEF Needs, SumFunction
<1> HIDE DEF f
<1> QED
  BY <1>1, <1>2, <1>3, SumType

\* Fewer exits need less when no group has grown.
LEMMA NeedsLess ==
    ASSUME NEW os, NEW ns, NEW X \in SUBSET Orders, NEW Y \in SUBSET X,
           \A x \in X : os[x].qty \in Nat, \A y \in Y : ns[y].qty \in Nat,
           \A g \in Groups(Y) : Size(ns, Y, g) <= Size(os, X, g)
    PROVE  Needs(ns, Y) <= Needs(os, X)
<1> DEFINE f == [g \in Groups(Y) |-> Size(ns, Y, g)]
           h == [g \in Groups(X) |-> Size(os, X, g)]
<1>1. Groups(Y) \subseteq Groups(X) /\ IsFiniteSet(Groups(Y)) /\ IsFiniteSet(Groups(X))
  BY GroupsOf DEF Groups
<1>2. \A g \in Groups(X) : h[g] \in Nat
  BY SizeOf
<1>3. \A g \in Groups(Y) : f[g] \in Int
  BY SizeOf
<1>4. \A g \in Groups(Y) : f[g] <= h[g]
  BY <1>1
<1>5. Needs(ns, Y) = SumFunctionOnSet(f, Groups(Y)) /\ Needs(os, X) = SumFunctionOnSet(h, Groups(X))
  BY DEF Needs, SumFunction
<1> HIDE DEF f, h
<1>6. SumFunctionOnSet(f, Groups(Y)) <= SumFunctionOnSet(h, Groups(Y))
  <2>1. \A g \in Groups(Y) : f[g] \in Int /\ h[g] \in Int /\ f[g] <= h[g]
    BY <1>1, <1>2, <1>3, <1>4
  <2> QED
    BY <1>1, <2>1, SumAtMost
<1>7. SumFunctionOnSet(h, Groups(Y)) <= SumFunctionOnSet(h, Groups(X))
  BY <1>1, <1>2, SumOfPart
<1>8. SumFunctionOnSet(f, Groups(Y)) \in Int
  BY <1>1, <1>3, SumType
<1>9. SumFunctionOnSet(h, Groups(Y)) \in Int /\ SumFunctionOnSet(h, Groups(X)) \in Int
  <2>1. \A g \in Groups(X) : h[g] \in Int
    BY <1>2
  <2> QED
    BY <1>1, <2>1, SumType
<1> QED
  BY <1>5, <1>6, <1>7, <1>8, <1>9

\* A group of its own adds its quantity.
LEMMA NeedsMore ==
    ASSUME NEW os, NEW X \in SUBSET Orders, NEW Y \in SUBSET Orders, NEW g \in Entries, NEW n \in Nat,
           \A x \in X : os[x].qty \in Nat /\ Group(x) /= g,
           \A y \in Y : os[y].qty = n /\ Group(y) = g, Y /= {}
    PROVE  Needs(os, X \cup Y) = Needs(os, X) + n
<1> DEFINE Z == X \cup Y
           f == [i \in Groups(X) |-> Size(os, X, i)]
           h == [i \in Groups(Z) |-> Size(os, Z, i)]
<1>1. Z \in SUBSET Orders /\ \A z \in Z : os[z].qty \in Nat
  OBVIOUS
<1>2. Groups(Z) = Groups(X) \cup {g} /\ g \notin Groups(X)
  BY DEF Groups
<1>3. IsFiniteSet(Groups(Z)) /\ IsFiniteSet(Groups(X)) /\ Groups(Z) \ {g} = Groups(X) /\ g \in Groups(Z)
  BY <1>1, <1>2, GroupsOf
<1>4. Size(os, Z, g) = n
  <2>1. PICK m \in Z : Group(m) = g /\ Size(os, Z, g) = os[m].qty
    BY <1>1, <1>3, SizeOf
  <2> QED
    BY <2>1
<1>5. \A i \in Groups(X) : Size(os, Z, i) = Size(os, X, i)
  <2>1. ASSUME NEW i \in Groups(X)
        PROVE  Size(os, Z, i) = Size(os, X, i)
    <3>1. {y \in Z : Group(y) = i} = {y \in X : Group(y) = i}
      BY <1>2
    <3> QED
      BY <3>1 DEF Size
  <2> QED
    BY <2>1
<1>6. \A i \in Groups(X) : f[i] \in Int /\ f[i] = h[i]
  <2>1. ASSUME NEW i \in Groups(X)
        PROVE  f[i] \in Int /\ f[i] = h[i]
    <3>1. i \in Groups(Z)
      BY <1>3
    <3>2. f[i] = Size(os, X, i) /\ h[i] = Size(os, Z, i)
      BY <3>1
    <3> HIDE DEF f, h, Z
    <3>3. PICK m \in X : Size(os, X, i) = os[m].qty
      BY SizeOf
    <3> QED
      BY <1>5, <3>2, <3>3
  <2> QED
    BY <2>1
<1>7. h[g] = n
  BY <1>3, <1>4
<1>8. Needs(os, X) = SumFunctionOnSet(f, Groups(X)) /\ Needs(os, Z) = SumFunctionOnSet(h, Groups(Z))
  BY DEF Needs, SumFunction
<1> HIDE DEF f, h, Z
<1>9. SumFunctionOnSet(f, Groups(X)) = SumFunctionOnSet(h, Groups(X))
  BY <1>3, <1>6, SumEqual
<1>10. SumFunctionOnSet(h, Groups(Z)) = h[g] + SumFunctionOnSet(h, Groups(Z) \ {g})
  <2>1. \A i \in Groups(Z) : h[i] \in Int
    BY <1>2, <1>6, <1>7
  <2> QED
    BY <1>3, <2>1, SumWithout
<1>11. SumFunctionOnSet(f, Groups(X)) \in Int
  BY <1>3, <1>6, SumType
<1>12. SumFunctionOnSet(h, Groups(Z)) = n + SumFunctionOnSet(h, Groups(X))
  BY <1>3, <1>7, <1>10
<1>13. Needs(os, Z) = Needs(os, X) + n
  BY <1>8, <1>9, <1>11, <1>12
<1> QED
  BY <1>13 DEF Z

\* What the exits of kept get of the quantity q is in the order of their groups' ages.
LEMMA SharesOf ==
    ASSUME TablesInv, Aged, NEW kept \in SUBSET (Existing \cap Exits), NEW q \in Nat,
           NEW R \in SUBSET kept, NEW ns,
           \A x \in R : ns[x].qty = Admitted(kept, x, q)
    PROVE  /\ Needs(ns, R) <= q
           /\ \A g \in Groups(R) : Size(ns, R, g) <= Size(orders, kept, g) /\ Size(ns, R, g) \in Nat
           /\ \A x \in R : ns[x].qty \in Nat
<1> DEFINE G == Groups(kept)
           w == [g \in G |-> Size(orders, kept, g)]
           turn == [g \in G |-> GroupAt(kept, g)]
           earlier(g) == {h \in G : turn[h] < turn[g]}
           left(g) == Max({0, q - SumFunctionOnSet(w, earlier(g))})
           s == [g \in G |-> Min({w[g], left(g)})]
<1>1. /\ kept \in SUBSET Orders /\ R \in SUBSET Orders /\ IsFiniteSet(G)
      /\ Groups(R) \subseteq G
  BY GroupsOf DEF Existing, Groups
<1>2. \A x \in kept : orders[x].qty \in Nat /\ orders[x].at \in Nat
  BY DEF Existing, TablesInv, TablesTyped, OrderRows
<1>3. \A g \in G : w[g] \in Nat
  BY <1>1, <1>2, SizeOf
<1>4. \A x \in kept : GroupAt(kept, Group(x)) = orders[x].at
  <2>1. ASSUME NEW x \in kept
        PROVE  GroupAt(kept, Group(x)) = orders[x].at
    <3> DEFINE ats == {orders[z].at : z \in {y \in kept : Group(y) = Group(x)}}
    <3>1. \A y \in kept : Group(y) = Group(x) => orders[y].at = orders[x].at
      BY DEF Aged
    <3>2. ats = {orders[x].at}
      BY <3>1
    <3>3. orders[x].at >= orders[x].at
      BY <1>2
    <3>4. Min({orders[x].at}) = orders[x].at
      BY <3>3 DEF Min
    <3> QED
      BY <3>2, <3>4 DEF GroupAt
  <2> QED
    BY <2>1
<1>5. \A x \in kept : Group(x) \in G /\ turn[Group(x)] = orders[x].at
  BY <1>4 DEF Groups
<1>6. \A g \in G : \E x \in kept : g = Group(x)
  BY DEF Groups
<1>7. \A g, h \in G : turn[g] \in Int /\ (turn[g] = turn[h] => g = h)
  <2>1. ASSUME NEW g \in G, NEW h \in G
        PROVE  turn[g] \in Int /\ (turn[g] = turn[h] => g = h)
    <3>1. PICK x \in kept, y \in kept : g = Group(x) /\ h = Group(y)
      BY <1>6
    <3>2. turn[g] = orders[x].at /\ turn[h] = orders[y].at
      BY <1>5, <3>1
    <3> QED
      BY <1>2, <3>1, <3>2 DEF Aged
  <2> QED
    BY <2>1
<1>8. \A x \in kept : Admitted(kept, x, q) = s[Group(x)]
  <2>1. ASSUME NEW x \in kept
        PROVE  Admitted(kept, x, q) = s[Group(x)]
    <3> DEFINE e == {g \in G : GroupAt(kept, g) < GroupAt(kept, Group(x))}
    <3>1. Group(x) \in G
      BY <1>5
    <3>2. e = earlier(Group(x))
      BY <3>1
    <3>3. w = [g \in G |-> GroupQty(kept, g)]
      BY DEF Size, GroupQty
    <3>4. Admitted(kept, x, q) =
              Min({w[Group(x)], Max({0, q - SumFunctionOnSet([g \in G |-> GroupQty(kept, g)], e)})})
      BY <3>1 DEF Admitted, Size, GroupQty
    <3>5. s[Group(x)] = Min({w[Group(x)], Max({0, q - SumFunctionOnSet(w, earlier(Group(x)))})})
      BY <3>1
    <3> QED
      BY <3>2, <3>3, <3>4, <3>5
  <2> QED
    BY <2>1
<1>9. \A g \in G : s[g] \in Nat /\ s[g] <= w[g]
                     /\ (s[g] = 0 \/ s[g] <= q - SumFunctionOnSet(w, earlier(g)))
  <2>1. ASSUME NEW g \in G
        PROVE  s[g] \in Nat /\ s[g] <= w[g]
                     /\ (s[g] = 0 \/ s[g] <= q - SumFunctionOnSet(w, earlier(g)))
    <3> DEFINE e == earlier(g)
               taken == SumFunctionOnSet(w, e)
    <3>1. taken \in Int
      <4>1. IsFiniteSet(e)
        BY <1>1, FS_Subset
      <4>2. \A h \in e : w[h] \in Int
        <5>1. \A h \in e : h \in G
          OBVIOUS
        <5> HIDE DEF w, e, G
        <5> QED
          BY <1>3, <5>1
      <4> HIDE DEF w, e
      <4> QED
        BY <4>1, <4>2, SumType
    <3>2. s[g] = Min({w[g], Max({0, q - taken})})
      OBVIOUS
    <3>3. w[g] \in Nat
      BY <1>3
    <3> HIDE DEF s, w, e, taken
    <3>4. Max({0, q - taken}) = IF 0 >= q - taken THEN 0 ELSE q - taken
      BY <3>1, MaxPair
    <3>5. s[g] = IF w[g] <= Max({0, q - taken}) THEN w[g] ELSE Max({0, q - taken})
      <4> DEFINE a == w[g]
                 b == Max({0, q - taken})
      <4>1. a \in Int /\ b \in Int
        BY <3>1, <3>3, <3>4
      <4>2. s[g] = Min({a, b})
        BY <3>2
      <4> HIDE DEF a, b
      <4>3. s[g] = IF a <= b THEN a ELSE b
        BY <4>1, <4>2, MinPair
      <4> QED
        BY <4>3 DEF a, b
    <3>6. s[g] \in Nat /\ s[g] <= w[g] /\ (s[g] = 0 \/ s[g] <= q - taken)
      <4> DEFINE a == w[g]
                 b == Max({0, q - taken})
                 c == s[g]
      <4>1. /\ a \in Nat /\ b = IF 0 >= q - taken THEN 0 ELSE q - taken
            /\ c = IF a <= b THEN a ELSE b
        BY <3>3, <3>4, <3>5
      <4> HIDE DEF a, b, c
      <4>2. c \in Nat /\ c <= a /\ (c = 0 \/ c <= q - taken)
        BY <3>1, <4>1
      <4> QED
        BY <4>2 DEF a, c
    <3> QED
      BY <3>6 DEF e, taken
  <2> QED
    BY <2>1
<1>10. SumFunctionOnSet(s, Groups(R)) <= q
  <2>1. s \in [G -> Nat] /\ w \in [G -> Nat] /\ turn \in [G -> Int]
    <3>1. s = [g \in G |-> s[g]] /\ w = [g \in G |-> w[g]] /\ turn = [g \in G |-> turn[g]]
      OBVIOUS
    <3> HIDE DEF s, w, turn
    <3> QED
      BY <1>3, <1>7, <1>9, <3>1
  <2>2. \A g \in G : s[g] = 0 \/ s[g] <= q - SumFunctionOnSet(w, {h \in G : turn[h] < turn[g]})
    BY <1>9
  <2>3. \A g \in G : s[g] <= w[g]
    BY <1>9
  <2> HIDE DEF s, w, turn, G
  <2> QED
    BY <1>1, <1>7, <2>1, <2>2, <2>3, SharesFit
<1> HIDE DEF s, turn, w, earlier, left
<1>11. \A x \in R : ns[x].qty = s[Group(x)] /\ ns[x].qty \in Nat
  BY <1>5, <1>8, <1>9
<1>12. \A g \in Groups(R) : Size(ns, R, g) = s[g]
  <2>1. ASSUME NEW g \in Groups(R)
        PROVE  Size(ns, R, g) = s[g]
    <3>1. PICK m \in R : Group(m) = g /\ Size(ns, R, g) = ns[m].qty
      BY <1>1, <1>11, SizeOf
    <3> QED
      BY <1>11, <3>1
  <2> QED
    BY <2>1
<1>13. Needs(ns, R) = SumFunctionOnSet(s, Groups(R))
  <2> DEFINE f == [g \in Groups(R) |-> Size(ns, R, g)]
  <2>1. \A g \in Groups(R) : f[g] \in Int /\ f[g] = s[g]
    <3>1. \A g \in Groups(R) : f[g] = Size(ns, R, g)
      OBVIOUS
    <3>2. \A g \in G : s[g] \in Int
      BY <1>9
    <3> HIDE DEF f, G
    <3> QED
      BY <1>1, <1>12, <3>1, <3>2
  <2>2. Needs(ns, R) = SumFunctionOnSet(f, Groups(R))
    BY DEF Needs, SumFunction
  <2>3. IsFiniteSet(Groups(R))
    BY <1>1, FS_Subset
  <2> HIDE DEF f
  <2> QED
    BY <2>1, <2>2, <2>3, SumEqual
<1>14. \A g \in Groups(R) : Size(ns, R, g) <= Size(orders, kept, g) /\ Size(ns, R, g) \in Nat
  <2>1. \A g \in G : w[g] = Size(orders, kept, g)
    BY DEF w
  <2> QED
    BY <1>1, <1>9, <1>12, <2>1
<1> QED
  BY <1>10, <1>11, <1>13, <1>14

LEMMA SmallMoves ==
    ASSUME TablesInv, NEW o \in Orders, Cancels(o) \/ Relevels(o)
    PROVE  /\ Existing' = Existing /\ Pending' \subseteq Pending
           /\ \A x \in Existing : orders'[x].at = orders[x].at /\ orders'[x].qty = orders[x].qty
<1>1. o \in Pending /\ orders \in [Orders -> OrderRows \cup {None}]
  BY DEF Cancels, Relevels, TablesInv, TablesTyped
<1>2. orders[o] \in OrderRows /\ orders[o] /= None
  BY <1>1 DEF Pending
<1>3. \E s : /\ orders' = [orders EXCEPT ![o] = s] /\ s \in OrderRows /\ s /= None
             /\ s.at = orders[o].at /\ s.qty = orders[o].qty
  <2>1. CASE Cancels(o)
    <3> DEFINE s == [orders[o] EXCEPT !.status = "cancelled"]
    <3>1. orders' = [orders EXCEPT ![o] = s]
      BY <1>1, <2>1 DEF Cancels, Cancelled
    <3>2. SameTerms(s, orders[o]) /\ s.at = orders[o].at /\ s.qty = orders[o].qty
      BY <1>2, CancelledRows
    <3> QED
      BY <3>1, <3>2 DEF SameTerms
  <2>2. CASE Relevels(o)
    <3>1. PICK n \in Nat, c \in Commands :
              orders' = [orders EXCEPT ![o].level = n, ![o].command = c]
      BY <2>2 DEF Relevels
    <3> DEFINE s == [orders[o] EXCEPT !.level = n, !.command = c]
    <3>2. orders' = [orders EXCEPT ![o] = s]
      BY <1>1, <3>1
    <3>3. \A r \in OrderRows : \A u : u = [r EXCEPT !.level = n, !.command = c] =>
              SameTerms(u, r) /\ u.status = r.status /\ u.qty = r.qty /\ u.pos = r.pos /\ u.at = r.at
      BY LeveledRows
    <3>4. SameTerms(s, orders[o]) /\ s.at = orders[o].at /\ s.qty = orders[o].qty
      BY <1>2, <3>3
    <3> QED
      BY <3>2, <3>4 DEF SameTerms
  <2> QED
    BY <2>1, <2>2
<1>4. PICK s : /\ orders' = [orders EXCEPT ![o] = s] /\ s \in OrderRows /\ s /= None
               /\ s.at = orders[o].at /\ s.qty = orders[o].qty
  BY <1>3
<1>5. \A x \in Orders : orders'[x] = IF x = o THEN s ELSE orders[x]
  BY <1>1, <1>4
<1>6. Existing' = Existing
  BY <1>2, <1>4, <1>5 DEF Existing
<1>7. Pending' \subseteq Pending
  BY <1>1, <1>5 DEF Pending
<1> QED
  BY <1>4, <1>5, <1>6, <1>7 DEF Existing

LEMMA ExistingCounts == IsFiniteSet(Existing) /\ Cardinality(Existing) \in Nat
<1>1. IsFiniteSet(Existing)
  BY PaperJournalAssumption, FS_Subset DEF Existing
<1> QED
  BY <1>1, FS_CardinalityType

\* The ages, sizes and groups that a fill leaves.
LEMMA FillSizes ==
    ASSUME TablesInv, NEW r, NEW p, Executes(r, p)
    PROVE  /\ Existing' = Existing \cup FillNew(r, p)
           /\ \A x \in Existing : orders'[x].at = orders[x].at
           /\ \A x \in FillNew(r, p) :
                 /\ x \notin Existing /\ Group(x) = r.id /\ r.id \in Entries
                 /\ orders'[x].at = 1 + Cardinality(Existing)
                 /\ orders'[x].qty = ProtectiveQty(QtyOf(p), FillDelta(r, p))
           /\ \A x \in Existing \cap Exits : r.id \in Entries => Group(x) /= r.id
           /\ \A x \in FillKept(r, p) :
                 orders'[x].status = "pending" => orders'[x].qty = FillShare(r, p, x)
           /\ orders'[r.id].status /= "pending"
           /\ \A x \in FillDead(r, p) : orders'[x].status /= "pending"
<1> DEFINE dead == FillDead(r, p)
           kept == FillKept(r, p)
           new == FillNew(r, p)
           d == FillDelta(r, p)
           f == FillPos(r, p)
<1>1. /\ dead \subseteq Pending \ {r.id} /\ kept \subseteq (Pending \cap Exits) \ {r.id}
      /\ new \subseteq Children /\ dead \cup kept \cup new \subseteq Orders
      /\ \A x \in new : /\ orders[x] = None /\ x[1] = r.id /\ r.id \in Entries
                        /\ x[2] \in {"stop", "take"} /\ ProtectiveQty(QtyOf(p), d) > 0
  BY FillSets
<1>2. r.id \in Orders /\ r.id \in Pending /\ QtyOf(p) \in Int
  BY Found
<1>3. d \in Int /\ Abs(d) \in Nat \ {0}
  BY Moves DEF FillDelta
<1>4. f \in Positions
  BY Leaves DEF FillDelta, FillPos
<1>5. FillWrites(r, p)
  BY FillRows
<1>6. \A x \in Pending : orders[x] \in OrderRows /\ orders[x] /= None /\ orders[x].status = "pending"
  BY DEF Pending, TablesInv, TablesTyped
<1>7. orders'[r.id].at = orders[r.id].at /\ orders'[r.id] /= None /\ orders'[r.id].status = "filled"
  <2> DEFINE n == Abs(d)
             old == orders[r.id]
             u == [old EXCEPT !.status = "filled", !.qty = n, !.pos = f]
  <2>1. n \in Nat \ {0} /\ old \in OrderRows /\ orders'[r.id] = u
    BY <1>2, <1>3, <1>5, <1>6 DEF FillWrites
  <2> HIDE DEF n, old, f
  <2>2. u \in OrderRows /\ u.at = old.at /\ u.status = "filled"
    BY <1>4, <2>1 DEF OrderRows
  <2> QED
    BY <2>1, <2>2, NoneIsApart DEF old
<1>8. ASSUME NEW x \in dead
      PROVE  orders'[x].at = orders[x].at /\ orders'[x] /= None /\ orders'[x].status = "cancelled"
  <2>1. orders[x] \in OrderRows /\ orders'[x] = [orders[x] EXCEPT !.status = "cancelled"]
    BY <1>1, <1>5, <1>6 DEF FillWrites
  <2> QED
    BY <2>1, CancelledRows DEF SameTerms
<1>9. ASSUME NEW x \in kept
      PROVE  /\ orders'[x].at = orders[x].at /\ orders'[x] /= None
             /\ orders'[x].status = "pending" => orders'[x].qty = FillShare(r, p, x)
  <2>1. /\ orders[x] \in OrderRows /\ FillShare(r, p, x) \in Nat
        /\ orders'[x] = Resized(orders[x], FillShare(r, p, x))
    BY <1>1, <1>5, <1>6 DEF FillWrites
  <2> QED
    BY <2>1, ResizedRows DEF SameTerms
<1>10. ASSUME NEW x \in new
       PROVE  /\ orders'[x] /= None /\ orders'[x].at = 1 + Cardinality(Existing)
              /\ orders'[x].qty = ProtectiveQty(QtyOf(p), d)
  <2> DEFINE n == NewOrder(x, x[2], -Sign(FillQty(r, p)), ProtectiveQty(QtyOf(p), d), f, AnyPosition)
             side == -Sign(FillQty(r, p))
             qty == ProtectiveQty(QtyOf(p), d)
             k == x[2]
  <2>1. qty \in Nat \ {0} /\ side \in {-1, 1}
    BY <1>1, <1>2, <1>3, ProtectiveQtys DEF FillQty
  <2>2. x \in Orders /\ k \in Roles(x) /\ AnyPosition \in Expectations
    <3>1. x \in Children /\ k \in {"stop", "take"}
      BY <1>1
    <3>2. x \notin Closes /\ x \notin Entries
      BY <3>1, PaperJournalAssumption
    <3>3. AnyPosition \in Expectations
      BY DEF Expectations
    <3> HIDE DEF k
    <3> QED
      BY <3>1, <3>2, <3>3 DEF Roles, Orders
  <2>3. n = NewOrder(x, k, side, qty, f, AnyPosition)
    OBVIOUS
  <2>4. orders'[x] = Created(n)
    BY <1>5 DEF FillWrites, FillMade
  <2> HIDE DEF n, side, qty, k, f
  <2>5. n \in OrderRows /\ n.qty = qty
    BY <1>4, <2>1, <2>2, <2>3, NewOrders
  <2>6. SameTerms(orders'[x], n) /\ orders'[x].qty = n.qty /\ orders'[x].at = 1 + Cardinality(Existing)
    BY <2>4, <2>5, CreatedRows DEF Existing
  <2> QED
    BY <2>5, <2>6 DEF SameTerms, qty
<1>11. \A x \in Orders \ {r.id} : x \notin dead \cup kept \cup new => orders'[x] = orders[x]
  BY <1>5 DEF FillWrites
<1> HIDE DEF dead, kept, new, d, f
<1>12. ASSUME NEW x \in Existing
       PROVE  orders'[x].at = orders[x].at /\ x \in Existing'
  BY <1>1, <1>7, <1>8, <1>9, <1>11 DEF Existing
<1>13. \A x \in new : x \in Existing' /\ x \notin Existing /\ Group(x) = r.id /\ r.id \in Entries
  BY <1>1, <1>10 DEF Existing, Group
<1>14. \A x \in Orders : x \in Existing' => x \in Existing \cup new
  BY <1>1, <1>2, <1>6, <1>11 DEF Existing
<1>15. Existing' = Existing \cup new
  BY <1>12, <1>13, <1>14 DEF Existing
<1>16. ASSUME NEW x \in Existing \cap Exits, r.id \in Entries
       PROVE  Group(x) /= r.id
  <2>1. CASE x \in Children
    <3>1. PICK e \in Entries, k \in {"stop", "take"} : x = <<e, k>>
      BY <2>1 DEF Children
    <3>2. e /= r.id
      BY <1>2, <1>6, <1>16, <3>1 DEF TablesInv, Unborn, Existing
    <3> QED
      BY <2>1, <3>1, <3>2 DEF Group
  <2>2. CASE x \notin Children
    BY <1>16, <2>2, PaperJournalAssumption DEF Group, Exits
  <2> QED
    BY <2>1, <2>2
<1> QED
  BY <1>7, <1>8, <1>9, <1>10, <1>12, <1>13, <1>15, <1>16 DEF dead, kept, new, d

LEMMA AgedStep == JournalInv /\ JournalInv' /\ Aged /\ [Next]_vars => Aged'
<1> SUFFICES ASSUME JournalInv, JournalInv', Aged, [Next]_vars
             PROVE  Aged'
  OBVIOUS
<1>1. TableMove /\ TablesInv /\ TablesInv'
  BY StepMoves DEF JournalInv
<1>2. ASSUME Existing' = Existing, \A x \in Existing : orders'[x].at = orders[x].at
      PROVE  Aged'
  BY <1>2 DEF Aged
<1>3. CASE UNCHANGED journal
  BY <1>2, <1>3 DEF journal, Existing
<1>4. ASSUME NEW o \in Orders, Cancels(o) \/ Relevels(o)
      PROVE  Aged'
  BY <1>1, <1>2, <1>4, SmallMoves
<1>5. /\ \A x \in Existing : orders[x].at \in Nat /\ x \in Orders
      /\ IsFiniteSet(Existing) /\ Cardinality(Existing) \in Nat
  BY <1>1, ExistingCounts DEF Existing, TablesInv, TablesTyped, OrderRows
<1>6. ASSUME NEW N, N \cap Existing = {}, Existing' = Existing \cup N, N /= {},
             IsFiniteSet(Existing'),
             \A x \in Existing : orders'[x].at = orders[x].at,
             \A x \in N : orders'[x].at = 1 + Cardinality(Existing),
             \A x \in N, y \in Existing \cap Exits : x \in Exits => Group(x) /= Group(y),
             \A x, y \in N \cap Exits : Group(x) = Group(y)
      PROVE  Aged'
  <2>1. PICK n \in N : TRUE
    BY <1>6
  <2>2. Cardinality(Existing \cup {n}) = Cardinality(Existing) + 1
    BY <1>5, <1>6, <2>1, FS_AddElement
  <2>3. Cardinality(Existing \cup {n}) <= Cardinality(Existing')
    BY <1>6, FS_Subset
  <2>4. Cardinality(Existing') \in Nat
    BY <1>6, FS_CardinalityType
  <2>5. \A x \in Existing' : orders'[x].at <= Cardinality(Existing')
    BY <1>5, <1>6, <2>2, <2>3, <2>4 DEF Aged
  <2>6. ASSUME NEW x \in Existing' \cap Exits, NEW y \in Existing' \cap Exits
        PROVE  Group(x) = Group(y) <=> orders'[x].at = orders'[y].at
    <3>1. CASE x \in Existing /\ y \in Existing
      BY <1>6, <3>1 DEF Aged
    <3>2. CASE x \in N /\ y \in N
      BY <1>6, <3>2
    <3>3. CASE x \in N /\ y \in Existing
      BY <1>5, <1>6, <3>3 DEF Aged
    <3>4. CASE x \in Existing /\ y \in N
      BY <1>5, <1>6, <3>4 DEF Aged
    <3> QED
      BY <1>6, <3>1, <3>2, <3>3, <3>4
  <2> QED
    BY <2>5, <2>6 DEF Aged
<1>7. IsFiniteSet(Existing')
  BY PaperJournalAssumption, FS_Subset DEF Existing
<1>8. ASSUME NEW r \in OrderRows, Inserts(r)
      PROVE  Aged'
  <2>1. orders \in [Orders -> OrderRows \cup {None}] /\ r.id \in Orders /\ r /= None
    BY <1>1, NoneIsApart DEF TablesInv, TablesTyped, OrderRows
  <2>2. \A x \in Orders : orders'[x] = IF x = r.id THEN r ELSE orders[x]
    BY <1>8, <2>1 DEF Inserts
  <2>3. /\ Existing' = Existing \cup {r.id} /\ {r.id} \cap Existing = {}
        /\ \A x \in Existing : orders'[x].at = orders[x].at
    BY <1>8, <2>1, <2>2 DEF Inserts, Existing
  <2>4. orders'[r.id].at = 1 + Cardinality(Existing)
    BY <1>8, <2>1, <2>2 DEF Inserts, Existing
  <2>5. ASSUME NEW y \in Existing \cap Exits, r.id \in Exits
        PROVE  Group(r.id) /= Group(y)
    <3>1. r.id \in Closes /\ r.id \notin Children /\ r.id \notin Entries
      BY <1>8, <2>5, Ids, PaperJournalAssumption DEF Inserts
    <3>2. Group(r.id) = r.id /\ y /= r.id
      BY <2>3, <3>1 DEF Group
    <3>3. y \in Children => Group(y) \in Entries
      BY DEF Group, Children
    <3> QED
      BY <3>1, <3>2, <3>3 DEF Group
  <2> DEFINE N == {r.id}
  <2>6. /\ N \cap Existing = {} /\ Existing' = Existing \cup N /\ N /= {}
        /\ \A x \in N : orders'[x].at = 1 + Cardinality(Existing)
    BY <2>3, <2>4
  <2>7. /\ \A x \in N, y \in Existing \cap Exits : x \in Exits => Group(x) /= Group(y)
        /\ \A x, y \in N \cap Exits : Group(x) = Group(y)
    BY <2>5
  <2> HIDE DEF N
  <2> QED
    BY <1>6, <1>7, <2>3, <2>6, <2>7
<1>9. ASSUME NEW r \in OrderRows, NEW p \in Positions, Executes(r, p)
      PROVE  Aged'
  <2> DEFINE N == FillNew(r, p)
  <2>1. /\ Existing' = Existing \cup N
        /\ \A x \in Existing : orders'[x].at = orders[x].at
        /\ \A x \in N : x \notin Existing /\ Group(x) = r.id /\ r.id \in Entries
                          /\ orders'[x].at = 1 + Cardinality(Existing)
        /\ \A x \in Existing \cap Exits : r.id \in Entries => Group(x) /= r.id
    BY <1>1, <1>9, FillSizes
  <2> HIDE DEF N
  <2>2. CASE N = {}
    BY <1>2, <2>1, <2>2
  <2>3. CASE N /= {}
    BY <1>6, <1>7, <2>1, <2>3
  <2> QED
    BY <2>2, <2>3
<1> QED
  BY <1>1, <1>3, <1>4, <1>8, <1>9 DEF TableMove

LEMMA AgedInit == Init => Aged
<1> SUFFICES ASSUME Init
             PROVE  Aged
  OBVIOUS
<1>1. Existing = {}
  BY DEF Init, Existing
<1> QED
  BY <1>1 DEF Aged

\* The stops and takes that were there before a fill and are pending after it have been
\* resized; a fill that goes through zero leaves none.
LEMMA FillLeaves ==
    ASSUME TablesInv, NEW r, NEW p, Executes(r, p), FillQty(r, p) /= 0,
           NEW R, R = Protected' \ FillNew(r, p)
    PROVE  /\ R \subseteq FillKept(r, p) /\ R \subseteq Protected
           /\ Reverses(QtyOf(p), FillDelta(r, p)) => R = {}
           /\ p \notin Open => R = {}
<1> DEFINE d == FillDelta(r, p)
           f == FillPos(r, p)
           dead == FillDead(r, p)
           kept == FillKept(r, p)
<1>1. /\ \A s \in Open : s = p
      /\ r.id \in Pending
  BY Found DEF TablesInv, OneOpen
<1>2. /\ Reverses(QtyOf(p), d) => positions[f] = None
      /\ ~Reverses(QtyOf(p), d) => f = p
  BY Leaves DEF FillPos, FillDelta
<1>3. \A x \in Protected : orders[x].pos = p /\ p \in Open
  BY <1>1 DEF TablesInv, Facing, Protected
<1>4. kept = ExitsOf(f, r.id) \ dead
  BY DEF FillKept
<1>5. Reverses(QtyOf(p), d) => ExitsOf(p, r.id) \subseteq dead
  BY DEF FillDead, Dead
<1>6. orders'[r.id].status /= "pending" /\ \A x \in dead : orders'[x].status /= "pending"
  BY FillSizes
<1>7. \A x \in Orders \ {r.id} :
          x \notin dead \cup kept \cup FillNew(r, p) => orders'[x] = orders[x]
  BY FillRows DEF FillWrites
<1>8. kept \subseteq Pending
  BY FillSets
<1>9. Reverses(QtyOf(p), d) => p \in Open /\ positions[p] /= None
  BY Moves DEF Open, FillDelta
<1> HIDE DEF d, f, dead, kept
<1>10. ASSUME NEW x \in R
       PROVE  x \in kept /\ x \in Protected /\ ~Reverses(QtyOf(p), d) /\ p \in Open
  <2>1. x \in Orders /\ x \in Children /\ orders'[x].status = "pending" /\ orders'[x] /= None
        /\ x \notin FillNew(r, p)
    BY DEF Protected, Pending
  <2>2. x /= r.id /\ x \notin dead
    BY <1>6, <2>1
  <2>3. x \in Pending
    BY <1>7, <1>8, <2>1, <2>2 DEF Pending
  <2>4. x \in Protected /\ orders[x].pos = p /\ p \in Open
    BY <1>3, <2>1, <2>3 DEF Protected
  <2>5. x \in ExitsOf(p, r.id)
    BY <2>1, <2>2, <2>3, <2>4 DEF ExitsOf, Exits
  <2>6. ~Reverses(QtyOf(p), d)
    BY <1>5, <2>2, <2>5
  <2> QED
    BY <1>2, <1>4, <2>2, <2>4, <2>5, <2>6
<1> QED
  BY <1>10 DEF d, kept

\* What an entry adds to a position that it does not reduce.
LEMMA AddsUp ==
    \A q, d \in Int : q * d >= 0 => Abs(q + d) = Abs(q) + Abs(d)
<1> SUFFICES ASSUME NEW q \in Int, NEW d \in Int, q * d >= 0
             PROVE  Abs(q + d) = Abs(q) + Abs(d)
  OBVIOUS
<1>1. (q <= 0 /\ d <= 0) \/ (q >= 0 /\ d >= 0)
  BY Products
<1> QED
  BY <1>1 DEF Abs

\* What the stops and takes need after a fill is no more than what it leaves.
LEMMA FillFits ==
    ASSUME TablesInv, Aged, Fits, NEW r, NEW p, Executes(r, p), FillQty(r, p) /= 0
    PROVE  Needs(orders', Protected') <= Abs(FillQty(r, p))
<1> DEFINE q == QtyOf(p)
           d == FillDelta(r, p)
           n == FillQty(r, p)
           kept == FillKept(r, p)
           R == Protected' \ FillNew(r, p)
           Y == Protected' \cap FillNew(r, p)
           m == ProtectiveQty(q, d)
<1>1. q \in Int /\ d \in Int /\ n = q + d /\ Abs(d) \in Nat /\ Abs(q) \in Nat /\ Abs(n) \in Nat
  <2>1. q \in Int /\ d \in Int
    BY Found, Moves DEF FillDelta
  <2> HIDE DEF q, d
  <2>2. n = q + d
    BY DEF FillQty, q, d
  <2> HIDE DEF n
  <2>3. n \in Int
    BY <2>1, <2>2
  <2> QED
    BY <2>1, <2>2, <2>3, Absolutes
<1>2. /\ R \subseteq kept /\ R \subseteq Protected
      /\ Reverses(q, d) => R = {}
      /\ p \notin Open => R = {}
  BY FillLeaves
<1>3. kept \in SUBSET (Existing \cap Exits) /\ kept \subseteq Pending
  <2>1. kept \subseteq Pending \cap Exits
    BY FillSets
  <2> QED
    BY <2>1 DEF Existing, Pending
<1>4. \A x \in R : orders'[x].qty = Admitted(kept, x, Abs(n))
  <2>1. \A x \in R : orders'[x].status = "pending"
    BY DEF Protected, Pending
  <2> HIDE DEF R
  <2> QED
    BY <1>2, <2>1, FillSizes DEF FillShare
<1>5. /\ Needs(orders', R) <= Abs(n)
      /\ \A g \in Groups(R) :
            Size(orders', R, g) <= Size(orders, kept, g) /\ Size(orders', R, g) \in Nat
      /\ \A x \in R : orders'[x].qty \in Nat
  <2> DEFINE v == Abs(n)
             ns == orders'
  <2>1. v \in Nat /\ \A x \in R : ns[x].qty = Admitted(kept, x, v)
    BY <1>1, <1>4
  <2> HIDE DEF v, ns, kept, R
  <2>2. /\ Needs(ns, R) <= v
        /\ \A g \in Groups(R) :
              Size(ns, R, g) <= Size(orders, kept, g) /\ Size(ns, R, g) \in Nat
        /\ \A x \in R : ns[x].qty \in Nat
    BY <1>2, <1>3, <2>1, SharesOf
  <2> QED
    BY <2>2 DEF v, ns
<1>6. Protected' = R \cup Y /\ Y \subseteq Orders /\ R \subseteq Orders
  BY DEF Protected, Pending
<1>7. CASE Y = {}
  <2>1. Protected' = R
    BY <1>6, <1>7
  <2> QED
    BY <1>5, <2>1
<1>8. CASE Y /= {}
  <2>1. /\ r.id \in Entries /\ m > 0
        /\ \A y \in Y : orders'[y].qty = m /\ Group(y) = r.id
    <3>1. /\ \A y \in FillNew(r, p) : /\ orders'[y].qty = m /\ Group(y) = r.id /\ r.id \in Entries
      BY FillSizes
    <3>2. \A y \in FillNew(r, p) : m > 0
      BY FillSets
    <3> QED
      BY <1>8, <3>1, <3>2
  <2>2. \A x \in R : Group(x) /= r.id
    <3>1. \A x \in Existing \cap Exits : Group(x) /= r.id
      BY <2>1, FillSizes
    <3> QED
      BY <1>2, <1>3, <3>1
  <2>3. m \in Nat
    BY <1>1, <2>1, ProtectiveQtys
  <2>4. Needs(orders', R \cup Y) = Needs(orders', R) + m
    <3> DEFINE ns == orders'
               g == r.id
    <3>1. /\ \A x \in R : ns[x].qty \in Nat /\ Group(x) /= g
          /\ \A y \in Y : ns[y].qty = m /\ Group(y) = g
      BY <1>5, <2>1, <2>2
    <3>2. R \in SUBSET Orders /\ Y \in SUBSET Orders /\ Y /= {} /\ m \in Nat /\ g \in Entries
      BY <1>6, <1>8, <2>1, <2>3
    <3> HIDE DEF ns, R, Y, m, g
    <3>3. Needs(ns, R \cup Y) = Needs(ns, R) + m
      BY <3>1, <3>2, NeedsMore
    <3> QED
      BY <3>3 DEF ns
  <2>5. CASE Reverses(q, d)
    <3>1. R = {} /\ m = Abs(n)
      BY <1>1, <1>2, <2>5 DEF ProtectiveQty
    <3>2. Needs(orders', R) = 0
      BY <3>1, NeedsNone
    <3> QED
      BY <1>1, <1>6, <2>4, <3>1, <3>2
  <2>6. CASE ~Reverses(q, d)
    <3>1. m = Abs(d) /\ Abs(n) = Abs(q) + Abs(d)
      <4>1. q * d >= 0 /\ m = Abs(d)
        BY <2>1, <2>6 DEF ProtectiveQty
      <4> HIDE DEF q, d, n
      <4>2. Abs(q + d) = Abs(q) + Abs(d)
        BY <1>1, <4>1, AddsUp
      <4> QED
        BY <1>1, <4>1, <4>2
    <3>2. Needs(orders', R) <= Abs(q) /\ Needs(orders', R) \in Int
      <4>1. CASE R = {}
        <5>1. Needs(orders', R) = 0
          BY <4>1, NeedsNone
        <5> QED
          BY <1>1, <5>1
      <4>2. CASE R /= {}
        <5>1. p \in Open /\ positions[p].qty = q
          BY <1>2, <4>2, Found
        <5>2. Needs(orders, Protected) <= Abs(q)
          BY <5>1 DEF Fits
        <5>3. /\ Protected \in SUBSET Orders /\ \A x \in Protected : orders[x].qty \in Nat
              /\ \A x \in kept : orders[x].qty \in Nat
          BY <1>3 DEF Protected, Pending, TablesInv, TablesTyped, OrderRows
        <5>4. \A g \in Groups(R) : Size(orders', R, g) <= Size(orders, Protected, g)
          <6>1. ASSUME NEW g \in Groups(R)
                PROVE  Size(orders', R, g) <= Size(orders, Protected, g)
            <7>1. g \in Groups(kept) /\ g \in Groups(Protected) /\ kept \in SUBSET Orders
              BY <1>2, <1>3 DEF Groups, Existing
            <7>2. g \in Entries
              BY <1>2 DEF Groups, Group, Protected, Children
            <7> HIDE DEF kept, R
            <7>3. PICK k \in kept : Group(k) = g /\ Size(orders, kept, g) = orders[k].qty
              BY <5>3, <7>1, SizeOf
            <7>4. k \in Protected
              <8>1. k \in Pending /\ k \in Exits
                BY <1>3
              <8>2. k \in Children
                BY <7>2, <7>3, <8>1, PaperJournalAssumption DEF Group, Exits
              <8> QED
                BY <8>1, <8>2 DEF Protected
            <7>5. orders[k].qty <= Size(orders, Protected, g) /\ Size(orders, Protected, g) \in Nat
              BY <5>3, <7>1, <7>3, <7>4, SizeOf
            <7>6. Size(orders', R, g) <= Size(orders, kept, g) /\ Size(orders', R, g) \in Nat
              BY <1>5, <6>1
            <7>7. orders[k].qty \in Nat
              BY <5>3
            <7> QED
              BY <7>3, <7>5, <7>6, <7>7
          <6> QED
            BY <6>1
        <5>5. Needs(orders', R) <= Needs(orders, Protected)
          <6> DEFINE ns == orders'
          <6>1. /\ \A x \in R : ns[x].qty \in Nat
                /\ \A g \in Groups(R) : Size(ns, R, g) <= Size(orders, Protected, g)
            BY <1>5, <5>4
          <6> HIDE DEF ns, R
          <6>2. Needs(ns, R) <= Needs(orders, Protected)
            BY <1>2, <5>3, <6>1, NeedsLess
          <6> QED
            BY <6>2 DEF ns
        <5>6. Needs(orders', R) \in Int /\ Needs(orders, Protected) \in Int
          BY <1>5, <1>6, <5>3, NeedsTyped
        <5> QED
          BY <1>1, <5>2, <5>5, <5>6
      <4> QED
        BY <4>1, <4>2
    <3>3. Needs(orders', Protected') = Needs(orders', R) + m
      BY <1>6, <2>4
    <3> DEFINE a == Needs(orders', R)
               b == Needs(orders', Protected')
    <3>4. a \in Int /\ a <= Abs(q) /\ b = a + m
      BY <3>2, <3>3
    <3> HIDE DEF a, b, q, d, n, m
    <3>5. b <= Abs(n)
      BY <1>1, <3>1, <3>4
    <3> QED
      BY <3>5 DEF b, n
  <2> QED
    BY <2>5, <2>6
<1> QED
  BY <1>7, <1>8

\* Without a fill no stop or take appears and none grows.
LEMMA FewerFit ==
    ASSUME TablesInv, Fits, UNCHANGED positions, Protected' \subseteq Protected,
           \A x \in Protected' : orders'[x].qty = orders[x].qty
    PROVE  Fits'
<1> DEFINE X == Protected
           Y == Protected'
           ns == orders'
<1>1. X \in SUBSET Orders /\ \A x \in X : orders[x].qty \in Nat
  BY DEF Protected, Pending, TablesInv, TablesTyped, OrderRows
<1>2. Y \in SUBSET X /\ \A y \in Y : ns[y].qty = orders[y].qty /\ ns[y].qty \in Nat
  BY <1>1
<1>3. Open' = Open /\ \A p \in Open : positions'[p].qty = positions[p].qty
                                        /\ Abs(positions[p].qty) \in Nat
  <2>1. \A p \in Open : positions[p].qty \in Int
    BY DEF Open, TablesInv, TablesTyped, PositionRows
  <2> QED
    BY <2>1, Absolutes DEF Open
<1> HIDE DEF X, Y, ns
<1>4. \A g \in Groups(Y) : Size(ns, Y, g) <= Size(orders, X, g)
  <2>1. ASSUME NEW g \in Groups(Y)
        PROVE  Size(ns, Y, g) <= Size(orders, X, g)
    <3>1. Y \in SUBSET Orders /\ g \in Groups(X)
      BY <1>1, <1>2 DEF Groups
    <3>2. PICK k \in Y : Group(k) = g /\ Size(ns, Y, g) = ns[k].qty
      BY <1>2, <3>1, SizeOf
    <3>3. orders[k].qty <= Size(orders, X, g)
      BY <1>1, <1>2, <3>1, <3>2, SizeOf
    <3> QED
      BY <1>2, <3>2, <3>3
  <2> QED
    BY <2>1
<1>5. Needs(ns, Y) <= Needs(orders, X)
  BY <1>1, <1>2, <1>4, NeedsLess
<1>6. Needs(ns, Y) \in Int /\ Needs(orders, X) \in Int
  <2>1. Y \in SUBSET Orders
    BY <1>1, <1>2
  <2> QED
    BY <1>1, <1>2, <2>1, NeedsTyped
<1>7. \A p \in Open : Needs(ns, Y) <= Abs(positions[p].qty)
  <2>1. \A p \in Open : Needs(orders, X) <= Abs(positions[p].qty)
    BY DEF Fits, X
  <2> QED
    BY <1>3, <1>5, <1>6, <2>1
<1>8. \A p \in Open' : Needs(orders', Protected') <= Abs(positions'[p].qty)
  BY <1>3, <1>7 DEF ns, Y
<1> QED
  BY <1>8 DEF Fits

LEMMA FitsInit == Init => Fits
<1> SUFFICES ASSUME Init
             PROVE  Fits
  OBVIOUS
<1>1. Open = {}
  BY DEF Init, Open
<1> QED
  BY <1>1 DEF Fits

LEMMA FitsStep == JournalInv /\ JournalInv' /\ Aged /\ Fits /\ [Next]_vars => Fits'
<1> SUFFICES ASSUME JournalInv, JournalInv', Aged, Fits, [Next]_vars
             PROVE  Fits'
  OBVIOUS
<1>1. TableMove /\ TablesInv
  BY StepMoves DEF JournalInv
<1>2. CASE UNCHANGED journal
  <2>1. UNCHANGED <<orders, positions>>
    BY <1>2 DEF journal
  <2>2. Protected' = Protected
    BY <2>1 DEF Protected, Pending
  <2> QED
    BY <1>1, <2>1, <2>2, FewerFit
<1>3. ASSUME NEW r \in OrderRows, Inserts(r)
      PROVE  Fits'
  <2>1. /\ orders \in [Orders -> OrderRows \cup {None}] /\ r.id \in Orders
        /\ r.id \notin Children /\ UNCHANGED positions
    BY <1>1, <1>3, PaperJournalAssumption DEF Inserts, TablesInv, TablesTyped, OrderRows
  <2>2. \A x \in Orders : x \in Children => orders'[x] = orders[x]
    BY <1>3, <2>1 DEF Inserts
  <2>3. Protected' \subseteq Protected /\ \A x \in Protected' : orders'[x].qty = orders[x].qty
    BY <2>2 DEF Protected, Pending
  <2> QED
    BY <1>1, <2>1, <2>3, FewerFit
<1>4. ASSUME NEW o \in Orders, Cancels(o) \/ Relevels(o)
      PROVE  Fits'
  <2>1. /\ Pending' \subseteq Pending
        /\ \A x \in Existing : orders'[x].qty = orders[x].qty
    BY <1>1, <1>4, SmallMoves
  <2>2. Protected' \subseteq Protected /\ \A x \in Protected' : orders'[x].qty = orders[x].qty
    BY <2>1 DEF Protected, Pending, Existing
  <2>3. UNCHANGED positions
    BY <1>4 DEF Cancels, Relevels
  <2> QED
    BY <1>1, <2>2, <2>3, FewerFit
<1>5. ASSUME NEW r \in OrderRows, NEW p \in Positions, Executes(r, p)
      PROVE  Fits'
  <2> DEFINE n == FillQty(r, p)
             f == FillPos(r, p)
  <2>1. /\ Open' = IF n = 0 THEN {} ELSE {f}
        /\ n /= 0 => positions'[f].qty = n
    BY <1>1, <1>5, Leaves DEF FillQty, FillPos, FillDelta
  <2>2. n /= 0 => Needs(orders', Protected') <= Abs(n)
    BY <1>1, <1>5, FillFits
  <2> HIDE DEF n, f
  <2>3. \A s \in Open' : Needs(orders', Protected') <= Abs(positions'[s].qty)
    BY <2>1, <2>2
  <2> QED
    BY <2>3 DEF Fits
<1> QED
  BY <1>1, <1>2, <1>3, <1>4, <1>5 DEF TableMove

\* A pending stop or take faces an open position, and what the groups of exits need
\* together is no more than the position, for every number of orders and every size:
\* _sync_paper_protective_orders shares the position that a fill leaves among the
\* groups in the order of their creation, and no other transaction makes or enlarges
\* an exit.
THEOREM ProtectionFitsTheorem == Spec => []ProtectionFits
<1>1. JournalInv /\ Fits => ProtectionFits
  <2> SUFFICES ASSUME JournalInv, Fits, NEW x \in Pending \cap Children
               PROVE  /\ orders[x].pos \in Open
                      /\ orders[x].side * positions[orders[x].pos].qty < 0
                      /\ Demand({y \in Pending \cap Children : orders[y].pos = orders[x].pos})
                             <= Abs(positions[orders[x].pos].qty)
    BY DEF ProtectionFits
  <2> DEFINE X == {y \in Pending \cap Children : orders[y].pos = orders[x].pos}
  <2>1. \A y \in Pending \cap Children :
            orders[y].pos \in Open /\ orders[y].side * positions[orders[y].pos].qty < 0
    BY DEF JournalInv, TablesInv, Facing
  <2>2. \A y \in Pending \cap Children : orders[y].pos = orders[x].pos
    BY <2>1 DEF JournalInv, TablesInv, OneOpen
  <2>3. X = Protected
    BY <2>2 DEF Protected
  <2>4. Demand(X) = Needs(orders, X)
    BY DEF Demand, Needs, GroupQty, Size
  <2> HIDE DEF X
  <2>5. Demand(X) <= Abs(positions[orders[x].pos].qty)
    BY <2>1, <2>3, <2>4 DEF Fits
  <2> QED
    BY <2>1, <2>5 DEF X
<1>2. Init => Aged /\ Fits
  BY AgedInit, FitsInit
<1>3. JournalInv /\ JournalInv' /\ Aged /\ Fits /\ [Next]_vars => Aged' /\ Fits'
  BY AgedStep, FitsStep
<1> QED
  BY <1>1, <1>2, <1>3, JournalInvariant, PTL DEF Spec

-----------------------------------------------------------------------------
(* The projection *)

\* A step leaves orders and positions, or its commit is not yet marked.
LEMMA CommitsMark ==
    ASSUME [Next]_vars
    PROVE  UNCHANGED <<orders, positions>> \/ (marks' /= {} /\ UNCHANGED runtime)
<1>1. ASSUME NEW t \in Traders, Request(t)
      PROVE  UNCHANGED <<orders, positions>> \/ (marks' /= {} /\ UNCHANGED runtime)
  <2>1. UNCHANGED journal \/ (marks' = marks \cup {t} /\ UNCHANGED runtime)
        \/ UNCHANGED <<orders, positions>>
    BY <1>1 DEF Request, PlanEntry, PlanOpen, PlanFlip, PlanClose, Reserve, ReserveAgain,
                Resubmit, Cancel, ReadForPatch, Answer, Fill, Reject, Patch, Commits
  <2> QED
    BY <2>1 DEF journal
<1>2. ASSUME NEW r \in tick.orders,
             Pass(r) \/ CancelDetached(r) \/ MonitorRejects(r) \/ MonitorFills(r) \/ MonitorFails(r)
      PROVE  UNCHANGED <<orders, positions>> \/ (marks' /= {} /\ UNCHANGED runtime)
  BY <1>2 DEF Pass, CancelDetached, MonitorRejects, MonitorFills, MonitorFails, Commits, journal
<1>3. ASSUME NEW t \in Threads, Mark(t)
      PROVE  UNCHANGED <<orders, positions>>
  BY <1>3 DEF Mark, journal
<1>4. Refresh \/ ReadOrders \/ ReadPositions \/ PublishSnapshot \/ Reuse \/ Crash \/ UNCHANGED vars
          => UNCHANGED <<orders, positions>>
  BY DEF Refresh, ReadOrders, ReadPositions, PublishSnapshot, Reuse, Crash, vars, journal
<1> QED
  BY <1>1, <1>2, <1>3, <1>4 DEF Next, MonitorStep

LEMMA ProjectionStep ==
    ASSUME JournalInv, ProjectionInv, [Next]_vars
    PROVE  ProjectionInv'
<1> DEFINE Shown == snapshot'.orders = PendingRows' /\ snapshot'.open = Open'
           Read == /\ tick'.step \in {"positions", "publish"} => tick'.orders = PendingRows'
                   /\ tick'.step = "publish" => tick'.open = Open'
           Goal == marks' = {} => (~stale' => Shown) /\ (~moved' => Read)
<1>0. /\ snapshot \in [orders : SUBSET OrderRows, open : SUBSET Positions]
      /\ tick \in [step : {"idle", "orders", "positions", "publish", "run"},
                   orders : SUBSET OrderRows, open : SUBSET Positions]
  BY DEF JournalInv, CopiesHold
<1>1. ASSUME UNCHANGED <<orders, positions>>
      PROVE  PendingRows' = PendingRows /\ Open' = Open
  BY <1>1 DEF PendingRows, Pending, Open
<1>2. ASSUME UNCHANGED <<orders, positions, marks, runtime, tick>>
      PROVE  Goal
  BY <1>1, <1>2 DEF ProjectionInv, runtime
<1>3. ASSUME ~UNCHANGED <<orders, positions>>
      PROVE  Goal
  BY <1>3, CommitsMark
<1>4. ASSUME NEW t \in Traders, Request(t), UNCHANGED <<orders, positions>>
      PROVE  Goal
  <2>1. marks' = marks \/ marks' = marks \cup {t}
    BY <1>4 DEF Request, PlanEntry, PlanOpen, PlanFlip, PlanClose, Reserve, ReserveAgain,
                Resubmit, Cancel, ReadForPatch, Answer, Fill, Reject, Patch, Commits
  <2>2. UNCHANGED <<runtime, tick>>
    BY <1>4 DEF Request, PlanEntry, PlanOpen, PlanFlip, PlanClose, Reserve, ReserveAgain,
                Resubmit, Cancel, ReadForPatch, Answer, Fill, Reject, Patch, runtime
  <2> QED
    BY <1>2, <1>4, <2>1, <2>2
<1>5. ASSUME NEW t \in Threads, Mark(t)
      PROVE  Goal
  BY <1>5 DEF Mark
<1>6. ASSUME Refresh
      PROVE  Goal
  <2>1. stale /\ stale' /\ tick'.step = "orders"
    BY <1>6 DEF Refresh, Idle
  <2> QED
    BY <2>1
<1>7. ASSUME ReadOrders
      PROVE  Goal
  <2>1. UNCHANGED <<orders, positions, marks, stale, moved, snapshot>>
    BY <1>7 DEF ReadOrders, journal, runtime
  <2>2. tick'.orders = PendingRows /\ tick'.step = "positions"
    BY <1>0, <1>7 DEF ReadOrders, PendingRows
  <2> QED
    BY <1>1, <2>1, <2>2 DEF ProjectionInv
<1>8. ASSUME ReadPositions
      PROVE  Goal
  <2>1. UNCHANGED <<orders, positions, marks, stale, moved, snapshot>> /\ tick.step = "positions"
    BY <1>8 DEF ReadPositions, journal, runtime
  <2>2. tick'.orders = tick.orders /\ tick'.open = Open
    BY <1>0, <1>8 DEF ReadPositions
  <2> QED
    BY <1>1, <2>1, <2>2 DEF ProjectionInv
<1>9. ASSUME PublishSnapshot
      PROVE  Goal
  <2>1. UNCHANGED <<orders, positions, marks>> /\ tick.step = "publish"
    BY <1>9 DEF PublishSnapshot, journal
  <2>2. CASE moved
    <3>1. UNCHANGED <<stale, snapshot>> /\ tick'.step = "orders"
      BY <1>9, <2>2 DEF PublishSnapshot, Idle
    <3> QED
      BY <1>1, <2>1, <3>1 DEF ProjectionInv
  <2>3. CASE ~moved
    <3>1. snapshot'.orders = tick.orders /\ snapshot'.open = tick.open /\ tick'.step = "run"
      BY <1>0, <1>9, <2>3 DEF PublishSnapshot
    <3> QED
      BY <1>1, <2>1, <2>3, <3>1 DEF ProjectionInv
  <2> QED
    BY <2>2, <2>3
<1>10. ASSUME Reuse
       PROVE  Goal
  <2>1. UNCHANGED <<orders, positions, marks, stale, moved, snapshot>> /\ tick'.step = "run"
    BY <1>10 DEF Reuse, journal, runtime
  <2> QED
    BY <1>1, <2>1 DEF ProjectionInv
<1>11. ASSUME Crash
       PROVE  Goal
  BY <1>11 DEF Crash, Idle
<1>12. ASSUME NEW r \in tick.orders, UNCHANGED <<orders, positions>>,
              Pass(r) \/ CancelDetached(r) \/ MonitorRejects(r) \/ MonitorFills(r)
                \/ MonitorFails(r)
       PROVE  Goal
  <2>1. UNCHANGED runtime /\ (marks' = marks \/ marks' /= {})
    BY <1>12 DEF Pass, CancelDetached, MonitorRejects, MonitorFills, MonitorFails, Commits
  <2>2. tick.step = "run" /\ (tick' = Idle \/ \E R : tick' = Rest(R))
    BY <1>12 DEF Pass, CancelDetached, MonitorRejects, MonitorFills, MonitorFails, Left, Turn
  <2>3. tick'.step \in {"idle", "run"}
    BY <1>0, <2>2 DEF Rest, Idle
  <2> QED
    BY <1>1, <1>12, <2>1, <2>3 DEF ProjectionInv, runtime
<1>13. UNCHANGED vars => Goal
  BY <1>2 DEF vars, journal
<1>14. Goal
  BY <1>3, <1>4, <1>5, <1>6, <1>7, <1>8, <1>9, <1>10, <1>11, <1>12, <1>13 DEF Next, MonitorStep
<1> QED
  BY <1>14 DEF ProjectionInv

LEMMA ProjectionInit == Init => ProjectionInv
  BY DEF Init, ProjectionInv, Idle

\* When every commit has been marked, a loaded projection shows the tables: a commit
\* that overtakes the reads of _refresh_snapshot_owned is marked later, and then the
\* generation has moved.
THEOREM ProjectionIsCurrentTheorem == Spec => []ProjectionIsCurrent
<1>1. JournalInv /\ ProjectionInv => ProjectionIsCurrent
  <2> SUFFICES ASSUME JournalInv, ProjectionInv, ~stale, marks = {}
               PROVE  snapshot = [orders |-> {orders[o] : o \in Pending}, open |-> Open]
    BY DEF ProjectionIsCurrent
  <2>1. snapshot = [orders |-> snapshot.orders, open |-> snapshot.open]
    BY DEF JournalInv, CopiesHold
  <2> QED
    BY <2>1 DEF ProjectionInv, PendingRows
<1>2. JournalInv /\ ProjectionInv /\ [Next]_vars => ProjectionInv'
  BY ProjectionStep
<1> QED
  BY JournalInvariant, ProjectionInit, <1>1, <1>2, PTL DEF Spec
=============================================================================
