----------------------- MODULE ChartCommitLaneProofs -----------------------
(* Theorems about ChartCommitLane.  They are about the order in which the   *)
(* lane reserves sequences, the rows carry them and generations move on:    *)
(* what a sequence stands for is the same everywhere it is kept.            *)
EXTENDS ChartCommitLane, TLAPS

Rows == [Slots -> [bar : Revisions \cup {None}, seq : Nat]]
Items == Seq([request : Requests, gen : Nat, seq : Nat])

(* The types the proofs need; TypeOK also bounds what is counted.           *)
LaneTyped ==
  /\ pending \in Bars /\ work \in Bars
  /\ seqs \in [Slots -> Nat] /\ wseq \in Nat
  /\ sequence \in Nat /\ generation \in Nat
  /\ stored \in Rows
  /\ history \in Items
  /\ step \in Steps

(* Nothing carries a sequence that has not been handed out.                 *)
SequencesBounded ==
  /\ \A s \in Slots : seqs[s] <= sequence /\ stored[s].seq <= sequence
  /\ \A i \in DOMAIN history : history[i].seq <= sequence
  /\ wseq <= sequence
  /\ step = "store" => wseq # 0

(* A waiting bar and a row of its slot that carry one sequence are the same *)
(* bar; no waiting bar carries the sequence of the batch being stored.      *)
LiveApart ==
  \A s \in Filled(pending) :
    /\ seqs[s] # 0 /\ stored[s].bar # None /\ stored[s].seq = seqs[s]
         => stored[s].bar = pending[s]
    /\ step = "store" => seqs[s] # wseq

(* The same of the batch being stored.                                      *)
StoreMatches ==
  step = "store" =>
    \A s \in Filled(work) :
      stored[s].bar # None /\ stored[s].seq = wseq => stored[s].bar = work[s]

(* A sequence reserved for a history commit is not used for live bars.      *)
HistoryApart ==
  \A i \in DOMAIN history : history[i].seq # 0 =>
    /\ \A s \in Slots : history[i].seq # seqs[s]
    /\ step = "store" => history[i].seq # wseq

(* As long as the generation it was requested under lasts, a history commit *)
(* with a sequence is newer than every row.                                 *)
HistoryFresh ==
  /\ \A i \in DOMAIN history :
       /\ history[i].gen <= generation
       /\ history[i].seq # 0 /\ history[i].gen = generation =>
            \A s \in Slots : stored[s].bar # None => stored[s].seq < history[i].seq
  /\ step \in {"hreserve", "hstore"} => history # <<>>
  /\ step = "hstore" => Front.seq # 0

LaneInv ==
  /\ LaneTyped /\ SequencesBounded
  /\ LiveApart /\ StoreMatches /\ HistoryApart /\ HistoryFresh

-----------------------------------------------------------------------------
(* Bars, rows and requests.                                                 *)

LEMMA NoneIsNoRevision == None \notin Revisions
BY LaneAssumption

LEMMA OnlyBars ==
  ASSUME NEW bars \in Bars, NEW S \in SUBSET Slots
  PROVE  /\ Only(bars, S) \in Bars
         /\ \A s \in Slots : Only(bars, S)[s] = IF s \in S THEN bars[s] ELSE None
BY DEF Only, Bars

LEMMA RequestParts ==
  ASSUME NEW r \in Requests
  PROVE  r.bars \in Bars /\ r.covered \subseteq Slots
<1>1. ASSUME NEW b \in Bars, NEW c \in Ranges, r = [bars |-> Only(b, c), covered |-> c]
      PROVE  r.bars \in Bars /\ r.covered \subseteq Slots
  <2>1. c \in SUBSET Slots
    BY DEF Ranges
  <2> QED
    BY <1>1, <2>1, OnlyBars
<1>2. ASSUME NEW b \in Bars, r = [bars |-> b, covered |-> {}]
      PROVE  r.bars \in Bars /\ r.covered \subseteq Slots
  BY <1>2
<1> QED
  BY <1>1, <1>2 DEF Requests

(* What an upsert does to each row.                                         *)
LEMMA UpsertRows ==
  ASSUME NEW rows \in Rows, NEW bars \in Bars, NEW q \in Nat
  PROVE  /\ Upsert(rows, bars, q) \in Rows
         /\ \A s \in Slots :
              IF bars[s] # None /\ (rows[s].bar = None
                                    \/ (q > rows[s].seq /\ rows[s].bar # bars[s]))
              THEN Upsert(rows, bars, q)[s].bar = bars[s] /\ Upsert(rows, bars, q)[s].seq = q
              ELSE Upsert(rows, bars, q)[s] = rows[s]
<1> DEFINE row(s) == [bar |-> bars[s], seq |-> q]
<1>1. \A s \in Slots : bars[s] \in Revisions \cup {None}
  BY DEF Bars
<1>2. ASSUME NEW s \in Slots
      PROVE  /\ row(s) \in [bar : Revisions \cup {None}, seq : Nat]
             /\ row(s).bar = bars[s] /\ row(s).seq = q
  BY <1>1
<1>3. \A s \in Slots : rows[s] \in [bar : Revisions \cup {None}, seq : Nat]
  BY DEF Rows
<1>4. \A s \in Slots : Upsert(rows, bars, q)[s] =
        IF bars[s] # None /\ (rows[s].bar = None
                              \/ (q > rows[s].seq /\ rows[s].bar # bars[s]))
        THEN row(s) ELSE rows[s]
  BY DEF Upsert
<1>5. Upsert(rows, bars, q) \in Rows
  <2>1. Upsert(rows, bars, q) = [s \in Slots |->
          IF bars[s] # None /\ (rows[s].bar = None
                                \/ (q > rows[s].seq /\ rows[s].bar # bars[s]))
          THEN row(s) ELSE rows[s]]
    BY DEF Upsert
  <2> QED
    BY <2>1, <1>2, <1>3 DEF Rows
<1> HIDE DEF row
<1> QED
  BY <1>2, <1>4, <1>5

LEMMA ReconcileRows ==
  ASSUME NEW rows \in Rows, NEW bars \in Bars, NEW covered \in SUBSET Slots, NEW q \in Nat
  PROVE  /\ Reconcile(rows, covered, bars, q) \in Rows
         /\ \A s \in Slots :
              Reconcile(rows, covered, bars, q)[s] =
                IF s \in covered /\ bars[s] = None /\ rows[s].seq <= q
                THEN NoRow ELSE rows[s]
<1>1. NoRow \in [bar : Revisions \cup {None}, seq : Nat]
  BY DEF NoRow
<1>2. \A s \in Slots : rows[s] \in [bar : Revisions \cup {None}, seq : Nat]
  BY DEF Rows
<1> QED
  BY <1>1, <1>2 DEF Reconcile, Rows

-----------------------------------------------------------------------------
(* The history queue.                                                       *)

LEMMA QueuedItem ==
  ASSUME NEW h \in Items, NEW i \in DOMAIN h
  PROVE  /\ h[i] \in [request : Requests, gen : Nat, seq : Nat]
         /\ h[i].gen \in Nat /\ h[i].seq \in Nat
<1> DEFINE Item1 == [request : Requests, gen : Nat, seq : Nat]
<1>1. h \in Seq(Item1)
  BY DEF Items
<1> HIDE DEF Item1
<1>2. h[i] \in Item1
  BY <1>1
<1> QED
  BY <1>2 DEF Item1

LEMMA AppendedItem ==
  ASSUME NEW h \in Items, NEW x \in [request : Requests, gen : Nat, seq : Nat]
  PROVE  /\ Append(h, x) \in Items /\ Append(h, x) # <<>>
         /\ \A i \in DOMAIN Append(h, x) :
              Append(h, x)[i] = x \/ (i \in DOMAIN h /\ Append(h, x)[i] = h[i])
         /\ h # <<>> => Head(Append(h, x)) = Head(h)
<1> DEFINE Item1 == [request : Requests, gen : Nat, seq : Nat]
<1> HIDE DEF Item1
<1>1. h \in Seq(Item1) /\ x \in Item1
  BY DEF Items, Item1
<1>2. /\ Append(h, x) \in Seq(Item1) /\ Len(Append(h, x)) = Len(h) + 1
      /\ \A i \in DOMAIN Append(h, x) :
           Append(h, x)[i] = x \/ (i \in DOMAIN h /\ Append(h, x)[i] = h[i])
  BY <1>1
<1>3. Append(h, x) # <<>>
  BY <1>1, <1>2
<1>4. ASSUME h # <<>> PROVE Head(Append(h, x)) = Head(h)
  <2>1. Len(h) > 0 /\ Head(h) = h[1]
    BY <1>1, <1>4
  <2>2. Append(h, x)[1] = h[1]
    BY <1>1, <2>1
  <2>3. Head(Append(h, x)) = Append(h, x)[1]
    BY <1>2, <1>3
  <2> QED
    BY <2>1, <2>2, <2>3
<1>5. Append(h, x) \in Items
  BY <1>2 DEF Items, Item1
<1> QED
  BY <1>2, <1>3, <1>4, <1>5

LEMMA SettledItem ==
  ASSUME NEW h \in Items, h # <<>>
  PROVE  /\ h[1] \in [request : Requests, gen : Nat, seq : Nat]
         /\ 1 \in DOMAIN h /\ Head(h) = h[1]
         /\ Tail(h) \in Items
         /\ \A i \in DOMAIN Tail(h) : i + 1 \in DOMAIN h /\ Tail(h)[i] = h[i + 1]
<1> DEFINE Item1 == [request : Requests, gen : Nat, seq : Nat]
<1> HIDE DEF Item1
<1>1. h \in Seq(Item1)
  BY DEF Items, Item1
<1>2. Len(h) > 0 /\ 1 \in DOMAIN h /\ Head(h) = h[1] /\ h[1] \in Item1
  BY <1>1
<1>3. Tail(h) \in Seq(Item1) /\ Len(Tail(h)) = Len(h) - 1
  BY <1>1, <1>2
<1>4. \A i \in DOMAIN Tail(h) : i + 1 \in DOMAIN h /\ Tail(h)[i] = h[i + 1]
  BY <1>1, <1>2, <1>3
<1> QED
  BY <1>2, <1>3, <1>4 DEF Items, Item1

LEMMA NumberedItem ==
  ASSUME NEW h \in Items, h # <<>>, NEW q \in Nat
  PROVE  \A n : n = [h EXCEPT ![1].seq = q] =>
         /\ n \in Items /\ n # <<>> /\ DOMAIN n = DOMAIN h
         /\ n[1] = [h[1] EXCEPT !.seq = q] /\ Head(n) = n[1]
         /\ \A i \in DOMAIN h : i # 1 => n[i] = h[i]
<1> SUFFICES ASSUME NEW n, n = [h EXCEPT ![1].seq = q]
             PROVE  /\ n \in Items /\ n # <<>> /\ DOMAIN n = DOMAIN h
                    /\ n[1] = [h[1] EXCEPT !.seq = q] /\ Head(n) = n[1]
                    /\ \A i \in DOMAIN h : i # 1 => n[i] = h[i]
  OBVIOUS
<1> DEFINE Item1 == [request : Requests, gen : Nat, seq : Nat]
           e == [h[1] EXCEPT !.seq = q]
<1>1. h[1] \in Item1 /\ 1 \in DOMAIN h
  BY SettledItem
<1>2. e \in Item1
  BY <1>1
<1>3. n = [h EXCEPT ![1] = e]
  OBVIOUS
<1>4. h \in Seq(Item1)
  BY DEF Items
<1> HIDE DEF Item1, e
<1>5. n \in Seq(Item1) /\ DOMAIN n = DOMAIN h /\ n[1] = e
      /\ \A i \in DOMAIN h : i # 1 => n[i] = h[i]
  BY <1>1, <1>2, <1>3, <1>4
<1>6. n # <<>> /\ Head(n) = n[1]
  BY <1>5, <1>1, <1>4
<1>7. n \in Items
  BY <1>5 DEF Items, Item1
<1> QED
  BY <1>5, <1>6, <1>7 DEF e

-----------------------------------------------------------------------------
(* The moves.  Every step leaves alone what the invariant is about, or is   *)
(* one of five moves: a bar or a commit is admitted, a batch is popped, a   *)
(* sequence is reserved for history, and an attempt of either kind ends.    *)

QuietMove ==
  /\ UNCHANGED <<pending, seqs, wseq, sequence, stored, history, generation>>
  /\ work' \in Bars /\ step' \in Steps
  /\ step = "store" \/ step' = "store" => step' = step /\ work' = work
  /\ step' \in {"hreserve", "hstore"} => history # <<>>
  /\ step' = "hstore" => Front.seq # 0

(* A batch is popped under q: each waiting bar is taken to carry sqs[s].    *)
PopMove(q, sqs) ==
  /\ PopBatch(q, sqs)
  /\ UNCHANGED <<stored, history, generation>>
  /\ sqs \in [Slots -> Nat] /\ q \in Nat \ {0}
  /\ sequence' \in Nat /\ sequence <= sequence' /\ q <= sequence'
  /\ \A s \in Slots : sqs[s] <= sequence'
  /\ \A s \in Filled(pending) :
       sqs[s] # 0 /\ stored[s].bar # None /\ stored[s].seq = sqs[s]
         => stored[s].bar = pending[s]
  /\ \A i \in DOMAIN history : history[i].seq # 0 =>
       /\ history[i].seq # q
       /\ \A s \in Slots : history[i].seq # sqs[s]

(* A live attempt ends: some rows now hold the batch, some bars wait again. *)
LiveMove ==
  /\ step = "store" /\ step' \in {"none", "loop", "backoff"}
  /\ UNCHANGED <<work, wseq, sequence, history>>
  /\ generation' \in Nat /\ generation <= generation'
  /\ stored' # stored => generation < generation'
  /\ pending' \in Bars /\ seqs' \in [Slots -> Nat] /\ stored' \in Rows
  /\ \A s \in Slots :
       /\ \/ stored'[s] = stored[s]
          \/ work[s] # None /\ stored'[s].bar = work[s] /\ stored'[s].seq = wseq
       /\ \/ pending'[s] = pending[s] /\ seqs'[s] = seqs[s]
          \/ work[s] # None /\ pending'[s] = work[s] /\ seqs'[s] = wseq

(* The front history commit is settled: some rows now carry its sequence,   *)
(* or are gone.                                                             *)
HistoryMove ==
  /\ history # <<>> /\ history' = Tail(history)
  /\ step # "store" /\ step' = "loop"
  /\ UNCHANGED <<pending, seqs, work, wseq, sequence>>
  /\ generation' \in Nat /\ generation <= generation'
  /\ stored' # stored => generation < generation'
  /\ stored' \in Rows
  /\ stored' # stored => Front.seq # 0
  /\ \A s \in Slots :
       stored'[s] = stored[s] \/ stored'[s] = NoRow \/ stored'[s].seq = Front.seq

LEMMA QuietSteps ==
  ASSUME LaneInv,
         EndTask \/ Wake \/ TakeHistory \/ LiveUnavailable \/ HistoryUnavailable
         \/ Shutdown \/ DeadlinePasses \/ Start \/ UNCHANGED vars
  PROVE  QuietMove
<1> USE DEF LaneInv, LaneTyped, HistoryFresh, QuietMove, queues, runtime, counts, storage, Steps
<1>1. CASE EndTask
  BY <1>1 DEF EndTask
<1>2. CASE Wake
  BY <1>2 DEF Wake
<1>3. CASE TakeHistory
  BY <1>3 DEF TakeHistory, HistoryTurn, HistoryFirst
<1>4. CASE LiveUnavailable
  BY <1>4 DEF LiveUnavailable, LiveTurn, Retry
<1>5. CASE HistoryUnavailable
  BY <1>5 DEF HistoryUnavailable, HistoryTurn, Retry
<1>6. CASE Shutdown \/ DeadlinePasses \/ UNCHANGED vars
  BY <1>6 DEF Shutdown, DeadlinePasses, vars
<1>7. CASE Start
  BY <1>7 DEF Start
<1> QED
  BY <1>1, <1>2, <1>3, <1>4, <1>5, <1>6, <1>7

LEMMA TakeLiveMoves ==
  ASSUME LaneInv, TakeLive
  PROVE  QuietMove \/ \E q, sqs : PopMove(q, sqs) /\ step # "store"
<1> USE DEF LaneInv, LaneTyped
<1>0. step = "loop" /\ UNCHANGED <<history, stored, generation, sequence>>
  BY DEF TakeLive, LiveTurn, storage
<1>1. CASE Assigned = {} /\ step' = "reserve" /\ work' = pending /\ UNCHANGED <<pending, seqs, wseq>>
  BY <1>0, <1>1 DEF QuietMove, Steps
<1>2. ASSUME NEW q \in Assigned, PopBatch(q, seqs)
      PROVE  PopMove(q, seqs)
  <2>1. PICK t \in Filled(pending) : q = seqs[t]
    BY DEF Assigned
  <2>2. t \in Slots /\ q # 0 /\ q \in Nat /\ q <= sequence
    BY <2>1 DEF Assigned, Filled, SequencesBounded
  <2>3. \A i \in DOMAIN history : history[i].seq # 0 =>
          history[i].seq # q /\ \A s \in Slots : history[i].seq # seqs[s]
    BY <2>1, <2>2 DEF HistoryApart
  <2>4. \A s \in Filled(pending) :
          seqs[s] # 0 /\ stored[s].bar # None /\ stored[s].seq = seqs[s]
            => stored[s].bar = pending[s]
    BY DEF LiveApart
  <2>5. \A s \in Slots : seqs[s] <= sequence'
    BY <1>0 DEF SequencesBounded
  <2> QED
    BY <1>0, <1>2, <2>2, <2>3, <2>4, <2>5 DEF PopMove
<1> QED
  BY <1>0, <1>1, <1>2 DEF TakeLive

LEMMA ReserveLiveMoves ==
  ASSUME LaneInv, ReserveLive
  PROVE  \E q, sqs : PopMove(q, sqs) /\ step # "store"
<1> DEFINE q == sequence + 1
           sqs == [s \in Slots |-> IF work[s] # None THEN q ELSE seqs[s]]
<1> USE DEF LaneInv, LaneTyped
<1>1. /\ step = "reserve" /\ sequence' = q /\ PopBatch(q, sqs)
      /\ UNCHANGED <<history, stored, generation>>
  BY DEF ReserveLive
<1>2. q \in Nat /\ q > sequence
  OBVIOUS
<1>3. \A s \in Slots : stored[s].seq \in Nat /\ stored[s].seq <= sequence
  BY DEF Rows, SequencesBounded
<1>4. \A i \in DOMAIN history : history[i].seq \in Nat /\ history[i].seq <= sequence
  BY QueuedItem DEF SequencesBounded
<1> HIDE DEF q
<1>5. \A s \in Slots : sqs[s] = IF work[s] # None THEN q ELSE seqs[s]
  OBVIOUS
<1>6. sqs \in [Slots -> Nat]
  BY <1>2
<1> HIDE DEF sqs
<1>7. \A s \in Slots : sqs[s] <= q
  BY <1>2, <1>5 DEF SequencesBounded
<1>8. \A i \in DOMAIN history : history[i].seq # 0 =>
        history[i].seq # q /\ \A s \in Slots : history[i].seq # sqs[s]
  BY <1>2, <1>4, <1>5 DEF HistoryApart
<1>9. \A s \in Filled(pending) :
        sqs[s] # 0 /\ stored[s].bar # None /\ stored[s].seq = sqs[s]
          => stored[s].bar = pending[s]
  BY <1>2, <1>3, <1>5 DEF LiveApart, Filled
<1> QED
  BY <1>1, <1>2, <1>6, <1>7, <1>8, <1>9 DEF PopMove

(* Requeuing leaves the bars of newer submissions alone.                    *)
LEMMA RequeueMoves ==
  ASSUME LaneTyped, NEW bars \in Bars, Requeue(bars)
  PROVE  /\ pending' \in Bars /\ seqs' \in [Slots -> Nat]
         /\ \A s \in Slots :
              \/ /\ bars[s] = None \/ pending[s] # None
                 /\ pending'[s] = pending[s] /\ seqs'[s] = seqs[s]
              \/ /\ bars[s] # None /\ pending[s] = None
                 /\ pending'[s] = bars[s] /\ seqs'[s] = wseq
BY DEF LaneTyped, Requeue, Filled, Bars

LEMMA LiveRefusedMoves ==
  ASSUME LaneInv, LiveRefused
  PROVE  LiveMove
BY RequeueMoves DEF LaneInv, LaneTyped, LiveRefused, Retry, LiveMove, storage

LEMMA LiveUncertainMoves ==
  ASSUME LaneInv, LiveUncertain
  PROVE  LiveMove
<1> USE DEF LaneInv, LaneTyped
<1>1. /\ step = "store" /\ UNCHANGED <<work, wseq, sequence, history>>
      /\ generation' = generation + 1
      /\ stored' = stored \/ stored' = Upsert(stored, work, wseq)
      /\ Requeue(work) /\ step' \in {"none", "backoff"}
  BY DEF LiveUncertain, Retry
<1>2. stored' \in Rows /\ \A s \in Slots :
        \/ stored'[s] = stored[s]
        \/ work[s] # None /\ stored'[s].bar = work[s] /\ stored'[s].seq = wseq
  <2> DEFINE up == Upsert(stored, work, wseq)
  <2>1. up \in Rows /\ \A s \in Slots :
          \/ up[s] = stored[s]
          \/ work[s] # None /\ up[s].bar = work[s] /\ up[s].seq = wseq
    BY UpsertRows
  <2> HIDE DEF up
  <2>2. stored' = stored \/ stored' = up
    BY <1>1 DEF up
  <2> QED
    BY <2>1, <2>2
<1> QED
  BY <1>1, <1>2, RequeueMoves DEF LiveMove

LEMMA LiveCommitsMoves ==
  ASSUME LaneInv, NEW done \in SUBSET Filled(work), LiveCommits(done)
  PROVE  LiveMove
<1> USE DEF LaneInv, LaneTyped
<1>1. /\ step = "store" /\ UNCHANGED <<work, wseq, sequence, history>>
      /\ generation' = IF stored' # stored THEN generation + 1 ELSE generation
      /\ stored' = Upsert(stored, Only(work, done), wseq)
      /\ Requeue(Only(work, Slots \ done))
      /\ step' \in {"loop", "none", "backoff"}
  BY DEF LiveCommits, Retry
<1>2. done \in SUBSET Slots /\ Slots \ done \in SUBSET Slots
  BY DEF Filled
<1> DEFINE bars == Only(work, done)
           back == Only(work, Slots \ done)
<1>3. /\ bars \in Bars /\ back \in Bars
      /\ \A s \in Slots : bars[s] # None => bars[s] = work[s]
      /\ \A s \in Slots : back[s] # None => back[s] = work[s]
  BY <1>2, OnlyBars
<1> HIDE DEF bars, back
<1>4. stored' \in Rows /\ \A s \in Slots :
        \/ stored'[s] = stored[s]
        \/ work[s] # None /\ stored'[s].bar = work[s] /\ stored'[s].seq = wseq
  <2> DEFINE up == Upsert(stored, bars, wseq)
  <2>1. up \in Rows /\ \A s \in Slots :
          \/ up[s] = stored[s]
          \/ bars[s] # None /\ up[s].bar = bars[s] /\ up[s].seq = wseq
    BY <1>3, UpsertRows
  <2> HIDE DEF up
  <2>2. stored' = up
    BY <1>1 DEF up, bars
  <2> QED
    BY <2>1, <2>2, <1>3
<1>5. /\ pending' \in Bars /\ seqs' \in [Slots -> Nat]
      /\ \A s \in Slots :
           \/ pending'[s] = pending[s] /\ seqs'[s] = seqs[s]
           \/ work[s] # None /\ pending'[s] = work[s] /\ seqs'[s] = wseq
  <2>1. Requeue(back)
    BY <1>1 DEF back
  <2> QED
    BY <2>1, <1>3, RequeueMoves
<1> QED
  BY <1>1, <1>4, <1>5 DEF LiveMove

LEMMA HistorySettlesEarlyMoves ==
  ASSUME LaneInv, HistorySettlesEarly
  PROVE  HistoryMove
BY DEF LaneInv, LaneTyped, HistoryFresh, HistorySettlesEarly, HistoryTurn, HistoryFirst,
       Settle, storage, HistoryMove

(* The rows a history commit may leave behind.                              *)
LEMMA HistoryStoresRows ==
  ASSUME LaneInv, HistoryStores
  PROVE  /\ stored' \in Rows
         /\ \A s \in Slots :
              stored'[s] = stored[s] \/ stored'[s] = NoRow \/ stored'[s].seq = Front.seq
<1> USE DEF LaneInv, LaneTyped
<1>1. history # <<>> /\ step = "hstore" /\ stored' = HistoryRows
  BY DEF HistoryStores, HistoryFresh
<1>2. Front = history[1] /\ 1 \in DOMAIN history
  BY <1>1, SettledItem DEF Front
<1>3. Front.request \in Requests /\ Front.seq \in Nat
  BY <1>2, QueuedItem
<1>4. Front.request.bars \in Bars /\ Front.request.covered \in SUBSET Slots
  BY <1>3, RequestParts
<1> DEFINE bars == Front.request.bars
           q == Front.seq
           mid == Upsert(stored, bars, q)
<1>5. bars \in Bars /\ q \in Nat /\ stored \in Rows
  BY <1>3, <1>4
<1>6. stored' = Reconcile(mid, Front.request.covered, bars, q)
  BY <1>1 DEF HistoryRows
<1> HIDE DEF bars, q, mid
<1>7. mid \in Rows /\ \A s \in Slots : mid[s] = stored[s] \/ mid[s].seq = q
  BY <1>5, UpsertRows DEF mid
<1>8. stored' \in Rows /\ \A s \in Slots : stored'[s] = mid[s] \/ stored'[s] = NoRow
  BY <1>4, <1>5, <1>6, <1>7, ReconcileRows
<1> QED
  BY <1>7, <1>8 DEF q

LEMMA HistoryCommitsMoves ==
  ASSUME LaneInv, HistoryCommits \/ HistoryUncertain
  PROVE  HistoryMove
<1> USE DEF LaneInv, LaneTyped
<1>1. /\ step = "hstore" /\ Settle /\ UNCHANGED <<pending, seqs, work, wseq, sequence>>
      /\ HistoryStores \/ stored' = stored
      /\ generation' = generation \/ generation' = generation + 1
      /\ stored' # stored => generation' = generation + 1
  BY DEF HistoryCommits, HistoryUncertain, HistoryStores
<1>2. history # <<>> /\ Front.seq # 0
  BY <1>1 DEF HistoryFresh
<1>3. stored' \in Rows /\ \A s \in Slots :
        stored'[s] = stored[s] \/ stored'[s] = NoRow \/ stored'[s].seq = Front.seq
  BY <1>1, HistoryStoresRows
<1> QED
  BY <1>1, <1>2, <1>3 DEF Settle, HistoryMove

-----------------------------------------------------------------------------
(* Every step is a move.                                                    *)

SubmitMove == \E s \in Slots, b \in Revisions : Submit(s, b)
SubmitHistoryMove == \E r \in Requests, g \in 0 .. generation : SubmitHistory(r, g)

LEMMA StepsAreMoves ==
  ASSUME LaneInv, [Next]_vars
  PROVE  \/ QuietMove \/ SubmitMove \/ SubmitHistoryMove
         \/ \E q, sqs : PopMove(q, sqs) /\ step # "store"
         \/ ReserveHistory \/ LiveMove \/ HistoryMove
BY QuietSteps, TakeLiveMoves, ReserveLiveMoves, LiveRefusedMoves, LiveUncertainMoves,
   LiveCommitsMoves, HistorySettlesEarlyMoves, HistoryCommitsMoves
   DEF Next, LaneStep, SubmitMove, SubmitHistoryMove

-----------------------------------------------------------------------------
(* What the moves do to each slot and to the queue.                         *)

LEMMA PopFacts ==
  ASSUME LaneInv, NEW q, NEW sqs, PopMove(q, sqs)
  PROVE  /\ pending' \in Bars /\ work' \in Bars /\ seqs' \in [Slots -> Nat]
         /\ wseq' = q /\ step' \in {"loop", "store"}
         /\ \A s \in Slots :
              \/ /\ pending[s] # None /\ sqs[s] = q
                 /\ pending'[s] = None /\ work'[s] = pending[s] /\ seqs'[s] = 0
                 /\ step' = "store"
              \/ /\ pending[s] = None \/ sqs[s] # q
                 /\ pending'[s] = pending[s] /\ work'[s] = None /\ seqs'[s] = sqs[s]
<1> DEFINE slots == {s \in Filled(pending) : sqs[s] = q}
<1>1. pending \in Bars /\ sqs \in [Slots -> Nat]
  BY DEF LaneInv, LaneTyped, PopMove
<1>2. /\ work' = Only(pending, slots) /\ pending' = Only(pending, Slots \ slots)
      /\ wseq' = q /\ step' = IF slots = {} THEN "loop" ELSE "store"
      /\ seqs' = [s \in Slots |-> IF s \in slots THEN 0 ELSE sqs[s]]
  BY DEF PopMove, PopBatch
<1>3. /\ slots \in SUBSET Slots /\ Slots \ slots \in SUBSET Slots
      /\ \A s \in Slots : s \in slots <=> pending[s] # None /\ sqs[s] = q
  BY DEF Filled
<1> HIDE DEF slots
<1>4. pending' \in Bars /\ work' \in Bars
      /\ \A s \in Slots : /\ work'[s] = IF s \in slots THEN pending[s] ELSE None
                          /\ pending'[s] = IF s \in Slots \ slots THEN pending[s] ELSE None
  BY <1>1, <1>2, <1>3, OnlyBars
<1>5. seqs' \in [Slots -> Nat] /\ \A s \in Slots : seqs'[s] = IF s \in slots THEN 0 ELSE sqs[s]
  BY <1>1, <1>2
<1> QED
  BY <1>2, <1>3, <1>4, <1>5

LEMMA SubmitFacts ==
  ASSUME LaneInv, SubmitMove
  PROVE  /\ UNCHANGED <<wseq, sequence, stored, history, generation>>
         /\ pending' \in Bars /\ work' \in Bars /\ seqs' \in [Slots -> Nat]
         /\ step' \in Steps /\ step' = IF step = "none" THEN "loop" ELSE step
         /\ step = "store" => work' = work
         /\ \A t \in Slots :
              \/ pending'[t] = pending[t] /\ seqs'[t] = seqs[t]
              \/ pending'[t] # None /\ seqs'[t] = 0
<1> USE NoneIsNoRevision DEF LaneInv, LaneTyped
<1>1. PICK s \in Slots, b \in Revisions : Submit(s, b)
  BY DEF SubmitMove
<1>2. /\ pending' = [pending EXCEPT ![s] = b] /\ seqs' = [seqs EXCEPT ![s] = 0]
      /\ work' = [work EXCEPT ![s] = IF step = "reserve" THEN None ELSE @]
      /\ step' = IF step = "none" THEN "loop" ELSE step
      /\ UNCHANGED <<wseq, sequence, stored, history, generation>>
  BY <1>1 DEF Submit, StartTask, storage
<1>3. pending' \in Bars /\ seqs' \in [Slots -> Nat] /\ work' \in Bars
  BY <1>2 DEF Bars
<1>4. step = "store" => work' = work
  BY <1>2 DEF Bars
<1> QED
  BY <1>2, <1>3, <1>4 DEF Bars, Steps

LEMMA SubmitHistoryFacts ==
  ASSUME LaneInv, SubmitHistoryMove
  PROVE  /\ UNCHANGED <<pending, seqs, work, wseq, sequence, stored, generation>>
         /\ step' \in Steps /\ step' = IF step = "none" THEN "loop" ELSE step
         /\ history' \in Items /\ history' # <<>>
         /\ history # <<>> => Head(history') = Head(history)
         /\ \A i \in DOMAIN history' :
              \/ i \in DOMAIN history /\ history'[i] = history[i]
              \/ history'[i].seq = 0 /\ history'[i].gen <= generation
<1> USE DEF LaneInv, LaneTyped
<1>1. PICK r \in Requests, g \in 0 .. generation : SubmitHistory(r, g)
  BY DEF SubmitHistoryMove
<1> DEFINE x == [request |-> r, gen |-> g, seq |-> 0]
<1>2. x \in [request : Requests, gen : Nat, seq : Nat] /\ x.seq = 0 /\ x.gen <= generation
  OBVIOUS
<1>3. /\ UNCHANGED <<pending, seqs, work, wseq, sequence, stored, generation>>
      /\ step' = IF step = "none" THEN "loop" ELSE step
      /\ history' = Append(history, x)
  BY <1>1 DEF SubmitHistory, StartTask, storage
<1> HIDE DEF x
<1>4. /\ history' \in Items /\ history' # <<>>
      /\ \A i \in DOMAIN history' :
           history'[i] = x \/ (i \in DOMAIN history /\ history'[i] = history[i])
      /\ history # <<>> => Head(history') = Head(history)
  BY <1>2, <1>3, AppendedItem
<1> QED
  BY <1>2, <1>3, <1>4 DEF Steps

LEMMA ReserveHistoryFacts ==
  ASSUME LaneInv, ReserveHistory
  PROVE  /\ UNCHANGED <<pending, seqs, work, wseq, stored, generation>>
         /\ step = "hreserve" /\ step' = "hstore" /\ sequence' = sequence + 1
         /\ history' \in Items /\ history' # <<>> /\ Head(history') = history'[1]
         /\ history'[1].seq = sequence + 1
         /\ \A i \in DOMAIN history' :
              /\ i \in DOMAIN history /\ history'[i].gen = history[i].gen
              /\ i # 1 => history'[i] = history[i]
<1> USE DEF LaneInv, LaneTyped
<1> DEFINE q == sequence + 1
<1>1. /\ UNCHANGED <<pending, seqs, work, wseq, stored, generation>>
      /\ step = "hreserve" /\ step' = "hstore" /\ sequence' = q
      /\ history' = [history EXCEPT ![1].seq = q]
  BY DEF ReserveHistory
<1>2. history # <<>> /\ history \in Items /\ q \in Nat
  BY <1>1 DEF HistoryFresh
<1> HIDE DEF q
<1>3. /\ history' \in Items /\ history' # <<>> /\ DOMAIN history' = DOMAIN history
      /\ history'[1] = [history[1] EXCEPT !.seq = q]
      /\ Head(history') = history'[1]
      /\ \A i \in DOMAIN history : i # 1 => history'[i] = history[i]
  <2>1. \A n : n = [history EXCEPT ![1].seq = q] =>
          /\ n \in Items /\ n # <<>> /\ DOMAIN n = DOMAIN history
          /\ n[1] = [history[1] EXCEPT !.seq = q] /\ Head(n) = n[1]
          /\ \A i \in DOMAIN history : i # 1 => n[i] = history[i]
    BY <1>2, NumberedItem
  <2> QED
    BY <2>1, <1>1
<1>4. history[1] \in [request : Requests, gen : Nat, seq : Nat]
  BY <1>2, SettledItem
<1>5. history'[1].gen = history[1].gen /\ history'[1].seq = q
  BY <1>3, <1>4
<1> QED
  BY <1>1, <1>3, <1>5 DEF q

LEMMA HistoryMoveFacts ==
  ASSUME LaneInv, HistoryMove
  PROVE  /\ 1 \in DOMAIN history /\ Front = history[1]
         /\ history' \in Items
         /\ \A i \in DOMAIN history' : i + 1 \in DOMAIN history /\ history'[i] = history[i + 1]
BY SettledItem DEF LaneInv, LaneTyped, HistoryMove, Front

-----------------------------------------------------------------------------
(* The conjuncts of LaneInv, one at a time.                                 *)

LEMMA LaneTypedStep ==
  ASSUME LaneInv, [Next]_vars
  PROVE  LaneTyped'
<1> USE DEF LaneTyped
<1>1. ASSUME QuietMove PROVE LaneTyped'
  BY <1>1 DEF QuietMove, LaneInv
<1>2. ASSUME SubmitMove PROVE LaneTyped'
  BY <1>2, SubmitFacts DEF LaneInv
<1>3. ASSUME SubmitHistoryMove PROVE LaneTyped'
  BY <1>3, SubmitHistoryFacts DEF LaneInv
<1>4. ASSUME NEW q, NEW sqs, PopMove(q, sqs) PROVE LaneTyped'
  <2>1. /\ pending' \in Bars /\ work' \in Bars /\ seqs' \in [Slots -> Nat]
        /\ wseq' = q /\ step' \in {"loop", "store"}
    BY <1>4, PopFacts
  <2>2. q \in Nat /\ sequence' \in Nat /\ UNCHANGED <<stored, history, generation>>
    BY <1>4 DEF PopMove
  <2> QED
    BY <2>1, <2>2 DEF LaneInv, Steps
<1>5. ASSUME ReserveHistory PROVE LaneTyped'
  BY <1>5, ReserveHistoryFacts DEF LaneInv, Steps
<1>6. ASSUME LiveMove PROVE LaneTyped'
  BY <1>6 DEF LiveMove, LaneInv, Steps
<1>7. ASSUME HistoryMove PROVE LaneTyped'
  BY <1>7, HistoryMoveFacts DEF HistoryMove, LaneInv, Steps
<1> QED
  BY <1>1, <1>2, <1>3, <1>4, <1>5, <1>6, <1>7, StepsAreMoves

(* The sequences that are carried are numbers.                              *)
LEMMA CarriedNumbers ==
  ASSUME LaneInv
  PROVE  /\ sequence \in Nat /\ wseq \in Nat /\ generation \in Nat
         /\ \A s \in Slots : seqs[s] \in Nat /\ stored[s].seq \in Nat
         /\ \A i \in DOMAIN history : history[i].seq \in Nat /\ history[i].gen \in Nat
BY QueuedItem DEF LaneInv, LaneTyped, Rows

LEMMA BoundedStep ==
  ASSUME LaneInv, [Next]_vars
  PROVE  SequencesBounded'
<1> USE CarriedNumbers DEF SequencesBounded
<1>0. SequencesBounded
  BY DEF LaneInv
<1>1. ASSUME QuietMove PROVE SequencesBounded'
  BY <1>0, <1>1 DEF QuietMove
<1>2. ASSUME SubmitMove PROVE SequencesBounded'
  BY <1>0, <1>2, SubmitFacts
<1>3. ASSUME SubmitHistoryMove PROVE SequencesBounded'
  BY <1>0, <1>3, SubmitHistoryFacts
<1>4. ASSUME NEW q, NEW sqs, PopMove(q, sqs) PROVE SequencesBounded'
  <2>1. /\ UNCHANGED <<stored, history>> /\ sqs \in [Slots -> Nat] /\ q \in Nat \ {0}
        /\ sequence' \in Nat /\ sequence <= sequence' /\ q <= sequence'
        /\ \A s \in Slots : sqs[s] <= sequence'
    BY <1>4 DEF PopMove
  <2>2. wseq' = q /\ \A s \in Slots : seqs'[s] \in {0, sqs[s]}
    BY <1>4, PopFacts
  <2> QED
    BY <1>0, <2>1, <2>2
<1>5. ASSUME ReserveHistory PROVE SequencesBounded'
  <2>1. /\ UNCHANGED <<seqs, wseq, stored>> /\ step' = "hstore"
        /\ sequence' = sequence + 1 /\ history'[1].seq = sequence + 1
        /\ \A i \in DOMAIN history' :
             i \in DOMAIN history /\ (i # 1 => history'[i] = history[i])
    BY <1>5, ReserveHistoryFacts
  <2>2. \A i \in DOMAIN history' : history'[i].seq <= sequence'
    BY <1>0, <2>1
  <2> QED
    BY <1>0, <2>1, <2>2
<1>6. ASSUME LiveMove PROVE SequencesBounded'
  BY <1>0, <1>6 DEF LiveMove
<1>7. ASSUME HistoryMove PROVE SequencesBounded'
  <2>1. UNCHANGED <<seqs, wseq, sequence>> /\ step' = "loop"
    BY <1>7 DEF HistoryMove
  <2>2. \A i \in DOMAIN history' : history'[i].seq <= sequence
    BY <1>0, <1>7, HistoryMoveFacts
  <2>3. \A s \in Slots : stored'[s].seq <= sequence
    <3>1. Front.seq <= sequence /\ NoRow.seq <= sequence
      BY <1>0, <1>7, HistoryMoveFacts DEF NoRow
    <3> TAKE s \in Slots
    <3>2. \/ stored'[s] = stored[s]
          \/ stored'[s] = NoRow
          \/ stored'[s].seq = Front.seq
      BY <1>7 DEF HistoryMove
    <3> QED BY <1>0, <3>1, <3>2
  <2> QED
    BY <1>0, <2>1, <2>2, <2>3
<1> QED
  BY <1>1, <1>2, <1>3, <1>4, <1>5, <1>6, <1>7, StepsAreMoves

LEMMA LiveApartStep ==
  ASSUME LaneInv, [Next]_vars
  PROVE  LiveApart'
<1> USE DEF LiveApart, Filled
<1>0. LiveApart
  BY DEF LaneInv
<1>1. ASSUME QuietMove PROVE LiveApart'
  BY <1>0, <1>1 DEF QuietMove
<1>2. ASSUME SubmitMove PROVE LiveApart'
  <2>1. wseq # 0 \/ step # "store"
    BY DEF LaneInv, SequencesBounded
  <2> QED
    BY <1>0, <1>2, <2>1, SubmitFacts
<1>3. ASSUME SubmitHistoryMove PROVE LiveApart'
  BY <1>0, <1>3, SubmitHistoryFacts
<1>4. ASSUME NEW q, NEW sqs, PopMove(q, sqs) PROVE LiveApart'
  <2>1. /\ UNCHANGED stored
        /\ \A s \in Slots : pending[s] # None /\ sqs[s] # 0 /\ stored[s].bar # None
                            /\ stored[s].seq = sqs[s] => stored[s].bar = pending[s]
    BY <1>4 DEF PopMove
  <2> QED
    BY <1>4, <2>1, PopFacts
<1>5. ASSUME ReserveHistory PROVE LiveApart'
  BY <1>0, <1>5, ReserveHistoryFacts
<1>6. ASSUME LiveMove PROVE LiveApart'
  <2>1. \A s \in Slots : work[s] # None /\ stored[s].bar # None /\ stored[s].seq = wseq
                         => stored[s].bar = work[s]
    BY <1>6 DEF LiveMove, LaneInv, StoreMatches
  <2>2. \A s \in Slots : pending[s] # None => seqs[s] # wseq
    BY <1>0, <1>6 DEF LiveMove
  <2> QED
    BY <1>0, <1>6, <2>1, <2>2 DEF LiveMove
<1>7. ASSUME HistoryMove PROVE LiveApart'
  <2>1. /\ UNCHANGED <<pending, seqs>> /\ step' = "loop"
        /\ \A s \in Slots : \/ stored'[s] = stored[s] \/ stored'[s].bar = None
                            \/ stored' # stored /\ stored'[s].seq = history[1].seq
    BY <1>7, HistoryMoveFacts DEF HistoryMove, NoRow
  <2>2. stored' # stored => \A s \in Slots : history[1].seq # seqs[s]
    BY <1>7, HistoryMoveFacts DEF HistoryMove, LaneInv, HistoryApart
  <2> QED
    BY <1>0, <2>1, <2>2
<1> QED
  BY <1>1, <1>2, <1>3, <1>4, <1>5, <1>6, <1>7, StepsAreMoves

LEMMA StoreMatchesStep ==
  ASSUME LaneInv, [Next]_vars
  PROVE  StoreMatches'
<1> USE DEF StoreMatches, Filled
<1>0. StoreMatches
  BY DEF LaneInv
<1>1. ASSUME QuietMove PROVE StoreMatches'
  BY <1>0, <1>1 DEF QuietMove
<1>2. ASSUME SubmitMove PROVE StoreMatches'
  BY <1>0, <1>2, SubmitFacts
<1>3. ASSUME SubmitHistoryMove PROVE StoreMatches'
  BY <1>0, <1>3, SubmitHistoryFacts
<1>4. ASSUME NEW q, NEW sqs, PopMove(q, sqs) PROVE StoreMatches'
  <2>1. /\ UNCHANGED stored /\ q # 0
        /\ \A s \in Slots : pending[s] # None /\ sqs[s] # 0 /\ stored[s].bar # None
                            /\ stored[s].seq = sqs[s] => stored[s].bar = pending[s]
    BY <1>4 DEF PopMove
  <2>2. wseq' = q /\ \A s \in Slots :
          work'[s] # None => pending[s] # None /\ sqs[s] = q /\ work'[s] = pending[s]
    BY <1>4, PopFacts
  <2> QED
    BY <2>1, <2>2
<1>5. ASSUME ReserveHistory PROVE StoreMatches'
  BY <1>5, ReserveHistoryFacts
<1>6. ASSUME LiveMove \/ HistoryMove PROVE StoreMatches'
  BY <1>6 DEF LiveMove, HistoryMove
<1> QED
  BY <1>1, <1>2, <1>3, <1>4, <1>5, <1>6, StepsAreMoves

LEMMA HistoryApartStep ==
  ASSUME LaneInv, [Next]_vars
  PROVE  HistoryApart'
<1> USE DEF HistoryApart
<1>0. HistoryApart
  BY DEF LaneInv
<1>1. ASSUME QuietMove PROVE HistoryApart'
  BY <1>0, <1>1 DEF QuietMove
<1>2. ASSUME SubmitMove PROVE HistoryApart'
  BY <1>0, <1>2, SubmitFacts
<1>3. ASSUME SubmitHistoryMove PROVE HistoryApart'
  BY <1>0, <1>3, SubmitHistoryFacts
<1>4. ASSUME NEW q, NEW sqs, PopMove(q, sqs) PROVE HistoryApart'
  <2>1. /\ UNCHANGED history
        /\ \A i \in DOMAIN history : history[i].seq # 0 =>
             history[i].seq # q /\ \A s \in Slots : history[i].seq # sqs[s]
    BY <1>4 DEF PopMove
  <2>2. wseq' = q /\ \A s \in Slots : seqs'[s] \in {0, sqs[s]}
    BY <1>4, PopFacts
  <2> QED
    BY <2>1, <2>2
<1>5. ASSUME ReserveHistory PROVE HistoryApart'
  <2>1. /\ UNCHANGED seqs /\ step' = "hstore" /\ history'[1].seq = sequence + 1
        /\ \A i \in DOMAIN history' :
             i \in DOMAIN history /\ (i # 1 => history'[i] = history[i])
    BY <1>5, ReserveHistoryFacts
  <2>2. \A s \in Slots : seqs[s] # sequence + 1
    BY CarriedNumbers DEF LaneInv, SequencesBounded
  <2> QED
    BY <1>0, <2>1, <2>2
<1>6. ASSUME LiveMove PROVE HistoryApart'
  BY <1>0, <1>6 DEF LiveMove
<1>7. ASSUME HistoryMove PROVE HistoryApart'
  BY <1>0, <1>7, HistoryMoveFacts DEF HistoryMove
<1> QED
  BY <1>1, <1>2, <1>3, <1>4, <1>5, <1>6, <1>7, StepsAreMoves

LEMMA HistoryFreshStep ==
  ASSUME LaneInv, [Next]_vars
  PROVE  HistoryFresh'
<1> DEFINE Fresh(i) ==
             /\ history[i].gen <= generation
             /\ history[i].seq # 0 /\ history[i].gen = generation =>
                  \A s \in Slots : stored[s].bar # None => stored[s].seq < history[i].seq
<1>0. /\ \A i \in DOMAIN history : Fresh(i)
      /\ step \in {"hreserve", "hstore"} => history # <<>>
      /\ step = "hstore" => Front.seq # 0
  BY DEF LaneInv, HistoryFresh
<1> DEFINE Goal == /\ \A i \in DOMAIN history' : Fresh(i)'
                   /\ step' \in {"hreserve", "hstore"} => history' # <<>>
                   /\ step' = "hstore" => Front'.seq # 0
<1>1. ASSUME QuietMove PROVE Goal
  BY <1>0, <1>1 DEF QuietMove, Front
<1>2. ASSUME SubmitMove PROVE Goal
  BY <1>0, <1>2, SubmitFacts DEF Front
<1>3. ASSUME SubmitHistoryMove PROVE Goal
  BY <1>0, <1>3, SubmitHistoryFacts DEF Front
<1>4. ASSUME NEW q, NEW sqs, PopMove(q, sqs) PROVE Goal
  BY <1>0, <1>4, PopFacts DEF PopMove
<1>5. ASSUME ReserveHistory PROVE Goal
  <2>1. /\ UNCHANGED <<stored, generation>> /\ history' # <<>> /\ Front' = history'[1]
        /\ history'[1].seq = sequence + 1
        /\ \A i \in DOMAIN history' :
             /\ i \in DOMAIN history /\ history'[i].gen = history[i].gen
             /\ i # 1 => history'[i] = history[i]
    BY <1>5, ReserveHistoryFacts DEF Front
  <2>2. \A s \in Slots : stored[s].seq < sequence + 1
    BY CarriedNumbers DEF LaneInv, SequencesBounded
  <2>3. history'[1].seq # 0
    BY <2>1, CarriedNumbers
  <2> QED
    BY <1>0, <2>1, <2>2, <2>3
<1>6. ASSUME LiveMove PROVE Goal
  <2>1. /\ UNCHANGED history /\ step' \in {"none", "loop", "backoff"}
        /\ generation' \in Nat /\ generation <= generation'
        /\ stored' # stored => generation < generation'
    BY <1>6 DEF LiveMove
  <2>2. ASSUME NEW i \in DOMAIN history PROVE Fresh(i)'
    BY <1>0, <2>1, <2>2, CarriedNumbers
  <2> QED
    BY <2>1, <2>2
<1>7. ASSUME HistoryMove PROVE Goal
  <2>1. /\ step' = "loop" /\ generation' \in Nat /\ generation <= generation'
        /\ stored' # stored => generation < generation'
        /\ \A i \in DOMAIN history' : i + 1 \in DOMAIN history /\ history'[i] = history[i + 1]
    BY <1>7, HistoryMoveFacts DEF HistoryMove
  <2>2. ASSUME NEW i \in DOMAIN history' PROVE Fresh(i)'
    BY <1>0, <2>1, <2>2, CarriedNumbers
  <2> QED
    BY <2>1, <2>2
<1>8. Goal
  BY <1>1, <1>2, <1>3, <1>4, <1>5, <1>6, <1>7, StepsAreMoves
<1> QED
  BY <1>8 DEF HistoryFresh

LEMMA LaneInit == Init => LaneInv
<1> SUFFICES ASSUME Init PROVE LaneInv
  OBVIOUS
<1>1. NoRow \in [bar : Revisions \cup {None}, seq : Nat] /\ NoRow.bar = None /\ NoRow.seq = 0
  BY DEF NoRow
<1>2. LaneTyped
  BY <1>1 DEF Init, LaneTyped, Bars, NoBars, Rows, Items, Steps
<1>3. \A s \in Slots : stored[s].seq = 0 /\ pending[s] = None
  BY <1>1 DEF Init, NoBars
<1> QED
  BY <1>2, <1>3 DEF Init, LaneInv, SequencesBounded, LiveApart, StoreMatches, HistoryApart,
                    HistoryFresh, Filled

(* LaneInv holds in every behaviour of the lane.                            *)
THEOREM LaneInvariant == Spec => []LaneInv
<1>1. LaneInv /\ [Next]_vars => LaneInv'
  BY LaneTypedStep, BoundedStep, LiveApartStep, StoreMatchesStep, HistoryApartStep,
     HistoryFreshStep DEF LaneInv
<1> QED
  BY <1>1, LaneInit, PTL DEF Spec

-----------------------------------------------------------------------------
(* Theorems.                                                                *)

LEMMA MatchesIsOrdered == LaneInv => RevisionsOrdered
<1> SUFFICES ASSUME LaneInv, step = "store", NEW s \in Filled(work)
             PROVE  \/ Upsert(stored, work, wseq)[s].bar = work[s]
                    \/ Upsert(stored, work, wseq)[s].seq > wseq
  BY DEF RevisionsOrdered, Ordered
<1>1. s \in Slots /\ work[s] # None
  BY DEF Filled
<1>2. stored[s].bar # None /\ stored[s].seq = wseq => stored[s].bar = work[s]
  BY DEF LaneInv, StoreMatches
<1>3. stored \in Rows /\ work \in Bars /\ wseq \in Nat /\ stored[s].seq \in Nat
  BY <1>1, CarriedNumbers DEF LaneInv, LaneTyped
<1>4. IF work[s] # None /\ (stored[s].bar = None
                            \/ (wseq > stored[s].seq /\ stored[s].bar # work[s]))
      THEN Upsert(stored, work, wseq)[s].bar = work[s]
      ELSE Upsert(stored, work, wseq)[s] = stored[s]
  BY <1>1, <1>3, UpsertRows
<1> QED
  BY <1>1, <1>2, <1>3, <1>4

(* A sequence never stands for two revisions of a slot: the receipt check   *)
(* of canonical_bar_commit_receipt cannot fail for a live batch, whatever   *)
(* was requeued, corrected or stored by an attempt of unknown outcome.      *)
THEOREM RevisionsOrderedTheorem == Spec => []RevisionsOrdered
BY LaneInvariant, MatchesIsOrdered, PTL

LEMMA FreshIsNewest == LaneInv => HistoryIsNewest
<1> SUFFICES ASSUME LaneInv, step = "hstore", Front.gen = generation,
                    NEW s \in Front.request.covered
             PROVE  HistoryRows[s].bar = Front.request.bars[s]
  BY DEF HistoryIsNewest, SnapshotExact
<1>1. history # <<>> /\ history \in Items /\ stored \in Rows /\ Front.seq # 0
  BY DEF LaneInv, LaneTyped, HistoryFresh
<1>2. Front = history[1] /\ 1 \in DOMAIN history
  BY <1>1, SettledItem DEF Front
<1>3. Front.request \in Requests /\ Front.seq \in Nat
  BY <1>1, <1>2, QueuedItem
<1> DEFINE bars == Front.request.bars
           covered == Front.request.covered
           q == Front.seq
           mid == Upsert(stored, bars, q)
<1>4. bars \in Bars /\ covered \in SUBSET Slots /\ q \in Nat /\ s \in Slots
  BY <1>3, RequestParts
<1>5. stored[s].bar # None => stored[s].seq < q
  BY <1>1, <1>2, <1>4 DEF LaneInv, HistoryFresh
<1>6. HistoryRows = Reconcile(mid, covered, bars, q)
  BY DEF HistoryRows
<1> HIDE DEF bars, covered, q, mid
<1>7. /\ mid \in Rows
      /\ IF bars[s] # None /\ (stored[s].bar = None
                               \/ (q > stored[s].seq /\ stored[s].bar # bars[s]))
         THEN mid[s].bar = bars[s] /\ mid[s].seq = q ELSE mid[s] = stored[s]
  BY <1>1, <1>4, UpsertRows DEF mid
<1>8. HistoryRows[s] = IF s \in covered /\ bars[s] = None /\ mid[s].seq <= q
                       THEN NoRow ELSE mid[s]
  BY <1>4, <1>6, <1>7, ReconcileRows
<1>9. stored[s].seq \in Nat /\ NoRow.bar = None /\ s \in covered
  BY <1>4, CarriedNumbers DEF NoRow, covered
<1>10. HistoryRows[s].bar = bars[s]
  BY <1>4, <1>5, <1>7, <1>8, <1>9
<1> QED
  BY <1>10 DEF bars

(* A history commit that finds its generation unchanged leaves exactly its  *)
(* snapshot: reconcile_exact_history_snapshot cannot meet a newer row.      *)
THEOREM HistoryIsNewestTheorem == Spec => []HistoryIsNewest
BY LaneInvariant, FreshIsNewest, PTL

-----------------------------------------------------------------------------
(* What the lane owes.                                                      *)

Paid(s) == Held(s) # None /\ Held(s)' # Held(s) =>
             \/ Held(s)' = None /\ (stored'[s].bar = Held(s) \/ stored'[s].seq > wseq)
             \/ Held(s)' # None /\ lives' = lives + 1

(* A batch that is acknowledged in part: the bars in done are in their rows *)
(* or superseded there, the others wait again.                              *)
LEMMA CommitsPay ==
  ASSUME LaneInv, NEW done \in SUBSET Filled(work), LiveCommits(done), NEW s \in Slots
  PROVE  Paid(s)
<1> DEFINE bars == Only(work, done)
           back == Only(work, Slots \ done)
<1>1. /\ step = "store" /\ step' # "store"
      /\ Ordered(stored', bars, wseq) /\ Requeue(back)
  BY DEF LiveCommits, Retry
<1>2. /\ back \in Bars /\ bars \in Bars
      /\ bars[s] = IF s \in done THEN work[s] ELSE None
      /\ back[s] = IF s \in done THEN None ELSE work[s]
  <2>1. work \in Bars /\ done \in SUBSET Slots /\ Slots \ done \in SUBSET Slots
    BY DEF LaneInv, LaneTyped, Filled
  <2> QED
    BY <2>1, OnlyBars
<1> HIDE DEF bars, back
<1>3. bars[s] # None => stored'[s].bar = bars[s] \/ stored'[s].seq > wseq
  BY <1>1 DEF Ordered, Filled
<1>4. s \in done => work[s] # None
  BY DEF Filled
<1>5. pending'[s] = IF back[s] # None /\ pending[s] = None THEN back[s] ELSE pending[s]
  BY <1>1, <1>2 DEF Requeue, Filled
<1> QED
  BY <1>1, <1>2, <1>3, <1>4, <1>5 DEF Paid, Held

LEMMA StepsPay ==
  ASSUME LaneInv, [Next]_vars, NEW s \in Slots
  PROVE  Paid(s)
<1> USE DEF Paid, Held
<1>1. ASSUME QuietMove PROVE Paid(s)
  BY <1>1 DEF QuietMove
<1>2. ASSUME SubmitMove PROVE Paid(s)
  <2>1. lives' = lives + 1
    BY <1>2 DEF SubmitMove, Submit
  <2> QED
    BY <1>2, <2>1, SubmitFacts
<1>3. ASSUME SubmitHistoryMove PROVE Paid(s)
  BY <1>3, SubmitHistoryFacts
<1>4. ASSUME NEW q, NEW sqs, PopMove(q, sqs), step # "store" PROVE Paid(s)
  BY <1>4, PopFacts
<1>5. ASSUME ReserveHistory PROVE Paid(s)
  BY <1>5, ReserveHistoryFacts
<1>6. ASSUME HistoryMove PROVE Paid(s)
  BY <1>6 DEF HistoryMove
<1>7. ASSUME LiveRefused \/ LiveUncertain PROVE Paid(s)
  <2>1. step = "store" /\ step' # "store" /\ Requeue(work)
    BY <1>7 DEF LiveRefused, LiveUncertain, Retry
  <2>2. pending'[s] = IF work[s] # None /\ pending[s] = None THEN work[s] ELSE pending[s]
    BY <2>1 DEF Requeue, Filled
  <2> QED
    BY <2>1, <2>2
<1>8. ASSUME NEW done \in SUBSET Filled(work), LiveCommits(done) PROVE Paid(s)
  BY <1>8, CommitsPay
<1> QED
  BY <1>1, <1>2, <1>3, <1>4, <1>5, <1>6, <1>7, <1>8, QuietSteps, TakeLiveMoves,
     ReserveLiveMoves, HistorySettlesEarlyMoves, HistoryCommitsMoves
     DEF Next, LaneStep, SubmitMove, SubmitHistoryMove

(* An accepted live revision leaves the lane only when its row holds it or  *)
(* a newer row supersedes it, and only a later submission replaces it:      *)
(* through refusals, unknown outcomes, partial receipts, shutdown, rearming.*)
THEOREM NothingLostTheorem == Spec => NothingLost
<1>1. LaneInv /\ [Next]_vars => \A s \in Slots : Paid(s)
  BY StepsPay
<1> QED
  BY <1>1, LaneInvariant, PTL DEF Spec, NothingLost, Paid
=============================================================================
