-------------------------- MODULE AlertQuotesProofs --------------------------
(***************************************************************************)
(* Theorems about the crossings: AlertQuotes never commits a crossing the  *)
(* generation of the alert has not seen, for any alerts, any prices and    *)
(* any sizes of the inbox and of a batch.                                  *)
(*                                                                         *)
(* A batch that is given up in the middle is read again, so a baseline may *)
(* be as new as the event in work, or newer than all the loop has passed.  *)
(* QuotesInv says how far ahead of the loop a baseline can be, what is     *)
(* known of the price it was taken at, and that no lost event is newer.    *)
(***************************************************************************)
EXTENDS AlertQuotes, TLAPS

\* The quote in work, by its number.
Current == Head(events).seq

\* The event in work: what it holds of the alerts of the route.
TurnOK ==
    turn /= None =>
        /\ events /= <<>>
        /\ DOMAIN turn = {"todo", "persist"}
        /\ DOMAIN turn.todo \subseteq Alerts
        /\ \A a \in DOMAIN turn.todo : turn.todo[a].gen \in 1..MaxGen

\* The batch is read from the inbox: it goes on where the loop stands, or it
\* begins with the oldest event the inbox had after an overflow.
BatchOK ==
    /\ ceiling > 0 => inbox /= <<>>
    /\ events /= <<>> => inbox /= <<>> /\ Current > sequence
    /\ events /= <<>> /\ Current /= sequence + 1 => Current <= First
    /\ \A i \in DOMAIN events : events[i].seq <= ceiling

\* Two copies of one quote have one price: batch, inbox and baselines.
OnePrice ==
    /\ \A i \in DOMAIN events, j \in DOMAIN inbox :
          events[i].seq = inbox[j].seq => events[i].price = inbox[j].price
    /\ \A a \in Alerts : baselines[a] /= None =>
          /\ \A i \in DOMAIN events :
                events[i].seq = baselines[a].seq => events[i].price = baselines[a].price
          /\ \A j \in DOMAIN inbox :
                inbox[j].seq = baselines[a].seq => inbox[j].price = baselines[a].price

\* How far ahead of the loop a baseline is: at most at the event in work; after a
\* batch was given up, at most one event ahead unless the next read overflows.
BaselinesBehind ==
    \A a \in Alerts : baselines[a] /= None =>
        /\ baselines[a].seq <= ceiling
        /\ events /= <<>> =>
              /\ baselines[a].seq <= Current
              /\ Current /= sequence + 1 => baselines[a].seq = Current
        /\ events = <<>> /\ baselines[a].seq > sequence + 1 => First > sequence + 1

\* No lost event is newer than a baseline, and none is ahead of the loop unless an
\* overflow has cost it.
LostBehind ==
    /\ \A a \in Alerts, e \in lost : baselines[a] /= None => e <= baselines[a].seq
    /\ \A e \in lost : events /= <<>> => e < Current
    /\ \A e \in lost : events = <<>> /\ e > sequence => e < First

\* The crossing in persist: its baseline is of the generation the event began with.
PersistOK ==
    Persisting =>
        /\ turn.persist.alert \in DOMAIN turn.todo
        /\ turn.persist.base.gen = turn.todo[turn.persist.alert].gen
        /\ turn.persist.base.seq \in Nat /\ turn.persist.base.seq < Current
        /\ Current = sequence + 1
        /\ \A e \in lost : e <= turn.persist.base.seq

\* What was committed is not ahead of the loop by more than the event in work.
FiresOK ==
    /\ CrossingsAreSeen
    /\ \A f \in fires : f.base.seq \in Nat /\ f.seq \in Nat /\ f.seq <= sequence + 1

QuotesInv ==
    /\ TypeOK /\ TurnOK /\ BatchOK /\ OnePrice
    /\ BaselinesBehind /\ LostBehind /\ PersistOK /\ FiresOK

-----------------------------------------------------------------------------
(* What the steps do to quotes and baselines *)

\* A baseline is kept, forgotten, or taken from the event in work.
BaselineMoves(a) ==
    \/ baselines'[a] = None
    \/ baselines'[a] = baselines[a]
    \/ events /= <<>> /\ baselines'[a].price = Price /\ baselines'[a].seq = Current

\* A step that moves no quote.
Calm ==
    /\ UNCHANGED <<inbox, ceiling, sequence, events, lost>>
    /\ \A a \in Alerts : BaselineMoves(a)

\* The head of the batch is passed.
Passing ==
    /\ events /= <<>>
    /\ Passed
    /\ UNCHANGED <<inbox, ceiling>>
    /\ \/ UNCHANGED <<baselines, lost>>
       \/ baselines' = NoBaselines /\ lost' = lost \cup {Current}

\* The batch is given up.
GivingUp ==
    /\ events' = <<>>
    /\ UNCHANGED <<inbox, ceiling, sequence, lost, baselines>>

\* Every step quotes, reads, passes, gives up or leaves the quotes where they are.
LEMMA QuoteMoves ==
    ASSUME QuotesInv, [Next]_vars
    PROVE  \/ \E p \in Prices : Quote(p)
           \/ ReadEvents \/ Passing \/ GivingUp \/ Calm
<1>1. CASE \E a \in Alerts : Rearm(a) \/ RemoveAlert(a) \/ Deliver(a) \/ Skip(a) \/ Cross(a)
  BY <1>1 DEF Rearm, RemoveAlert, Deliver, Skip, Cross, Calm, BaselineMoves
<1>2. CASE Prune \/ Sleep \/ SleepReset \/ WakeUp
  BY <1>2 DEF Prune, Sleep, SleepReset, WakeUp, NoBaselines, Calm, BaselineMoves
<1>3. ASSUME NEW a \in Alerts, Observe(a) PROVE Calm
  <2>1. events /= <<>>
    BY <1>3 DEF QuotesInv, TurnOK, Observe, Todo
  <2> QED
    BY <1>3, <2>1 DEF QuotesInv, TypeOK, Observe, Observed, Calm, BaselineMoves, Current, Price
<1>4. CASE Persist \/ PersistRefused
  <2>1. events /= <<>>
    BY <1>4 DEF QuotesInv, TurnOK, Persist, PersistRefused, Persisting
  <2> QED
    BY <1>4, <2>1
    DEF QuotesInv, TypeOK, Persist, PersistRefused, Observed, Calm, BaselineMoves, Current, Price
<1>5. CASE PersistInvalid \/ PersistFails
  BY <1>5 DEF PersistInvalid, PersistFails, GiveUp, GivingUp
<1>6. CASE SleepThrough \/ EndEvent
  BY <1>6 DEF QuotesInv, TurnOK, SleepThrough, EndEvent, Passing, Current
<1>7. CASE BeginEvent
  BY <1>7 DEF BeginEvent, Calm, BaselineMoves
<1>8. CASE UNCHANGED vars
  BY <1>8 DEF vars, Calm, BaselineMoves
<1> QED
  BY <1>1, <1>2, <1>3, <1>4, <1>5, <1>6, <1>7, <1>8 DEF Next, Evaluate

\* The quotes of a batch or an inbox, one by one.
LEMMA Quotes ==
    ASSUME NEW s \in Seq(Event)
    PROVE  /\ DOMAIN s = 1..Len(s) /\ Len(s) \in Nat
           /\ \A i \in DOMAIN s : s[i].seq \in Nat /\ s[i].price \in Nat
           /\ s /= <<>> => Head(s) = s[1] /\ 1 \in DOMAIN s
<1>1. \A i \in DOMAIN s : s[i] \in Event
  OBVIOUS
<1>2. ASSUME NEW e \in Event PROVE e.seq \in Nat /\ e.price \in Nat
  <2>1. e.seq \in 1..MaxEvents /\ e.price \in Prices
    BY DEF Event
  <2>2. MaxEvents \in Nat /\ \A p \in Prices : p \in Nat
    BY AlertQuotesAssumption
  <2>3. e.seq \in Nat
    BY <2>1, <2>2
  <2> QED
    BY <2>1, <2>2, <2>3
<1>3. DOMAIN s = 1..Len(s) /\ Len(s) \in Nat
  OBVIOUS
<1>4. s /= <<>> => Head(s) = s[1] /\ 1 \in DOMAIN s
  OBVIOUS
<1> QED
  BY <1>1, <1>2, <1>3, <1>4

\* The unpassed part of the inbox begins where the loop stands, or with the oldest
\* event when an overflow has taken the events in front of it.
LEMMA UnreadPosition ==
    ASSUME TypeOK, ceiling > sequence, inbox /= <<>>
    PROVE  /\ Unread \in DOMAIN inbox
           /\ inbox[Unread].seq > sequence
           /\ inbox[Unread].seq = sequence + 1 \/ inbox[Unread].seq = First
           /\ inbox[Unread].seq >= First
<1> DEFINE P(i) == inbox[i].seq > sequence /\ \A j \in 1..(i - 1) : inbox[j].seq <= sequence
<1>1. \A i \in DOMAIN inbox : inbox[i].seq = First + i - 1 /\ inbox[i].seq \in Nat
  <2>1. inbox \in Seq(Event) /\ Contiguous(inbox)
    BY DEF TypeOK
  <2> QED
    BY <2>1, Quotes DEF Contiguous, First
<1>2. inbox[Len(inbox)].seq = ceiling /\ Len(inbox) \in DOMAIN inbox
  BY DEF TypeOK, Last
<1>3. First \in Nat /\ sequence \in Nat /\ ceiling \in Nat /\ DOMAIN inbox = 1..Len(inbox)
  BY <1>1, <1>2 DEF TypeOK, First, Event
<1>4. \E i \in DOMAIN inbox : P(i)
  <2>1. CASE First > sequence
    <3>1. 1 \in DOMAIN inbox /\ P(1)
      BY <1>1, <1>2, <1>3, <2>1
    <3> QED
      BY <3>1
  <2>2. CASE First <= sequence
    <3> DEFINE k == sequence - First + 2
    <3>1. k \in DOMAIN inbox /\ k > 1
      BY <1>1, <1>2, <1>3, <2>2
    <3>2. P(k)
      BY <1>1, <1>3, <3>1
    <3> QED
      BY <3>1, <3>2
  <2> QED
    BY <1>3, <2>1, <2>2
<1>5. Unread \in DOMAIN inbox /\ P(Unread)
  BY <1>4 DEF Unread
<1>6. inbox[Unread].seq >= First
  BY <1>1, <1>3, <1>5
<1>7. CASE Unread = 1
  BY <1>1, <1>3, <1>5, <1>6, <1>7
<1>8. CASE Unread > 1
  <2>1. Unread - 1 \in DOMAIN inbox /\ inbox[Unread - 1].seq <= sequence
    BY <1>3, <1>5, <1>8
  <2> QED
    BY <1>1, <1>3, <1>5, <1>6, <1>8, <2>1
<1> QED
  BY <1>3, <1>5, <1>6, <1>7, <1>8

\* The batch that passes its head.
LEMMA TailQuotes ==
    ASSUME NEW s \in Seq(Event), s /= <<>>, Contiguous(s)
    PROVE  /\ Tail(s) \in Seq(Event) /\ Len(Tail(s)) = Len(s) - 1
           /\ \A i \in DOMAIN Tail(s) : i + 1 \in DOMAIN s /\ Tail(s)[i] = s[i + 1]
           /\ Contiguous(Tail(s))
           /\ Tail(s) /= <<>> => Head(Tail(s)).seq = Head(s).seq + 1
<1>1. Tail(s) \in Seq(Event) /\ Len(Tail(s)) = Len(s) - 1
  OBVIOUS
<1>2. \A i \in DOMAIN Tail(s) : i + 1 \in DOMAIN s /\ Tail(s)[i] = s[i + 1]
  OBVIOUS
<1>3. \A i \in DOMAIN s : s[i].seq = Head(s).seq + i - 1 /\ s[i].seq \in Nat /\ i \in Nat
  BY Quotes DEF Contiguous
<1>4. Head(s).seq \in Nat
  BY Quotes
<1>5. Tail(s) /= <<>> => Head(Tail(s)) = Tail(s)[1] /\ 1 \in DOMAIN Tail(s)
  BY <1>1, Quotes
<1>6. ASSUME Tail(s) /= <<>> PROVE Head(Tail(s)).seq = Head(s).seq + 1
  <2>1. 2 \in DOMAIN s /\ Head(Tail(s)) = s[2]
    BY <1>2, <1>5, <1>6
  <2>2. s[2].seq = Head(s).seq + 2 - 1
    BY <1>3, <2>1
  <2> QED
    BY <1>4, <2>1, <2>2
<1>7. ASSUME NEW i \in DOMAIN Tail(s)
      PROVE  Tail(s)[i].seq = Head(Tail(s)).seq + i - 1
  <2>1. Tail(s)[i].seq = Head(s).seq + (i + 1) - 1
    BY <1>2, <1>3, <1>7
  <2>2. Tail(s) /= <<>> /\ i \in Nat
    BY <1>1, <1>7
  <2>3. Head(Tail(s)).seq = Head(s).seq + 1
    BY <1>6, <2>2
  <2> DEFINE x == Tail(s)[i].seq
             y == Head(Tail(s)).seq
             z == Head(s).seq
  <2>4. x = z + (i + 1) - 1 /\ y = z + 1 /\ z \in Nat /\ i \in Nat
    BY <1>4, <2>1, <2>2, <2>3
  <2> HIDE DEF x, y, z
  <2>5. x = y + i - 1
    BY <2>4
  <2> QED
    BY <2>5 DEF x, y
<1> QED
  BY <1>1, <1>2, <1>6, <1>7 DEF Contiguous

\* The smaller of two numbers.
LEMMA MinOfTwo ==
    ASSUME NEW a \in Int, NEW b \in Int
    PROVE  Min({a, b}) \in {a, b} /\ Min({a, b}) <= a /\ Min({a, b}) <= b
<1>1. \E x \in {a, b} : \A y \in {a, b} : x <= y
  OBVIOUS
<1> QED
  BY <1>1 DEF Min

\* A batch is a part of the inbox that begins with its oldest unpassed event.
LEMMA BatchRead ==
    ASSUME TypeOK, ReadEvents, inbox /= <<>>
    PROVE  /\ events' \in Seq(Event) /\ Len(events') <= Limit /\ events' /= <<>>
           /\ \A i \in DOMAIN events' : /\ Unread + i - 1 \in DOMAIN inbox
                                        /\ events'[i] = inbox[Unread + i - 1]
           /\ Head(events') = inbox[Unread]
           /\ Contiguous(events')
<1> DEFINE last == Min({Len(inbox), Unread + Limit - 1})
<1>1. ceiling > sequence /\ events' = SubSeq(inbox, Unread, last) /\ inbox \in Seq(Event)
  BY DEF ReadEvents, TypeOK
<1>2. Unread \in 1..Len(inbox) /\ Len(inbox) \in Nat /\ Limit \in Nat \ {0}
  <2>1. Unread \in DOMAIN inbox
    BY <1>1, UnreadPosition
  <2>2. Limit \in Nat \ {0}
    BY AlertQuotesAssumption
  <2> QED
    BY <1>1, <2>1, <2>2
<1>3. last \in 1..Len(inbox) /\ last >= Unread /\ last <= Unread + Limit - 1
  <2>1. Len(inbox) \in Int /\ Unread + Limit - 1 \in Int
    BY <1>2
  <2>2. last \in {Len(inbox), Unread + Limit - 1} /\ last <= Len(inbox)
        /\ last <= Unread + Limit - 1
    BY <2>1, MinOfTwo
  <2> QED
    BY <1>2, <2>2
<1> HIDE DEF last
<1>4. events' \in Seq(Event) /\ Len(events') = last - Unread + 1
  BY <1>1, <1>2, <1>3
<1>5. \A i \in 1..(last - Unread + 1) : events'[i] = inbox[Unread + i - 1]
  BY <1>1, <1>2, <1>3
<1>6. DOMAIN events' = 1..(last - Unread + 1)
  BY <1>4
<1>7. \A i \in DOMAIN events' : /\ i \in Nat
                                /\ Unread + i - 1 \in DOMAIN inbox
                                /\ events'[i] = inbox[Unread + i - 1]
  BY <1>1, <1>2, <1>3, <1>5, <1>6
<1>8. events' /= <<>> /\ Head(events') = inbox[Unread]
  <2>1. 1 \in DOMAIN events' /\ Head(events') = events'[1]
    BY <1>2, <1>3, <1>4, <1>6
  <2> QED
    BY <1>2, <1>4, <1>3, <1>7, <2>1
<1>9. Contiguous(events')
  <2>1. \A i \in DOMAIN inbox : inbox[i].seq = Head(inbox).seq + i - 1
    BY DEF TypeOK, Contiguous
  <2>2. Head(inbox).seq \in Nat
    BY <1>1, Quotes
  <2>3. ASSUME NEW i \in DOMAIN events'
        PROVE  events'[i].seq = Head(events').seq + i - 1
    <3>1. events'[i].seq = Head(inbox).seq + (Unread + i - 1) - 1
      BY <1>7, <2>1
    <3>2. Head(events').seq = Head(inbox).seq + Unread - 1
      <4>1. Unread \in DOMAIN inbox
        BY <1>1, <1>2
      <4> QED
        BY <1>8, <2>1, <4>1
    <3> QED
      BY <1>2, <1>7, <2>2, <3>1, <3>2
  <2> QED
    BY <2>3 DEF Contiguous
<1> QED
  BY <1>2, <1>3, <1>4, <1>7, <1>8, <1>9

-----------------------------------------------------------------------------
(* The types *)

InboxTyped ==
    /\ inbox \in Seq(Event) /\ Len(inbox) <= Capacity
    /\ inbox /= <<>> => Last(inbox).seq = ceiling
    /\ ceiling \in 0..MaxEvents
    /\ Contiguous(inbox)

BatchTyped ==
    /\ sequence \in 0..ceiling
    /\ events \in Seq(Event) /\ Len(events) <= Limit
    /\ Contiguous(events)
    /\ lost \subseteq 1..ceiling

\* An accepted quote goes behind the others, and the oldest makes room for it.
LEMMA QuoteTyped ==
    ASSUME QuotesInv, NEW p \in Prices, Quote(p)
    PROVE  /\ InboxTyped' /\ inbox' /= <<>>
           /\ \A j \in DOMAIN inbox' :
                 \/ inbox'[j] = [seq |-> ceiling + 1, price |-> p]
                 \/ \E i \in DOMAIN inbox : inbox'[j] = inbox[i]
           /\ inbox /= <<>> => Head(inbox').seq >= First
<1> DEFINE e == [seq |-> ceiling + 1, price |-> p]
           longer == Append(inbox, e)
<1>1. /\ ceiling \in Nat /\ ceiling' = ceiling + 1 /\ ceiling' \in 0..MaxEvents
      /\ Capacity \in Nat \ {0}
  <2>1. MaxEvents \in Nat /\ Capacity \in Nat \ {0}
    BY AlertQuotesAssumption
  <2> QED
    BY <2>1 DEF QuotesInv, TypeOK, Quote
<1>2. inbox \in Seq(Event) /\ Contiguous(inbox) /\ Len(inbox) <= Capacity
  BY DEF QuotesInv, TypeOK
<1>3. e \in Event
  BY <1>1 DEF Event
<1>4. /\ longer \in Seq(Event) /\ Len(longer) = Len(inbox) + 1 /\ longer /= <<>>
      /\ longer[Len(inbox) + 1] = e
      /\ \A i \in DOMAIN inbox : longer[i] = inbox[i]
  BY <1>2, <1>3
<1>5. inbox' = IF Len(longer) > Capacity THEN Tail(longer) ELSE longer
  BY DEF Quote
<1> HIDE DEF longer
<1>6. Contiguous(longer) /\ (inbox /= <<>> => Head(longer) = Head(inbox))
  <2>1. CASE inbox = <<>>
    <3>1. DOMAIN longer = {1} /\ Head(longer) = longer[1]
      BY <1>4, <2>1, Quotes
    <3>2. longer[1].seq \in Nat
      BY <1>4, <3>1, Quotes
    <3> QED
      BY <2>1, <3>1, <3>2 DEF Contiguous
  <2>2. CASE inbox /= <<>>
    <3>1. Head(longer) = Head(inbox) /\ Head(inbox).seq \in Nat
      BY <1>2, <1>4, <2>2, Quotes
    <3>2. ceiling = Head(inbox).seq + Len(inbox) - 1
      <4>1. Last(inbox).seq = ceiling /\ Len(inbox) \in DOMAIN inbox
        BY <1>2, <2>2 DEF QuotesInv, TypeOK
      <4> QED
        BY <1>2, <4>1 DEF Last, Contiguous
    <3>3. ASSUME NEW i \in DOMAIN longer
          PROVE  longer[i].seq = Head(longer).seq + i - 1
      <4>1. CASE i \in DOMAIN inbox
        BY <1>2, <1>4, <3>1, <4>1 DEF Contiguous
      <4>2. CASE i = Len(inbox) + 1
        <5>1. longer[i].seq = ceiling + 1
          BY <1>4, <4>2
        <5> QED
          BY <1>1, <1>2, <3>1, <3>2, <4>2, <5>1
      <4>3. i \in DOMAIN inbox \/ i = Len(inbox) + 1
        BY <1>2, <1>4
      <4> QED
        BY <4>1, <4>2, <4>3
    <3> QED
      BY <3>1, <3>3 DEF Contiguous
  <2> QED
    BY <2>1, <2>2
<1>7. longer[Len(longer)].seq = ceiling + 1
  BY <1>2, <1>4
<1>8. CASE Len(longer) > Capacity
  <2>1. /\ inbox' \in Seq(Event) /\ Len(inbox') = Len(longer) - 1
        /\ \A i \in DOMAIN inbox' : i + 1 \in DOMAIN longer /\ inbox'[i] = longer[i + 1]
        /\ Contiguous(inbox')
        /\ inbox' /= <<>> => Head(inbox').seq = Head(longer).seq + 1
    BY <1>4, <1>5, <1>6, <1>8, TailQuotes
  <2>2. Len(inbox') = Len(inbox) /\ inbox' /= <<>> /\ inbox /= <<>>
        /\ Len(inbox') \in DOMAIN inbox'
    BY <1>1, <1>2, <1>4, <1>8, <2>1
  <2>3. inbox'[Len(inbox')].seq = ceiling + 1
    BY <1>2, <1>4, <1>7, <2>1, <2>2
  <2>4. Head(inbox').seq >= First
    <3>1. Head(inbox).seq \in Nat
      BY <1>2, <2>2, Quotes
    <3> QED
      BY <1>6, <2>1, <2>2, <3>1 DEF First
  <2>5. \A i \in DOMAIN longer : i \in DOMAIN inbox \/ i = Len(inbox) + 1
    BY <1>2, <1>4
  <2>6. ASSUME NEW j \in DOMAIN inbox'
        PROVE  inbox'[j] = e \/ \E i \in DOMAIN inbox : inbox'[j] = inbox[i]
    BY <1>4, <2>1, <2>5
  <2> QED
    BY <1>1, <1>2, <2>1, <2>2, <2>3, <2>4, <2>6 DEF InboxTyped, Last
<1>9. CASE ~(Len(longer) > Capacity)
  <2>1. inbox' = longer
    BY <1>5, <1>9
  <2>2. \A i \in DOMAIN longer : i \in DOMAIN inbox \/ i = Len(inbox) + 1
    BY <1>2, <1>4
  <2>3. ASSUME NEW j \in DOMAIN inbox'
        PROVE  inbox'[j] = e \/ \E i \in DOMAIN inbox : inbox'[j] = inbox[i]
    BY <1>4, <2>1, <2>2
  <2>4. Len(longer) <= Capacity
    BY <1>1, <1>2, <1>4, <1>9
  <2>5. inbox /= <<>> => Head(inbox').seq >= First
    BY <1>2, <1>6, <2>1, Quotes DEF First
  <2> QED
    BY <1>1, <1>4, <1>6, <1>7, <2>1, <2>3, <2>4, <2>5 DEF InboxTyped, Last
<1> QED
  BY <1>8, <1>9

LEMMA QuotesTyped ==
    ASSUME QuotesInv, [Next]_vars
    PROVE  InboxTyped' /\ BatchTyped'
<1> USE DEF InboxTyped, BatchTyped
<1>1. InboxTyped /\ BatchTyped
  BY DEF QuotesInv, TypeOK
<1>2. CASE \E p \in Prices : Quote(p)
  <2>1. InboxTyped'
    BY <1>2, QuoteTyped
  <2>2. UNCHANGED <<sequence, events, lost>> /\ ceiling' = ceiling + 1
    BY <1>2 DEF Quote
  <2>3. sequence' \in 0..ceiling' /\ lost' \subseteq 1..ceiling'
    BY <1>1, <2>2
  <2> QED
    BY <1>1, <2>1, <2>2, <2>3 DEF Contiguous
<1>3. CASE ReadEvents
  <2>1. UNCHANGED <<inbox, ceiling, sequence>> /\ ceiling > sequence
        /\ lost' = lost \cup (sequence + 1 .. First - 1)
    BY <1>3 DEF ReadEvents
  <2>2. inbox /= <<>>
    BY <1>1, <2>1 DEF QuotesInv, BatchOK
  <2>3. events' \in Seq(Event) /\ Len(events') <= Limit /\ Contiguous(events')
    BY <1>3, <2>2, BatchRead DEF QuotesInv
  <2>4. First \in Nat /\ First <= ceiling
    <3>1. Last(inbox).seq = ceiling /\ Len(inbox) \in DOMAIN inbox /\ Len(inbox) >= 1
          /\ First \in Nat
      BY <1>1, <2>2, Quotes DEF First
    <3> QED
      BY <1>1, <3>1 DEF Last, Contiguous, First
  <2>5. lost' \subseteq 1..ceiling
    BY <1>1, <2>1, <2>4
  <2> QED
    BY <1>1, <2>1, <2>3, <2>5 DEF Contiguous, Last
<1>4. CASE Passing
  <2>1. events /= <<>> /\ sequence' = Current /\ events' = Tail(events)
        /\ UNCHANGED <<inbox, ceiling>>
        /\ lost' \subseteq lost \cup {Current}
    BY <1>4 DEF Passing, Passed, Current
  <2>2. Tail(events) \in Seq(Event) /\ Len(Tail(events)) <= Limit
        /\ Contiguous(Tail(events))
    <3>1. Limit \in Nat /\ Len(events) \in Nat
      BY <1>1, <2>1, AlertQuotesAssumption
    <3> QED
      BY <1>1, <2>1, <3>1, TailQuotes
  <2>3. Current \in 1..ceiling
    <3>1. Current \in Nat /\ 1 \in DOMAIN events /\ Current = events[1].seq
      BY <1>1, <2>1, Quotes DEF Current
    <3> QED
      BY <1>1, <2>1, <3>1 DEF QuotesInv, BatchOK
  <2> QED
    BY <1>1, <2>1, <2>2, <2>3 DEF Contiguous, Last
<1>5. CASE GivingUp \/ Calm
  <2>1. UNCHANGED <<inbox, ceiling, sequence, lost>>
        /\ (events' = <<>> \/ events' = events)
    BY <1>5 DEF GivingUp, Calm
  <2>2. events' \in Seq(Event) /\ Len(events') <= Limit /\ Contiguous(events')
    <3>1. Limit \in Nat
      BY AlertQuotesAssumption
    <3>2. CASE events' = <<>>
      <4>1. DOMAIN events' = {} /\ Len(events') = 0 /\ events' \in Seq(Event)
        BY <3>2
      <4> QED
        BY <3>1, <4>1 DEF Contiguous
    <3>3. CASE events' = events
      BY <1>1, <3>3 DEF Contiguous
    <3> QED
      BY <2>1, <3>2, <3>3
  <2> QED
    BY <1>1, <2>1, <2>2 DEF Contiguous, Last
<1> QED
  BY <1>2, <1>3, <1>4, <1>5, QuoteMoves

\* The alerts, the baselines and the counters.
LEMMA AlertsTyped ==
    ASSUME QuotesInv, [Next]_vars
    PROVE  /\ rows' \in [Alerts -> Row \cup {None}]
           /\ newest' \in [Alerts -> 0..MaxGen]
<1>1. /\ rows \in [Alerts -> Row \cup {None}]
      /\ newest \in [Alerts -> 0..MaxGen] /\ MaxGen \in Nat
  BY AlertQuotesAssumption DEF QuotesInv, TypeOK
<1>2. ASSUME NEW a \in Alerts, Rearm(a)
      PROVE  /\ rows' \in [Alerts -> Row \cup {None}]
             /\ newest' \in [Alerts -> 0..MaxGen]
  <2>1. newest[a] + 1 \in 1..MaxGen
    BY <1>1, <1>2 DEF Rearm
  <2>2. (rows[a] /= None /\ rows[a].delivered) \in BOOLEAN
    BY <1>1 DEF Row
  <2>3. [gen |-> newest[a] + 1, armed |-> TRUE,
         delivered |-> rows[a] /= None /\ rows[a].delivered] \in Row
    BY <2>1, <2>2, Zenon DEF Row
  <2> QED
    BY <1>1, <1>2, <2>1, <2>3 DEF Rearm
<1>3. ASSUME NEW a \in Alerts, RemoveAlert(a) \/ Deliver(a)
      PROVE  /\ rows' \in [Alerts -> Row \cup {None}]
             /\ newest' \in [Alerts -> 0..MaxGen]
  <2>1. CASE RemoveAlert(a)
    BY <1>1, <2>1 DEF RemoveAlert
  <2>2. CASE Deliver(a)
    BY <1>1, <2>2 DEF Deliver, Row
  <2> QED
    BY <1>3, <2>1, <2>2
<1>4. CASE Persist
  BY <1>1, <1>4 DEF Persist, Fireable, Active, Row
<1>5. CASE UNCHANGED <<rows, newest>>
  BY <1>1, <1>5
<1> QED
  BY <1>2, <1>3, <1>4, <1>5
  DEF Next, Evaluate, Quote, Skip, Cross, Observe, Prune, Sleep, SleepReset, WakeUp,
      ReadEvents, SleepThrough, BeginEvent, PersistRefused, PersistInvalid, PersistFails,
      EndEvent, vars

LEMMA BaselinesTyped ==
    ASSUME QuotesInv, [Next]_vars
    PROVE  baselines' \in [Alerts -> Baseline \cup {None}]
<1>1. baselines \in [Alerts -> Baseline \cup {None}]
  BY DEF QuotesInv, TypeOK
<1>2. ASSUME NEW a \in Alerts, turn /= None, a \in DOMAIN turn.todo
      PROVE  Observed(a) \in Baseline
  <2>1. Head(events) \in Event
    BY <1>2 DEF QuotesInv, TurnOK, TypeOK
  <2> QED
    BY <1>2, <2>1 DEF QuotesInv, TurnOK, Observed, Price, Baseline, Event
<1>3. ASSUME NEW a \in Alerts, Observe(a) PROVE baselines' \in [Alerts -> Baseline \cup {None}]
  <2>1. Observed(a) \in Baseline /\ baselines' = [baselines EXCEPT ![a] = Observed(a)]
    BY <1>2, <1>3 DEF Observe, Todo
  <2> QED
    BY <1>1, <2>1
<1>4. CASE Persist
  <2> DEFINE a == turn.persist.alert
  <2>1. /\ a \in Alerts /\ Observed(a) \in Baseline
        /\ baselines' = [baselines EXCEPT ![a] = Observed(a)]
    <3>1. turn /= None /\ a \in DOMAIN turn.todo /\ a \in Alerts
      BY <1>4 DEF Persist, Persisting, QuotesInv, PersistOK, TurnOK
    <3> QED
      BY <1>2, <1>4, <3>1 DEF Persist
  <2> QED
    BY <1>1, <2>1
<1>5. CASE PersistRefused
  BY <1>1, <1>5 DEF PersistRefused
<1>6. CASE baselines' = NoBaselines \/ Prune \/ UNCHANGED baselines
  BY <1>1, <1>6 DEF NoBaselines, Prune
<1> QED
  BY <1>3, <1>4, <1>5, <1>6
  DEF Next, Evaluate, Quote, Rearm, RemoveAlert, Deliver, Skip, Cross, Sleep, SleepReset,
      WakeUp, ReadEvents, SleepThrough, BeginEvent, PersistInvalid, PersistFails, EndEvent,
      vars

LEMMA QuotesTypeStep ==
    ASSUME QuotesInv, [Next]_vars
    PROVE  TypeOK'
<1>1. turn' /= None => events' /= <<>>
  <2>1. turn /= None => events /= <<>>
    BY DEF QuotesInv, TypeOK
  <2>2. CASE BeginEvent
    BY <2>2 DEF BeginEvent
  <2>3. ASSUME NEW a \in Alerts, Observe(a) \/ Skip(a) \/ Cross(a)
        PROVE  turn /= None /\ UNCHANGED events
    BY <2>3 DEF Observe, Skip, Cross, Todo
  <2>4. CASE Persist \/ PersistRefused
    BY <2>1, <2>4 DEF Persist, PersistRefused, Persisting
  <2>5. CASE PersistInvalid \/ PersistFails \/ EndEvent
    BY <2>5 DEF PersistInvalid, PersistFails, GiveUp, EndEvent
  <2>6. CASE ReadEvents
    <3>1. ceiling > 0 /\ inbox /= <<>>
      BY <2>6 DEF ReadEvents, QuotesInv, TypeOK, BatchOK
    <3> QED
      BY <2>6, <3>1, BatchRead DEF QuotesInv
  <2>7. CASE SleepThrough
    BY <2>7 DEF SleepThrough
  <2>8. CASE UNCHANGED <<turn, events>>
    BY <2>1, <2>8
  <2> QED
    BY <2>1, <2>2, <2>3, <2>4, <2>5, <2>6, <2>7, <2>8
    DEF Next, Evaluate, Quote, Rearm, RemoveAlert, Deliver, Prune, Sleep, SleepReset, WakeUp, vars
<1>2. asleep' \in BOOLEAN
  BY Zenon
  DEF QuotesInv, TypeOK, Next, Evaluate, Quote, Rearm, RemoveAlert, Deliver, Skip, Cross,
      Observe, Prune, Sleep, SleepReset, WakeUp, ReadEvents, SleepThrough, BeginEvent, Persist,
      PersistRefused, PersistInvalid, PersistFails, EndEvent, vars
<1>3. errors' \in 0..MaxErrors /\ sleeps' \in 0..MaxSleeps
  <2>1. MaxErrors \in Nat /\ MaxSleeps \in Nat
    BY AlertQuotesAssumption
  <2>2. errors' = errors \/ (errors < MaxErrors /\ errors' = errors + 1)
    BY DEF Next, Evaluate, Quote, Rearm, RemoveAlert, Deliver, Skip, Cross, Observe, Prune,
           Sleep, SleepReset, WakeUp, ReadEvents, SleepThrough, BeginEvent, Persist,
           PersistRefused, PersistInvalid, PersistFails, EndEvent, vars
  <2>3. sleeps' = sleeps \/ (sleeps < MaxSleeps /\ sleeps' = sleeps + 1)
    BY DEF Next, Evaluate, Quote, Rearm, RemoveAlert, Deliver, Skip, Cross, Observe, Prune,
           Sleep, SleepReset, WakeUp, ReadEvents, SleepThrough, BeginEvent, Persist,
           PersistRefused, PersistInvalid, PersistFails, EndEvent, vars
  <2>4. errors \in 0..MaxErrors /\ sleeps \in 0..MaxSleeps
    BY DEF QuotesInv, TypeOK
  <2> QED
    BY <2>1, <2>2, <2>3, <2>4
<1> QED
  BY <1>1, <1>2, <1>3, QuotesTyped, AlertsTyped, BaselinesTyped
  DEF TypeOK, InboxTyped, BatchTyped

-----------------------------------------------------------------------------
(* Batches, prices and baselines *)

LEMMA Numbers ==
    ASSUME QuotesInv
    PROVE  /\ sequence \in Nat /\ ceiling \in Nat
           /\ inbox /= <<>> => First \in Nat
           /\ events /= <<>> => Current \in Nat
           /\ \A a \in Alerts : baselines[a] /= None => baselines[a].seq \in Nat
           /\ \A a \in Alerts : baselines[a] /= None => baselines[a].price \in Nat
           /\ \A e \in lost : e \in Nat
<1>1. sequence \in Nat /\ ceiling \in Nat /\ \A e \in lost : e \in Nat
  BY DEF QuotesInv, TypeOK
<1>2. inbox /= <<>> => First \in Nat
  BY Quotes DEF QuotesInv, TypeOK, First
<1>3. events /= <<>> => Current \in Nat
  BY Quotes DEF QuotesInv, TypeOK, Current
<1>4. ASSUME NEW a \in Alerts, baselines[a] /= None
      PROVE  baselines[a].seq \in Nat /\ baselines[a].price \in Nat
  <2>1. baselines[a] \in Baseline
    BY <1>4 DEF QuotesInv, TypeOK
  <2>2. baselines[a].seq \in 1..MaxEvents /\ baselines[a].price \in Prices
    BY <2>1 DEF Baseline
  <2>3. MaxEvents \in Nat /\ \A p \in Prices : p \in Nat
    BY AlertQuotesAssumption
  <2>4. baselines[a].seq \in Nat
    BY <2>2, <2>3
  <2> QED
    BY <2>2, <2>3, <2>4
<1> QED
  BY <1>1, <1>2, <1>3, <1>4

\* Quotes of one number in the inbox, or in the batch, are one quote.
LEMMA OneEach ==
    ASSUME NEW s \in Seq(Event), Contiguous(s), NEW i \in DOMAIN s, NEW j \in DOMAIN s,
           s[i].seq = s[j].seq
    PROVE  i = j
<1>1. Head(s).seq \in Nat /\ i \in Nat /\ j \in Nat
  BY Quotes
<1>2. s[i].seq = Head(s).seq + i - 1 /\ s[j].seq = Head(s).seq + j - 1
  BY DEF Contiguous
<1>3. ASSUME NEW h \in Nat, NEW k \in Nat, NEW l \in Nat, h + k - 1 = h + l - 1
      PROVE  k = l
  BY <1>3
<1> QED
  BY <1>1, <1>2, <1>3

LEMMA Reading ==
    ASSUME QuotesInv, ReadEvents
    PROVE  /\ inbox /= <<>> /\ UNCHANGED <<inbox, ceiling, sequence>> /\ events = <<>>
           /\ events' /= <<>> /\ Current' > sequence /\ Current' >= First
           /\ Current' = sequence + 1 \/ Current' = First
           /\ \A i \in DOMAIN events' : \E k \in DOMAIN inbox : events'[i] = inbox[k]
<1>1. UNCHANGED <<inbox, ceiling, sequence>> /\ ceiling > sequence /\ inbox /= <<>>
      /\ events = <<>>
  BY DEF ReadEvents, QuotesInv, TypeOK, BatchOK
<1> QED
  BY <1>1, BatchRead, UnreadPosition DEF QuotesInv, Current

LEMMA BatchStep ==
    ASSUME QuotesInv, [Next]_vars
    PROVE  BatchOK'
<1>1. CASE \E p \in Prices : Quote(p)
  <2>1. inbox' /= <<>> /\ (inbox /= <<>> => First' >= First)
    BY <1>1, QuoteTyped DEF First
  <2>2. UNCHANGED <<events, sequence>> /\ ceiling' = ceiling + 1 /\ Current' = Current
    BY <1>1 DEF Quote, Current
  <2>3. events /= <<>> /\ Current /= sequence + 1 => Current <= First'
    <3>1. inbox /= <<>> => First' \in Nat
      BY <1>1, <2>1, QuoteTyped, Quotes DEF InboxTyped, First
    <3> QED
      BY <2>1, <3>1, Numbers DEF QuotesInv, BatchOK
  <2>4. ASSUME NEW i \in DOMAIN events PROVE events[i].seq <= ceiling + 1
    BY Numbers, Quotes DEF QuotesInv, BatchOK, TypeOK
  <2> QED
    BY <2>1, <2>2, <2>3, <2>4 DEF QuotesInv, BatchOK
<1>2. CASE ReadEvents
  <2>1. \A k \in DOMAIN inbox : inbox[k].seq <= ceiling
    <3>1. inbox \in Seq(Event) /\ Contiguous(inbox) /\ inbox /= <<>>
          /\ inbox[Len(inbox)].seq = ceiling
      BY <1>2, Reading DEF QuotesInv, TypeOK, Last
    <3>2. Len(inbox) \in DOMAIN inbox /\ Head(inbox).seq \in Nat
      BY <3>1, Quotes
    <3>3. ceiling = Head(inbox).seq + Len(inbox) - 1
      BY <3>1, <3>2 DEF Contiguous
    <3> QED
      BY <3>1, <3>2, <3>3, Quotes DEF Contiguous
  <2>2. \A i \in DOMAIN events' : events'[i].seq <= ceiling
    BY <1>2, <2>1, Reading
  <2>3. First' = First
    BY <1>2, Reading DEF First
  <2> QED
    BY <1>2, <2>2, <2>3, Reading, Numbers DEF BatchOK
<1>3. CASE Passing
  <2>1. /\ events /= <<>> /\ sequence' = Current /\ events' = Tail(events)
        /\ UNCHANGED <<inbox, ceiling>>
    BY <1>3 DEF Passing, Passed, Current
  <2>2. /\ \A i \in DOMAIN events' : i + 1 \in DOMAIN events /\ events'[i] = events[i + 1]
        /\ events' /= <<>> => Head(events').seq = Current + 1
    BY <2>1, TailQuotes DEF QuotesInv, TypeOK, Current
  <2>3. events' /= <<>> => Current' = Current + 1
    BY <2>2 DEF Current
  <2> QED
    BY <2>1, <2>2, <2>3, Numbers DEF QuotesInv, BatchOK
<1>4. CASE GivingUp
  BY <1>4 DEF GivingUp, QuotesInv, BatchOK, First
<1>5. CASE Calm
  BY <1>5 DEF Calm, QuotesInv, BatchOK, First, Current
<1> QED
  BY <1>1, <1>2, <1>3, <1>4, <1>5, QuoteMoves

LEMMA PriceStep ==
    ASSUME QuotesInv, [Next]_vars
    PROVE  OnePrice'
<1> DEFINE Same(s, t) == \A i \in DOMAIN s, j \in DOMAIN t :
                            s[i].seq = t[j].seq => s[i].price = t[j].price
           Priced(s, b) == \A i \in DOMAIN s : s[i].seq = b.seq => s[i].price = b.price
<1>1. /\ Same(events, inbox)
      /\ \A a \in Alerts : baselines[a] /= None =>
             Priced(events, baselines[a]) /\ Priced(inbox, baselines[a])
  BY DEF QuotesInv, OnePrice
<1>2. SUFFICES
        /\ Same(events', inbox')
        /\ \A a \in Alerts : baselines'[a] /= None =>
               Priced(events', baselines'[a]) /\ Priced(inbox', baselines'[a])
  BY DEF OnePrice
<1>3. CASE \E p \in Prices : Quote(p)
  <2>1. /\ UNCHANGED <<events, baselines>>
        /\ \A j \in DOMAIN inbox' :
              \/ inbox'[j].seq = ceiling + 1
              \/ \E i \in DOMAIN inbox : inbox'[j] = inbox[i]
    BY <1>3, QuoteTyped DEF Quote
  <2>2. \A i \in DOMAIN events : events[i].seq /= ceiling + 1
    BY Numbers, Quotes DEF QuotesInv, BatchOK, TypeOK
  <2>3. \A a \in Alerts : baselines[a] /= None => baselines[a].seq /= ceiling + 1
    BY Numbers DEF QuotesInv, BaselinesBehind
  <2>4. Same(events', inbox')
    BY <1>1, <2>1, <2>2
  <2>5. ASSUME NEW a \in Alerts, baselines[a] /= None PROVE Priced(inbox', baselines[a])
    BY <1>1, <2>1, <2>3, <2>5
  <2> QED
    BY <1>1, <2>1, <2>4, <2>5
<1>4. CASE ReadEvents
  <2>1. \A i \in DOMAIN events' : \E k \in DOMAIN inbox : events'[i] = inbox[k]
    BY <1>4, Reading
  <2>2. UNCHANGED inbox /\ \A a \in Alerts : baselines'[a] \in {None, baselines[a]}
    BY <1>4 DEF ReadEvents, NoBaselines
  <2>3. Same(events', inbox)
    <3>1. \A k \in DOMAIN inbox, j \in DOMAIN inbox : inbox[k].seq = inbox[j].seq => k = j
      BY OneEach DEF QuotesInv, TypeOK
    <3> QED
      BY <2>1, <3>1
  <2>4. ASSUME NEW a \in Alerts, baselines[a] /= None PROVE Priced(events', baselines[a])
    BY <1>1, <2>1, <2>4
  <2> QED
    BY <1>1, <2>2, <2>3, <2>4
<1>5. CASE Passing
  <2>1. \A i \in DOMAIN events' : i + 1 \in DOMAIN events /\ events'[i] = events[i + 1]
    BY <1>5, TailQuotes DEF QuotesInv, TypeOK, Passing, Passed
  <2>2. UNCHANGED inbox /\ \A a \in Alerts : baselines'[a] \in {None, baselines[a]}
    BY <1>5 DEF Passing, NoBaselines
  <2>3. Same(events', inbox)
    BY <1>1, <2>1
  <2>4. ASSUME NEW a \in Alerts, baselines[a] /= None PROVE Priced(events', baselines[a])
    BY <1>1, <2>1, <2>4
  <2> QED
    BY <1>1, <2>2, <2>3, <2>4
<1>6. CASE GivingUp
  BY <1>1, <1>6 DEF GivingUp
<1>7. CASE Calm
  <2>1. UNCHANGED <<events, inbox>> /\ \A a \in Alerts : BaselineMoves(a)
    BY <1>7 DEF Calm
  <2>2. ASSUME NEW a \in Alerts, baselines'[a] /= None, baselines'[a] /= baselines[a]
        PROVE  Priced(events, baselines'[a]) /\ Priced(inbox, baselines'[a])
    <3>1. /\ events /= <<>> /\ baselines'[a].price = Head(events).price
          /\ baselines'[a].seq = Head(events).seq
      BY <2>1, <2>2 DEF BaselineMoves, Price, Current
    <3>2. 1 \in DOMAIN events /\ Head(events) = events[1]
      BY <3>1, Quotes DEF QuotesInv, TypeOK
    <3>3. Priced(inbox, baselines'[a])
      BY <1>1, <3>1, <3>2
    <3>4. \A i \in DOMAIN events : events[i].seq = events[1].seq => i = 1
      BY <3>2, OneEach DEF QuotesInv, TypeOK
    <3> QED
      BY <3>1, <3>2, <3>3, <3>4
  <2> QED
    BY <1>1, <2>1, <2>2
<1> QED
  BY <1>3, <1>4, <1>5, <1>6, <1>7, QuoteMoves

LEMMA BaselinesStep ==
    ASSUME QuotesInv, [Next]_vars
    PROVE  BaselinesBehind'
<1>1. \A a \in Alerts : baselines[a] /= None =>
         /\ baselines[a].seq <= ceiling /\ baselines[a].seq \in Nat
         /\ events /= <<>> =>
               /\ baselines[a].seq <= Current
               /\ Current /= sequence + 1 => baselines[a].seq = Current
         /\ events = <<>> /\ baselines[a].seq > sequence + 1 => First > sequence + 1
  BY Numbers DEF QuotesInv, BaselinesBehind
<1>2. CASE \E p \in Prices : Quote(p)
  <2>1. UNCHANGED <<events, baselines, sequence>> /\ ceiling' = ceiling + 1 /\ Current' = Current
    BY <1>2 DEF Quote, Current
  <2>2. /\ inbox /= <<>> => First' >= First /\ First' \in Nat
        /\ inbox = <<>> => ceiling = 0
    <3>1. inbox' \in Seq(Event) /\ inbox' /= <<>> /\ (inbox /= <<>> => First' >= First)
      BY <1>2, QuoteTyped DEF InboxTyped, First
    <3>2. First' \in Nat
      BY <3>1, Quotes DEF First
    <3> QED
      BY <3>1, <3>2, Numbers DEF QuotesInv, BatchOK
  <2>3. ASSUME NEW a \in Alerts, baselines[a] /= None, events = <<>>,
               baselines[a].seq > sequence + 1
        PROVE  First' > sequence + 1
    BY <1>1, <2>2, <2>3, Numbers
  <2>4. ASSUME NEW a \in Alerts, baselines[a] /= None PROVE baselines[a].seq <= ceiling + 1
    BY <1>1, <2>4, Numbers
  <2> QED
    BY <1>1, <2>1, <2>3, <2>4 DEF BaselinesBehind
<1>3. CASE ReadEvents
  <2>1. /\ UNCHANGED <<ceiling, sequence>>
        /\ baselines' = IF sequence < First - 1 THEN NoBaselines ELSE baselines
    BY <1>3 DEF ReadEvents
  <2>2. /\ inbox /= <<>> /\ First \in Nat /\ sequence \in Nat
        /\ events = <<>> /\ events' /= <<>> /\ Current' > sequence
        /\ Current' = sequence + 1 \/ Current' = First
    BY <1>3, Reading, Numbers
  <2>3. ASSUME NEW a \in Alerts, baselines'[a] /= None
        PROVE  /\ baselines'[a] = baselines[a] /\ baselines[a].seq <= sequence + 1
               /\ Current' = sequence + 1
    <3>1. ~(sequence < First - 1)
      BY <2>1, <2>3 DEF NoBaselines
    <3> QED
      BY <1>1, <2>1, <2>2, <2>3, <3>1
  <2>4. ASSUME NEW a \in Alerts, baselines'[a] /= None
        PROVE  /\ baselines'[a].seq <= ceiling /\ baselines'[a].seq <= Current'
               /\ Current' = sequence + 1
    BY <1>1, <2>3, <2>4
  <2> QED
    BY <2>1, <2>2, <2>4 DEF BaselinesBehind
<1>4. CASE Passing
  <2>1. /\ events /= <<>> /\ sequence' = Current /\ UNCHANGED <<inbox, ceiling>>
        /\ \A a \in Alerts : baselines'[a] \in {None, baselines[a]}
    BY <1>4 DEF Passing, Passed, Current, NoBaselines
  <2>2. events' /= <<>> => Current' = sequence' + 1
    BY <1>4, <2>1, TailQuotes DEF Passing, Passed, QuotesInv, TypeOK, Current
  <2>3. ASSUME NEW a \in Alerts, baselines'[a] /= None
        PROVE  /\ baselines'[a] = baselines[a] /\ baselines[a].seq <= ceiling
               /\ baselines[a].seq <= Current
               /\ baselines[a].seq <= Current + 1 /\ ~(baselines[a].seq > Current + 1)
    BY <1>1, <2>1, <2>3, Numbers
  <2> QED
    BY <2>1, <2>2, <2>3 DEF BaselinesBehind
<1>5. CASE GivingUp
  <2>1. UNCHANGED <<inbox, ceiling, sequence, baselines>> /\ events' = <<>> /\ First' = First
    BY <1>5 DEF GivingUp, First
  <2>2. ASSUME NEW a \in Alerts, baselines[a] /= None, events /= <<>>,
               baselines[a].seq > sequence + 1
        PROVE  First > sequence + 1
    <3>1. Current <= First /\ Current > sequence + 1 /\ Current \in Nat /\ First \in Nat
      <4>1. Current /= sequence + 1 /\ Current > sequence
        BY <1>1, <2>2, Numbers DEF QuotesInv, BatchOK
      <4> QED
        BY <2>2, <4>1, Numbers DEF QuotesInv, BatchOK
    <3> QED
      BY <3>1, Numbers
  <2> QED
    BY <1>1, <2>1, <2>2 DEF BaselinesBehind
<1>6. CASE Calm
  <2>1. /\ UNCHANGED <<inbox, ceiling, sequence, events>> /\ Current' = Current
        /\ First' = First /\ \A a \in Alerts : BaselineMoves(a)
    BY <1>6 DEF Calm, Current, First
  <2>2. events /= <<>> => Current <= ceiling /\ Current \in Nat
    BY Quotes, Numbers DEF QuotesInv, TypeOK, BatchOK, Current
  <2>3. ASSUME NEW a \in Alerts, baselines'[a] /= None
        PROVE  \/ baselines'[a] = baselines[a]
               \/ events /= <<>> /\ baselines'[a].seq = Current
    BY <2>1, <2>3 DEF BaselineMoves
  <2> QED
    BY <1>1, <2>1, <2>2, <2>3 DEF BaselinesBehind
<1> QED
  BY <1>2, <1>3, <1>4, <1>5, <1>6, QuoteMoves

LEMMA LostStep ==
    ASSUME QuotesInv, [Next]_vars
    PROVE  LostBehind'
<1>1. /\ \A a \in Alerts, e \in lost : baselines[a] /= None => e <= baselines[a].seq
      /\ \A e \in lost : events /= <<>> => e < Current
      /\ \A e \in lost : events = <<>> /\ e > sequence => e < First
      /\ \A e \in lost : e \in Nat
      /\ sequence \in Nat
  BY Numbers DEF QuotesInv, LostBehind
<1>2. CASE \E p \in Prices : Quote(p)
  <2>1. UNCHANGED <<events, baselines, sequence, lost>> /\ Current' = Current
    BY <1>2 DEF Quote, Current
  <2>2. ASSUME NEW e \in lost, events = <<>>, e > sequence PROVE e < First'
    <3>1. inbox' \in Seq(Event) /\ inbox' /= <<>> /\ (inbox /= <<>> => First' >= First)
      BY <1>2, QuoteTyped DEF InboxTyped, First
    <3>2. First' \in Nat
      BY <3>1, Quotes DEF First
    <3>3. inbox /= <<>>
      BY <2>2, <1>1, Numbers DEF QuotesInv, TypeOK, BatchOK
    <3> QED
      BY <1>1, <2>2, <3>1, <3>2, <3>3, Numbers
  <2> QED
    BY <1>1, <2>1, <2>2 DEF LostBehind
<1>3. CASE ReadEvents
  <2>1. /\ lost' = lost \cup (sequence + 1 .. First - 1)
        /\ baselines' = IF sequence < First - 1 THEN NoBaselines ELSE baselines
    BY <1>3 DEF ReadEvents
  <2>2. /\ First \in Nat /\ events = <<>> /\ events' /= <<>>
        /\ Current' \in Nat /\ Current' > sequence /\ Current' >= First
    BY <1>3, Reading, Numbers
  <2>3. ASSUME NEW e \in lost' PROVE e < Current'
    <3>1. CASE e \in lost
      BY <1>1, <2>2, <3>1
    <3>2. CASE e \in sequence + 1 .. First - 1
      BY <1>1, <2>2, <3>2
    <3> QED
      BY <2>1, <2>3, <3>1, <3>2
  <2>4. ASSUME NEW a \in Alerts, NEW e \in lost', baselines'[a] /= None
        PROVE  e <= baselines'[a].seq
    <3>1. ~(sequence < First - 1)
      BY <2>1, <2>4 DEF NoBaselines
    <3>2. e \in lost
      BY <1>1, <2>1, <2>2, <2>4, <3>1
    <3> QED
      BY <1>1, <2>1, <2>4, <3>1, <3>2
  <2> QED
    BY <2>2, <2>3, <2>4 DEF LostBehind
<1>4. CASE Passing
  <2>1. /\ events /= <<>> /\ sequence' = Current /\ lost' \subseteq lost \cup {Current}
        /\ Current \in Nat
        /\ \/ UNCHANGED <<baselines, lost>>
           \/ \A a \in Alerts : baselines'[a] = None
    BY <1>4, Numbers DEF Passing, Passed, Current, NoBaselines
  <2>2. events' /= <<>> => Current' = Current + 1
    BY <1>4, <2>1, TailQuotes DEF Passing, Passed, QuotesInv, TypeOK, Current
  <2>3. \A e \in lost' : e <= Current /\ e \in Nat
    BY <1>1, <2>1
  <2>4. ASSUME NEW e \in lost' PROVE ~(e > Current) /\ e < Current + 1
    BY <2>1, <2>3, <2>4
  <2> QED
    BY <1>1, <2>1, <2>2, <2>4 DEF LostBehind
<1>5. CASE GivingUp
  <2>1. UNCHANGED <<inbox, ceiling, sequence, baselines, lost>> /\ events' = <<>> /\ First' = First
    BY <1>5 DEF GivingUp, First
  <2>2. ASSUME NEW e \in lost, events /= <<>>, e > sequence PROVE e < First
    <3>1. Current /= sequence + 1
      BY <1>1, <2>2, Numbers
    <3> QED
      BY <1>1, <2>2, <3>1, Numbers DEF QuotesInv, BatchOK
  <2> QED
    BY <1>1, <2>1, <2>2 DEF LostBehind
<1>6. CASE Calm
  <2>1. /\ UNCHANGED <<inbox, ceiling, sequence, events, lost>> /\ Current' = Current
        /\ First' = First /\ \A a \in Alerts : BaselineMoves(a)
    BY <1>6 DEF Calm, Current, First
  <2>2. ASSUME NEW a \in Alerts, NEW e \in lost, baselines'[a] /= None
        PROVE  e <= baselines'[a].seq
    BY <1>1, <2>1, <2>2, Numbers DEF BaselineMoves
  <2> QED
    BY <1>1, <2>1, <2>2 DEF LostBehind
<1> QED
  BY <1>2, <1>3, <1>4, <1>5, <1>6, QuoteMoves

-----------------------------------------------------------------------------
(* The event in work and the crossings *)

LEMMA TurnStep ==
    ASSUME QuotesInv, [Next]_vars
    PROVE  TurnOK'
<1>1. turn /= None => /\ events /= <<>> /\ DOMAIN turn.todo \subseteq Alerts
                      /\ DOMAIN turn = {"todo", "persist"}
                      /\ \A a \in DOMAIN turn.todo : turn.todo[a].gen \in 1..MaxGen
  BY DEF QuotesInv, TurnOK
<1>2. turn' /= None => events' /= <<>>
  BY QuotesTypeStep DEF TypeOK
<1>3. CASE UNCHANGED turn
  BY <1>1, <1>2, <1>3 DEF TurnOK
<1>4. CASE turn' = None
  BY <1>4 DEF TurnOK
<1>5. CASE BeginEvent
  <2>1. turn' = [todo |-> [a \in Active |-> rows[a]], persist |-> None]
    BY <1>5 DEF BeginEvent
  <2>2. \A a \in Active : a \in Alerts /\ rows[a].gen \in 1..MaxGen
    BY DEF QuotesInv, TypeOK, Active, Row
  <2> QED
    BY <1>2, <2>1, <2>2 DEF TurnOK
<1>6. ASSUME NEW a \in Alerts, turn /= None,
             turn' = [turn EXCEPT !.todo = Rest(a)] \/ turn' = [todo |-> Rest(a), persist |-> None]
      PROVE  TurnOK'
  <2>1. turn'.todo = Rest(a) /\ DOMAIN turn' = {"todo", "persist"}
    BY <1>1, <1>6
  <2> QED
    BY <1>1, <1>2, <1>6, <2>1 DEF TurnOK, Rest
<1>7. ASSUME NEW a \in Alerts, Observe(a) \/ Skip(a) PROVE TurnOK'
  BY <1>6, <1>7 DEF Observe, Skip, Todo
<1>8. ASSUME NEW a \in Alerts, Cross(a) PROVE TurnOK'
  <2>1. turn /= None /\ turn' = [turn EXCEPT !.persist = [alert |-> a, base |-> baselines[a]]]
    BY <1>8 DEF Cross, Todo
  <2>2. turn'.todo = turn.todo /\ DOMAIN turn' = {"todo", "persist"}
    BY <1>1, <2>1
  <2> QED
    BY <1>1, <1>2, <2>1, <2>2 DEF TurnOK
<1>9. CASE Persist \/ PersistRefused
  <2>1. turn /= None /\ turn.persist.alert \in Alerts
    BY <1>9 DEF Persist, PersistRefused, Persisting, QuotesInv, PersistOK, TurnOK
  <2> QED
    BY <1>6, <1>9, <2>1 DEF Persist, PersistRefused
<1> QED
  BY <1>3, <1>4, <1>5, <1>7, <1>8, <1>9
  DEF Next, Evaluate, Quote, Rearm, RemoveAlert, Deliver, Prune, Sleep, SleepReset, WakeUp,
      ReadEvents, SleepThrough, PersistInvalid, PersistFails, GiveUp, EndEvent, vars

LEMMA PersistStep ==
    ASSUME QuotesInv, [Next]_vars
    PROVE  PersistOK'
<1>1. turn /= None => events /= <<>> /\ DOMAIN turn = {"todo", "persist"}
  BY DEF QuotesInv, TurnOK
<1>2. CASE UNCHANGED <<turn, events, sequence, lost>>
  BY <1>2 DEF QuotesInv, PersistOK, Persisting, Current
<1>3. CASE ReadEvents \/ SleepThrough
  <2>1. turn = None /\ turn' = turn
    BY <1>1, <1>3 DEF ReadEvents, SleepThrough
  <2> QED
    BY <2>1 DEF PersistOK, Persisting
<1>4. CASE turn' = None
  BY <1>4 DEF PersistOK, Persisting
<1>5. CASE BeginEvent \/ Persist \/ PersistRefused
  <2>1. turn'.persist = None
    BY <1>5 DEF BeginEvent, Persist, PersistRefused
  <2> QED
    BY <2>1 DEF PersistOK, Persisting
<1>6. ASSUME NEW a \in Alerts, Observe(a) \/ Skip(a) PROVE PersistOK'
  <2>1. turn /= None /\ turn.persist = None /\ turn' = [turn EXCEPT !.todo = Rest(a)]
    BY <1>6 DEF Observe, Skip, Todo
  <2>2. turn'.persist = None
    BY <1>1, <2>1
  <2> QED
    BY <2>2 DEF PersistOK, Persisting
<1>7. ASSUME NEW a \in Alerts, Cross(a) PROVE PersistOK'
  <2> DEFINE base == baselines[a]
  <2>1. /\ turn /= None /\ a \in DOMAIN turn.todo
        /\ turn' = [turn EXCEPT !.persist = [alert |-> a, base |-> base]]
        /\ UNCHANGED <<events, sequence, lost>>
    BY <1>7 DEF Cross, Todo
  <2>2. /\ turn'.todo = turn.todo /\ turn'.persist.alert = a /\ turn'.persist.base = base
        /\ Current' = Current
    BY <1>1, <2>1 DEF Current
  <2>3. base /= None /\ base.gen = turn.todo[a].gen /\ CrossHit(base.price, Price, Direction[a])
    BY <1>7 DEF Cross, Hit, Known
  <2>4. events /= <<>> /\ 1 \in DOMAIN events /\ Head(events) = events[1]
    BY <1>1, <2>1, Quotes DEF QuotesInv, TypeOK
  <2>5. base.price /= Price
    <3>1. base.price \in Nat /\ Price \in Nat /\ Level \in Nat
      BY <2>3, <2>4, Numbers, Quotes, AlertQuotesAssumption DEF QuotesInv, TypeOK, Price
    <3> QED
      BY <2>3, <3>1 DEF CrossHit
  <2>6. base.seq /= Current
    BY <2>3, <2>4, <2>5 DEF QuotesInv, OnePrice, Current, Price
  <2>7. base.seq \in Nat /\ base.seq < Current /\ Current = sequence + 1
    <3>1. /\ base.seq \in Nat /\ Current \in Nat /\ base.seq <= Current
          /\ Current /= sequence + 1 => base.seq = Current
      BY <2>3, <2>4, Numbers DEF QuotesInv, BaselinesBehind
    <3> QED
      BY <2>6, <3>1
  <2>8. \A e \in lost : e <= base.seq
    BY <2>3 DEF QuotesInv, LostBehind
  <2> HIDE DEF base
  <2> QED
    BY <2>1, <2>2, <2>3, <2>7, <2>8 DEF PersistOK
<1> QED
  BY <1>2, <1>3, <1>4, <1>5, <1>6, <1>7
  DEF Next, Evaluate, Quote, Rearm, RemoveAlert, Deliver, Prune, Sleep, SleepReset, WakeUp,
      PersistInvalid, PersistFails, GiveUp, EndEvent, vars

LEMMA FiresStep ==
    ASSUME QuotesInv, [Next]_vars
    PROVE  FiresOK'
<1>1. /\ \A f \in fires : /\ f.base.gen = f.gen /\ f.base.seq < f.seq
                          /\ f.seq <= sequence + 1 /\ f.base.seq \in Nat /\ f.seq \in Nat
                          /\ \A e \in lost : ~(f.base.seq < e /\ e < f.seq)
      /\ sequence \in Nat
  BY Numbers DEF QuotesInv, FiresOK, CrossingsAreSeen
<1>2. CASE Persist
  <2> DEFINE a == turn.persist.alert
             f == [gen |-> rows[a].gen, base |-> turn.persist.base, seq |-> Current]
  <2>1. /\ fires' = fires \cup {f} /\ UNCHANGED <<sequence, lost>>
        /\ rows[a].gen = turn.todo[a].gen /\ Persisting
    BY <1>2 DEF Persist, Fireable, Current
  <2>2. /\ f.base.gen = f.gen /\ f.base.seq < f.seq /\ f.seq = sequence + 1
        /\ f.base.seq \in Nat /\ f.seq \in Nat
        /\ \A e \in lost : e <= f.base.seq
    BY <2>1, <1>1 DEF QuotesInv, PersistOK
  <2>3. \A e \in lost : ~(f.base.seq < e /\ e < f.seq)
    <3>1. \A e \in lost : e \in Nat
      BY Numbers
    <3> QED
      BY <2>2, <3>1
  <2> HIDE DEF f
  <2> QED
    BY <1>1, <2>1, <2>2, <2>3 DEF FiresOK, CrossingsAreSeen
<1>3. CASE UNCHANGED <<fires, sequence, lost>>
  BY <1>1, <1>3 DEF FiresOK, CrossingsAreSeen
<1>4. CASE ReadEvents
  <2>1. UNCHANGED <<fires, sequence>> /\ lost' = lost \cup (sequence + 1 .. First - 1)
        /\ First \in Nat
    BY <1>4, Reading, Numbers DEF ReadEvents
  <2>2. ASSUME NEW f \in fires, NEW e \in sequence + 1 .. First - 1
        PROVE  ~(f.base.seq < e /\ e < f.seq)
    BY <1>1, <2>1, <2>2
  <2> QED
    BY <1>1, <2>1, <2>2 DEF FiresOK, CrossingsAreSeen
<1>5. CASE SleepThrough \/ EndEvent
  <2>1. /\ UNCHANGED fires /\ sequence' = Current /\ lost' \subseteq lost \cup {Current}
        /\ events /= <<>>
    BY <1>5 DEF SleepThrough, EndEvent, Passed, Current, QuotesInv, TurnOK
  <2>2. Current > sequence /\ Current \in Nat
    BY <2>1, Numbers DEF QuotesInv, BatchOK
  <2>3. ASSUME NEW f \in fires
        PROVE  f.seq <= Current + 1 /\ ~(f.base.seq < Current /\ Current < f.seq)
    BY <1>1, <2>2, <2>3
  <2> QED
    BY <1>1, <2>1, <2>3 DEF FiresOK, CrossingsAreSeen
<1> QED
  BY <1>2, <1>3, <1>4, <1>5
  DEF Next, Evaluate, Quote, Rearm, RemoveAlert, Deliver, Skip, Cross, Observe, Prune, Sleep,
      SleepReset, WakeUp, BeginEvent, PersistRefused, PersistInvalid, PersistFails, vars

-----------------------------------------------------------------------------
(* The theorems *)

LEMMA QuotesInit == Init => QuotesInv
<1> SUFFICES ASSUME Init PROVE QuotesInv
  OBVIOUS
<1>1. TypeOK
  <2>1. MaxGen \in Nat \ {0} /\ Capacity \in Nat /\ Limit \in Nat /\ MaxEvents \in Nat
        /\ MaxErrors \in Nat /\ MaxSleeps \in Nat
    BY AlertQuotesAssumption
  <2>2. rows \in [Alerts -> Row \cup {None}] /\ newest \in [Alerts -> 0..MaxGen]
    <3>1. 0 \in 0..MaxGen /\ 1 \in 0..MaxGen /\ 1 \in 1..MaxGen
      BY <2>1
    <3>2. [gen |-> 1, armed |-> TRUE, delivered |-> FALSE] \in Row
      BY <3>1 DEF Row
    <3>3. rows \in [Alerts -> Row \cup {None}]
      BY <3>2 DEF Init
    <3> QED
      BY <3>1, <3>3 DEF Init
  <2>3. inbox \in Seq(Event) /\ Len(inbox) <= Capacity /\ inbox = <<>>
        /\ events \in Seq(Event) /\ Len(events) <= Limit
    BY <2>1 DEF Init
  <2>4. Contiguous(inbox) /\ Contiguous(events)
    BY DEF Init, Contiguous
  <2>5. baselines \in [Alerts -> Baseline \cup {None}] /\ asleep \in BOOLEAN
    BY DEF Init, NoBaselines
  <2>6. /\ ceiling \in 0..MaxEvents /\ sequence \in 0..ceiling /\ lost \subseteq 1..ceiling
        /\ errors \in 0..MaxErrors /\ sleeps \in 0..MaxSleeps /\ turn = None
    BY <2>1 DEF Init
  <2> QED
    BY <2>2, <2>3, <2>4, <2>5, <2>6 DEF TypeOK
<1>2. TurnOK /\ PersistOK
  BY DEF Init, TurnOK, PersistOK, Persisting
<1>3. BatchOK /\ OnePrice /\ BaselinesBehind /\ LostBehind
  BY DEF Init, NoBaselines, BatchOK, OnePrice, BaselinesBehind, LostBehind
<1>4. FiresOK
  BY DEF Init, FiresOK, CrossingsAreSeen
<1> QED
  BY <1>1, <1>2, <1>3, <1>4 DEF QuotesInv

\* The inbox, the batch and the lost events are typed and contiguous, and the
\* strengthening holds with them, for any alerts, prices and sizes.
THEOREM QuotesInvariant == Spec => []QuotesInv
<1>1. QuotesInv /\ [Next]_vars => QuotesInv'
  BY QuotesTypeStep, TurnStep, BatchStep, PriceStep, BaselinesStep, LostStep, PersistStep,
     FiresStep
  DEF QuotesInv
<1> QED
  BY <1>1, QuotesInit, PTL DEF Spec

\* No crossing is committed whose earlier price another generation saw, or that has
\* a dropped or slept-through event between its two prices: the loop gives batches
\* up and reads them again, and the monitor prunes and resets while a crossing is
\* being persisted.
THEOREM CrossingsAreSeenTheorem == Spec => []CrossingsAreSeen
<1>1. QuotesInv => CrossingsAreSeen
  BY DEF QuotesInv, FiresOK
<1> QED
  BY <1>1, QuotesInvariant, PTL
=============================================================================
