---------------------------- MODULE DtxEventsProofs ----------------------------
(***************************************************************************)
(* Theorems about DtxEvents for any receivers, selectors and bounds.  The  *)
(* argument: the reader is the only one that adds events, and the event it *)
(* holds is newer than every event queued or received before.              *)
(***************************************************************************)
EXTENDS DtxEvents, SequenceTheorems, TLAPS

\* Every event queued in q, or received from it, is older than the event the
\* reader is delivering to q, and no newer than the last event dispatched.
Older(q) ==
    LET bound == IF Busy(q) THEN reader.event - 1 ELSE events
    IN  received[q] <= bound /\ \A i \in 1..Len(queues[q]) : queues[q][i] <= bound

InHand ==
    reader.pc # "read" => reader.event <= events /\ newest[reader.queue] = reader.event

IInv ==
    /\ TypeOK /\ InHand
    /\ NewestSurvives /\ ReceivedInOrder
    /\ \A q \in QueueIds : Older(q)

-----------------------------------------------------------------------------
(* Sequences of events *)

LEMMA AppendInOrder ==
    ASSUME NEW s \in Seq(Nat), NEW last \in Nat, NEW e \in Nat, InOrder(s, last),
           last < e, \A i \in 1..Len(s) : s[i] < e
    PROVE  InOrder(Append(s, e), last)
  BY DEF InOrder

LEMMA TailInOrder ==
    ASSUME NEW s \in Seq(Nat), NEW last \in Nat, InOrder(s, last), s # << >>
    PROVE  /\ InOrder(Tail(s), last)
           /\ InOrder(Tail(s), Head(s))
           /\ Head(s) \in Nat /\ Tail(s) \in Seq(Nat)
           /\ Len(Tail(s)) = Len(s) - 1
           /\ \A i \in 1..Len(Tail(s)) : Tail(s)[i] = s[i + 1]
  BY DEF InOrder

-----------------------------------------------------------------------------
(* The invariant *)

USE DEF tables, QueueIds

LEMMA InitInv == Init => IInv
<1> SUFFICES ASSUME Init PROVE IInv
  OBVIOUS
<1>1. TypeOK
  BY EventsAssumption DEF Init, TypeOK
<1> QED
  BY <1>1, EventsAssumption DEF Init, IInv, InHand, NewestSurvives, ReceivedInOrder, InOrder,
                                Older, Busy

LEMMA RegisterInv ==
    ASSUME IInv, NEW s \in Selectors, RegisterMethodForRemote(s) PROVE IInv'
<1> USE DEF RegisterMethodForRemote
<1>1. TypeOK'
  BY EventsAssumption DEF IInv, TypeOK
<1> QED
  BY <1>1 DEF IInv, InHand, NewestSurvives, ReceivedInOrder, Older, Busy

LEMMA DispatchInv ==
    ASSUME IInv, NEW s \in Selectors, Dispatch(s) PROVE IInv'
<1> USE DEF Dispatch
<1> DEFINE k == registeredMethods[s]
<1>1. k \in QueueIds
  BY EventsAssumption DEF IInv, TypeOK
<1>2. TypeOK'
  BY <1>1, EventsAssumption DEF IInv, TypeOK
<1>3. \A q \in QueueIds : ~Busy(q) /\ (Busy(q)' <=> q = k)
  BY DEF Busy
<1>4. NewestSurvives'
  BY <1>1, <1>3 DEF IInv, NewestSurvives, TypeOK
<1>5. ReceivedInOrder'
  BY DEF IInv, ReceivedInOrder
<1>6. \A q \in QueueIds : Older(q)'
  <2> SUFFICES ASSUME NEW q \in QueueIds PROVE Older(q)'
    OBVIOUS
  <2>1. /\ received[q] <= events
        /\ \A i \in 1..Len(queues[q]) : queues[q][i] <= events
    BY <1>3 DEF IInv, Older
  <2>2. /\ received[q] \in Nat /\ queues[q] \in Seq(Nat) /\ events \in Nat
        /\ \A i \in 1..Len(queues[q]) : queues[q][i] \in Nat
    BY ElementOfSeq DEF IInv, TypeOK
  <2> QED
    BY <2>1, <2>2 DEF Older
<1>7. InHand'
  BY <1>1 DEF IInv, TypeOK, InHand
<1> QED
  BY <1>2, <1>4, <1>5, <1>6, <1>7 DEF IInv

LEMMA SendInv == ASSUME IInv, SendEvent PROVE IInv'
<1> USE DEF SendEvent, HasRoom
<1>1. PICK k \in QueueIds : k = reader.queue
  BY EventsAssumption DEF IInv, TypeOK
<1>2. PICK e \in Nat : e = reader.event
  BY DEF IInv, TypeOK
<1>3. PICK s \in Seq(Nat) : s = queues[k]
  BY <1>1 DEF IInv, TypeOK
<1>4. PICK new \in Seq(Nat) : new = Append(s, e)
  BY <1>2, <1>3, AppendProperties
<1>5. /\ Len(new) = Len(s) + 1 /\ new # << >> /\ new[Len(new)] = e
      /\ \A i \in 1..Len(new) : new[i] = IF i = Len(new) THEN e ELSE s[i]
  BY <1>2, <1>3, <1>4
<1>6. queues' = [queues EXCEPT ![k] = new]
  BY <1>1, <1>2, <1>3, <1>4
<1>7. Busy(k) /\ (\A q \in QueueIds : ~Busy(q)' /\ (q # k => ~Busy(q)))
  BY <1>1 DEF Busy, IInv, TypeOK
<1>8. /\ e <= events /\ newest[k] = e /\ received[k] \in Nat /\ received[k] < e
      /\ \A i \in 1..Len(s) : s[i] < e
  <2>1. e <= events /\ newest[k] = e /\ Older(k) /\ received[k] \in Nat /\ events \in Nat
    BY <1>1, <1>2 DEF IInv, InHand, TypeOK
  <2> QED
    BY <1>2, <1>3, <1>7, <2>1 DEF Older
<1>9. TypeOK'
  <2>1. queues' \in [QueueIds -> Seq(Nat)]
    BY <1>6 DEF IInv, TypeOK
  <2>2. \A q \in QueueIds : Len(queues'[q]) <= Buffer
    BY <1>1, <1>3, <1>5, <1>6, EventsAssumption DEF IInv, TypeOK
  <2> QED
    BY <2>1, <2>2 DEF IInv, TypeOK
<1>10. NewestSurvives'
  BY <1>5, <1>6, <1>7, <1>8 DEF IInv, NewestSurvives, TypeOK
<1>11. ReceivedInOrder'
  <2>1. InOrder(new, received[k])
    BY <1>3, <1>4, <1>8, AppendInOrder DEF IInv, ReceivedInOrder
  <2> QED
    BY <1>6, <2>1 DEF IInv, ReceivedInOrder, TypeOK
<1>12. \A q \in QueueIds : Older(q)'
  <2>1. events \in Nat /\ received[k] <= events
    BY <1>2, <1>8 DEF IInv, TypeOK
  <2>2. \A i \in 1..Len(new) : new[i] <= events
    <3> SUFFICES ASSUME NEW i \in 1..Len(new) PROVE new[i] <= events
      OBVIOUS
    <3>1. CASE i = Len(new)
      BY <1>5, <1>8, <3>1
    <3>2. CASE i # Len(new)
      <4>1. i \in 1..Len(s)
        BY <1>3, <1>4, <1>5, <3>2
      <4>2. new[i] = s[i] /\ s[i] < e
        BY <1>5, <1>8, <3>2, <4>1
      <4>3. s[i] \in Nat
        BY <1>3, <4>1, ElementOfSeq
      <4>4. e \in Nat /\ e <= events
        BY <1>2, <1>8
      <4> HIDE DEF SendEvent
      <4> QED
        BY <2>1, <4>2, <4>3, <4>4
    <3> QED
      BY <3>1, <3>2
  <2> SUFFICES ASSUME NEW q \in QueueIds PROVE Older(q)'
    OBVIOUS
  <2>3. CASE q = k
    BY <1>1, <1>6, <1>7, <2>1, <2>2, <2>3 DEF IInv, TypeOK, Older
  <2>4. CASE q # k
    BY <1>6, <1>7, <2>4 DEF IInv, TypeOK, Older
  <2> QED
    BY <2>3, <2>4
<1>13. InHand'
  BY DEF InHand
<1> QED
  BY <1>9, <1>10, <1>11, <1>12, <1>13 DEF IInv

LEMMA DropInv == ASSUME IInv, DropOldest PROVE IInv'
<1> USE DEF DropOldest
<1>1. PICK k \in QueueIds : k = reader.queue
  BY EventsAssumption DEF IInv, TypeOK
<1>2. PICK s \in Seq(Nat) : s = queues[k]
  BY <1>1 DEF IInv, TypeOK
<1>3. InOrder(s, received[k]) /\ Older(k) /\ Busy(k) /\ received[k] \in Nat
  BY <1>1, <1>2 DEF IInv, ReceivedInOrder, Busy, TypeOK
<1>4. PICK new \in Seq(Nat) :
         /\ new = WithoutOldest(s) /\ Len(new) <= Len(s) /\ InOrder(new, received[k])
         /\ \A i \in 1..Len(new) : \E j \in 1..Len(s) : new[i] = s[j]
  <2>1. CASE s = << >>
    <3>1. WithoutOldest(s) = s /\ Len(s) <= Len(s)
      BY <1>2, <2>1 DEF WithoutOldest
    <3> QED
      BY <1>2, <1>3, <3>1
  <2>2. CASE s # << >>
    <3>1. /\ Tail(s) \in Seq(Nat) /\ Len(Tail(s)) = Len(s) - 1 /\ Len(s) \in Nat
          /\ InOrder(Tail(s), received[k])
          /\ \A i \in 1..Len(Tail(s)) : Tail(s)[i] = s[i + 1]
      BY <1>2, <1>3, <2>2, TailInOrder, LenProperties
    <3>2. \A i \in 1..Len(Tail(s)) : i + 1 \in 1..Len(s)
      BY <3>1
    <3>3. WithoutOldest(s) = Tail(s)
      BY <2>2 DEF WithoutOldest
    <3>4. Len(Tail(s)) <= Len(s)
      BY <3>1
    <3>5. \A i \in 1..Len(Tail(s)) : \E j \in 1..Len(s) : Tail(s)[i] = s[j]
      BY <3>1, <3>2
    <3> QED
      BY <3>1, <3>3, <3>4, <3>5
  <2> QED
    BY <2>1, <2>2
<1>5. queues' = [queues EXCEPT ![k] = new]
  BY <1>1, <1>2, <1>4
<1>6. \A q \in QueueIds : Busy(q)' = Busy(q) /\ (q # k => ~Busy(q))
  BY <1>1 DEF Busy, IInv, TypeOK
<1>7. TypeOK'
  <2>1. queues' \in [QueueIds -> Seq(Nat)]
    BY <1>5 DEF IInv, TypeOK
  <2>2. \A q \in QueueIds : Len(queues'[q]) <= Buffer
    <3>1. Len(new) <= Buffer
      <4>1. Len(s) <= Buffer /\ Len(s) \in Nat /\ Len(new) \in Nat
        BY <1>2, <1>4, LenProperties DEF IInv, TypeOK
      <4> QED
        BY <1>4, <4>1, EventsAssumption
    <3> QED
      BY <1>5, <3>1 DEF IInv, TypeOK
  <2> QED
    BY <2>1, <2>2 DEF IInv, TypeOK
<1>8. NewestSurvives'
  BY <1>3, <1>5, <1>6 DEF IInv, NewestSurvives, TypeOK
<1>9. ReceivedInOrder'
  BY <1>4, <1>5 DEF IInv, ReceivedInOrder, TypeOK
<1>10. \A q \in QueueIds : Older(q)'
  <2> SUFFICES ASSUME NEW q \in QueueIds PROVE Older(q)'
    OBVIOUS
  <2>1. /\ queues'[q] = IF q = k THEN new ELSE queues[q]
        /\ Busy(q)' = Busy(q) /\ reader'.event = reader.event
        /\ UNCHANGED <<events, received>>
    BY <1>5, <1>6 DEF IInv, TypeOK
  <2>2. CASE q = k
    <3>1. \A i \in 1..Len(s) : s[i] <= reader.event - 1
      BY <1>2, <1>3 DEF Older
    <3>2. \A i \in 1..Len(new) : new[i] <= reader.event - 1
      BY <1>4, <3>1
    <3> QED
      BY <1>3, <2>1, <2>2, <3>2 DEF Older
  <2>3. CASE q # k
    BY <2>1, <2>3 DEF IInv, Older
  <2> QED
    BY <2>2, <2>3
<1>11. InHand'
  BY DEF IInv, InHand
<1> QED
  BY <1>7, <1>8, <1>9, <1>10, <1>11 DEF IInv

LEMMA TakeInv == ASSUME IInv, NEW r \in Receivers, TakeEvent(r) PROVE IInv'
<1> USE DEF TakeEvent
<1>1. PICK k \in QueueIds : k = receiver[r].queue
  BY EventsAssumption DEF IInv, TypeOK
<1>2. PICK s \in Seq(Nat) : s = queues[k] /\ s # << >>
  BY <1>1 DEF IInv, TypeOK
<1>3. InOrder(s, received[k]) /\ Older(k) /\ received[k] \in Nat
  BY <1>2 DEF IInv, ReceivedInOrder, TypeOK
<1>4. PICK new \in Seq(Nat) :
         /\ new = Tail(s) /\ Len(new) = Len(s) - 1 /\ InOrder(new, Head(s))
         /\ \A i \in 1..Len(new) : new[i] = s[i + 1] /\ i + 1 \in 1..Len(s)
  <2>1. /\ Tail(s) \in Seq(Nat) /\ Len(Tail(s)) = Len(s) - 1 /\ Len(s) \in Nat
        /\ InOrder(Tail(s), Head(s))
        /\ \A i \in 1..Len(Tail(s)) : Tail(s)[i] = s[i + 1]
    BY <1>2, <1>3, TailInOrder, LenProperties
  <2>2. \A i \in 1..Len(Tail(s)) : i + 1 \in 1..Len(s)
    BY <2>1
  <2> QED
    BY <2>1, <2>2
<1>5. PICK h \in Nat : h = Head(s) /\ h = s[1]
  BY <1>2
<1>13. /\ Len(s) \in Nat /\ Len(s) # 0 /\ 1 \in 1..Len(s) /\ Len(s) \in 1..Len(s)
  <2>1. Len(s) \in Nat /\ Len(s) # 0
    BY <1>2, LenProperties, EmptySeq
  <2> QED
    BY <2>1
<1>6. queues' = [queues EXCEPT ![k] = new] /\ received' = [received EXCEPT ![k] = h]
  BY <1>1, <1>2, <1>4, <1>5
<1>7. \A q \in QueueIds : Busy(q)' = Busy(q)
  BY DEF Busy
<1>8. TypeOK'
  <2>1. queues' \in [QueueIds -> Seq(Nat)] /\ received' \in [QueueIds -> Nat]
    <3>1. queues \in [QueueIds -> Seq(Nat)] /\ received \in [QueueIds -> Nat]
      BY DEF IInv, TypeOK
    <3> QED
      BY <1>6, <3>1
  <2>2. \A q \in QueueIds : Len(queues'[q]) <= Buffer
    BY <1>2, <1>4, <1>6, EventsAssumption DEF IInv, TypeOK
  <2>3. receiver' \in [Receivers -> [pc : {"idle", "waiting"}, queue : 0..made]]
    BY DEF IInv, TypeOK
  <2>4. UNCHANGED <<registeredMethods, made, newest, reader, events>>
    OBVIOUS
  <2> HIDE DEF TakeEvent
  <2> QED
    BY <2>1, <2>2, <2>3, <2>4 DEF IInv, TypeOK
<1>9. NewestSurvives'
  <2>1. ~Busy(k) => newest[k] = s[Len(s)]
    BY <1>2 DEF IInv, NewestSurvives
  <2>2. ~Busy(k) => newest[k] = IF new = << >> THEN h ELSE new[Len(new)]
    <3>1. CASE Len(s) = 1
      <4>1. new = << >>
        BY <1>4, <3>1, EmptySeq
      <4> QED
        BY <1>5, <2>1, <3>1, <4>1
    <3>2. CASE Len(s) # 1
      <4>1. Len(s) \in Nat /\ Len(s) > 1
        <5>1. \A n \in Nat : n # 0 /\ n # 1 => n > 1
          OBVIOUS
        <5> QED
          BY <1>13, <3>2, <5>1, Zenon
      <4>2. Len(new) \in 1..Len(new) /\ Len(new) + 1 = Len(s)
        BY <1>4, <4>1
      <4>3. new # << >>
        BY <4>2, EmptySeq
      <4>4. new[Len(new)] = s[Len(s)]
        BY <1>4, <4>2
      <4> QED
        BY <2>1, <4>3, <4>4
    <3> QED
      BY <3>1, <3>2
  <2> QED
    BY <1>6, <1>7, <2>2 DEF IInv, NewestSurvives, TypeOK
<1>10. ReceivedInOrder'
  BY <1>4, <1>5, <1>6 DEF IInv, ReceivedInOrder, TypeOK
<1>11. \A q \in QueueIds : Older(q)'
  <2>1. CASE Busy(k)
    <3>1. h <= reader.event - 1 /\ \A i \in 1..Len(new) : new[i] <= reader.event - 1
      BY <1>2, <1>3, <1>4, <1>5, <1>13, <2>1 DEF Older
    <3> QED
      BY <1>6, <1>7, <2>1, <3>1 DEF IInv, Older, TypeOK
  <2>2. CASE ~Busy(k)
    <3>1. h <= events /\ \A i \in 1..Len(new) : new[i] <= events
      BY <1>2, <1>3, <1>4, <1>5, <1>13, <2>2 DEF Older
    <3> QED
      BY <1>6, <1>7, <2>2, <3>1 DEF IInv, Older, TypeOK
  <2> QED
    BY <2>1, <2>2
<1>12. InHand'
  BY DEF IInv, InHand
<1> QED
  BY <1>8, <1>9, <1>10, <1>11, <1>12 DEF IInv

\* Steps that move no event.
LEMMA WaitInv ==
    ASSUME IInv, NEW r \in Receivers,
           ReceiveTimeout(r) \/ \E s \in Selectors : ReceiveMethodCall(r, s)
    PROVE  IInv'
<1>1. UNCHANGED <<tables, queues, reader, events, received>>
  BY DEF ReceiveTimeout, ReceiveMethodCall
<1>2. receiver' \in [Receivers -> [pc : {"idle", "waiting"}, queue : 0..made]]
  <2>1. CASE ReceiveTimeout(r)
    BY <2>1 DEF ReceiveTimeout, IInv, TypeOK
  <2>2. ASSUME NEW s \in Selectors, ReceiveMethodCall(r, s)
        PROVE  receiver' \in [Receivers -> [pc : {"idle", "waiting"}, queue : 0..made]]
    BY <2>2 DEF ReceiveMethodCall, IInv, TypeOK
  <2> QED
    BY <2>1, <2>2
<1> QED
  BY <1>1, <1>2 DEF IInv, TypeOK, Busy, Older, InHand, NewestSurvives, ReceivedInOrder

LEMMA FullInv == ASSUME IInv, QueueFull PROVE IInv'
<1> USE DEF QueueFull, AfterFull
<1>1. \A q \in QueueIds : Busy(q)' = Busy(q)
  BY DEF Busy
<1> QED
  BY <1>1 DEF IInv, TypeOK, Older, InHand, NewestSurvives, ReceivedInOrder

THEOREM Invariant == Spec => []IInv
<1>1. IInv /\ [Next]_vars => IInv'
  <2> SUFFICES ASSUME IInv, [Next]_vars PROVE IInv'
    OBVIOUS
  <2>1. ASSUME NEW s \in Selectors, RegisterMethodForRemote(s) \/ Dispatch(s) PROVE IInv'
    BY <2>1, RegisterInv, DispatchInv
  <2>2. CASE DeliverEvent
    BY <2>2, SendInv, FullInv, DropInv DEF DeliverEvent
  <2>3. ASSUME NEW r \in Receivers,
               (\E s \in Selectors : ReceiveMethodCall(r, s)) \/ TakeEvent(r) \/ ReceiveTimeout(r)
        PROVE  IInv'
    BY <2>3, TakeInv, WaitInv
  <2>4. CASE UNCHANGED vars
    BY <2>4 DEF vars, tables, IInv, TypeOK, Busy, Older, InHand, NewestSurvives,
                ReceivedInOrder
  <2> QED
    BY <2>1, <2>2, <2>3, <2>4 DEF Next
<1> QED
  BY <1>1, InitInv, PTL DEF Spec

\* No queue outgrows its buffer, and the state keeps its type.
THEOREM TypeCorrect == Spec => []TypeOK
BY Invariant, PTL DEF IInv

\* The events a receiver sees are in the order the device sent them.
THEOREM EventsInOrder == Spec => []ReceivedInOrder
BY Invariant, PTL DEF IInv

\* The most recent event of every queue survives.
THEOREM NewestEventSurvives == Spec => []NewestSurvives
BY Invariant, PTL DEF IInv
===============================================================================
