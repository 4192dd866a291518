-------------------------- MODULE NotificationsProofs --------------------------
(***************************************************************************)
(* Theorems about Notifications for any backlog, burst and watched apps.   *)
(* The argument: pushes are numbered as they are sent, and every hand they *)
(* pass through keeps their numbers consecutive.                           *)
(***************************************************************************)
EXTENDS Notifications, SequenceTheorems, TLAPS

\* How many pushes the reader has taken off the wire.
Taken == Len(received) + Len(messageChannel) + IF reader.pc = "deliver" THEN 1 ELSE 0

\* Received pushes, those in the channel and the one in the reader's hands are
\* numbered from 1 on ...
ArrivedNumbered ==
    /\ \A i \in 1..Len(received) : received[i] = i
    /\ \A i \in 1..Len(messageChannel) : messageChannel[i] = Len(received) + i
    /\ reader.pc = "deliver" => reader.event = Len(received) + Len(messageChannel) + 1

\* ... and the pushes on the wire go on from there to the last one sent.
WireNumbered ==
    /\ \A i \in Waiting : wire[i].n > Taken /\ wire[i].n <= sent
    /\ \A n \in Taken + 1..sent : \E i \in Waiting : wire[i].n = n
    /\ \A i, j \in Waiting : i < j => wire[i].n < wire[j].n
    /\ Taken <= sent

\* Before ListenAndKill returns nothing is received.
NoneReceived == ~Subscribed => received = << >>

Inv == TypeOK /\ ArrivedNumbered /\ WireNumbered /\ NoneReceived

-----------------------------------------------------------------------------
(* The invariant *)

USE NotificationsAssumption DEF device, AppState, Memory, ProcessControl

\* Nothing has been sent yet.
LEMMA InitInv == ASSUME Init PROVE Inv
<1>1. TypeOK
  BY DEF Init, TypeOK
<1>2. ArrivedNumbered /\ WireNumbered
  BY DEF Init, ArrivedNumbered, WireNumbered, Waiting, Taken
<1>3. NoneReceived
  BY DEF Init, NoneReceived, Subscribed
<1> QED
  BY <1>1, <1>2, <1>3 DEF Inv

\* The types of what the wire holds and of the counts.
LEMMA Numbers ==
    ASSUME TypeOK
    PROVE  /\ Taken \in Nat /\ sent \in Nat /\ Len(wire) \in Nat
           /\ Waiting \subseteq 1..Len(wire)
           /\ \A i \in 1..Len(wire) : wire[i].n \in Int
<1>1. Taken \in Nat /\ sent \in Nat /\ Len(wire) \in Nat
  BY DEF TypeOK, Taken
<1> DEFINE Messages == [kind : {"event", "reply"}, n : Int]
<1>2. wire \in Seq(Messages)
  BY DEF TypeOK
<1>3. ASSUME NEW m \in Messages PROVE m.n \in Int
  OBVIOUS
<1> HIDE DEF Messages
<1>4. \A i \in 1..Len(wire) : wire[i] \in Messages
  BY <1>2
<1> QED
  BY <1>1, <1>3, <1>4 DEF Waiting

\* A step that moves no push keeps the numbering.
LEMMA SameNumbers ==
    ASSUME Inv,
           UNCHANGED <<wire, messageChannel, received, sent>>,
           reader'.pc = "deliver" <=> reader.pc = "deliver",
           reader'.event = reader.event
    PROVE  ArrivedNumbered' /\ WireNumbered'
  BY DEF Inv, ArrivedNumbered, WireNumbered, Waiting, Taken

\* The oldest push of the wire is the next number: the numbers ahead of it
\* have arrived, and it is in order with those behind it.
LEMMA OldestIsNext ==
    ASSUME Inv, wire # << >>, Head(wire).kind = "event", reader.pc = "read"
    PROVE  Head(wire).n = Taken + 1
<1>1. Len(wire) >= 1 /\ Head(wire) = wire[1] /\ 1 \in Waiting
  BY DEF Inv, TypeOK, Waiting
<1>2. wire[1].n > Taken /\ wire[1].n <= sent /\ wire[1].n \in Int /\ Taken \in Nat /\ sent \in Nat
  BY <1>1, Numbers DEF Inv, WireNumbered, Waiting
<1>3. PICK i \in Waiting : wire[i].n = Taken + 1
  BY <1>2 DEF Inv, WireNumbered
<1>4. i = 1 \/ 1 < i
  BY DEF Waiting
<1>5. 1 < i => wire[1].n < wire[i].n
  BY <1>1 DEF Inv, WireNumbered
<1> QED
  BY <1>1, <1>2, <1>3, <1>4, <1>5

LEMMA DispatchPushInv == ASSUME Inv, DispatchPush PROVE Inv'
<1> USE DEF DispatchPush
<1>1. Head(wire).n = Taken + 1 /\ Taken \in Nat
  BY OldestIsNext DEF Inv, TypeOK, Taken
<1>2. Taken' = Taken + 1
  BY DEF Inv, TypeOK, Taken
<1>3. TypeOK'
  BY <1>1 DEF Inv, TypeOK
<1>4. ArrivedNumbered'
  BY <1>1 DEF Inv, TypeOK, ArrivedNumbered, Taken
<1>5. /\ Len(wire') = Len(wire) - 1 /\ Len(wire) \in Nat \ {0}
      /\ \A i \in 1..Len(wire') : wire'[i] = wire[i + 1]
      /\ Head(wire) = wire[1]
  BY DEF Inv, TypeOK
<1>6. \A i \in Waiting' : i + 1 \in Waiting /\ wire'[i] = wire[i + 1]
  BY <1>5 DEF Waiting
<1>7. \A i \in Waiting : i # 1 => i - 1 \in Waiting' /\ wire'[i - 1] = wire[i]
  BY <1>5 DEF Waiting
<1>8. WireNumbered'
  <2>0. 1 \in Waiting /\ wire[1].n = Taken + 1 /\ sent' = sent /\ sent \in Nat
    BY <1>1, <1>5 DEF Waiting, Inv, TypeOK
  <2>1. \A i, j \in Waiting' : i < j => wire'[i].n < wire'[j].n
    BY <1>5, <1>6 DEF Inv, WireNumbered, Waiting
  <2>2. \A i \in Waiting' : wire'[i].n > Taken' /\ wire'[i].n <= sent'
    <3> TAKE i \in Waiting'
    <3>1. i + 1 \in Waiting /\ wire'[i] = wire[i + 1] /\ i \in Nat \ {0} /\ wire[i + 1].n \in Int
      BY <1>5, <1>6, Numbers DEF Waiting, Inv
    <3>2. wire[1].n < wire[i + 1].n /\ wire[i + 1].n <= sent
      BY <2>0, <3>1 DEF Inv, WireNumbered
    <3> QED
      BY <1>1, <1>2, <2>0, <3>1, <3>2
  <2>3. \A n \in Taken' + 1..sent' : \E i \in Waiting' : wire'[i].n = n
    <3> TAKE n \in Taken' + 1..sent'
    <3>1. n \in Taken + 1..sent /\ n # Taken + 1
      BY <1>1, <1>2, <2>0
    <3>2. PICK i \in Waiting : wire[i].n = n
      BY <3>1 DEF Inv, WireNumbered
    <3> QED
      BY <1>7, <2>0, <3>1, <3>2
  <2>4. Taken' <= sent'
    BY <1>1, <1>2, <2>0 DEF Inv, WireNumbered
  <2> QED
    BY <2>1, <2>2, <2>3, <2>4 DEF WireNumbered
<1>9. NoneReceived'
  BY DEF Inv, NoneReceived, Subscribed
<1> QED
  BY <1>3, <1>4, <1>8, <1>9 DEF Inv

LEMMA DeliverPushInv == ASSUME Inv, DeliverPush PROVE Inv'
<1> USE DEF DeliverPush, Enqueue, HasRoom
<1>1. TypeOK'
  BY DEF Inv, TypeOK
<1>2. Taken' = Taken
  BY DEF Inv, TypeOK, Taken
<1>3. ArrivedNumbered'
  <2>1. /\ messageChannel' = Append(messageChannel, Len(received) + Len(messageChannel) + 1)
        /\ received' = received /\ Len(received) \in Nat /\ Len(messageChannel) \in Nat
        /\ messageChannel \in Seq(Nat) /\ reader'.pc = "read"
    BY DEF Inv, TypeOK, ArrivedNumbered
  <2>2. \A i \in 1..Len(messageChannel') : messageChannel'[i] = Len(received') + i
    <3>1. /\ Len(messageChannel') = Len(messageChannel) + 1
          /\ \A i \in 1..Len(messageChannel) : messageChannel'[i] = messageChannel[i]
          /\ messageChannel'[Len(messageChannel) + 1] = Len(received) + Len(messageChannel) + 1
      BY <2>1, AppendProperties
    <3>2. \A i \in 1..Len(messageChannel) : messageChannel[i] = Len(received) + i
      BY DEF Inv, ArrivedNumbered
    <3>3. received' = received /\ Len(received) \in Nat /\ Len(messageChannel) \in Nat
      BY <2>1
    <3> HIDE DEF DeliverPush, Enqueue, HasRoom
    <3>4. ASSUME NEW i \in 1..Len(messageChannel') PROVE messageChannel'[i] = Len(received') + i
      <4>1. i \in 1..Len(messageChannel) \/ i = Len(messageChannel) + 1
        BY <3>1, <3>3
      <4> QED
        BY <3>1, <3>2, <3>3, <4>1
    <3> QED
      BY <3>4
  <2> QED
    BY <2>1, <2>2 DEF Inv, ArrivedNumbered
<1>4. WireNumbered'
  BY <1>2 DEF Inv, WireNumbered, Waiting
<1>5. NoneReceived'
  BY DEF Inv, NoneReceived, Subscribed
<1> QED
  BY <1>1, <1>3, <1>4, <1>5 DEF Inv

\* A reply at the head of the wire only shifts the pushes behind it.
LEMMA DispatchReplyInv == ASSUME Inv, DispatchReply PROVE Inv'
<1> USE DEF DispatchReply
<1>1. TypeOK'
  <2>1. watcher' \in [pc : {"call", "await", "receive", "exited", "failed"}, event : Int]
    <3> DEFINE next == Continue(watcher)
    <3>1. watcher.event \in Int /\ watcher \in [pc : {"call", "await", "receive", "exited", "failed"},
                                              event : Int]
      BY DEF Inv, TypeOK
    <3>2. next \in [pc : {"call", "await", "receive", "exited", "failed"}, event : Int]
      BY <3>1 DEF Continue
    <3> QED
      BY <3>1, <3>2
  <2>2. wire' \in Seq([kind : {"event", "reply"}, n : Int])
    BY DEF Inv, TypeOK
  <2> QED
    BY <2>1, <2>2 DEF Inv, TypeOK
<1>2. Taken' = Taken /\ sent' = sent
  BY DEF Taken
<1>3. ArrivedNumbered'
  BY DEF Inv, ArrivedNumbered
<1>4. /\ Len(wire') = Len(wire) - 1 /\ Len(wire) \in Nat \ {0}
      /\ \A i \in 1..Len(wire') : wire'[i] = wire[i + 1]
      /\ Head(wire) = wire[1]
  BY DEF Inv, TypeOK
<1>5. \A i \in Waiting' : i + 1 \in Waiting /\ wire'[i] = wire[i + 1]
  BY <1>4 DEF Waiting
<1>6. \A i \in Waiting : i - 1 \in Waiting' /\ wire'[i - 1] = wire[i]
  BY <1>4 DEF Waiting
<1>7. WireNumbered'
  <2>1. \A i, j \in Waiting' : i < j => wire'[i].n < wire'[j].n
    BY <1>4, <1>5 DEF Inv, WireNumbered, Waiting
  <2>2. \A i \in Waiting' : wire'[i].n > Taken' /\ wire'[i].n <= sent'
    BY <1>2, <1>5 DEF Inv, WireNumbered
  <2>3. \A n \in Taken' + 1..sent' : \E i \in Waiting' : wire'[i].n = n
    <3> TAKE n \in Taken' + 1..sent'
    <3>1. PICK i \in Waiting : wire[i].n = n
      BY <1>2 DEF Inv, WireNumbered
    <3> QED
      BY <1>6, <3>1
  <2> QED
    BY <1>2, <2>1, <2>2, <2>3 DEF Inv, WireNumbered
<1>8. NoneReceived'
  BY DEF Inv, TypeOK, NoneReceived, Subscribed, Continue
<1> QED
  BY <1>1, <1>3, <1>7, <1>8 DEF Inv

LEMMA ReceiveInv == ASSUME Inv, Receive PROVE Inv'
<1> USE DEF Receive
<1>1. /\ Head(messageChannel) = messageChannel[1] /\ messageChannel[1] = Len(received) + 1
      /\ Len(received) \in Nat /\ Len(messageChannel) \in Nat \ {0}
      /\ received' = Append(received, messageChannel[1])
      /\ Len(received') = Len(received) + 1
      /\ Len(messageChannel') = Len(messageChannel) - 1
      /\ \A i \in 1..Len(messageChannel') : messageChannel'[i] = messageChannel[i + 1]
  BY DEF Inv, TypeOK, ArrivedNumbered
<1>2. TypeOK'
  BY <1>1 DEF Inv, TypeOK
<1>3. Taken' = Taken
  BY <1>1 DEF Taken
<1>4. ArrivedNumbered'
  <2>1. \A i \in 1..Len(received') : received'[i] = i
    BY <1>1 DEF Inv, TypeOK, ArrivedNumbered
  <2>2. \A i \in 1..Len(messageChannel') : messageChannel'[i] = Len(received') + i
    BY <1>1 DEF Inv, TypeOK, ArrivedNumbered
  <2>3. reader'.pc = "deliver" => reader'.event = Len(received') + Len(messageChannel') + 1
    BY <1>1 DEF Inv, TypeOK, ArrivedNumbered
  <2> QED
    BY <2>1, <2>2, <2>3 DEF ArrivedNumbered
<1>5. WireNumbered'
  BY <1>3 DEF Inv, WireNumbered, Waiting
<1>6. Subscribed'
  BY <1>1 DEF Subscribed
<1> QED
  BY <1>2, <1>4, <1>5, <1>6 DEF Inv, NoneReceived

\* The other steps of the watcher, of the closer and of the transport move no
\* push; the watcher never leaves the state in which it has subscribed.
LEMMA QuietInv ==
    ASSUME Inv,
           ReaderStops \/ SendCall \/ SendFails \/ CallTimeout \/ ReceiveClose \/ CloserStep
             \/ CloseFunc \/ ConnectionLost
    PROVE  Inv'
<1> USE DEF ReaderStops, SendCall, SendFails, CallTimeout, ReceiveClose, CloserStep, CloseTimeout,
            CloseConnection, CloseFunc, ConnectionLost, AfterFailure, GivesUp, CloseOnFailure,
            Continue, Deadline, AfterTimeout
<1>1. TypeOK'
  <2>1. reader' \in [pc : {"read", "deliver", "stopped"}, event : Nat]
    BY DEF Inv, TypeOK
  <2>2. watcher' \in [pc : {"call", "await", "receive", "exited", "failed"}, event : Int]
    BY DEF Inv, TypeOK
  <2>3. transport' \in {"up", "lost", "closed"} /\ closer' \in {"idle", "offer", "close", "done"}
    BY DEF Inv, TypeOK
  <2> QED
    BY <2>1, <2>2, <2>3 DEF Inv, TypeOK
<1>2. ArrivedNumbered' /\ WireNumbered'
  <2>1. UNCHANGED <<wire, messageChannel, received, sent>>
    OBVIOUS
  <2>2. (reader'.pc = "deliver" <=> reader.pc = "deliver") /\ reader'.event = reader.event
    BY DEF Inv, TypeOK
  <2> QED
    BY <2>1, <2>2, SameNumbers
<1>3. NoneReceived'
  BY DEF Inv, TypeOK, NoneReceived, Subscribed
<1> QED
  BY <1>1, <1>2, <1>3 DEF Inv

\* A message at the end of the wire: a reply, or the next push.
LEMMA DeviceRepliesInv == ASSUME Inv, DeviceReplies PROVE Inv'
<1> USE DEF DeviceReplies, Transmit, Reply
<1>1. TypeOK'
  <2> DEFINE Messages == [kind : {"event", "reply"}, n : Int]
  <2>1. Reply(watcher.event) \in Messages /\ wire \in Seq(Messages)
    BY DEF Inv, TypeOK
  <2> HIDE DEF Messages
  <2>2. wire' \in Seq(Messages)
    BY <2>1, AppendProperties
  <2> QED
    BY <2>2 DEF Inv, TypeOK, Messages
<1>2. ArrivedNumbered' /\ Taken' = Taken
  BY DEF Inv, ArrivedNumbered, Taken
<1>3. Waiting' = Waiting /\ \A i \in Waiting : wire'[i] = wire[i]
  BY DEF Inv, TypeOK, Waiting
<1>4. WireNumbered'
  BY <1>2, <1>3 DEF Inv, WireNumbered
<1>5. NoneReceived'
  BY DEF Inv, NoneReceived, Subscribed
<1> QED
  BY <1>1, <1>2, <1>4, <1>5 DEF Inv

LEMMA DevicePushesInv == ASSUME Inv, DevicePushes PROVE Inv'
<1> USE DEF DevicePushes, Transmit, Event
<1>1. TypeOK'
  BY DEF Inv, TypeOK
<1>2. ArrivedNumbered' /\ Taken' = Taken /\ Taken \in Nat /\ sent \in Nat /\ sent' = sent + 1
  BY DEF Inv, TypeOK, ArrivedNumbered, Taken
<1> DEFINE last == Len(wire) + 1
<1>3. /\ Waiting' = Waiting \cup {last} /\ last \notin Waiting
      /\ \A i \in Waiting : wire'[i] = wire[i] /\ i < last /\ i \in Nat
      /\ wire'[last].n = sent + 1
  <2>1. /\ wire' = Append(wire, Event(sent + 1)) /\ Len(wire) \in Nat /\ Len(wire') = last
        /\ \A i \in 1..Len(wire) : wire'[i] = wire[i]
        /\ wire'[last] = Event(sent + 1)
    BY DEF Inv, TypeOK
  <2>2. Event(sent + 1).kind = "event" /\ Event(sent + 1).n = sent + 1
    OBVIOUS
  <2> HIDE DEF DevicePushes, Transmit, Event
  <2> QED
    BY <2>1, <2>2 DEF Waiting
<1>4. WireNumbered'
  <2>1. \A i \in Waiting' : wire'[i].n > Taken' /\ wire'[i].n <= sent'
    <3> TAKE i \in Waiting'
    <3>1. CASE i = last
      BY <1>2, <1>3, <3>1 DEF Inv, WireNumbered
    <3>2. CASE i \in Waiting
      BY <1>2, <1>3, <3>2, Numbers DEF Inv, WireNumbered
    <3> QED
      BY <1>3, <3>1, <3>2
  <2>2. \A n \in Taken' + 1..sent' : \E i \in Waiting' : wire'[i].n = n
    <3> TAKE n \in Taken' + 1..sent'
    <3>1. CASE n = sent + 1
      BY <1>3, <3>1
    <3>2. CASE n # sent + 1
      <4>1. n \in Taken + 1..sent
        BY <1>2, <3>2
      <4>2. PICK i \in Waiting : wire[i].n = n
        BY <4>1 DEF Inv, WireNumbered
      <4> QED
        BY <1>3, <4>2
    <3> QED
      BY <3>1, <3>2
  <2>3. \A i, j \in Waiting' : i < j => wire'[i].n < wire'[j].n
    <3> TAKE i, j \in Waiting'
    <3> HAVE i < j
    <3>1. i \in Waiting
      BY <1>3 DEF Waiting
    <3>2. CASE j = last
      BY <1>2, <1>3, <3>1, <3>2, Numbers DEF Inv, WireNumbered
    <3>3. CASE j \in Waiting
      BY <1>3, <3>1, <3>3 DEF Inv, WireNumbered
    <3> QED
      BY <1>3, <3>2, <3>3
  <2>4. Taken' <= sent'
    BY <1>2 DEF Inv, WireNumbered
  <2> QED
    BY <2>1, <2>2, <2>3, <2>4 DEF WireNumbered
<1>5. NoneReceived'
  BY DEF Inv, TypeOK, NoneReceived, Subscribed
<1> QED
  BY <1>1, <1>2, <1>4, <1>5 DEF Inv

THEOREM InvHolds == Spec => []Inv
<1>1. Init => Inv
  BY InitInv
<1>2. Inv /\ [Next]_vars => Inv'
  <2> SUFFICES ASSUME Inv, [Next]_vars PROVE Inv'
    OBVIOUS
  <2>1. CASE ReaderStep
    BY <2>1, DispatchPushInv, DeliverPushInv, DispatchReplyInv, QuietInv DEF ReaderStep
  <2>2. CASE WatcherStep
    BY <2>2, ReceiveInv, QuietInv DEF WatcherStep
  <2>3. CASE CloserStep \/ CloseFunc \/ ConnectionLost
    BY <2>3, QuietInv
  <2>4. CASE DeviceReplies \/ DevicePushes
    BY <2>4, DeviceRepliesInv, DevicePushesInv
  <2>5. CASE UNCHANGED vars
    BY <2>5 DEF vars, Inv, TypeOK, ArrivedNumbered, WireNumbered, NoneReceived, Taken, Waiting,
                Subscribed
  <2> QED
    BY <2>1, <2>2, <2>3, <2>4, <2>5 DEF Next
<1> QED
  BY <1>1, <1>2, PTL DEF Spec

-----------------------------------------------------------------------------
(* What follows from it *)

\* The state has its type; no more pushes than its buffer holds are in the
\* message channel.
THEOREM TypeCorrect == Spec => []TypeOK
<1>1. Inv => TypeOK
  BY DEF Inv
<1> QED
  BY <1>1, InvHolds, PTL

LEMMA ArrivedLength ==
    ASSUME Inv
    PROVE  /\ Len(Arrived) = Taken
           /\ \A i \in 1..Len(Arrived) : Arrived[i] = i
<1> DEFINE first == received \o messageChannel
<1>1. /\ received \in Seq(Nat) /\ messageChannel \in Seq(Nat) /\ InHand \in Seq(Nat)
      /\ reader.pc = "deliver" => Len(InHand) = 1 /\ InHand[1] = reader.event
      /\ reader.pc # "deliver" => Len(InHand) = 0
  BY DEF Inv, TypeOK, InHand
<1>2. /\ first \in Seq(Nat) /\ Len(first) = Len(received) + Len(messageChannel)
      /\ \A i \in 1..Len(first) : first[i] = i
  <2>1. /\ first \in Seq(Nat) /\ Len(first) = Len(received) + Len(messageChannel)
        /\ \A i \in 1..Len(received) + Len(messageChannel) :
             first[i] = IF i <= Len(received) THEN received[i] ELSE messageChannel[i - Len(received)]
        /\ Len(received) \in Nat /\ Len(messageChannel) \in Nat
    BY <1>1, ConcatProperties
  <2>2. /\ \A i \in 1..Len(received) : received[i] = i
        /\ \A i \in 1..Len(messageChannel) : messageChannel[i] = Len(received) + i
    BY DEF Inv, ArrivedNumbered
  <2> HIDE DEF first
  <2> SUFFICES ASSUME NEW i \in 1..Len(first) PROVE first[i] = i
    BY <2>1
  <2>3. CASE i <= Len(received)
    <3>1. i \in 1..Len(received) /\ i \in 1..Len(received) + Len(messageChannel)
      BY <2>1, <2>3
    <3> QED
      BY <2>1, <2>2, <2>3, <3>1
  <2>4. CASE ~(i <= Len(received))
    <3> DEFINE k == i - Len(received)
    <3>1. i \in 1..Len(received) + Len(messageChannel) /\ i \in Nat
          /\ k \in 1..Len(messageChannel) /\ Len(received) + k = i
      BY <2>1, <2>4
    <3>2. first[i] = messageChannel[k]
      BY <2>1, <2>4, <3>1
    <3>3. messageChannel[k] = Len(received) + k
      BY <2>2, <3>1
    <3> QED
      BY <3>1, <3>2, <3>3
  <2> QED
    BY <2>1, <2>3, <2>4
<1> HIDE DEF first
<1>3. /\ Len(first \o InHand) = Len(first) + Len(InHand)
      /\ \A i \in 1..Len(first) : (first \o InHand)[i] = first[i]
      /\ Len(InHand) = 1 => (first \o InHand)[Len(first) + 1] = InHand[1]
  <2>1. /\ Len(first \o InHand) = Len(first) + Len(InHand)
        /\ \A i \in 1..Len(first) + Len(InHand) :
             (first \o InHand)[i] = IF i <= Len(first) THEN first[i] ELSE InHand[i - Len(first)]
    BY <1>1, <1>2, ConcatProperties
  <2>2. Len(first) \in Nat /\ Len(InHand) \in {0, 1}
    BY <1>1, <1>2
  <2> HIDE DEF InHand
  <2> QED
    BY <2>1, <2>2
<1>4. Arrived = first \o InHand
  BY DEF Arrived, first
<1> QED
  <2>1. Len(Arrived) = Taken
    BY <1>1, <1>2, <1>3, <1>4 DEF Taken
  <2>2. Len(first) \in Nat /\ Len(InHand) \in {0, 1}
    BY <1>1, <1>2
  <2>3. Len(InHand) = 1 => InHand[1] = Len(first) + 1
    <3>1. reader.pc = "deliver" => reader.event = Len(received) + Len(messageChannel) + 1
      BY DEF Inv, ArrivedNumbered
    <3>2. Len(InHand) = 1 => reader.pc = "deliver"
      BY <1>1
    <3> QED
      BY <1>1, <1>2, <3>1, <3>2
  <2>4. \A i \in 1..Len(Arrived) : Arrived[i] = i
    <3> TAKE i \in 1..Len(Arrived)
    <3>1. CASE i \in 1..Len(first)
      BY <1>2, <1>3, <1>4, <3>1
    <3>2. CASE i \notin 1..Len(first)
      <4>1. i = Len(first) + 1 /\ Len(InHand) = 1
        BY <1>3, <1>4, <2>2, <3>2
      <4> QED
        BY <1>3, <1>4, <2>3, <4>1
    <3> QED
      BY <3>1, <3>2
  <2> QED
    BY <2>1, <2>4

\* No push is lost, repeated or overtaken between the wire and the watcher.
THEOREM PushesArrive == Spec => []NoPushLost
<1>1. ASSUME Inv PROVE NoPushLost
  <2>1. {wire[i].n : i \in Waiting} = Len(Arrived) + 1..sent
    <3>1. Taken \in Nat /\ sent \in Nat /\ \A i \in Waiting : wire[i].n \in Int
      BY <1>1, Numbers DEF Inv
    <3> QED
      BY <1>1, <3>1, ArrivedLength DEF Inv, WireNumbered
  <2> QED
    BY <1>1, <2>1, ArrivedLength DEF Inv, WireNumbered, NoPushLost
<1> QED
  BY <1>1, InvHolds, PTL

\* Before ListenAndKill returns nothing is received, so that the reader blocks
\* only with a full backlog and one more push in hand: the device, however
\* large its burst, has then sent more than the backlog holds.
THEOREM BurstsFit == Spec => []BurstFits
<1>1. ASSUME Inv PROVE BurstFits
  BY <1>1 DEF Inv, TypeOK, NoneReceived, WireNumbered, Taken, BurstFits, HasRoom
<1> QED
  BY <1>1, InvHolds, PTL
===============================================================================
