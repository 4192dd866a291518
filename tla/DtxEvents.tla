------------------------------- MODULE DtxEvents -------------------------------
(***************************************************************************)
(* The device's method calls that the host has registered for              *)
(* (ios/dtx_codec/channel.go: RegisterMethodForRemote, ReceiveMethodCall,  *)
(* ReceiveMethodCallWithTimeout, deliverEvent).  Every selector has a      *)
(* bounded queue; the connection's only reader goroutine fills it without  *)
(* holding d.mutex, so receivers take events between any two of its        *)
(* steps.  Registering a selector again starts a new queue and abandons    *)
(* the old one, with whoever waits on it.                                  *)
(***************************************************************************)
EXTENDS Integers, Sequences

CONSTANTS
    Receivers,   \* goroutines that receive method calls
    Selectors,
    Buffer,      \* registeredMethodBuffer
    MaxEvents,   \* bound: method calls of the device
    MaxQueues    \* bound: registrations

ASSUME EventsAssumption ==
    /\ Buffer \in Nat \ {0}
    /\ {MaxEvents, MaxQueues} \subseteq Nat

VARIABLES
    registeredMethods,  \* selector -> index of its queue, 0 when not registered
    made,               \* the number of queues made so far
    queues,             \* per queue, the events in it; one not yet made is empty
    reader,             \* the reader inside deliverEvent: [pc, queue, event]
    receiver,           \* per receiver [pc, queue]; queue 0 is the nil channel
    events,             \* events dispatched so far; an event is its number
    newest,             \* per queue, the newest event dispatched to it
    received            \* per queue, the event last received from it

QueueIds == 1..MaxQueues

tables == <<registeredMethods, made, newest>>
vars == <<tables, queues, reader, receiver, events, received>>

Init ==
    /\ registeredMethods = [s \in Selectors |-> 0]
    /\ made = 0
    /\ queues = [q \in QueueIds |-> << >>]
    /\ reader = [pc |-> "read", queue |-> 0, event |-> 0]
    /\ receiver = [r \in Receivers |-> [pc |-> "idle", queue |-> 0]]
    /\ events = 0
    /\ newest = [q \in QueueIds |-> 0]
    /\ received = [q \in QueueIds |-> 0]

RegisterMethodForRemote(s) ==
    /\ made < MaxQueues
    /\ made' = made + 1
    /\ registeredMethods' = [registeredMethods EXCEPT ![s] = made + 1]
    /\ UNCHANGED <<queues, reader, receiver, events, newest, received>>

-----------------------------------------------------------------------------
(* The reader: Dispatch finds the queue, deliverEvent loops until it has   *)
(* sent.  A select with a default is one step.                             *)

Dispatch(s) ==
    /\ reader.pc = "read"
    /\ registeredMethods[s] # 0
    /\ events < MaxEvents
    /\ events' = events + 1
    /\ newest' = [newest EXCEPT ![registeredMethods[s]] = events + 1]
    /\ reader' = [pc |-> "send", queue |-> registeredMethods[s], event |-> events + 1]
    /\ UNCHANGED <<registeredMethods, made, queues, receiver, received>>

\* Seeded fault: one more than the buffer holds.
OneTooMany(queue) == Len(queue) <= Buffer
HasRoom(queue) == Len(queue) < Buffer

SendEvent ==
    /\ reader.pc = "send"
    /\ HasRoom(queues[reader.queue])
    /\ queues' = [queues EXCEPT ![reader.queue] = Append(@, reader.event)]
    /\ reader' = [reader EXCEPT !.pc = "read"]
    /\ UNCHANGED <<tables, receiver, events, received>>

\* Seeded faults: what happens when the queue is full.
DropIncoming == "read"
AfterFull == "drop"

QueueFull ==
    /\ reader.pc = "send"
    /\ ~HasRoom(queues[reader.queue])
    /\ reader' = [reader EXCEPT !.pc = AfterFull]
    /\ UNCHANGED <<tables, queues, receiver, events, received>>

\* A receiver may have made room, or emptied the queue, since QueueFull.
NeverDrop(queue) == queue
Requeue(queue) == IF queue = << >> THEN queue ELSE Append(Tail(queue), Head(queue))
WithoutOldest(queue) == IF queue = << >> THEN queue ELSE Tail(queue)

DropOldest ==
    /\ reader.pc = "drop"
    /\ queues' = [queues EXCEPT ![reader.queue] = WithoutOldest(@)]
    /\ reader' = [reader EXCEPT !.pc = "send"]
    /\ UNCHANGED <<tables, receiver, events, received>>

-----------------------------------------------------------------------------
(* Receivers.  ReceiveMethodCall looks the queue up under d.mutex and      *)
(* waits on it without; only ReceiveMethodCallWithTimeout gives up.        *)

ReceiveMethodCall(r, s) ==
    /\ receiver[r].pc = "idle"
    /\ receiver' = [receiver EXCEPT ![r] = [pc |-> "waiting", queue |-> registeredMethods[s]]]
    /\ UNCHANGED <<tables, queues, reader, events, received>>

TakeEvent(r) ==
    LET q == receiver[r].queue IN
    /\ receiver[r].pc = "waiting"
    /\ q # 0
    /\ queues[q] # << >>
    /\ received' = [received EXCEPT ![q] = Head(queues[q])]
    /\ queues' = [queues EXCEPT ![q] = Tail(@)]
    /\ receiver' = [receiver EXCEPT ![r].pc = "idle"]
    /\ UNCHANGED <<tables, reader, events>>

ReceiveTimeout(r) ==
    /\ receiver[r].pc = "waiting"
    /\ receiver' = [receiver EXCEPT ![r].pc = "idle"]
    /\ UNCHANGED <<tables, queues, reader, events, received>>

-----------------------------------------------------------------------------
DeliverEvent == SendEvent \/ QueueFull \/ DropOldest

Next ==
    \/ \E s \in Selectors : RegisterMethodForRemote(s) \/ Dispatch(s)
    \/ DeliverEvent
    \/ \E r \in Receivers :
          \/ \E s \in Selectors : ReceiveMethodCall(r, s)
          \/ TakeEvent(r) \/ ReceiveTimeout(r)

Spec == Init /\ [][Next]_vars

\* The reader goroutine runs; receivers may never come back.
FairSpec == Spec /\ WF_vars(DeliverEvent)

-----------------------------------------------------------------------------
(* Properties *)

\* The state has its type and no queue is longer than its buffer.
TypeOK ==
    /\ made \in 0..MaxQueues
    /\ queues \in [QueueIds -> Seq(Nat)]
    /\ \A q \in QueueIds : Len(queues[q]) <= Buffer
    /\ registeredMethods \in [Selectors -> 0..made]
    /\ reader \in [pc : {"read", "send", "drop"}, queue : 0..made, event : Nat]
    /\ reader.pc # "read" => reader.queue # 0
    /\ receiver \in [Receivers -> [pc : {"idle", "waiting"}, queue : 0..made]]
    /\ events \in Nat
    /\ newest \in [QueueIds -> Nat]
    /\ received \in [QueueIds -> Nat]

Busy(q) == reader.pc # "read" /\ reader.queue = q

InOrder(queue, last) ==
    /\ \A i \in 1..Len(queue) : last < queue[i]
    /\ \A i, j \in 1..Len(queue) : i < j => queue[i] < queue[j]

\* channel.go, deliverEvent: "the OLDEST event is dropped (with a warning) so
\* the most recent state survives".  Once delivered, the newest event of a
\* queue is its last one, or a receiver has had it.
NewestSurvives ==
    \A q \in QueueIds :
        ~Busy(q) =>
            newest[q] = IF queues[q] = << >> THEN received[q] ELSE queues[q][Len(queues[q])]

\* channel.go, deliverEvent and ReceiveMethodCall: receivers get the events of
\* a queue in the order the device sent them, and none twice, however many are
\* dropped between them.
ReceivedInOrder == \A q \in QueueIds : InOrder(queues[q], received[q])

\* channel.go, registeredMethodBuffer: "Dispatch runs on the connection's
\* single reader goroutine and must never block", whatever receivers do.
DispatchReturns == (reader.pc # "read") ~> (reader.pc = "read")
===============================================================================
