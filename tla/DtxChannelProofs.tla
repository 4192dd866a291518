--------------------------- MODULE DtxChannelProofs ---------------------------
(***************************************************************************)
(* Theorems about DtxChannel for any number of callers, any identifiers    *)
(* and any bounds.  Correct calls follow from three facts: identifiers     *)
(* grow, so the identifier of an open call belongs to one request only; a  *)
(* reply on its way carries the identifier and the body of one request;    *)
(* and a waiter is registered only under its caller's current identifier.  *)
(* The second part is about the fragments of the device's messages.        *)
(***************************************************************************)
EXTENDS DtxChannel, TLAPS

\* An open call is counted, its identifier is older than the counter, and
\* nobody else's open call has it.
IdsUnique ==
    /\ \A c \in Callers : caller[c].id < messageIdentifier /\ (InCall(c) => caller[c].n > 0)
    /\ \A c, d \in Callers : InCall(c) /\ InCall(d) /\ c # d => caller[c].id # caller[d].id

\* A request was made by a call that was begun; one with the identifier of
\* an open call was made by that call.
RequestsKnown ==
    \A q \in requests :
        /\ q.id < messageIdentifier
        /\ q.body[1] \in Callers
        /\ q.body[2] \in 1..caller[q.body[1]].n
        /\ \A c \in Callers : InCall(c) /\ caller[c].id = q.id => q.body = <<c, caller[c].n>>

\* m, if it is a reply, is the answer to a request the device has got.
Genuine(m) == m.conversation = 1 =>
    [id |-> m.id, body |-> m.body] \in requests /\ m.body \in answered

RepliesGenuine ==
    /\ \A i \in 1..Len(wire) : Genuine(wire[i])
    /\ \A m \in outgoing : Genuine(m)
    /\ \A i \in DOMAIN defragmenters : Genuine(defragmenters[i].first)
    /\ reader.pc = "table" =>
          Genuine(reader.msg) /\ (IsFragment(reader.msg) \/ reader.msg.conversation = 1)

InboxOwn ==
    \A c \in Callers :
        /\ caller[c].pc \in {"send", "await"} =>
              \/ caller[c].inbox = << >>
              \/ caller[c].inbox = << <<c, caller[c].n>> >> /\ <<c, caller[c].n>> \in answered
        /\ caller[c].pc \in {"send", "await"} /\ caller[c].inbox # << >> =>
              caller[c].id \notin DOMAIN responseWaiters
        /\ caller[c].outcome # Failed => caller[c].outcome[1] = c

IInv == TypeOK /\ IdsUnique /\ RequestsKnown /\ NoWaiterLeak /\ RepliesGenuine /\ InboxOwn

USE DEF CallerPC, ReaderPC

-----------------------------------------------------------------------------
(* Type correctness *)

USE DEF TypeOK

LEMMA InitType == Init => TypeOK
<1> SUFFICES ASSUME Init PROVE TypeOK
  OBVIOUS
<1> USE DEF Init
<1>1. TablesType
  BY ChannelAssumption DEF TablesType
<1>2. ReaderType
  BY DEF ReaderType
<1>3. CallersType
  BY DEF CallersType, Caller
<1>4. DeviceType
  BY DEF DeviceType
<1> QED
  BY <1>1, <1>2, <1>3, <1>4

LEMMA InboxType ==
    ASSUME CallersType, NEW c \in Callers, NEW q \in Seq(Body), Len(q) <= 1
    PROVE  /\ [caller EXCEPT ![c].inbox = q] \in [Callers -> Caller]
           /\ \A d \in Callers : Len([caller EXCEPT ![c].inbox = q][d].inbox) <= 1
  BY DEF CallersType, Caller

LEMMA DeliveredType ==
    ASSUME TablesType, CallersType, NEW m \in Message
    PROVE  /\ SendResponse(m) \in [Callers -> Caller]
           /\ \A c \in Callers : Len(SendResponse(m)[c].inbox) <= 1
<1> DEFINE c == responseWaiters[m.id]
<1>1. CASE m.id \in DOMAIN responseWaiters /\ caller[c].inbox = << >>
  <2> DEFINE q == <<m.body>>
  <2>1. c \in Callers /\ q \in Seq(Body) /\ Len(q) <= 1
    BY <1>1 DEF TablesType, Message
  <2>2. SendResponse(m) = [caller EXCEPT ![c].inbox = q]
    BY <1>1 DEF SendResponse
  <2> HIDE DEF c, q
  <2> QED
    BY <2>1, <2>2, InboxType
<1>2. CASE ~(m.id \in DOMAIN responseWaiters /\ caller[c].inbox = << >>)
  BY <1>2 DEF CallersType, SendResponse
<1> QED
  BY <1>1, <1>2

LEMMA ForgetType ==
    ASSUME NEW id, Forget(id)
    PROVE  /\ DOMAIN responseWaiters' = DOMAIN responseWaiters \ {id}
           /\ \A i \in DOMAIN responseWaiters' : responseWaiters'[i] = responseWaiters[i]
           /\ DOMAIN defragmenters' = DOMAIN defragmenters \ {id}
           /\ \A i \in DOMAIN defragmenters' : defragmenters'[i] = defragmenters[i]
  BY DEF Forget, Delete

LEMMA AddFragmentType ==
    ASSUME NEW d \in Decoder, NEW m \in Message
    PROVE  AddFragment(d, m) \in Decoder /\ AddFragment(d, m).first = d.first
<1>1. {p \in d.parts : p[1] # m.index} \cup {<<m.index, m.body>>} \in SUBSET (Nat \X Body)
  BY DEF Decoder, Message
<1>2. (d.finished \/ IsLastFragment(m)) \in BOOLEAN
  BY DEF Decoder
<1> QED
  BY <1>1, <1>2 DEF Decoder, AddFragment

LEMMA ReassembleType ==
    ASSUME NEW d \in Decoder
    PROVE  /\ Reassemble(d) \in Message
           /\ Reassemble(d).conversation > 0 =>
                /\ Reassemble(d).id = d.first.id
                /\ Reassemble(d).body = d.first.body
                /\ d.first.conversation = 1
<1>1. ZeroMessage \in Message /\ ZeroMessage.conversation = 0
  BY ChannelAssumption DEF ZeroMessage, Message, Body
<1>2. [d.first EXCEPT !.fragments = 1] \in Message
  BY ChannelAssumption DEF Decoder, Message
<1> QED
  BY <1>1, <1>2 DEF Decoder, Reassemble, Message

LEMMA CallerType ==
    ASSUME TypeOK, NEW c \in Callers,
           Begin(c) \/ MethodCallAsync(c) \/ CallStep(c)
    PROVE  TypeOK'
<1> USE DEF channelVars, tables, deviceVars, Goto
<1>1. CASE Begin(c)
  <2>1. TablesType' /\ CallersType'
    BY <1>1 DEF Begin, AllocateIdentifier, NextIdentifier, TablesType, CallersType, Caller
  <2> QED
    BY <1>1, <2>1 DEF Begin, ReaderType, DeviceType
<1>2. CASE MethodCallAsync(c)
  <2>1. TablesType'
    BY <1>2 DEF MethodCallAsync, AllocateIdentifier, NextIdentifier, TablesType
  <2> QED
    BY <1>2, <2>1 DEF MethodCallAsync, ReaderType, DeviceType, CallersType
<1>3. CASE EncodeFails(c)
  <2>1. CallersType'
    BY <1>3 DEF EncodeFails, CallersType, Caller
  <2> QED
    BY <1>3, <2>1 DEF EncodeFails, TablesType, ReaderType, DeviceType
<1>4. CASE AddResponseWaiter(c)
  <2>1. CallersType'
    <3> DEFINE none == << >>
               new == [caller EXCEPT ![c].inbox = none]
    <3>1. none \in Seq(Body) /\ Len(none) <= 1
      OBVIOUS
    <3>2. caller' = [new EXCEPT ![c].pc = "send"]
      BY <1>4 DEF AddResponseWaiter, CallersType, Caller
    <3> HIDE DEF none
    <3>3. new \in [Callers -> Caller] /\ \A d \in Callers : Len(new[d].inbox) <= 1
      BY <3>1, InboxType
    <3> QED
      BY <3>2, <3>3 DEF CallersType, Caller
  <2>2. caller[c].id \in Nat
    BY DEF CallersType, Caller
  <2>3. TablesType'
    <3>1. /\ DOMAIN responseWaiters' = DOMAIN responseWaiters \cup {caller[c].id}
          /\ responseWaiters'[caller[c].id] = c
          /\ \A i \in DOMAIN responseWaiters :
                i # caller[c].id => responseWaiters'[i] = responseWaiters[i]
      BY <1>4 DEF AddResponseWaiter, Put
    <3> QED
      BY <1>4, <2>2, <3>1 DEF AddResponseWaiter, TablesType
  <2> QED
    BY <1>4, <2>1, <2>3 DEF AddResponseWaiter, ReaderType, DeviceType
<1>5. CASE SendRequest(c)
  <2>1. CallersType'
    BY <1>5 DEF SendRequest, CallersType, Caller
  <2>2. [id |-> caller[c].id, body |-> <<c, caller[c].n>>] \in [id : Nat, body : Body]
    BY DEF CallersType, Caller, Body
  <2> QED
    BY <1>5, <2>1, <2>2 DEF SendRequest, TablesType, ReaderType, DeviceType
<1>6. CASE SendFails(c)
  <2>1. CallersType'
    BY <1>6 DEF SendFails, CallersType, Caller
  <2> QED
    BY <1>6, <2>1 DEF SendFails, TablesType, ReaderType, DeviceType
<1>7. CASE ReceiveReply(c)
  <2>1. CallersType'
    BY <1>7 DEF ReceiveReply, CallersType, Caller
  <2> QED
    BY <1>7, <2>1 DEF ReceiveReply, TablesType, ReaderType, DeviceType
<1>8. CASE Timeout(c)
  <2>1. CallersType'
    BY <1>8 DEF Timeout, CallersType, Caller
  <2> QED
    BY <1>8, <2>1 DEF Timeout, TablesType, ReaderType, DeviceType
<1>9. CASE RemoveResponseWaiter(c)
  <2>1. CallersType'
    BY <1>9 DEF RemoveResponseWaiter, CallersType, Caller
  <2>2. TablesType'
    BY <1>9, ForgetType DEF RemoveResponseWaiter, TablesType
  <2> QED
    BY <1>9, <2>1, <2>2 DEF RemoveResponseWaiter, ReaderType, DeviceType
<1> QED
  BY <1>1, <1>2, <1>3, <1>4, <1>5, <1>6, <1>7, <1>8, <1>9 DEF CallStep

LEMMA TableType ==
    ASSUME TypeOK, DispatchTable
    PROVE  TypeOK'
<1> DEFINE m == reader.msg
<1> USE DEF deviceVars, Return, HandToDispatcher
<1>1. m \in Message
  BY DEF DispatchTable, ReaderType
<1>2. DeviceType'
  BY DEF DispatchTable, DeviceType
<1>3. CASE FirstFragment(m)
  <2>1. NewFragmentDecoder(m) \in Decoder
    BY <1>1 DEF NewFragmentDecoder, Decoder
  <2>2. /\ DOMAIN defragmenters' = DOMAIN defragmenters \cup {m.id}
        /\ defragmenters'[m.id] = NewFragmentDecoder(m)
        /\ \A i \in DOMAIN defragmenters : i # m.id => defragmenters'[i] = defragmenters[i]
    BY <1>3 DEF FirstFragment, Put
  <2>3. TablesType'
    BY <1>1, <1>3, <2>1, <2>2 DEF FirstFragment, DispatchTable, TablesType, Message
  <2> QED
    BY <1>2, <1>3, <2>3 DEF FirstFragment, ReaderType, CallersType
<1>4. CASE MiddleFragment(m)
  <2>1. TablesType'
    BY <1>1, <1>4, AddFragmentType DEF MiddleFragment, DispatchTable, TablesType
  <2> QED
    BY <1>2, <1>4, <2>1 DEF MiddleFragment, ReaderType, CallersType
<1>5. CASE RejectedLastFragment(m)
  <2>1. ReaderType'
    BY <1>5 DEF RejectedLastFragment, ReaderType
  <2> QED
    BY <1>2, <1>5, <2>1 DEF RejectedLastFragment, DispatchTable, tables, TablesType, CallersType
<1>6. CASE LastFragment(m)
  <2> DEFINE d == AddFragment(defragmenters[m.id], m)
             whole == Reassemble(d)
  <2>1. d \in Decoder
    BY <1>1, <1>6, AddFragmentType DEF LastFragment, TablesType
  <2>2. whole \in Message
    BY <2>1, ReassembleType
  <2>3. CASE whole.conversation > 0
    <3>1. /\ caller' = SendResponse(whole) /\ Forget(whole.id) /\ Return
      BY <1>6, <2>2, <2>3 DEF LastFragment, Message
    <3>2. CallersType'
      BY <2>2, <3>1, DeliveredType DEF CallersType
    <3>3. TablesType'
      BY <3>1, ForgetType DEF DispatchTable, TablesType
    <3> QED
      BY <1>2, <3>1, <3>2, <3>3 DEF ReaderType
  <2>4. CASE whole.conversation = 0
    <3>1. /\ defragmenters' = [defragmenters EXCEPT ![m.id] = d]
          /\ HandToDispatcher(whole, TRUE)
          /\ UNCHANGED <<responseWaiters, caller>>
      BY <1>6, <2>4 DEF LastFragment
    <3>2. TablesType'
      BY <2>1, <3>1 DEF DispatchTable, TablesType
    <3> QED
      BY <1>2, <2>2, <3>1, <3>2 DEF ReaderType, CallersType
  <2> QED
    BY <2>2, <2>3, <2>4 DEF Message
<1>7. CASE StrayFragment(m)
  <2>1. TablesType'
    BY <1>7, ForgetType DEF StrayFragment, DispatchTable, TablesType
  <2> QED
    BY <1>2, <1>7, <2>1 DEF StrayFragment, ReaderType, CallersType
<1>8. CASE WholeReply(m)
  <2>1. TablesType'
    BY <1>8, ForgetType DEF WholeReply, DispatchTable, TablesType
  <2>2. CallersType'
    BY <1>1, <1>8, DeliveredType DEF WholeReply, CallersType
  <2> QED
    BY <1>2, <1>8, <2>1, <2>2 DEF WholeReply, ReaderType
<1> QED
  BY <1>3, <1>4, <1>5, <1>6, <1>7, <1>8 DEF DispatchTable

LEMMA ReaderStepType ==
    ASSUME TypeOK, ReaderStep
    PROVE  TypeOK'
<1> USE DEF channelVars, tables, deviceVars
<1>1. CASE ReaderStops
  BY <1>1 DEF ReaderStops, TablesType, ReaderType, CallersType, DeviceType
<1>2. CASE DispatchMessage
  <2>1. Head(wire) \in Message /\ wire' \in Seq(Message)
    BY <1>2 DEF DispatchMessage, DeviceType
  <2>2. TablesType'
    BY <1>2, <2>1 DEF DispatchMessage, TablesType, NextIdentifier, Message
  <2>3. ReaderType'
    BY <1>2, <2>1 DEF DispatchMessage, ReaderType
  <2> QED
    BY <1>2, <2>1, <2>2, <2>3 DEF DispatchMessage, CallersType, DeviceType
<1>3. CASE DispatchTable
  BY <1>3, TableType
<1>4. CASE DispatcherReturns
  <2>1. TablesType'
    BY <1>4, ForgetType DEF DispatcherReturns, TablesType
  <2> QED
    BY <1>4, <2>1 DEF DispatcherReturns, ReaderType, CallersType, DeviceType
<1> QED
  BY <1>1, <1>2, <1>3, <1>4 DEF ReaderStep

LEMMA TransmitType ==
    ASSUME TypeOK, NEW m \in Message, Transmit(m)
    PROVE  wire' \in Seq(Message) /\ outgoing' \subseteq Message
<1>1. [m EXCEPT !.index = @ + 1] \in Message
  BY DEF Message
<1> QED
  BY <1>1 DEF Transmit, DeviceType

LEMMA DeviceStepType ==
    ASSUME TypeOK, DeviceStep
    PROVE  TypeOK'
<1> USE DEF channelVars, tables
<1>1. ASSUME NEW n \in 1..MaxFragments, NEW readable \in Decodable, NEW q \in requests,
             DeviceAnswers(q, n, readable)
      PROVE  TypeOK'
  <2> DEFINE m == [id |-> q.id, conversation |-> 1, fragments |-> n, index |-> 0,
                   body |-> q.body]
  <2>1. q.body \in Body /\ m \in Message
    BY DEF DeviceType, Message
  <2>2. Transmit(m)
    BY <1>1 DEF DeviceAnswers
  <2>3. wire' \in Seq(Message) /\ outgoing' \subseteq Message
    BY <2>1, <2>2, TransmitType
  <2> QED
    BY <1>1, <2>1, <2>2, <2>3 DEF DeviceAnswers, Transmit, Payload, TablesType, ReaderType,
       CallersType, DeviceType
<1>2. ASSUME NEW n \in 1..MaxFragments, NEW readable \in Decodable,
             NEW i \in CallIdentifiers \cup FragmentedCallIds, DeviceCalls(i, n, readable)
      PROVE  TypeOK'
  <2> DEFINE m == [id |-> i, conversation |-> 0, fragments |-> n, index |-> 0,
                   body |-> <<Device, i>>]
  <2>1. i \in Nat /\ <<Device, i>> \in Body /\ m \in Message
    BY ChannelAssumption DEF Message, Body
  <2>2. Transmit(m)
    BY <1>2 DEF DeviceCalls
  <2>3. wire' \in Seq(Message) /\ outgoing' \subseteq Message
    BY <2>1, <2>2, TransmitType
  <2> QED
    BY <1>2, <2>1, <2>2, <2>3 DEF DeviceCalls, Transmit, Payload, TablesType, ReaderType,
       CallersType, DeviceType
<1>3. ASSUME NEW m \in outgoing, DeviceContinues(m)
      PROVE  TypeOK'
  <2>1. m \in Message /\ Transmit(m)
    BY <1>3 DEF DeviceContinues, DeviceType
  <2>2. wire' \in Seq(Message) /\ outgoing' \subseteq Message
    BY <2>1, TransmitType
  <2> QED
    BY <1>3, <2>1, <2>2 DEF DeviceContinues, Transmit, TablesType, ReaderType, CallersType,
       DeviceType
<1> QED
  BY <1>1, <1>2, <1>3 DEF DeviceStep

LEMMA StepType == TypeOK /\ [Next]_vars => TypeOK'
<1> SUFFICES ASSUME TypeOK, [Next]_vars PROVE TypeOK'
  OBVIOUS
<1>1. CASE ConnectionLost
  BY <1>1 DEF ConnectionLost, channelVars, deviceVars, TablesType, ReaderType, CallersType,
     DeviceType
<1>2. CASE UNCHANGED vars
  BY <1>2 DEF vars, channelVars, deviceVars, TablesType, ReaderType, CallersType, DeviceType
<1> QED
  BY <1>1, <1>2, CallerType, ReaderStepType, DeviceStepType DEF Next

\* The state of the channel has its type for any number of callers.
THEOREM TypeCorrect == Spec => []TypeOK
<1>1. Init => TypeOK
  BY InitType
<1>2. TypeOK /\ [Next]_vars => TypeOK'
  BY StepType
<1> QED
  BY <1>1, <1>2, PTL DEF Spec

-----------------------------------------------------------------------------
(* The inductive invariant *)

LEMMA InitInv == Init => IInv
<1> SUFFICES ASSUME Init PROVE IInv
  OBVIOUS
<1>1. TypeOK
  BY InitType
<1>2. IdsUnique /\ RequestsKnown /\ NoWaiterLeak /\ InboxOwn
  BY ChannelAssumption DEF Init, IdsUnique, RequestsKnown, NoWaiterLeak, InboxOwn, InCall
<1>3. RepliesGenuine
  BY DEF Init, RepliesGenuine
<1> QED
  BY <1>1, <1>2, <1>3 DEF IInv

\* Replies stay genuine while nothing new is on its way and requests and
\* answers are only added.
LEMMA RepliesFrame ==
    ASSUME RepliesGenuine, UNCHANGED <<wire, outgoing, defragmenters, reader>>,
           requests \subseteq requests', answered \subseteq answered'
    PROVE  RepliesGenuine'
  BY DEF RepliesGenuine, Genuine, IsFragment

\* A step of c that keeps its identifier and does not begin a call keeps
\* identifiers unique and requests known.
LEMMA IdsFrame ==
    ASSUME TypeOK, IdsUnique, RequestsKnown, NEW c \in Callers,
           \A d \in Callers \ {c} : caller'[d] = caller[d],
           caller'[c].id = caller[c].id, caller'[c].n = caller[c].n,
           caller'[c].pc # "idle" => caller[c].pc # "idle",
           UNCHANGED <<messageIdentifier, requests>>
    PROVE  IdsUnique' /\ RequestsKnown'
<1>1. \A d \in Callers : /\ caller'[d].id = caller[d].id /\ caller'[d].n = caller[d].n
                         /\ caller'[d].pc # "idle" => caller[d].pc # "idle"
  OBVIOUS
<1>2. IdsUnique'
  BY <1>1 DEF IdsUnique, InCall
<1>3. RequestsKnown'
  BY <1>1 DEF RequestsKnown, InCall
<1> QED
  BY <1>2, <1>3

\* Nobody waits under the identifier of a caller that is outside a call,
\* so such a caller may change its state freely.
LEMMA WaiterFrame ==
    ASSUME TypeOK, NoWaiterLeak, NEW c \in Callers,
           \A d \in Callers \ {c} : caller'[d] = caller[d],
           \/ caller[c].pc \notin {"send", "await", "remove"}
           \/ caller[c].id \notin DOMAIN responseWaiters
           \/ caller'[c].id = caller[c].id /\ caller'[c].pc \in {"send", "await", "remove"},
           UNCHANGED responseWaiters
    PROVE  NoWaiterLeak'
<1> SUFFICES ASSUME NEW i \in DOMAIN responseWaiters
             PROVE  /\ caller'[responseWaiters[i]].id = i
                    /\ caller'[responseWaiters[i]].pc \in {"send", "await", "remove"}
  BY DEF NoWaiterLeak
<1>1. /\ responseWaiters[i] \in Callers
      /\ caller[responseWaiters[i]].id = i
      /\ caller[responseWaiters[i]].pc \in {"send", "await", "remove"}
  BY DEF NoWaiterLeak, TablesType
<1>2. CASE responseWaiters[i] = c
  BY <1>1, <1>2
<1>3. CASE responseWaiters[i] # c
  BY <1>1, <1>3
<1> QED
  BY <1>2, <1>3

\* The part of InboxOwn about one caller.
OwnInbox(c) ==
    /\ caller[c].pc \in {"send", "await"} =>
          \/ caller[c].inbox = << >>
          \/ caller[c].inbox = << <<c, caller[c].n>> >> /\ <<c, caller[c].n>> \in answered
    /\ caller[c].pc \in {"send", "await"} /\ caller[c].inbox # << >> =>
          caller[c].id \notin DOMAIN responseWaiters
    /\ caller[c].outcome # Failed => caller[c].outcome[1] = c

LEMMA InboxFrame ==
    ASSUME InboxOwn, NEW c \in Callers,
           \A d \in Callers \ {c} : caller'[d] = caller[d],
           OwnInbox(c)',
           UNCHANGED <<responseWaiters, answered>>
    PROVE  InboxOwn'
<1> SUFFICES ASSUME NEW d \in Callers PROVE OwnInbox(d)'
  BY DEF InboxOwn, OwnInbox
<1>1. CASE d = c
  BY <1>1
<1>2. CASE d # c
  <2>1. OwnInbox(d)
    BY DEF InboxOwn, OwnInbox
  <2> QED
    BY <1>2, <2>1 DEF OwnInbox
<1> QED
  BY <1>1, <1>2

\* What IInv says of one caller.
LEMMA CallerFacts ==
    ASSUME IInv, NEW c \in Callers
    PROVE  /\ TypeOK /\ IdsUnique /\ RequestsKnown /\ NoWaiterLeak /\ InboxOwn
           /\ RepliesGenuine /\ OwnInbox(c)
           /\ caller \in [Callers -> Caller] /\ messageIdentifier \in Nat
           /\ caller[c].id \in Nat /\ caller[c].n \in Nat /\ caller[c].id < messageIdentifier
  BY DEF IInv, InboxOwn, OwnInbox, CallersType, TablesType, IdsUnique, Caller

LEMMA BeginInv ==
    ASSUME IInv, NEW c \in Callers, Begin(c)
    PROVE  IInv'
<1>1. TypeOK'
  BY CallerFacts, CallerType
<1>2. /\ \A d \in Callers \ {c} : caller'[d] = caller[d]
      /\ caller'[c].pc = "encode" /\ caller'[c].id = messageIdentifier
      /\ caller'[c].n = caller[c].n + 1 /\ caller'[c].outcome = caller[c].outcome
      /\ caller[c].pc = "idle"
      /\ messageIdentifier' = messageIdentifier + 1
      /\ UNCHANGED <<responseWaiters, defragmenters, reader, wire, requests, outgoing, answered>>
  BY CallerFacts DEF Begin, AllocateIdentifier, NextIdentifier, tables, deviceVars, Caller
<1>3. \A d \in Callers : caller[d].id \in Nat /\ caller[d].n \in Nat
                         /\ caller[d].id < messageIdentifier
  BY CallerFacts
<1>4. IdsUnique'
  <2>1. \A d \in Callers : caller'[d].id < messageIdentifier' /\ (InCall(d)' => caller'[d].n > 0)
    BY <1>2, <1>3, CallerFacts DEF IdsUnique, InCall
  <2>2. ASSUME NEW d \in Callers, NEW e \in Callers, InCall(d)', InCall(e)', d # e
        PROVE  caller'[d].id # caller'[e].id
    BY <1>2, <1>3, <2>2, CallerFacts DEF IdsUnique, InCall
  <2> QED
    BY <2>1, <2>2 DEF IdsUnique
<1>5. RequestsKnown'
  <2> SUFFICES ASSUME NEW q \in requests
               PROVE  /\ q.id < messageIdentifier'
                      /\ q.body[1] \in Callers
                      /\ q.body[2] \in 1..caller'[q.body[1]].n
                      /\ \A d \in Callers : InCall(d)' /\ caller'[d].id = q.id =>
                            q.body = <<d, caller'[d].n>>
    BY <1>2 DEF RequestsKnown
  <2>1. /\ q.id \in Nat /\ q.id < messageIdentifier /\ q.body[1] \in Callers
        /\ q.body[2] \in 1..caller[q.body[1]].n
    BY CallerFacts DEF RequestsKnown, DeviceType
  <2>2. \A d \in Callers : caller'[d].n \in Nat /\ caller[d].n <= caller'[d].n
    BY <1>2, <1>3
  <2>3. q.body[2] \in 1..caller'[q.body[1]].n
    BY <1>3, <2>1, <2>2
  <2>4. ASSUME NEW d \in Callers, InCall(d)', caller'[d].id = q.id
        PROVE  q.body = <<d, caller'[d].n>>
    BY <1>2, <2>1, <2>4, CallerFacts DEF RequestsKnown, InCall
  <2> QED
    BY <1>2, <2>1, <2>3, <2>4, CallerFacts
<1>6. NoWaiterLeak'
  BY <1>2, CallerFacts, WaiterFrame
<1>7. InboxOwn'
  BY <1>2, CallerFacts, InboxFrame DEF OwnInbox
<1>8. RepliesGenuine'
  BY <1>2, CallerFacts, RepliesFrame
<1> QED
  BY <1>1, <1>4, <1>5, <1>6, <1>7, <1>8 DEF IInv

LEMMA SendRequestInv ==
    ASSUME IInv, NEW c \in Callers, SendRequest(c)
    PROVE  IInv'
<1> DEFINE q == [id |-> caller[c].id, body |-> <<c, caller[c].n>>]
<1>1. TypeOK'
  BY CallerFacts, CallerType DEF CallStep
<1>2. /\ \A d \in Callers \ {c} : caller'[d] = caller[d]
      /\ caller'[c].pc = "await" /\ caller'[c].id = caller[c].id
      /\ caller'[c].n = caller[c].n /\ caller'[c].inbox = caller[c].inbox
      /\ caller'[c].outcome = caller[c].outcome
      /\ caller[c].pc = "send"
      /\ requests' = requests \cup {q}
      /\ UNCHANGED <<messageIdentifier, responseWaiters, defragmenters, reader, wire, outgoing,
                     answered>>
  BY CallerFacts DEF SendRequest, Goto, channelVars, Caller
<1>3. \A d \in Callers : caller'[d].id = caller[d].id /\ caller'[d].n = caller[d].n
                         /\ (InCall(d)' => InCall(d))
  BY <1>2 DEF InCall
<1>4. IdsUnique'
  BY <1>2, <1>3, CallerFacts DEF IdsUnique
<1>5. RequestsKnown'
  <2>1. /\ q.id < messageIdentifier
        /\ q.body[1] \in Callers
        /\ \A d \in Callers : InCall(d) /\ caller[d].id = q.id => q.body = <<d, caller[d].n>>
    BY <1>2, CallerFacts DEF IdsUnique, InCall
  <2>2. q.body[2] \in 1..caller[q.body[1]].n
    BY <1>2, CallerFacts DEF IdsUnique, InCall
  <2> QED
    BY <1>2, <1>3, <2>1, <2>2, CallerFacts DEF RequestsKnown
<1>6. NoWaiterLeak'
  BY <1>2, CallerFacts, WaiterFrame
<1>7. InboxOwn'
  BY <1>2, CallerFacts, InboxFrame DEF OwnInbox
<1>8. RepliesGenuine'
  BY <1>2, CallerFacts, RepliesFrame
<1> QED
  BY <1>1, <1>4, <1>5, <1>6, <1>7, <1>8 DEF IInv

LEMMA AddResponseWaiterInv ==
    ASSUME IInv, NEW c \in Callers, AddResponseWaiter(c)
    PROVE  IInv'
<1>1. TypeOK'
  BY CallerFacts, CallerType DEF CallStep
<1>2. /\ \A d \in Callers \ {c} : caller'[d] = caller[d]
      /\ caller'[c].pc = "send" /\ caller'[c].id = caller[c].id
      /\ caller'[c].n = caller[c].n /\ caller'[c].inbox = << >>
      /\ caller'[c].outcome = caller[c].outcome
      /\ caller[c].pc = "encode"
      /\ UNCHANGED <<messageIdentifier, defragmenters, reader, wire, requests, outgoing, answered>>
  BY CallerFacts DEF AddResponseWaiter, deviceVars, Caller
<1>3. /\ DOMAIN responseWaiters' = DOMAIN responseWaiters \cup {caller[c].id}
      /\ responseWaiters'[caller[c].id] = c
      /\ \A i \in DOMAIN responseWaiters :
            i # caller[c].id => responseWaiters'[i] = responseWaiters[i]
  BY DEF AddResponseWaiter, Put
<1>4. IdsUnique' /\ RequestsKnown'
  BY <1>2, CallerFacts, IdsFrame
<1>5. NoWaiterLeak'
  <2> SUFFICES ASSUME NEW i \in DOMAIN responseWaiters'
               PROVE  /\ caller'[responseWaiters'[i]].id = i
                      /\ caller'[responseWaiters'[i]].pc \in {"send", "await", "remove"}
    BY DEF NoWaiterLeak
  <2>1. CASE i = caller[c].id
    BY <1>2, <1>3, <2>1
  <2>2. CASE i # caller[c].id
    <3>1. /\ responseWaiters'[i] = responseWaiters[i]
          /\ responseWaiters[i] \in Callers
          /\ caller[responseWaiters[i]].id = i
          /\ caller[responseWaiters[i]].pc \in {"send", "await", "remove"}
      BY <1>3, <2>2, CallerFacts DEF NoWaiterLeak, TablesType
    <3> QED
      BY <1>2, <2>2, <3>1
  <2> QED
    BY <2>1, <2>2
<1>6. InboxOwn'
  <2> SUFFICES ASSUME NEW d \in Callers PROVE OwnInbox(d)'
    BY DEF InboxOwn, OwnInbox
  <2>1. CASE d = c
    BY <1>2, <2>1, CallerFacts DEF OwnInbox
  <2>2. CASE d # c
    <3>1. OwnInbox(d) /\ (InCall(d) => caller[d].id # caller[c].id)
      BY <1>2, <2>2, CallerFacts DEF IdsUnique, InCall
    <3> QED
      BY <1>2, <1>3, <2>2, <3>1 DEF OwnInbox, InCall
  <2> QED
    BY <2>1, <2>2
<1>7. RepliesGenuine'
  BY <1>2, CallerFacts, RepliesFrame
<1> QED
  BY <1>1, <1>4, <1>5, <1>6, <1>7 DEF IInv

LEMMA MethodCallAsyncInv ==
    ASSUME IInv, NEW c \in Callers, MethodCallAsync(c)
    PROVE  IInv'
<1>1. TypeOK'
  BY CallerFacts, CallerType
<1>2. /\ messageIdentifier' = messageIdentifier + 1
      /\ UNCHANGED <<responseWaiters, defragmenters, reader, caller, wire, requests, outgoing,
                     answered>>
  BY DEF MethodCallAsync, AllocateIdentifier, NextIdentifier, tables, deviceVars
<1>3. /\ messageIdentifier \in Nat
      /\ \A d \in Callers : caller[d].id \in Nat /\ caller[d].id < messageIdentifier
      /\ \A q \in requests : q.id \in Nat /\ q.id < messageIdentifier
  BY CallerFacts DEF RequestsKnown, DeviceType
<1>4. IdsUnique'
  BY <1>2, <1>3, CallerFacts DEF IdsUnique, InCall
<1>5. RequestsKnown'
  BY <1>2, <1>3, CallerFacts DEF RequestsKnown, InCall
<1>6. NoWaiterLeak' /\ InboxOwn'
  BY <1>2, CallerFacts DEF NoWaiterLeak, InboxOwn
<1>7. RepliesGenuine'
  BY <1>2, CallerFacts, RepliesFrame
<1> QED
  BY <1>1, <1>4, <1>5, <1>6, <1>7 DEF IInv

\* The steps that end a call, or a caller's wait, and touch no table.
LEMMA CallerLeavesInv ==
    ASSUME IInv, NEW c \in Callers,
           EncodeFails(c) \/ SendFails(c) \/ ReceiveReply(c) \/ Timeout(c)
    PROVE  IInv'
<1>1. TypeOK'
  BY CallerFacts, CallerType DEF CallStep
<1>2. /\ \A d \in Callers \ {c} : caller'[d] = caller[d]
      /\ caller'[c].id = caller[c].id /\ caller'[c].n = caller[c].n
      /\ caller'[c].pc \in {"idle", "remove"} /\ caller[c].pc # "idle"
      /\ UNCHANGED <<messageIdentifier, responseWaiters, defragmenters, reader, wire, requests,
                     outgoing, answered>>
  BY CallerFacts DEF EncodeFails, SendFails, ReceiveReply, Timeout, Goto, channelVars,
     deviceVars, Caller
<1>3. IdsUnique' /\ RequestsKnown'
  BY <1>2, CallerFacts, IdsFrame
<1>4. NoWaiterLeak' /\ InboxOwn'
  <2>1. CASE EncodeFails(c)
    <3>1. /\ caller[c].pc = "encode"
          /\ caller'[c].pc = "idle" /\ caller'[c].outcome = Failed
      BY <2>1, CallerFacts DEF EncodeFails, Caller
    <3>2. NoWaiterLeak' /\ OwnInbox(c)'
      BY <1>2, <3>1, CallerFacts, WaiterFrame DEF OwnInbox
    <3> QED
      BY <1>2, <3>2, CallerFacts, InboxFrame
  <2>2. CASE SendFails(c) \/ Timeout(c)
    <3>1. caller'[c].pc = "remove" /\ caller'[c].outcome = caller[c].outcome
      BY <2>2, CallerFacts DEF SendFails, Timeout, Goto, Caller
    <3>2. NoWaiterLeak' /\ OwnInbox(c)'
      BY <1>2, <3>1, CallerFacts, WaiterFrame DEF OwnInbox
    <3> QED
      BY <1>2, <3>2, CallerFacts, InboxFrame
  <2>3. CASE ReceiveReply(c)
    <3>1. /\ caller'[c].pc = "idle" /\ caller'[c].outcome = Head(caller[c].inbox)
          /\ caller[c].pc = "await" /\ caller[c].inbox # << >>
      BY <2>3, CallerFacts DEF ReceiveReply, Caller
    <3>2. caller[c].inbox = << <<c, caller[c].n>> >> /\ caller[c].id \notin DOMAIN responseWaiters
      BY <3>1, CallerFacts DEF OwnInbox
    <3>3. caller'[c].outcome = <<c, caller[c].n>>
      BY <3>1, <3>2
    <3>4. NoWaiterLeak' /\ OwnInbox(c)'
      BY <1>2, <3>1, <3>2, <3>3, CallerFacts, WaiterFrame DEF OwnInbox
    <3> QED
      BY <1>2, <3>4, CallerFacts, InboxFrame
  <2> QED
    BY <2>1, <2>2, <2>3
<1>5. RepliesGenuine'
  BY <1>2, CallerFacts, RepliesFrame
<1> QED
  BY <1>1, <1>3, <1>4, <1>5 DEF IInv

LEMMA RemoveResponseWaiterInv ==
    ASSUME IInv, NEW c \in Callers, RemoveResponseWaiter(c)
    PROVE  IInv'
<1>1. TypeOK'
  BY CallerFacts, CallerType DEF CallStep
<1>2. /\ \A d \in Callers \ {c} : caller'[d] = caller[d]
      /\ caller'[c].id = caller[c].id /\ caller'[c].n = caller[c].n
      /\ caller'[c].pc = "idle" /\ caller'[c].outcome = Failed /\ caller[c].pc # "idle"
      /\ UNCHANGED <<messageIdentifier, reader, wire, requests, outgoing, answered>>
  BY CallerFacts DEF RemoveResponseWaiter, deviceVars, Caller
<1>3. /\ DOMAIN responseWaiters' = DOMAIN responseWaiters \ {caller[c].id}
      /\ \A i \in DOMAIN responseWaiters' : responseWaiters'[i] = responseWaiters[i]
      /\ DOMAIN defragmenters' = DOMAIN defragmenters \ {caller[c].id}
      /\ \A i \in DOMAIN defragmenters' : defragmenters'[i] = defragmenters[i]
  BY DEF RemoveResponseWaiter, Forget, Delete
<1>4. IdsUnique' /\ RequestsKnown'
  BY <1>2, CallerFacts, IdsFrame
<1>5. NoWaiterLeak'
  <2> SUFFICES ASSUME NEW i \in DOMAIN responseWaiters'
               PROVE  /\ caller'[responseWaiters'[i]].id = i
                      /\ caller'[responseWaiters'[i]].pc \in {"send", "await", "remove"}
    BY DEF NoWaiterLeak
  <2>1. /\ responseWaiters'[i] = responseWaiters[i] /\ responseWaiters[i] \in Callers
        /\ caller[responseWaiters[i]].id = i /\ i # caller[c].id
        /\ caller[responseWaiters[i]].pc \in {"send", "await", "remove"}
    BY <1>3, CallerFacts DEF NoWaiterLeak, TablesType
  <2>2. responseWaiters[i] # c
    BY <2>1
  <2> QED
    BY <1>2, <2>1, <2>2
<1>6. InboxOwn'
  <2> SUFFICES ASSUME NEW d \in Callers PROVE OwnInbox(d)'
    BY DEF InboxOwn, OwnInbox
  <2>1. OwnInbox(d)
    BY CallerFacts
  <2> QED
    BY <1>2, <1>3, <2>1 DEF OwnInbox
<1>7. RepliesGenuine'
  BY <1>2, <1>3, CallerFacts DEF RepliesGenuine, Genuine, IsFragment
<1> QED
  BY <1>1, <1>4, <1>5, <1>6, <1>7 DEF IInv

LEMMA CallerInv ==
    ASSUME IInv, NEW c \in Callers, Begin(c) \/ MethodCallAsync(c) \/ CallStep(c)
    PROVE  IInv'
  BY BeginInv, MethodCallAsyncInv, SendRequestInv, AddResponseWaiterInv, CallerLeavesInv,
     RemoveResponseWaiterInv DEF CallStep

\* Dispatch forgets an identifier and gives nobody a message.
LEMMA ForgetInv ==
    ASSUME IInv, NEW id, Forget(id), UNCHANGED <<messageIdentifier, caller, requests, answered>>
    PROVE  IdsUnique' /\ RequestsKnown' /\ NoWaiterLeak' /\ InboxOwn'
<1>1. IdsUnique' /\ RequestsKnown'
  BY DEF IInv, IdsUnique, RequestsKnown, InCall
<1>2. NoWaiterLeak' /\ InboxOwn'
  BY ForgetType DEF IInv, NoWaiterLeak, InboxOwn
<1> QED
  BY <1>1, <1>2

\* Dispatch gives a reply to whoever waits under its identifier: it is the
\* reply to that caller's open call.
LEMMA DeliverInv ==
    ASSUME IInv, NEW m \in Message, Genuine(m), m.conversation = 1,
           caller' = SendResponse(m), Forget(m.id),
           UNCHANGED <<messageIdentifier, requests, answered>>
    PROVE  IdsUnique' /\ RequestsKnown' /\ NoWaiterLeak' /\ InboxOwn'
<1>1. CASE caller' = caller
  BY <1>1, ForgetInv
<1>2. CASE caller' # caller
  <2> DEFINE c == responseWaiters[m.id]
  <2>1. /\ m.id \in DOMAIN responseWaiters
        /\ caller' = [caller EXCEPT ![c].inbox = <<m.body>>]
    BY <1>2 DEF SendResponse
  <2>2. c \in Callers /\ caller[c].id = m.id /\ caller[c].pc \in {"send", "await", "remove"}
    BY <2>1 DEF IInv, NoWaiterLeak, TablesType
  <2>3. m.body = <<c, caller[c].n>> /\ m.body \in answered
    BY <2>2 DEF Genuine, IInv, RequestsKnown, InCall
  <2> HIDE DEF c
  <2>4. /\ \A d \in Callers \ {c} : caller'[d] = caller[d]
        /\ caller'[c].id = caller[c].id /\ caller'[c].n = caller[c].n
        /\ caller'[c].pc = caller[c].pc /\ caller'[c].outcome = caller[c].outcome
        /\ caller'[c].inbox = << <<c, caller[c].n>> >>
    BY <2>1, <2>2, <2>3, CallerFacts DEF Caller
  <2>5. IdsUnique' /\ RequestsKnown'
    BY <2>2, <2>4, CallerFacts, IdsFrame
  <2>6. /\ DOMAIN responseWaiters' = DOMAIN responseWaiters \ {m.id}
        /\ \A i \in DOMAIN responseWaiters' : responseWaiters'[i] = responseWaiters[i]
    BY ForgetType
  <2>7. NoWaiterLeak'
    <3>1. \A d \in Callers : caller'[d].id = caller[d].id /\ caller'[d].pc = caller[d].pc
      BY <2>4
    <3> QED
      BY <2>6, <3>1, CallerFacts DEF IInv, NoWaiterLeak, TablesType
  <2>8. InboxOwn'
    <3> SUFFICES ASSUME NEW d \in Callers PROVE OwnInbox(d)'
      BY DEF InboxOwn, OwnInbox
    <3>1. OwnInbox(d)
      BY CallerFacts
    <3>2. CASE d = c
      BY <2>2, <2>3, <2>4, <2>6, <3>1, <3>2 DEF OwnInbox
    <3>3. CASE d # c
      BY <2>4, <2>6, <3>1, <3>3 DEF OwnInbox
    <3> QED
      BY <3>2, <3>3
  <2> QED
    BY <2>5, <2>7, <2>8
<1> QED
  BY <1>1, <1>2

LEMMA TableInv ==
    ASSUME IInv, DispatchTable
    PROVE  IInv'
<1> DEFINE m == reader.msg
<1> USE DEF Return, HandToDispatcher
<1>1. TypeOK /\ TypeOK' /\ m \in Message
  BY TableType DEF IInv, DispatchTable, ReaderType
<1>2. UNCHANGED <<messageIdentifier, wire, requests, outgoing, answered>>
  BY DEF DispatchTable, deviceVars
<1>3. Genuine(m) /\ (IsFragment(m) \/ m.conversation = 1)
  BY DEF DispatchTable, IInv, RepliesGenuine
<1>4. ASSUME DOMAIN defragmenters' \subseteq DOMAIN defragmenters \cup {m.id},
             \A i \in DOMAIN defragmenters' :
                \/ defragmenters'[i].first = m
                \/ /\ i \in DOMAIN defragmenters
                   /\ defragmenters'[i].first = defragmenters[i].first,
             reader'.pc # "table"
      PROVE  RepliesGenuine'
  <2>1. \A i \in DOMAIN defragmenters' : Genuine(defragmenters'[i].first)
    BY <1>3, <1>4 DEF IInv, RepliesGenuine
  <2> QED
    BY <1>2, <1>4, <2>1 DEF IInv, RepliesGenuine, Genuine
<1>5. CASE FirstFragment(m)
  <2>1. UNCHANGED <<responseWaiters, caller>> /\ reader'.pc = "read"
    BY <1>5 DEF FirstFragment
  <2>2. IdsUnique' /\ RequestsKnown' /\ NoWaiterLeak' /\ InboxOwn'
    BY <1>2, <2>1 DEF IInv, IdsUnique, RequestsKnown, InCall, NoWaiterLeak, InboxOwn
  <2>3. /\ DOMAIN defragmenters' = DOMAIN defragmenters \cup {m.id}
        /\ \A i \in DOMAIN defragmenters' :
              \/ defragmenters'[i].first = m
              \/ /\ i \in DOMAIN defragmenters
                 /\ defragmenters'[i].first = defragmenters[i].first
    <3>1. defragmenters' = [x \in DOMAIN defragmenters \cup {m.id} |->
                               IF x = m.id THEN NewFragmentDecoder(m) ELSE defragmenters[x]]
      BY <1>5 DEF FirstFragment, Put
    <3>2. NewFragmentDecoder(m).first = m
      BY DEF NewFragmentDecoder
    <3> QED
      BY <3>1, <3>2
  <2> QED
    BY <1>1, <1>4, <2>1, <2>2, <2>3 DEF IInv
<1>6. CASE MiddleFragment(m)
  <2>1. UNCHANGED <<responseWaiters, caller>> /\ reader'.pc = "read"
    BY <1>6 DEF MiddleFragment
  <2>2. IdsUnique' /\ RequestsKnown' /\ NoWaiterLeak' /\ InboxOwn'
    BY <1>2, <2>1 DEF IInv, IdsUnique, RequestsKnown, InCall, NoWaiterLeak, InboxOwn
  <2>3. /\ DOMAIN defragmenters' = DOMAIN defragmenters
        /\ \A i \in DOMAIN defragmenters' : defragmenters'[i].first = defragmenters[i].first
    BY <1>1, <1>6, AddFragmentType DEF MiddleFragment, TablesType
  <2> QED
    BY <1>1, <1>4, <2>1, <2>2, <2>3 DEF IInv
<1>7. CASE RejectedLastFragment(m)
  <2>1. UNCHANGED <<responseWaiters, caller, defragmenters>> /\ reader'.pc = "panicked"
    BY <1>1, <1>7 DEF RejectedLastFragment, tables, ReaderType
  <2>2. IdsUnique' /\ RequestsKnown' /\ NoWaiterLeak' /\ InboxOwn'
    BY <1>2, <2>1 DEF IInv, IdsUnique, RequestsKnown, InCall, NoWaiterLeak, InboxOwn
  <2> QED
    BY <1>1, <1>4, <2>1, <2>2 DEF IInv
<1>8. CASE LastFragment(m)
  <2> DEFINE d == AddFragment(defragmenters[m.id], m)
             whole == Reassemble(d)
  <2>1. d \in Decoder /\ d.first = defragmenters[m.id].first /\ m.id \in DOMAIN defragmenters
    BY <1>1, <1>8, AddFragmentType DEF LastFragment, TablesType
  <2>2. Genuine(d.first)
    BY <2>1 DEF IInv, RepliesGenuine
  <2>3. whole \in Message
    BY <2>1, ReassembleType
  <2>4. CASE whole.conversation > 0
    <3>1. caller' = SendResponse(whole) /\ Forget(whole.id) /\ reader'.pc = "read"
      BY <1>8, <2>4 DEF LastFragment
    <3>2. whole.conversation = 1 /\ Genuine(whole)
      <4>1. whole.id = d.first.id /\ whole.body = d.first.body /\ d.first.conversation = 1
        BY <2>1, <2>4, ReassembleType
      <4>2. whole.conversation = 1
        BY <2>3, <2>4 DEF Message
      <4> QED
        BY <2>2, <4>1, <4>2 DEF Genuine
    <3>3. IdsUnique' /\ RequestsKnown' /\ NoWaiterLeak' /\ InboxOwn'
      BY <1>2, <2>3, <3>1, <3>2, DeliverInv
    <3>4. RepliesGenuine'
      BY <1>4, <3>1, ForgetType
    <3> QED
      BY <1>1, <3>3, <3>4 DEF IInv
  <2>5. CASE whole.conversation = 0
    <3>1. /\ defragmenters' = [defragmenters EXCEPT ![m.id] = d]
          /\ UNCHANGED <<responseWaiters, caller>> /\ reader'.pc = "dispatcher"
      BY <1>8, <2>5 DEF LastFragment
    <3>2. IdsUnique' /\ RequestsKnown' /\ NoWaiterLeak' /\ InboxOwn'
      BY <1>2, <3>1 DEF IInv, IdsUnique, RequestsKnown, InCall, NoWaiterLeak, InboxOwn
    <3>3. RepliesGenuine'
      BY <1>4, <2>1, <3>1
    <3> QED
      BY <1>1, <3>2, <3>3 DEF IInv
  <2> QED
    BY <2>3, <2>4, <2>5 DEF Message
<1>9. CASE StrayFragment(m)
  <2>1. UNCHANGED caller /\ Forget(m.id) /\ reader'.pc = "read"
    BY <1>9 DEF StrayFragment
  <2>2. IdsUnique' /\ RequestsKnown' /\ NoWaiterLeak' /\ InboxOwn'
    BY <1>2, <2>1, ForgetInv
  <2> QED
    BY <1>1, <1>4, <2>1, <2>2, ForgetType DEF IInv
<1>10. CASE WholeReply(m)
  <2>1. caller' = SendResponse(m) /\ Forget(m.id) /\ reader'.pc = "read" /\ m.conversation = 1
    BY <1>3, <1>10 DEF WholeReply
  <2>2. IdsUnique' /\ RequestsKnown' /\ NoWaiterLeak' /\ InboxOwn'
    BY <1>1, <1>2, <1>3, <2>1, DeliverInv
  <2> QED
    BY <1>1, <1>4, <2>1, <2>2, ForgetType DEF IInv
<1> QED
  BY <1>5, <1>6, <1>7, <1>8, <1>9, <1>10 DEF DispatchTable

LEMMA ReaderInv ==
    ASSUME IInv, ReaderStep
    PROVE  IInv'
<1> USE DEF channelVars, tables, deviceVars
<1>1. TypeOK /\ TypeOK'
  BY ReaderStepType DEF IInv
<1>2. CASE ReaderStops
  <2>1. UNCHANGED <<messageIdentifier, responseWaiters, defragmenters, caller, wire, requests,
                    outgoing, answered>> /\ reader'.pc = "stopped"
    BY <1>1, <1>2 DEF ReaderStops, ReaderType
  <2>2. IdsUnique' /\ RequestsKnown' /\ NoWaiterLeak' /\ InboxOwn'
    BY <2>1 DEF IInv, IdsUnique, RequestsKnown, InCall, NoWaiterLeak, InboxOwn
  <2>3. RepliesGenuine'
    BY <2>1 DEF IInv, RepliesGenuine, Genuine
  <2> QED
    BY <1>1, <2>2, <2>3 DEF IInv
<1>3. CASE DispatchMessage
  <2> DEFINE m == Head(wire)
  <2>1. /\ UNCHANGED <<responseWaiters, defragmenters, caller, requests, outgoing, answered>>
        /\ wire # << >> /\ wire' = Tail(wire)
        /\ messageIdentifier' = IF m.id >= messageIdentifier THEN m.id + 1
                                                             ELSE messageIdentifier
        /\ reader'.pc = "table" => reader'.msg = m /\ (m.conversation > 0 \/ IsFragment(m))
    BY <1>3 DEF DispatchMessage, NextIdentifier
  <2>2. m \in Message /\ Genuine(m) /\ m = wire[1]
    BY <1>1, <2>1 DEF IInv, RepliesGenuine, DeviceType
  <2>3. messageIdentifier' \in Nat /\ messageIdentifier <= messageIdentifier'
    BY <1>1, <2>1, <2>2 DEF TablesType, Message
  <2>4. /\ \A c \in Callers : caller[c].id \in Nat /\ caller[c].id < messageIdentifier
        /\ \A q \in requests : q.id \in Nat /\ q.id < messageIdentifier
        /\ messageIdentifier \in Nat
    BY <1>1, CallerFacts DEF IInv, RequestsKnown, DeviceType, TablesType
  <2>5. IdsUnique' /\ RequestsKnown'
    BY <2>1, <2>3, <2>4 DEF IInv, IdsUnique, RequestsKnown, InCall
  <2>6. NoWaiterLeak' /\ InboxOwn'
    BY <2>1 DEF IInv, NoWaiterLeak, InboxOwn
  <2>7. RepliesGenuine'
    <3>1. \A i \in 1..Len(wire') : Genuine(wire'[i])
      <4>1. \A i \in 1..Len(wire') : i + 1 \in 1..Len(wire) /\ wire'[i] = wire[i + 1]
        BY <1>1, <2>1 DEF DeviceType
      <4> QED
        BY <4>1 DEF IInv, RepliesGenuine
    <3>2. reader'.pc = "table" =>
             Genuine(reader'.msg) /\ (IsFragment(reader'.msg) \/ reader'.msg.conversation = 1)
      BY <2>1, <2>2 DEF Message
    <3> QED
      BY <2>1, <3>1, <3>2 DEF IInv, RepliesGenuine, Genuine, IsFragment
  <2> QED
    BY <1>1, <2>5, <2>6, <2>7 DEF IInv
<1>4. CASE DispatchTable
  BY <1>4, TableInv
<1>5. CASE DispatcherReturns
  <2>1. /\ UNCHANGED <<messageIdentifier, caller, wire, requests, outgoing, answered>>
        /\ reader'.pc = "read"
    BY <1>5 DEF DispatcherReturns
  <2>2. CASE mutex
    <3>1. Forget(reader.msg.id)
      BY <1>5, <2>2 DEF DispatcherReturns
    <3>2. IdsUnique' /\ RequestsKnown' /\ NoWaiterLeak' /\ InboxOwn'
      BY <2>1, <3>1, ForgetInv
    <3>3. RepliesGenuine'
      BY <2>1, <3>1, ForgetType DEF IInv, RepliesGenuine, Genuine
    <3> QED
      BY <1>1, <3>2, <3>3 DEF IInv
  <2>3. CASE ~mutex
    <3>1. UNCHANGED <<responseWaiters, defragmenters>>
      BY <1>5, <2>3 DEF DispatcherReturns
    <3>2. IdsUnique' /\ RequestsKnown' /\ NoWaiterLeak' /\ InboxOwn'
      BY <2>1, <3>1 DEF IInv, IdsUnique, RequestsKnown, InCall, NoWaiterLeak, InboxOwn
    <3>3. RepliesGenuine'
      BY <2>1, <3>1 DEF IInv, RepliesGenuine, Genuine
    <3> QED
      BY <1>1, <3>2, <3>3 DEF IInv
  <2> QED
    BY <2>2, <2>3
<1> QED
  BY <1>2, <1>3, <1>4, <1>5 DEF ReaderStep

\* What the device sends is genuine when its new message is.
LEMMA TransmitInv ==
    ASSUME IInv, NEW m \in Message, Transmit(m), TypeOK', answered \subseteq answered',
           m.conversation = 1 =>
              [id |-> m.id, body |-> m.body] \in requests /\ m.body \in answered'
    PROVE  IInv'
<1>1. /\ UNCHANGED <<messageIdentifier, responseWaiters, defragmenters, reader, caller, requests>>
      /\ wire' = Append(wire, m)
      /\ outgoing' \subseteq outgoing \cup {[m EXCEPT !.index = @ + 1]}
  BY DEF Transmit, channelVars
<1>2. IdsUnique' /\ RequestsKnown' /\ NoWaiterLeak'
  BY <1>1 DEF IInv, IdsUnique, RequestsKnown, InCall, NoWaiterLeak
<1>3. InboxOwn'
  BY <1>1 DEF IInv, InboxOwn
<1>4. RepliesGenuine'
  <2> DEFINE Sound(x) == x.conversation = 1 =>
                            [id |-> x.id, body |-> x.body] \in requests /\ x.body \in answered'
  <2>1. \A x : Genuine(x) => Sound(x)
    BY DEF Genuine
  <2>2. /\ \A i \in DOMAIN defragmenters' : Sound(defragmenters'[i].first)
        /\ reader'.pc = "table" =>
              Sound(reader'.msg) /\ (IsFragment(reader'.msg) \/ reader'.msg.conversation = 1)
    BY <1>1, <2>1 DEF IInv, RepliesGenuine
  <2>3. \A x \in outgoing' : Sound(x)
    <3>1. Sound([m EXCEPT !.index = @ + 1])
      BY DEF Message
    <3> QED
      BY <1>1, <2>1, <3>1 DEF IInv, RepliesGenuine
  <2>4. \A i \in 1..Len(wire') : Sound(wire'[i])
    <3>1. wire \in Seq(Message)
      BY DEF IInv, DeviceType
    <3>2. \A i \in 1..Len(wire') : (i \in 1..Len(wire) /\ wire'[i] = wire[i]) \/ wire'[i] = m
      BY <1>1, <3>1
    <3>3. Sound(m)
      OBVIOUS
    <3> QED
      BY <2>1, <3>2, <3>3 DEF IInv, RepliesGenuine
  <2> QED
    BY <1>1, <2>2, <2>3, <2>4 DEF RepliesGenuine, Genuine, IsFragment
<1> QED
  BY <1>2, <1>3, <1>4 DEF IInv

LEMMA DeviceInv ==
    ASSUME IInv, DeviceStep
    PROVE  IInv'
<1>1. TypeOK /\ TypeOK'
  BY DeviceStepType DEF IInv
<1>2. ASSUME NEW n \in 1..MaxFragments, NEW readable \in Decodable, NEW q \in requests,
             DeviceAnswers(q, n, readable)
      PROVE  IInv'
  <2> DEFINE m == [id |-> q.id, conversation |-> 1, fragments |-> n, index |-> 0,
                   body |-> q.body]
  <2>1. m \in Message /\ q = [id |-> m.id, body |-> m.body]
    BY <1>1 DEF DeviceType, Message
  <2>2. Transmit(m) /\ answered' = answered \cup {q.body}
    BY <1>2 DEF DeviceAnswers
  <2> QED
    BY <1>1, <2>1, <2>2, TransmitInv
<1>3. ASSUME NEW n \in 1..MaxFragments, NEW readable \in Decodable,
             NEW i \in CallIdentifiers \cup FragmentedCallIds, DeviceCalls(i, n, readable)
      PROVE  IInv'
  <2> DEFINE m == [id |-> i, conversation |-> 0, fragments |-> n, index |-> 0,
                   body |-> <<Device, i>>]
  <2>1. m \in Message
    BY ChannelAssumption DEF Message, Body
  <2>2. Transmit(m) /\ answered' = answered
    BY <1>3 DEF DeviceCalls
  <2>3. m.conversation # 1
    OBVIOUS
  <2> HIDE DEF m
  <2> QED
    BY <1>1, <2>1, <2>2, <2>3, TransmitInv
<1>4. ASSUME NEW m \in outgoing, DeviceContinues(m)
      PROVE  IInv'
  <2>1. m \in Message /\ Genuine(m)
    BY <1>1 DEF DeviceType, IInv, RepliesGenuine
  <2>2. Transmit(m) /\ answered' = answered
    BY <1>4 DEF DeviceContinues
  <2> QED
    BY <1>1, <2>1, <2>2, TransmitInv DEF Genuine
<1> QED
  BY <1>2, <1>3, <1>4 DEF DeviceStep

LEMMA StepInv == IInv /\ [Next]_vars => IInv'
<1> SUFFICES ASSUME IInv, [Next]_vars PROVE IInv'
  OBVIOUS
<1>1. CASE ConnectionLost \/ UNCHANGED vars
  <2>1. UNCHANGED <<messageIdentifier, responseWaiters, defragmenters, reader, caller, wire,
                    requests, outgoing, answered>>
    BY <1>1 DEF ConnectionLost, vars, channelVars, deviceVars
  <2>2. TypeOK'
    BY StepType DEF IInv
  <2>3. IdsUnique' /\ RequestsKnown' /\ NoWaiterLeak' /\ InboxOwn'
    BY <2>1 DEF IInv, IdsUnique, RequestsKnown, InCall, NoWaiterLeak, InboxOwn
  <2>4. RepliesGenuine'
    BY <2>1, RepliesFrame DEF IInv
  <2> QED
    BY <2>2, <2>3, <2>4 DEF IInv
<1> QED
  BY <1>1, CallerInv, ReaderInv, DeviceInv DEF Next

LEMMA Invariant == Spec => []IInv
<1>1. Init => IInv
  BY InitInv
<1>2. IInv /\ [Next]_vars => IInv'
  BY StepInv
<1> QED
  BY <1>1, <1>2, PTL DEF Spec

\* However many callers share the channel, whatever the device sends and in
\* whatever order, a call ends with the answer to its own request or fails.
THEOREM CallsGetOwnReply == Spec => []OwnReply
<1>1. IInv => OwnReply
  BY DEF IInv, InboxOwn, OwnReply
<1> QED
  BY <1>1, Invariant, PTL

\* No waiter is left in responseWaiters by a call that has ended: the table
\* is never larger than the number of open calls.
THEOREM WaitersDoNotLeak == Spec => []NoWaiterLeak
<1>1. IInv => NoWaiterLeak
  BY DEF IInv
<1> QED
  BY <1>1, Invariant, PTL

-----------------------------------------------------------------------------
(* The channel implements RemoteCall *)

\* A step that keeps every caller's calls, open and outcome, and the answers,
\* is a stutter of RemoteCall.
LEMMA RemoteStutter ==
    ASSUME \A c \in Callers : /\ caller'[c].n = caller[c].n
                              /\ caller'[c].outcome = caller[c].outcome
                              /\ (caller'[c].pc = "idle") = (caller[c].pc = "idle"),
           answered' = answered
    PROVE  UNCHANGED Remote!vars
  BY DEF Remote!vars, InCall

LEMMA RemoteEnd ==
    ASSUME NEW c \in Callers, TypeOK,
           \A d \in Callers \ {c} : caller'[d] = caller[d],
           caller[c].pc # "idle", caller'[c].pc = "idle", caller'[c].n = caller[c].n,
           answered' = answered
    PROVE  /\ caller'[c].outcome = Failed => Remote!Fail(c)
           /\ caller'[c].outcome = <<c, caller[c].n>> /\ <<c, caller[c].n>> \in answered
                 => Remote!Return(c)
<1>1. [d \in Callers |-> caller'[d].n] = [d \in Callers |-> caller[d].n]
  OBVIOUS
<1>2. [d \in Callers |-> InCall(d)]' = [[d \in Callers |-> InCall(d)] EXCEPT ![c] = FALSE]
  BY DEF InCall
<1>3. [d \in Callers |-> caller'[d].outcome] =
         [[d \in Callers |-> caller[d].outcome] EXCEPT ![c] = caller'[c].outcome]
  OBVIOUS
<1> QED
  BY <1>1, <1>2, <1>3 DEF Remote!Fail, Remote!Return, InCall

LEMMA RemoteStep == IInv /\ [Next]_vars => [Remote!Next]_(Remote!vars)
<1> SUFFICES ASSUME IInv, [Next]_vars PROVE [Remote!Next]_(Remote!vars)
  OBVIOUS
<1> USE DEF Goto
<1>1. TypeOK /\ TypeOK' /\ caller \in [Callers -> Caller]
  BY StepType DEF IInv, CallersType
<1>2. ASSUME NEW c \in Callers, Begin(c)
      PROVE  Remote!Start(c)
  <2>1. /\ \A d \in Callers \ {c} : caller'[d] = caller[d]
        /\ caller[c].pc = "idle" /\ caller'[c].pc = "encode"
        /\ caller'[c].n = caller[c].n + 1 /\ caller'[c].outcome = caller[c].outcome
        /\ answered' = answered
    BY <1>1, <1>2 DEF Begin, deviceVars, Caller
  <2>2. [d \in Callers |-> caller'[d].n] = [[d \in Callers |-> caller[d].n] EXCEPT ![c] = @ + 1]
    BY <2>1
  <2>3. [d \in Callers |-> InCall(d)]' = [[d \in Callers |-> InCall(d)] EXCEPT ![c] = TRUE]
    BY <2>1 DEF InCall
  <2>4. [d \in Callers |-> caller'[d].outcome] = [d \in Callers |-> caller[d].outcome]
    BY <2>1
  <2> QED
    BY <2>1, <2>2, <2>3, <2>4 DEF Remote!Start, InCall
<1>3. ASSUME NEW c \in Callers, EncodeFails(c) \/ RemoveResponseWaiter(c)
      PROVE  Remote!Fail(c)
  <2>1. /\ \A d \in Callers \ {c} : caller'[d] = caller[d]
        /\ caller[c].pc # "idle" /\ caller'[c].pc = "idle"
        /\ caller'[c].n = caller[c].n /\ caller'[c].outcome = Failed
        /\ answered' = answered
    BY <1>1, <1>3 DEF EncodeFails, RemoveResponseWaiter, deviceVars, Caller
  <2> QED
    BY <1>1, <2>1, RemoteEnd
<1>4. ASSUME NEW c \in Callers, ReceiveReply(c)
      PROVE  Remote!Return(c)
  <2>1. /\ \A d \in Callers \ {c} : caller'[d] = caller[d]
        /\ caller[c].pc = "await" /\ caller'[c].pc = "idle"
        /\ caller[c].inbox # << >>
        /\ caller'[c].n = caller[c].n /\ caller'[c].outcome = Head(caller[c].inbox)
        /\ answered' = answered
    BY <1>1, <1>4 DEF ReceiveReply, deviceVars, Caller
  <2>2. caller[c].inbox = << <<c, caller[c].n>> >> /\ <<c, caller[c].n>> \in answered
    BY <2>1, CallerFacts DEF OwnInbox
  <2>3. caller'[c].outcome = <<c, caller[c].n>>
    BY <2>1, <2>2
  <2> QED
    BY <1>1, <2>1, <2>2, <2>3, RemoteEnd
<1>5. ASSUME NEW c \in Callers,
             AddResponseWaiter(c) \/ SendRequest(c) \/ SendFails(c) \/ Timeout(c)
      PROVE  UNCHANGED Remote!vars
  <2>1. /\ \A d \in Callers \ {c} : caller'[d] = caller[d]
        /\ caller[c].pc # "idle" /\ caller'[c].pc # "idle"
        /\ caller'[c].n = caller[c].n /\ caller'[c].outcome = caller[c].outcome
        /\ answered' = answered
    BY <1>1, <1>5 DEF AddResponseWaiter, SendRequest, SendFails, Timeout, deviceVars, Caller
  <2> QED
    BY <2>1, RemoteStutter
<1>6. ASSUME NEW c \in Callers, MethodCallAsync(c)
      PROVE  UNCHANGED Remote!vars
  BY <1>6, RemoteStutter DEF MethodCallAsync, deviceVars
<1>7. CASE ReaderStep
  <2>1. answered' = answered
    BY <1>7 DEF ReaderStep, ReaderStops, DispatchMessage, DispatchTable, DispatcherReturns,
       deviceVars
  <2>2. ASSUME NEW m, caller' = SendResponse(m)
        PROVE  \A c \in Callers : /\ caller'[c].n = caller[c].n /\ caller'[c].pc = caller[c].pc
                                  /\ caller'[c].outcome = caller[c].outcome
    BY <1>1, <2>2 DEF SendResponse, Caller
  <2>3. caller' = caller \/ \E m : caller' = SendResponse(m)
    BY <1>7 DEF ReaderStep, ReaderStops, DispatchMessage, DispatchTable, DispatcherReturns,
       FirstFragment, MiddleFragment, RejectedLastFragment, LastFragment, StrayFragment,
       WholeReply
  <2> QED
    BY <2>1, <2>2, <2>3, RemoteStutter
<1>8. CASE DeviceStep
  <2>1. caller' = caller
    BY <1>8 DEF DeviceStep, DeviceAnswers, DeviceCalls, DeviceContinues, Transmit
  <2>2. CASE answered' = answered
    BY <2>1, <2>2, RemoteStutter
  <2>3. CASE answered' # answered
    <3>1. PICK q \in requests : q.body \notin answered /\ answered' = answered \cup {q.body}
      BY <1>8, <2>3 DEF DeviceStep, DeviceAnswers, DeviceCalls, DeviceContinues
    <3> DEFINE c == q.body[1]
               n == q.body[2]
    <3>2. c \in Callers /\ n \in 1..caller[c].n /\ q.body = <<c, n>>
      BY <1>1 DEF IInv, RequestsKnown, DeviceType, Body
    <3>3. Remote!Answer(c)
      BY <2>1, <3>1, <3>2 DEF Remote!Answer, InCall
    <3> QED
      BY <3>2, <3>3 DEF Remote!Next
  <2> QED
    BY <2>2, <2>3
<1>9. CASE ConnectionLost \/ UNCHANGED vars
  BY <1>9, RemoteStutter DEF ConnectionLost, vars, deviceVars
<1> QED
  BY <1>2, <1>3, <1>4, <1>5, <1>6, <1>7, <1>8, <1>9 DEF Next, CallStep, Remote!Next

\* DtxChannel implements RemoteCall: seen from outside, a method call on a
\* DTX channel is one open call that ends once, with its own answer or an
\* error, for any number of callers and any device.
THEOREM ChannelImplementsRemoteCall == Spec => ImplementsRemoteCall
<1>1. Init => Remote!Init
  <2> SUFFICES ASSUME Init PROVE Remote!Init
    OBVIOUS
  <2> USE DEF Init
  <2>1. [c \in Callers |-> caller[c].n] = [c \in Callers |-> 0]
    OBVIOUS
  <2>2. [c \in Callers |-> InCall(c)] = [c \in Callers |-> FALSE]
    <3>1. \A c \in Callers : InCall(c) = FALSE
      BY DEF InCall
    <3> QED
      BY <3>1, Zenon
  <2>3. [c \in Callers |-> caller[c].outcome] = [c \in Callers |-> Failed]
    OBVIOUS
  <2> QED
    BY <2>1, <2>2, <2>3 DEF Remote!Init
<1>2. IInv /\ [Next]_vars => [Remote!Next]_(Remote!vars)
  BY RemoteStep
<1> QED
  BY <1>1, <1>2, Invariant, PTL DEF Spec, Remote!Spec, ImplementsRemoteCall
----------------------------------------------------------------------------
(***************************************************************************)
(* The fragments of the device's messages.                                 *)
(*                                                                         *)
(* What is true of every identifier is GInv: whose identifiers there are.  *)
(* The rest is said of one identifier k, which is not contested: it is     *)
(* used by one fragmented message at most, because the device answers a    *)
(* request once, numbers its own calls upwards, and none of these has the  *)
(* identifier of a request.  So all fragments with it belong to one        *)
(* message, and a last fragment fits its decoder.  They reach the reader   *)
(* in order, none skipped: a decoder has a prefix of its message and the   *)
(* rest is on its way (LInv).  And what has been dispatched of an answer   *)
(* is with its caller or in its decoder (RInv).                            *)
(*                                                                         *)
(* Whatever happens under other identifiers, contested ones included, does *)
(* not touch the waiter, the decoder and the callers of k.                 *)
(***************************************************************************)

\* m is on its way to the reader, in its hands, or the first in a decoder.
InSystem(m) ==
    \/ \E i \in 1..Len(wire) : wire[i] = m
    \/ m \in outgoing
    \/ reader.pc = "table" /\ reader.msg = m
    \/ \E i \in DOMAIN defragmenters : defragmenters[i].first = m

Fragment(m) == InSystem(m) /\ m \in Message /\ IsFragment(m)

\* What the reader has still to dispatch, in order.
Line == IF reader.pc = "table" THEN <<reader.msg>> \o wire ELSE wire
InLine == {Line[i] : i \in 1..Len(Line)}

\* Requests have identifiers of the channel's own, no two requests the same.
RequestIds ==
    /\ messageIdentifier >= FirstIdentifier
    /\ \A c \in Callers : InCall(c) => caller[c].id >= FirstIdentifier
    /\ \A q \in requests : q.id >= FirstIdentifier
    /\ \A q, r \in requests : q.id = r.id => q.body = r.body

\* A fragment of a call has the identifier of a call in fragments, one of a
\* reply that of a request the device has answered.
FragmentIds ==
    \A m : Fragment(m) =>
        IF m.conversation = 0 THEN m.id \in fragmentedCalls /\ m.id <= lastDeviceId
        ELSE [id |-> m.id, body |-> m.body] \in requests /\ m.body \in answered

DecodersKeyed ==
    \A i \in DOMAIN defragmenters :
        defragmenters[i].first.id = i /\ IsFragment(defragmenters[i].first)

\* The calls of the device are its own; the mutex is held for a call in
\* fragments, or for what could not be decoded.
DeviceCallsOwn ==
    /\ \A x \in InLine \cup outgoing : x.conversation = 0 => x.body[1] = Device
    /\ \A x \in outgoing : IsFragment(x)
    /\ \A i \in DOMAIN defragmenters :
          defragmenters[i].first.conversation = 0 => defragmenters[i].first.body[1] = Device
    /\ reader.pc = "dispatcher" => reader.msg.body[1] = Device
    /\ mutex => reader.pc = "dispatcher" /\ reader.msg.id \in fragmentedCalls \cup {0}

\* A call has made one request at most, with its identifier; a caller that
\* waits has made it; only requests are answered.
RequestsOfCalls ==
    /\ \A b \in answered : \E q \in requests : q.body = b
    /\ \A c \in Callers, q \in requests :
          InCall(c) /\ q.body = <<c, caller[c].n>> =>
              q.id = caller[c].id /\ caller[c].pc \notin {"encode", "send"}
    /\ \A c \in Callers : caller[c].pc = "await" => \E q \in requests : q.id = caller[c].id

GInv == RequestIds /\ FragmentIds /\ DecodersKeyed /\ DeviceCallsOwn /\ RequestsOfCalls

\* x is a fragment of the same message as y.
SameMessage(x, y) ==
    x.id = y.id /\ x.fragments = y.fragments /\ x.conversation = y.conversation /\ x.body = y.body

\* x is a fragment with the identifier k; the fragments still to be dispatched.
Of(k, x) == IsFragment(x) /\ x.id = k
Flying(k) == {x \in InLine \cup outgoing : Of(k, x)}

\* Fragments with the identifier k are fragments of the same message.
FragmentsAgree(k) ==
    \A x, y : Fragment(x) /\ Fragment(y) /\ x.id = k /\ y.id = k => SameMessage(x, y)

NoPanic(k) == reader.pc = "panicked" => reader.msg.id # k

FragmentsInOrder(k) ==
    /\ \A i, j \in 1..Len(Line) :
          i < j /\ Of(k, Line[i]) /\ Of(k, Line[j]) => Line[i].index < Line[j].index
    /\ \A x \in InLine, y \in outgoing : Of(k, x) /\ Of(k, y) => x.index < y.index
    /\ \A x, y \in outgoing : Of(k, x) /\ Of(k, y) => x = y

NoneSkipped(k) ==
    \A x \in Flying(k) :
        /\ x.index < x.fragments
        /\ x \in InLine /\ x.index + 1 < x.fragments =>
              \E y \in Flying(k) : SameMessage(x, y) /\ y.index = x.index + 1

\* j is the next fragment the decoder expects: those below it are in, the others
\* on their way.  One that has all is kept for a call the user is looking at.
Expects(k, j) ==
    LET d == defragmenters[k] IN
    /\ d.parts = {<<i, d.first.body>> : i \in 1..(j - 1)}
    /\ \A x \in Flying(k) : x.index >= j
    /\ j < d.first.fragments => \E x \in Flying(k) : x.index = j
    /\ j = d.first.fragments =>
          \/ d.first.body \in undecodable
          \/ /\ reader.pc = "dispatcher" /\ mutex
             /\ reader.msg.id = k /\ reader.msg.body = d.first.body

DecoderFilled(k) ==
    k \in DOMAIN defragmenters => \E j \in 1..defragmenters[k].first.fragments : Expects(k, j)

LInv(k) ==
    FragmentsAgree(k) /\ NoPanic(k) /\ FragmentsInOrder(k) /\ NoneSkipped(k) /\ DecoderFilled(k)

\* A caller without an answer is registered, and the decoder of its answer is
\* there before any but the first fragment is dispatched.
Waiting(c) == caller[c].pc \in {"send", "await"} /\ caller[c].inbox = << >>
Awaits(c, k) == Waiting(c) /\ caller[c].id = k
Registered(k) == \A c \in Callers : Awaits(c, k) => k \in DOMAIN responseWaiters
AnswerDecoded(k) ==
    \A c \in Callers, x \in Flying(k) :
        Awaits(c, k) /\ x.conversation = 1 =>
            k \in DOMAIN defragmenters \/ \E y \in Flying(k) : y.index = 0
Deposited(k) ==
    \A c \in Callers :
        LET body == <<c, caller[c].n>> IN
        caller[c].id = k /\ caller[c].pc = "await" /\ body \in answered \ undecodable
        /\ ~InFlight(body) => caller[c].inbox # << >>

RInv(k) == Registered(k) /\ AnswerDecoded(k) /\ Deposited(k)

KInv(k) == LInv(k) /\ (k \notin fragmentedCalls => RInv(k))

FInv == GInv /\ \A k : Contested(k) \/ KInv(k)

-----------------------------------------------------------------------------
LEMMA FInit == Init => FInv
<1> SUFFICES ASSUME Init PROVE FInv
  OBVIOUS
<1>1. ~ \E m : Fragment(m)
  BY DEF Init, Fragment, InSystem
<1>2. Line = << >> /\ InLine = {} /\ \A k : Flying(k) = {}
  BY DEF Init, Line, InLine, Flying
<1>3. GInv
  <2>1. RequestIds /\ RequestsOfCalls
    BY ChannelAssumption DEF Init, RequestIds, RequestsOfCalls, InCall
  <2>2. FragmentIds /\ DecodersKeyed /\ DeviceCallsOwn
    BY <1>1, <1>2 DEF Init, FragmentIds, DecodersKeyed, DeviceCallsOwn
  <2> QED
    BY <2>1, <2>2 DEF GInv
<1>4. ASSUME NEW k PROVE KInv(k)
  <2>1. LInv(k)
    BY <1>1, <1>2 DEF Init, LInv, FragmentsAgree, NoPanic, FragmentsInOrder, NoneSkipped,
                      DecoderFilled
  <2>2. RInv(k)
    BY <1>2 DEF Init, RInv, Registered, AnswerDecoded, Deposited, Awaits, Waiting
  <2> QED
    BY <2>1, <2>2 DEF KInv
<1> QED
  BY <1>3, <1>4 DEF FInv

\* An identifier stays contested, a request and a call of the device stay made.
LEMMA ContestedStays ==
    ASSUME [Next]_vars
    PROVE  /\ requests \subseteq requests' /\ fragmentedCalls \subseteq fragmentedCalls'
           /\ \A k : Contested(k) => Contested(k)'
<1>1. requests \subseteq requests' /\ fragmentedCalls \subseteq fragmentedCalls'
  <2> USE DEF deviceVars
  <2>1. CASE \E c \in Callers : Begin(c) \/ MethodCallAsync(c) \/ CallStep(c)
    BY <2>1 DEF Begin, MethodCallAsync, CallStep, EncodeFails, AddResponseWaiter, SendRequest,
                SendFails, ReceiveReply, Timeout, RemoveResponseWaiter
  <2>2. CASE ReaderStep
    BY <2>2 DEF ReaderStep, ReaderStops, DispatchMessage, DispatchTable, DispatcherReturns
  <2>3. CASE DeviceStep
    BY <2>3 DEF DeviceStep, DeviceAnswers, DeviceCalls, DeviceContinues, Transmit
  <2>4. CASE ConnectionLost \/ UNCHANGED vars
    BY <2>4 DEF ConnectionLost, vars
  <2> QED
    BY <2>1, <2>2, <2>3, <2>4 DEF Next
<1> QED
  BY <1>1 DEF Contested

\* No fragment of another message joins the system.
LEMMA FragmentsFrame ==
    ASSUME FragmentIds, \A m : Fragment(m)' => \E y : Fragment(y) /\ SameMessage(m, y),
           lastDeviceId \in Nat, lastDeviceId' \in Nat, lastDeviceId' >= lastDeviceId,
           fragmentedCalls \subseteq Nat, fragmentedCalls \subseteq fragmentedCalls',
           requests \subseteq requests', answered \subseteq answered'
    PROVE  FragmentIds' /\ \A k : FragmentsAgree(k) => FragmentsAgree(k)'
<1>1. FragmentIds'
  <2> SUFFICES ASSUME NEW m, Fragment(m)'
               PROVE  IF m.conversation = 0 THEN m.id \in fragmentedCalls' /\ m.id <= lastDeviceId'
                      ELSE [id |-> m.id, body |-> m.body] \in requests' /\ m.body \in answered'
    BY DEF FragmentIds
  <2>1. PICK y : Fragment(y) /\ SameMessage(m, y)
    OBVIOUS
  <2> QED
    BY <2>1 DEF FragmentIds, SameMessage, Fragment, Message
<1>2. ASSUME NEW k, FragmentsAgree(k) PROVE FragmentsAgree(k)'
  BY <1>2 DEF FragmentsAgree, SameMessage
<1> QED
  BY <1>1, <1>2

\* No message joins the system when the tables only shrink.
LEMMA FewerFragments ==
    ASSUME UNCHANGED <<wire, outgoing, reader>>,
           DOMAIN defragmenters' \subseteq DOMAIN defragmenters,
           \A i \in DOMAIN defragmenters' : defragmenters'[i] = defragmenters[i]
    PROVE  /\ \A m : Fragment(m)' => Fragment(m)
           /\ DecodersKeyed => DecodersKeyed'
  BY DEF Fragment, InSystem, DecodersKeyed

LEMMA GTypes ==
    ASSUME IInv
    PROVE  /\ lastDeviceId \in Nat /\ messageIdentifier \in Nat /\ fragmentedCalls \subseteq Nat
           /\ outgoing \subseteq Message /\ wire \in Seq(Message)
           /\ \A i \in DOMAIN defragmenters :
                 i \in Nat /\ defragmenters[i] \in Decoder /\ defragmenters[i].first \in Message
           /\ \A q \in requests : q.id \in Nat /\ q.body \in Body
           /\ mutex \in BOOLEAN /\ reader = [pc |-> reader.pc, msg |-> reader.msg]
  BY ChannelAssumption DEF IInv, TypeOK, DeviceType, TablesType, ReaderType, Decoder

-----------------------------------------------------------------------------
(* How the line moves. *)

LEMMA LineType ==
    ASSUME IInv
    PROVE  /\ Line \in Seq(Message) /\ InLine \subseteq Message
           /\ \A k : Flying(k) \subseteq Message /\ \A x \in Flying(k) : Fragment(x)
           /\ \A x \in InLine :
                 (reader.pc = "table" /\ x = reader.msg) \/ \E i \in 1..Len(wire) : wire[i] = x
           /\ \A i \in 1..Len(wire) : wire[i] \in InLine
           /\ reader.pc = "table" =>
                 reader.msg \in InLine /\ Line # << >> /\ Head(Line) = reader.msg /\ Tail(Line) = wire
<1>1. wire \in Seq(Message) /\ outgoing \subseteq Message /\ (reader.pc = "table" => reader.msg \in Message)
  BY DEF IInv, TypeOK, DeviceType, ReaderType
<1>2. CASE reader.pc = "table"
  <2>1. Line = <<reader.msg>> \o wire
    BY <1>2 DEF Line
  <2>2. Line \in Seq(Message) /\ Len(Line) = Len(wire) + 1 /\ Line[1] = reader.msg
        /\ \A i \in 1..Len(wire) : Line[i + 1] = wire[i]
    BY <1>1, <1>2, <2>1
  <2>3. \A i \in 1..Len(Line) : i = 1 \/ (i - 1 \in 1..Len(wire) /\ Line[i] = wire[i - 1])
    BY <1>1, <2>2
  <2>4. Tail(Line) = wire
    <3>1. Tail(Line) \in Seq(Message) /\ Len(Tail(Line)) = Len(wire)
          /\ \A i \in 1..Len(wire) : Tail(Line)[i] = Line[i + 1]
      BY <1>1, <2>2
    <3> HIDE DEF Line
    <3>2. \A i \in 1..Len(wire) : Tail(Line)[i] = wire[i]
      BY <2>2, <3>1
    <3> QED
      BY <1>1, <3>1, <3>2
  <2>5. 1 \in 1..Len(Line) /\ Line # << >> /\ Head(Line) = reader.msg
    BY <1>1, <2>2
  <2>6. \A x \in InLine : x = reader.msg \/ \E i \in 1..Len(wire) : wire[i] = x
    BY <2>2, <2>3 DEF InLine
  <2>7. reader.msg \in InLine
    BY <2>2, <2>5 DEF InLine
  <2>8. InLine \subseteq Message
    BY <1>1, <1>2, <2>6
  <2>9. \A k : \A x \in Flying(k) : Fragment(x)
    BY <1>1, <1>2, <2>6, <2>8 DEF Flying, Of, Fragment, InSystem
  <2>10. \A i \in 1..Len(wire) : wire[i] \in InLine
    <3>1. \A i \in 1..Len(wire) : i + 1 \in 1..Len(Line)
      BY <1>1, <2>2
    <3> QED
      BY <2>2, <3>1 DEF InLine
  <2> QED
    BY <1>1, <1>2, <2>2, <2>4, <2>5, <2>6, <2>7, <2>8, <2>9, <2>10 DEF Flying
<1>3. CASE reader.pc # "table"
  <2>1. Line = wire
    BY <1>3 DEF Line
  <2> QED
    BY <1>1, <1>3, <2>1 DEF InLine, Flying, Of, Fragment, InSystem
<1> QED
  BY <1>2, <1>3

LEMMA LineSame ==
    ASSUME UNCHANGED <<Line, outgoing>>
    PROVE  /\ InLine' = InLine
           /\ \A k : /\ Flying(k)' = Flying(k)
                     /\ FragmentsInOrder(k) => FragmentsInOrder(k)'
                     /\ NoneSkipped(k) => NoneSkipped(k)'
<1>1. InLine' = InLine
  BY DEF InLine
<1>2. \A k : Flying(k)' = Flying(k)
  BY <1>1 DEF Flying
<1> QED
  BY <1>1, <1>2 DEF FragmentsInOrder, NoneSkipped

\* The first of the line leaves.
LEMMA LineShorter ==
    ASSUME IInv, NEW k, FragmentsInOrder(k), Line # << >>, Line' = Tail(Line), UNCHANGED outgoing
    PROVE  /\ FragmentsInOrder(k)'
           /\ Head(Line) \in InLine
           /\ InLine' \subseteq InLine /\ InLine \subseteq InLine' \cup {Head(Line)}
           /\ Flying(k)' \subseteq Flying(k) /\ Flying(k) \subseteq Flying(k)' \cup {Head(Line)}
           /\ Of(k, Head(Line)) => \A x \in Flying(k)' : Head(Line).index < x.index
           /\ ~Of(k, Head(Line)) => Flying(k)' = Flying(k)
<1>1. Line \in Seq(Message)
  BY LineType
<1>2. /\ Len(Line') = Len(Line) - 1 /\ Len(Line) \in Nat \ {0} /\ Head(Line) = Line[1]
      /\ \A i \in 1..Len(Line') : Line'[i] = Line[i + 1] /\ i + 1 \in 1..Len(Line)
  BY <1>1
<1>3. Head(Line) \in InLine
  BY <1>2 DEF InLine
<1>4. InLine' \subseteq InLine
  BY <1>2 DEF InLine
<1>5. InLine \subseteq InLine' \cup {Head(Line)}
  <2> SUFFICES ASSUME NEW i \in 1..Len(Line) PROVE Line[i] \in InLine' \cup {Head(Line)}
    BY DEF InLine
  <2>1. CASE i = 1
    BY <1>2, <2>1
  <2>2. CASE i # 1
    <3>1. i - 1 \in 1..Len(Line') /\ (i - 1) + 1 = i
      BY <1>2, <2>2
    <3>2. Line'[i - 1] = Line[i]
      BY <1>2, <3>1
    <3> QED
      BY <3>1, <3>2 DEF InLine
  <2> QED
    BY <2>1, <2>2
<1>6. Flying(k)' \subseteq Flying(k) /\ Flying(k) \subseteq Flying(k)' \cup {Head(Line)}
  BY <1>4, <1>5 DEF Flying
<1>7. FragmentsInOrder(k)'
  <2>1. \A i, j \in 1..Len(Line') :
          i < j /\ Of(k, Line'[i]) /\ Of(k, Line'[j]) => Line'[i].index < Line'[j].index
    <3> TAKE i, j \in 1..Len(Line')
    <3>1. /\ i + 1 \in 1..Len(Line) /\ j + 1 \in 1..Len(Line) /\ (i < j => i + 1 < j + 1)
          /\ Line'[i] = Line[i + 1] /\ Line'[j] = Line[j + 1]
      BY <1>2
    <3> QED
      BY <3>1 DEF FragmentsInOrder
  <2>2. \A x \in InLine', y \in outgoing' : Of(k, x) /\ Of(k, y) => x.index < y.index
    BY <1>4 DEF FragmentsInOrder
  <2> QED
    BY <2>1, <2>2 DEF FragmentsInOrder
<1>8. ASSUME Of(k, Head(Line)), NEW x \in Flying(k)'
      PROVE  Head(Line).index < x.index
  <2>1. Of(k, x) /\ (x \in outgoing \/ x \in InLine')
    BY DEF Flying
  <2>2. CASE x \in outgoing
    BY <1>3, <1>8, <2>1, <2>2 DEF FragmentsInOrder
  <2>3. CASE x \in InLine'
    <3>1. PICK i \in 1..Len(Line') : Line'[i] = x
      BY <2>3 DEF InLine
    <3>2. i + 1 \in 1..Len(Line) /\ Line[i + 1] = x /\ 1 < i + 1 /\ 1 \in 1..Len(Line)
      BY <1>2, <3>1
    <3> QED
      BY <1>2, <1>8, <2>1, <3>2 DEF FragmentsInOrder
  <2> QED
    BY <2>1, <2>2, <2>3
<1>9. ~Of(k, Head(Line)) => Flying(k)' = Flying(k)
  BY <1>6 DEF Flying
<1> QED
  BY <1>3, <1>4, <1>5, <1>6, <1>7, <1>8, <1>9

\* What the device has sent joins the line.
LEMMA Appended ==
    ASSUME IInv, NEW m \in Message, Transmit(m)
    PROVE  InLine' = InLine \cup {m} /\ Line' = Append(Line, m)
<1>1. /\ UNCHANGED <<reader, defragmenters>> /\ wire' = Append(wire, m)
  BY DEF Transmit, channelVars
<1>2. wire \in Seq(Message) /\ Line \in Seq(Message)
  BY LineType DEF IInv, TypeOK, DeviceType
<1>3. Line' = Append(Line, m)
  <2>1. CASE reader.pc = "table"
    <3>1. reader.msg \in Message
      BY <2>1 DEF IInv, TypeOK, ReaderType
    <3>2. <<reader.msg>> \o Append(wire, m) = Append(<<reader.msg>> \o wire, m)
      BY <1>2, <3>1
    <3> QED
      BY <1>1, <2>1, <3>2 DEF Line
  <2>2. CASE reader.pc # "table"
    BY <1>1, <2>2 DEF Line
  <2> QED
    BY <2>1, <2>2
<1>4. /\ Len(Line) \in Nat /\ Len(Line') = Len(Line) + 1 /\ Line'[Len(Line) + 1] = m
      /\ \A i \in 1..Len(Line) : Line'[i] = Line[i]
      /\ \A i \in 1..Len(Line') : i \in 1..Len(Line) \/ i = Len(Line) + 1
  BY <1>2, <1>3
<1>5. InLine' \subseteq InLine \cup {m}
  <2> SUFFICES ASSUME NEW i \in 1..Len(Line') PROVE Line'[i] \in InLine \cup {m}
    BY DEF InLine
  <2> QED
    BY <1>4 DEF InLine
<1>6. InLine \cup {m} \subseteq InLine'
  <2>1. \A i \in 1..Len(Line) : i \in 1..Len(Line')
    BY <1>4
  <2>2. Len(Line) + 1 \in 1..Len(Line')
    BY <1>4
  <2> QED
    BY <1>4, <2>1, <2>2 DEF InLine
<1> QED
  BY <1>3, <1>5, <1>6

\* A message is sent that follows all of its kind, and its next fragment stays behind.
LEMMA LineLonger ==
    ASSUME IInv, NEW k, FragmentsInOrder(k), NoneSkipped(k), NEW m \in Message, Transmit(m),
           Of(k, m) => m.index < m.fragments,
           \A x \in InLine : Of(k, x) /\ Of(k, m) => x.index < m.index,
           \A y \in outgoing : Of(k, y) /\ Of(k, m) => y = m
    PROVE  /\ FragmentsInOrder(k)' /\ NoneSkipped(k)'
           /\ Flying(k) \subseteq Flying(k)'
           /\ \A x \in Flying(k)' \ Flying(k) : SameMessage(x, m) /\ Of(k, m) /\ x.index >= m.index
           /\ Of(k, m) => m \in Flying(k)'
<1> DEFINE next == [m EXCEPT !.index = @ + 1]
<1>1. outgoing' = IF IsFragment(m) /\ ~IsLastFragment(m)
                  THEN (outgoing \ {m}) \cup {next} ELSE outgoing \ {m}
  BY DEF Transmit
<1>2. Line \in Seq(Message) /\ outgoing \subseteq Message /\ InLine \subseteq Message
  BY LineType DEF IInv, TypeOK, DeviceType
<1>3. Line' = Append(Line, m) /\ InLine' = InLine \cup {m}
  BY Appended
<1>4. /\ Len(Line) \in Nat /\ Len(Line') = Len(Line) + 1 /\ Line'[Len(Line) + 1] = m
      /\ \A i \in 1..Len(Line) : Line'[i] = Line[i]
      /\ \A i \in 1..Len(Line') : i \in 1..Len(Line) \/ i = Len(Line) + 1
  BY <1>2, <1>3
<1>5. /\ SameMessage(next, m) /\ next.index = m.index + 1 /\ next \in Message
      /\ (Of(k, m) <=> Of(k, next)) /\ next.fragments = m.fragments
  BY DEF SameMessage, Message, IsFragment, Of
<1>6. Of(k, m) /\ ~IsLastFragment(m) => next.index < next.fragments
  BY <1>5 DEF IsLastFragment, IsFragment, Message, Of
<1> HIDE DEF next
<1>7. \A x \in outgoing' : x \in outgoing \ {m} \/ (x = next /\ IsFragment(m) /\ ~IsLastFragment(m))
  BY <1>1
<1>8. FragmentsInOrder(k)'
  <2>1. \A i, j \in 1..Len(Line') :
          i < j /\ Of(k, Line'[i]) /\ Of(k, Line'[j]) => Line'[i].index < Line'[j].index
    <3> TAKE i, j \in 1..Len(Line')
    <3> SUFFICES ASSUME i < j, Of(k, Line'[i]), Of(k, Line'[j])
                 PROVE  Line'[i].index < Line'[j].index
      OBVIOUS
    <3>1. i \in 1..Len(Line)
      BY <1>4
    <3>2. CASE j \in 1..Len(Line)
      BY <1>4, <3>1, <3>2 DEF FragmentsInOrder
    <3>3. CASE j = Len(Line) + 1
      <4>1. Line[i] \in InLine /\ Line'[i] = Line[i] /\ Line'[j] = m
        BY <1>4, <3>1, <3>3 DEF InLine
      <4> QED
        BY <4>1
    <3> QED
      BY <1>4, <3>2, <3>3
  <2>2. ASSUME NEW x \in InLine', NEW y \in outgoing', Of(k, x), Of(k, y)
        PROVE  x.index < y.index
    <3>1. CASE y \in outgoing \ {m}
      <4>1. x # m
        BY <2>2, <3>1
      <4> QED
        BY <1>3, <2>2, <3>1, <4>1 DEF FragmentsInOrder
    <3>2. CASE y = next
      <4>1. y.index = m.index + 1 /\ Of(k, m) /\ m.index \in Nat
        BY <1>5, <2>2, <3>2 DEF Message
      <4>2. CASE x = m
        BY <4>1, <4>2
      <4>3. CASE x \in InLine
        <5>1. x.index < m.index /\ x.index \in Nat
          BY <1>2, <2>2, <4>1, <4>3 DEF Message
        <5> QED
          BY <4>1, <5>1
      <4> QED
        BY <1>3, <4>2, <4>3
    <3> QED
      BY <1>7, <3>1, <3>2
  <2>3. \A x, y \in outgoing' : Of(k, x) /\ Of(k, y) => x = y
    BY <1>5, <1>7 DEF FragmentsInOrder
  <2> QED
    BY <2>1, <2>2, <2>3 DEF FragmentsInOrder
<1>9. Flying(k) \subseteq Flying(k)'
  <2> SUFFICES ASSUME NEW x \in Flying(k) PROVE x \in Flying(k)'
    OBVIOUS
  <2>1. x \in InLine \/ x = m \/ x \in outgoing \ {m}
    BY DEF Flying
  <2>2. outgoing \ {m} \subseteq outgoing'
    BY <1>1
  <2> QED
    BY <1>3, <2>1, <2>2 DEF Flying
<1>10. \A x \in Flying(k)' \ Flying(k) : SameMessage(x, m) /\ Of(k, m) /\ x.index >= m.index
  <2> SUFFICES ASSUME NEW x \in Flying(k)', x \notin Flying(k)
               PROVE  SameMessage(x, m) /\ Of(k, m) /\ x.index >= m.index
    OBVIOUS
  <2>1. x = m \/ x = next
    BY <1>3, <1>7 DEF Flying
  <2>2. Of(k, x) /\ m.index \in Nat
    BY DEF Flying, Message
  <2> QED
    BY <1>5, <2>1, <2>2 DEF SameMessage
<1>11. NoneSkipped(k)'
  <2>1. ASSUME NEW x \in Flying(k)' PROVE x.index < x.fragments
    <3>1. x \in Flying(k) \/ x = m \/ (x = next /\ IsFragment(m) /\ ~IsLastFragment(m))
      BY <1>3, <1>7 DEF Flying
    <3>2. Of(k, x)
      BY DEF Flying
    <3> QED
      BY <1>5, <1>6, <3>1, <3>2 DEF NoneSkipped
  <2>2. ASSUME NEW x \in Flying(k)', x \in InLine', x.index + 1 < x.fragments
        PROVE  \E y \in Flying(k)' : SameMessage(x, y) /\ y.index = x.index + 1
    <3>1. CASE x \in InLine
      <4>1. x \in Flying(k)
        BY <3>1 DEF Flying
      <4> QED
        BY <1>9, <2>2, <3>1, <4>1 DEF NoneSkipped
    <3>2. CASE x = m
      <4>1. Of(k, m) /\ IsFragment(m) /\ ~IsLastFragment(m)
        BY <2>2, <3>2 DEF IsLastFragment, Flying, Message, Of
      <4>2. next \in outgoing'
        BY <1>1, <4>1
      <4>3. next \in Flying(k)'
        BY <1>5, <4>1, <4>2 DEF Flying
      <4> QED
        BY <1>5, <3>2, <4>3 DEF SameMessage
    <3> QED
      BY <1>3, <2>2, <3>1, <3>2
  <2> QED
    BY <2>1, <2>2 DEF NoneSkipped
<1>12. Of(k, m) => m \in Flying(k)'
  BY <1>3 DEF Flying
<1> QED
  BY <1>8, <1>9, <1>10, <1>11, <1>12

-----------------------------------------------------------------------------
(* Every identifier: what callers do *)

\* What a step of c is to the invariants: it begins, registers, sends, or leaves.
LEMMA CallerSteps ==
    ASSUME IInv, NEW c \in Callers, Begin(c) \/ MethodCallAsync(c) \/ CallStep(c)
    PROVE  /\ UNCHANGED <<reader, wire, outgoing, answered, undecodable, lastDeviceId, mutex,
                          fragmentedCalls>>
           /\ reader.pc # "panicked"
           /\ \A d \in Callers \ {c} : caller'[d] = caller[d]
           /\ messageIdentifier' >= messageIdentifier
           /\ \/ /\ caller'[c].pc = "encode" /\ caller'[c].n = caller[c].n + 1
                 /\ caller'[c].id = messageIdentifier
                 /\ UNCHANGED <<tables, requests>>
              \/ /\ caller[c].pc = "encode" /\ caller'[c].pc = "send"
                 /\ caller'[c].id = caller[c].id /\ caller'[c].n = caller[c].n
                 /\ DOMAIN responseWaiters' = DOMAIN responseWaiters \cup {caller[c].id}
                 /\ UNCHANGED <<defragmenters, requests>>
              \/ /\ caller[c].pc = "send" /\ caller'[c].pc = "await"
                 /\ caller'[c].id = caller[c].id /\ caller'[c].n = caller[c].n
                 /\ caller'[c].inbox = caller[c].inbox
                 /\ requests' = requests \cup {[id |-> caller[c].id, body |-> <<c, caller[c].n>>]}
                 /\ UNCHANGED tables
              \/ UNCHANGED <<caller, tables, requests>>
              \/ /\ InCall(c) /\ caller'[c].pc \in {"idle", "remove"}
                 /\ caller'[c].id = caller[c].id /\ caller'[c].n = caller[c].n
                 /\ UNCHANGED <<tables, requests>> \/ Forget(caller[c].id)
                 /\ UNCHANGED requests
<1> USE CallerFacts DEF channelVars, tables, deviceVars
<1>1. CASE Begin(c)
  BY <1>1 DEF Begin, AllocateIdentifier, NextIdentifier, Running, Caller
<1>2. CASE MethodCallAsync(c)
  BY <1>2 DEF MethodCallAsync, AllocateIdentifier, NextIdentifier, Running
<1>3. CASE EncodeFails(c)
  BY <1>3 DEF EncodeFails, Running, Caller, InCall
<1>4. CASE AddResponseWaiter(c)
  BY <1>4 DEF AddResponseWaiter, Running, Caller, Put
<1>5. CASE SendRequest(c)
  BY <1>5 DEF SendRequest, Goto, Running, Caller
<1>6. CASE SendFails(c) \/ Timeout(c)
  BY <1>6 DEF SendFails, Timeout, Goto, Running, Caller, InCall
<1>7. CASE ReceiveReply(c)
  BY <1>7 DEF ReceiveReply, Running, Caller, InCall
<1>8. CASE RemoveResponseWaiter(c)
  BY <1>8 DEF RemoveResponseWaiter, Running, Caller, InCall
<1> QED
  BY <1>1, <1>2, <1>3, <1>4, <1>5, <1>6, <1>7, <1>8 DEF CallStep

LEMMA CallerTables ==
    ASSUME IInv, NEW c \in Callers, Begin(c) \/ MethodCallAsync(c) \/ CallStep(c)
    PROVE  /\ DOMAIN defragmenters' \subseteq DOMAIN defragmenters
           /\ \A i \in DOMAIN defragmenters' : defragmenters'[i] = defragmenters[i]
           /\ \A m : Fragment(m)' => Fragment(m)
           /\ UNCHANGED Line /\ requests \subseteq requests'
<1>1. /\ DOMAIN defragmenters' \subseteq DOMAIN defragmenters
      /\ \A i \in DOMAIN defragmenters' : defragmenters'[i] = defragmenters[i]
  BY CallerSteps, ForgetType DEF tables
<1>2. UNCHANGED <<wire, outgoing, reader>> /\ requests \subseteq requests'
  BY CallerSteps
<1> QED
  BY <1>1, <1>2, FewerFragments DEF Line

LEMMA CallerGInv ==
    ASSUME IInv, IInv', GInv, NEW c \in Callers,
           Begin(c) \/ MethodCallAsync(c) \/ CallStep(c)
    PROVE  GInv'
<1>1. /\ UNCHANGED <<reader, wire, outgoing, answered, lastDeviceId, mutex, fragmentedCalls>>
      /\ requests \subseteq requests' /\ UNCHANGED <<Line, InLine>>
      /\ DOMAIN defragmenters' \subseteq DOMAIN defragmenters
      /\ \A i \in DOMAIN defragmenters' : defragmenters'[i] = defragmenters[i]
  BY CallerSteps, CallerTables DEF InLine
<1>2. FragmentIds'
  <2>1. \A m : Fragment(m)' => \E y : Fragment(y) /\ SameMessage(m, y)
    BY CallerTables DEF SameMessage
  <2> QED
    BY <1>1, <2>1, GTypes, FragmentsFrame DEF GInv
<1>3. DecodersKeyed' /\ DeviceCallsOwn'
  BY <1>1 DEF GInv, DecodersKeyed, DeviceCallsOwn
<1>4. RequestIds'
  <2>1. /\ messageIdentifier' >= messageIdentifier /\ messageIdentifier \in Nat
        /\ messageIdentifier' \in Nat /\ FirstIdentifier \in Nat
    BY CallerSteps, GTypes, ChannelAssumption DEF IInv, TypeOK, TablesType
  <2>2. ASSUME NEW d \in Callers, InCall(d)' PROVE caller'[d].id >= FirstIdentifier
    <3>1. CASE d # c
      BY <2>2, <3>1, CallerSteps DEF GInv, RequestIds, InCall
    <3>2. CASE d = c
      <4>1. \/ caller'[c].id = messageIdentifier
            \/ InCall(c) /\ caller'[c].id = caller[c].id
        BY <2>2, <3>2, CallerSteps DEF InCall
      <4> QED
        BY <3>2, <4>1 DEF GInv, RequestIds
    <3> QED
      BY <3>1, <3>2
  <2>3. CASE UNCHANGED requests
    BY <2>1, <2>2, <2>3 DEF GInv, RequestIds
  <2>4. CASE /\ requests' = requests \cup {[id |-> caller[c].id, body |-> <<c, caller[c].n>>]}
             /\ caller[c].pc = "send"
    <3>1. InCall(c)
      BY <2>4 DEF InCall
    <3>2. \A q \in requests : q.id = caller[c].id => q.body = <<c, caller[c].n>>
      BY <3>1, CallerFacts DEF RequestsKnown
    <3>3. \A q, r \in requests' : q.id = r.id => q.body = r.body
      BY <2>4, <3>2 DEF GInv, RequestIds
    <3>4. \A q \in requests' : q.id >= FirstIdentifier
      BY <2>4, <3>1 DEF GInv, RequestIds
    <3>5. messageIdentifier' >= FirstIdentifier
      BY <2>1 DEF GInv, RequestIds
    <3> QED
      BY <2>2, <3>3, <3>4, <3>5 DEF RequestIds
  <2> QED
    BY <2>3, <2>4, CallerSteps
<1>5. RequestsOfCalls'
  <2>1. \A b \in answered' : \E q \in requests' : q.body = b
    BY <1>1 DEF GInv, RequestsOfCalls
  <2>2. ASSUME NEW d \in Callers, NEW q \in requests', InCall(d)', q.body = <<d, caller'[d].n>>
        PROVE  q.id = caller'[d].id /\ caller'[d].pc \notin {"encode", "send"}
    <3>1. \A r \in requests : r.body[1] \in Callers /\ r.body[2] \in 1..caller[r.body[1]].n
      BY CallerFacts DEF RequestsKnown
    <3>2. CASE d # c
      <4>1. caller'[d] = caller[d]
        BY <3>2, CallerSteps
      <4>2. q \in requests \/ q.body = <<c, caller[c].n>>
        <5>1. requests' \subseteq requests \cup {[id |-> caller[c].id, body |-> <<c, caller[c].n>>]}
          BY CallerSteps
        <5> QED
          BY <5>1
      <4>3. q \in requests
        BY <2>2, <3>2, <4>2
      <4>4. InCall(d)
        BY <2>2, <4>1 DEF InCall
      <4> QED
        BY <2>2, <4>1, <4>3, <4>4 DEF GInv, RequestsOfCalls
    <3>3. CASE d = c
      <4>1. \A r \in requests : r.body = <<c, caller[c].n>> /\ InCall(c) =>
               r.id = caller[c].id /\ caller[c].pc \notin {"encode", "send"}
        BY DEF GInv, RequestsOfCalls
      <4>2. CASE caller'[c].pc = "encode" /\ caller'[c].n = caller[c].n + 1 /\ UNCHANGED requests
        <5>1. q.body[1] = c /\ q.body[2] = caller[c].n + 1
          BY <2>2, <3>3, <4>2
        <5>2. caller[c].n + 1 \in 1..caller[c].n
          BY <3>1, <4>2, <5>1
        <5> QED
          BY <5>2, CallerFacts
      <4>3. CASE /\ caller[c].pc = "encode" /\ caller'[c].n = caller[c].n /\ UNCHANGED requests
        BY <2>2, <3>3, <4>1, <4>3 DEF InCall
      <4>4. CASE /\ caller[c].pc = "send" /\ caller'[c].pc = "await"
                 /\ caller'[c].id = caller[c].id /\ caller'[c].n = caller[c].n
                 /\ requests' = requests \cup {[id |-> caller[c].id, body |-> <<c, caller[c].n>>]}
        <5>1. CASE q \in requests
          BY <2>2, <3>3, <4>1, <4>4, <5>1 DEF InCall
        <5>2. CASE q \notin requests
          BY <3>3, <4>4, <5>2
        <5> QED
          BY <5>1, <5>2
      <4>5. CASE UNCHANGED <<caller, requests>>
        BY <2>2, <3>3, <4>1, <4>5 DEF InCall
      <4>6. CASE /\ InCall(c) /\ caller'[c].pc \in {"idle", "remove"}
                 /\ caller'[c].id = caller[c].id /\ caller'[c].n = caller[c].n
                 /\ UNCHANGED requests
        BY <2>2, <3>3, <4>1, <4>6 DEF InCall
      <4> QED
        BY <4>2, <4>3, <4>4, <4>5, <4>6, CallerSteps
    <3> QED
      BY <3>2, <3>3
  <2>3. ASSUME NEW d \in Callers, caller'[d].pc = "await"
        PROVE  \E q \in requests' : q.id = caller'[d].id
    <3>1. CASE caller'[d] = caller[d]
      BY <1>1, <2>3, <3>1 DEF GInv, RequestsOfCalls
    <3>2. CASE /\ d = c /\ caller'[c].id = caller[c].id
               /\ requests' = requests \cup {[id |-> caller[c].id, body |-> <<c, caller[c].n>>]}
      <4>1. [id |-> caller[c].id, body |-> <<c, caller[c].n>>] \in requests'
        BY <3>2
      <4>2. [id |-> caller[c].id, body |-> <<c, caller[c].n>>].id = caller'[d].id
        BY <3>2
      <4> QED
        BY <4>1, <4>2
    <3> QED
      BY <2>3, <3>1, <3>2, CallerSteps
  <2> QED
    BY <2>1, <2>2, <2>3 DEF RequestsOfCalls
<1> QED
  BY <1>2, <1>3, <1>4, <1>5 DEF GInv

-----------------------------------------------------------------------------
(* Every identifier: what the reader does *)

\* The steps of the reader that start no decoder.
LEMMA ReaderForgets ==
    ASSUME IInv, GInv, \A m : Fragment(m)' => Fragment(m), DecodersKeyed', DeviceCallsOwn',
           messageIdentifier' >= messageIdentifier, messageIdentifier' \in Nat,
           \A c \in Callers : /\ caller'[c].id = caller[c].id /\ caller'[c].pc = caller[c].pc
                              /\ caller'[c].n = caller[c].n,
           UNCHANGED <<requests, answered, lastDeviceId, fragmentedCalls>>
    PROVE  GInv'
<1>1. FragmentIds'
  BY GTypes, FragmentsFrame DEF GInv, SameMessage
<1>2. RequestIds'
  BY GTypes, ChannelAssumption DEF GInv, RequestIds, InCall
<1>3. RequestsOfCalls'
  BY DEF GInv, RequestsOfCalls, InCall
<1> QED
  BY <1>1, <1>2, <1>3 DEF GInv

\* Dispatch changes nothing of a call but its response channel, and never empties it.
LEMMA TableCallers ==
    ASSUME IInv, DispatchTable, NEW c \in Callers
    PROVE  /\ caller'[c].id = caller[c].id /\ caller'[c].pc = caller[c].pc
           /\ caller'[c].n = caller[c].n
           /\ caller[c].inbox # << >> => caller'[c].inbox # << >>
<1>1. UNCHANGED caller \/ \E x : caller' = SendResponse(x)
  BY DEF DispatchTable, FirstFragment, MiddleFragment, RejectedLastFragment, LastFragment,
         StrayFragment, WholeReply
<1>2. ASSUME NEW x, caller' = SendResponse(x)
      PROVE  /\ caller'[c].id = caller[c].id /\ caller'[c].pc = caller[c].pc
             /\ caller'[c].n = caller[c].n
             /\ caller[c].inbox # << >> => caller'[c].inbox # << >>
  <2>1. caller \in [Callers -> Caller] /\ caller[c] \in Caller
    BY CallerFacts
  <2> QED
    BY <1>2, <2>1 DEF SendResponse, Caller
<1> QED
  BY <1>1, <1>2

\* What the second critical section does with the message, by its identifier:
\* only the waiter and the decoder of that are touched.
LEMMA TableSteps ==
    ASSUME IInv, GInv, DispatchTable
    PROVE  LET m == reader.msg IN
           /\ reader.pc = "table" /\ m \in Message /\ m.id \in Nat /\ m.conversation \in {0, 1}
           /\ ~mutex /\ m \in InLine
           /\ UNCHANGED <<messageIdentifier, wire, outgoing, requests, answered, undecodable,
                          lastDeviceId, fragmentedCalls>>
           /\ reader'.pc \in {"read", "dispatcher", "panicked"}
           /\ Line # << >> /\ Head(Line) = m /\ Line' = Tail(Line)
           /\ \A i \in DOMAIN defragmenters' :
                 \/ i \in DOMAIN defragmenters /\ defragmenters'[i].first = defragmenters[i].first
                 \/ i = m.id /\ defragmenters'[i].first = m /\ IsFragment(m)
           /\ \A i : i # m.id =>
                 /\ i \in DOMAIN responseWaiters' <=> i \in DOMAIN responseWaiters
                 /\ i \in DOMAIN defragmenters' <=> i \in DOMAIN defragmenters
                 /\ i \in DOMAIN defragmenters => defragmenters'[i] = defragmenters[i]
           /\ UNCHANGED caller \/ \E w : w.id = m.id /\ caller' = SendResponse(w)
           /\ \/ reader'.pc = "panicked" /\ reader'.msg = m /\ RejectedLastFragment(m)
                 /\ ~mutex'
              \/ reader'.pc = "read" /\ ~mutex'
              \/ /\ reader'.pc = "dispatcher" /\ mutex' /\ LastFragment(m)
                 /\ \/ reader'.msg = ZeroMessage
                    \/ /\ reader'.msg.conversation = 0 /\ reader'.msg.id = m.id
                       /\ m.id \in DOMAIN defragmenters
                       /\ reader'.msg.body = defragmenters[m.id].first.body
                       /\ defragmenters[m.id].first.conversation = 0
<1> DEFINE m == reader.msg
<1>1. /\ reader.pc = "table" /\ m \in Message /\ m.id \in Nat /\ m.conversation \in {0, 1}
      /\ ~mutex /\ m \in InLine /\ Line # << >> /\ Head(Line) = m /\ Tail(Line) = wire
      /\ UNCHANGED <<messageIdentifier, wire, outgoing, requests, answered, undecodable,
                     lastDeviceId, fragmentedCalls>>
  BY LineType DEF DispatchTable, deviceVars, IInv, TypeOK, ReaderType, GInv, DeviceCallsOwn, Message
<1>2. \A i \in DOMAIN defragmenters :
         /\ AddFragment(defragmenters[i], m).first = defragmenters[i].first
         /\ defragmenters[i].first.id = i
  <2> SUFFICES ASSUME NEW i \in DOMAIN defragmenters
               PROVE  AddFragment(defragmenters[i], m).first = defragmenters[i].first
    BY DEF GInv, DecodersKeyed
  <2>1. defragmenters[i] \in Decoder
    BY DEF IInv, TypeOK, TablesType
  <2> QED
    BY <2>1 DEF AddFragment, Decoder
<1> DEFINE Touched ==
    /\ \A i \in DOMAIN defragmenters' :
          \/ i \in DOMAIN defragmenters /\ defragmenters'[i].first = defragmenters[i].first
          \/ i = m.id /\ defragmenters'[i].first = m /\ IsFragment(m)
    /\ \A i : i # m.id =>
          /\ i \in DOMAIN responseWaiters' <=> i \in DOMAIN responseWaiters
          /\ i \in DOMAIN defragmenters' <=> i \in DOMAIN defragmenters
          /\ i \in DOMAIN defragmenters => defragmenters'[i] = defragmenters[i]
    /\ UNCHANGED caller \/ \E w : w.id = m.id /\ caller' = SendResponse(w)
    Left ==
    \/ reader'.pc = "panicked" /\ reader'.msg = m /\ RejectedLastFragment(m) /\ ~mutex'
    \/ reader'.pc = "read" /\ ~mutex'
    \/ /\ reader'.pc = "dispatcher" /\ mutex' /\ LastFragment(m)
       /\ \/ reader'.msg = ZeroMessage
          \/ /\ reader'.msg.conversation = 0 /\ reader'.msg.id = m.id
             /\ m.id \in DOMAIN defragmenters
             /\ reader'.msg.body = defragmenters[m.id].first.body
             /\ defragmenters[m.id].first.conversation = 0
<1>3. Touched /\ Left
  <2> SUFFICES ASSUME NEW f, f = m PROVE Touched /\ Left
    OBVIOUS
  <2>1. CASE FirstFragment(m)
    BY <1>1, <2>1 DEF FirstFragment, Put, NewFragmentDecoder, IsFragment, IsFirstFragment, Return
  <2>2. CASE MiddleFragment(m)
    <3>1. /\ defragmenters' = [defragmenters EXCEPT ![m.id] = AddFragment(defragmenters[m.id], m)]
          /\ m.id \in DOMAIN defragmenters
          /\ UNCHANGED <<responseWaiters, caller>> /\ reader'.pc = "read" /\ UNCHANGED mutex
      BY <2>2 DEF MiddleFragment, Return
    <3> HIDE DEF m
    <3> QED
      BY <1>1, <1>2, <3>1
  <2>3. CASE RejectedLastFragment(m)
    <3>1. /\ UNCHANGED <<responseWaiters, defragmenters, mutex, caller>>
          /\ reader' = [reader EXCEPT !.pc = "panicked"] /\ reader = [pc |-> reader.pc, msg |-> m]
      BY <2>3, GTypes DEF RejectedLastFragment, tables
    <3>2. reader'.pc = "panicked" /\ reader'.msg = m
      BY <3>1
    <3> HIDE DEF m
    <3> QED
      BY <1>1, <2>3, <3>1, <3>2
  <2>4. CASE StrayFragment(m) \/ WholeReply(m)
    <3>1. /\ Forget(m.id) /\ reader'.pc = "read" /\ UNCHANGED mutex
          /\ UNCHANGED caller \/ caller' = SendResponse(m)
      BY <2>4 DEF StrayFragment, WholeReply, Return
    <3>2. /\ DOMAIN responseWaiters' = DOMAIN responseWaiters \ {m.id}
          /\ DOMAIN defragmenters' = DOMAIN defragmenters \ {m.id}
          /\ \A i \in DOMAIN defragmenters' : defragmenters'[i] = defragmenters[i]
      BY <3>1, ForgetType
    <3> HIDE DEF m
    <3>3. Touched
      BY <3>1, <3>2
    <3> QED
      BY <1>1, <3>1, <3>3
  <2>5. CASE LastFragment(m)
    <3> DEFINE d == AddFragment(defragmenters[m.id], m)
               whole == Reassemble(d)
               first == defragmenters[m.id].first
    <3>1. /\ m.id \in DOMAIN defragmenters
          /\ \/ /\ whole.conversation > 0 /\ caller' = SendResponse(whole) /\ Forget(whole.id)
                /\ reader'.pc = "read" /\ UNCHANGED mutex
             \/ /\ whole.conversation = 0
                /\ defragmenters' = [defragmenters EXCEPT ![m.id] = d]
                /\ reader' = [pc |-> "dispatcher", msg |-> whole] /\ mutex' = TRUE
                /\ UNCHANGED <<responseWaiters, caller>>
      BY <2>5 DEF LastFragment, Return, HandToDispatcher
    <3>2. d.first = first /\ first.id = m.id /\ first \in Message
      BY <1>2, <3>1, GTypes
    <3>3. \/ whole = ZeroMessage /\ whole.conversation = 0
          \/ /\ whole = [first EXCEPT !.fragments = 1]
             /\ whole.id = m.id /\ whole.body = first.body
             /\ whole.conversation = first.conversation
      <4> HIDE DEF d
      <4>1. whole = ZeroMessage \/ whole = [first EXCEPT !.fragments = 1]
        BY <3>2 DEF Reassemble
      <4> QED
        BY <3>2, <4>1 DEF ZeroMessage, Message
    <3> HIDE DEF m, d, whole, first
    <3>4. CASE /\ whole.conversation > 0 /\ caller' = SendResponse(whole) /\ Forget(whole.id)
               /\ reader'.pc = "read" /\ UNCHANGED mutex
      <4>1. whole.id = m.id
        BY <3>3, <3>4
      <4>2. /\ DOMAIN responseWaiters' = DOMAIN responseWaiters \ {m.id}
            /\ DOMAIN defragmenters' = DOMAIN defragmenters \ {m.id}
            /\ \A i \in DOMAIN defragmenters' : defragmenters'[i] = defragmenters[i]
        BY <3>4, <4>1, ForgetType
      <4>3. Touched
        BY <3>4, <4>1, <4>2
      <4> QED
        BY <1>1, <3>4, <4>3
    <3>5. CASE /\ whole.conversation = 0
               /\ defragmenters' = [defragmenters EXCEPT ![m.id] = d]
               /\ reader' = [pc |-> "dispatcher", msg |-> whole] /\ mutex' = TRUE
               /\ UNCHANGED <<responseWaiters, caller>>
      <4>1. Touched
        BY <3>1, <3>2, <3>5 DEF first
      <4>2. Left
        BY <2>5, <3>1, <3>3, <3>5 DEF first
      <4> QED
        BY <4>1, <4>2
    <3> QED
      BY <3>1, <3>4, <3>5
  <2> QED
    BY <2>1, <2>2, <2>3, <2>4, <2>5 DEF DispatchTable
<1>4. reader'.pc \in {"read", "dispatcher", "panicked"} /\ Line' = Tail(Line)
  BY <1>1, <1>3 DEF Line
<1> QED
  BY <1>1, <1>3, <1>4

LEMMA TableGInv ==
    ASSUME IInv, IInv', GInv, DispatchTable
    PROVE  GInv'
<1> DEFINE m == reader.msg
<1>1. \A x : Fragment(x)' => Fragment(x)
  BY TableSteps DEF Fragment, InSystem
<1>2. DecodersKeyed'
  BY TableSteps DEF DecodersKeyed, GInv
<1>3. DeviceCallsOwn'
  <2>1. InLine' \subseteq InLine
    <3>1. Line \in Seq(Message) /\ Line # << >> /\ Line' = Tail(Line)
      BY LineType, TableSteps
    <3>2. \A i \in 1..Len(Line') : i + 1 \in 1..Len(Line) /\ Line'[i] = Line[i + 1]
      BY <3>1
    <3> QED
      BY <3>2 DEF InLine
  <2>2. \A x \in InLine' \cup outgoing' : x.conversation = 0 => x.body[1] = Device
    BY <2>1, TableSteps DEF GInv, DeviceCallsOwn
  <2>3. \A i \in DOMAIN defragmenters' :
          defragmenters'[i].first.conversation = 0 => defragmenters'[i].first.body[1] = Device
    BY TableSteps DEF GInv, DeviceCallsOwn
  <2>4. ASSUME reader'.pc = "dispatcher"
        PROVE  reader'.msg.body[1] = Device /\ reader'.msg.id \in fragmentedCalls \cup {0}
    <3>1. CASE reader'.msg = ZeroMessage
      BY <3>1 DEF ZeroMessage
    <3>2. CASE /\ reader'.msg.id = m.id /\ m.id \in DOMAIN defragmenters
               /\ reader'.msg.body = defragmenters[m.id].first.body
               /\ defragmenters[m.id].first.conversation = 0
      <4> DEFINE first == defragmenters[m.id].first
      <4>1. first \in Message /\ first.id = m.id /\ IsFragment(first)
        BY <3>2, GTypes DEF GInv, DecodersKeyed
      <4>2. Fragment(first)
        BY <3>2, <4>1 DEF Fragment, InSystem
      <4>3. first.id \in fragmentedCalls
        BY <3>2, <4>2 DEF GInv, FragmentIds
      <4> QED
        BY <3>2, <4>1, <4>3 DEF GInv, DeviceCallsOwn
    <3> QED
      BY <2>4, <3>1, <3>2, TableSteps
  <2>5. mutex' => reader'.pc = "dispatcher"
    BY TableSteps
  <2> QED
    BY <2>2, <2>3, <2>4, <2>5, TableSteps DEF GInv, DeviceCallsOwn
<1> QED
  BY <1>1, <1>2, <1>3, GTypes, TableSteps, TableCallers, ReaderForgets

\* The reader takes a message: it is in its hands, and in the line until it
\* is known to be a call.
LEMMA MessageSteps ==
    ASSUME IInv, GInv, DispatchMessage
    PROVE  /\ wire # << >> /\ wire \in Seq(Message) /\ wire' = Tail(wire)
           /\ Head(wire) = wire[1] /\ Head(wire) \in Message /\ Head(wire) \in InLine
           /\ reader.pc = "read" /\ Line = wire /\ reader'.msg = Head(wire) /\ ~mutex
           /\ UNCHANGED <<tables, mutex, caller, outgoing, requests, answered, undecodable,
                          lastDeviceId, fragmentedCalls>>
           /\ messageIdentifier' >= messageIdentifier /\ messageIdentifier' \in Nat
           /\ \/ reader'.pc = "table" /\ UNCHANGED Line
              \/ /\ reader'.pc = "dispatcher" /\ Head(wire).conversation = 0
                 /\ ~IsFragment(Head(wire)) /\ Line' = Tail(Line)
<1>1. /\ wire # << >> /\ wire \in Seq(Message) /\ wire' = Tail(wire)
      /\ Head(wire) = wire[1] /\ Head(wire) \in Message /\ reader.pc = "read" /\ Line = wire
  BY DEF DispatchMessage, IInv, TypeOK, DeviceType, Line
<1>2. /\ reader'.msg = Head(wire)
      /\ UNCHANGED <<tables, mutex, caller, outgoing, requests, answered, undecodable,
                     lastDeviceId, fragmentedCalls>>
      /\ ~mutex
  BY <1>1 DEF DispatchMessage, deviceVars, GInv, DeviceCallsOwn, IInv, TypeOK, ReaderType
<1>3. \/ reader'.pc = "table"
      \/ /\ reader'.pc = "dispatcher" /\ Head(wire).conversation = 0 /\ ~IsFragment(Head(wire))
  <2>1. Head(wire).conversation \in {0, 1}
    BY <1>1 DEF Message
  <2> QED
    BY <2>1 DEF DispatchMessage
<1>4. messageIdentifier' >= messageIdentifier /\ messageIdentifier' \in Nat
  <2>1. Head(wire).id \in Nat /\ messageIdentifier \in Nat
    BY <1>1, GTypes DEF Message
  <2> QED
    BY <2>1 DEF DispatchMessage, NextIdentifier
<1>5. Head(wire) \in InLine
  BY <1>1 DEF InLine
<1>6. CASE reader'.pc = "table"
  <2>1. Line' = <<Head(wire)>> \o Tail(wire)
    BY <1>1, <1>2, <1>6 DEF Line
  <2>2. Line' = Line
    BY <1>1, <2>1
  <2> QED
    BY <1>1, <1>2, <1>4, <1>5, <1>6, <2>2
<1>7. CASE reader'.pc = "dispatcher" /\ Head(wire).conversation = 0 /\ ~IsFragment(Head(wire))
  BY <1>1, <1>2, <1>4, <1>5, <1>7 DEF Line
<1> QED
  BY <1>3, <1>6, <1>7

LEMMA MessageGInv ==
    ASSUME IInv, GInv, DispatchMessage
    PROVE  GInv'
<1>1. InLine' \subseteq InLine
  <2>1. UNCHANGED Line \/ Line' = Tail(Line)
    BY MessageSteps
  <2>2. CASE UNCHANGED Line
    BY <2>2 DEF InLine
  <2>3. CASE Line' = Tail(Line)
    <3>1. Line \in Seq(Message) /\ Line # << >>
      BY MessageSteps
    <3>2. \A i \in 1..Len(Line') : i + 1 \in 1..Len(Line) /\ Line'[i] = Line[i + 1]
      BY <2>3, <3>1
    <3> QED
      BY <3>2 DEF InLine
  <2> QED
    BY <2>1, <2>2, <2>3
<1>2. \A x : Fragment(x)' => Fragment(x)
  <2> SUFFICES ASSUME NEW x, InSystem(x)' PROVE InSystem(x)
    BY DEF Fragment
  <2>1. CASE \E i \in 1..Len(wire') : wire'[i] = x
    <3>1. PICK i \in 1..Len(wire') : wire'[i] = x
      BY <2>1
    <3>2. i + 1 \in 1..Len(wire) /\ wire[i + 1] = x
      BY <3>1, MessageSteps
    <3> QED
      BY <3>2 DEF InSystem
  <2>2. CASE reader'.msg = x
    <3>1. 1 \in 1..Len(wire) /\ wire[1] = x
      BY <2>2, MessageSteps
    <3> QED
      BY <3>1 DEF InSystem
  <2> QED
    BY <2>1, <2>2, MessageSteps DEF InSystem, tables
<1>3. DecodersKeyed'
  BY MessageSteps DEF GInv, DecodersKeyed, tables
<1>4. DeviceCallsOwn'
  <2>1. \A x \in InLine' \cup outgoing' : x.conversation = 0 => x.body[1] = Device
    BY <1>1, MessageSteps DEF GInv, DeviceCallsOwn
  <2>2. reader'.pc = "dispatcher" => reader'.msg.body[1] = Device
    BY MessageSteps DEF GInv, DeviceCallsOwn
  <2> QED
    BY <2>1, <2>2, MessageSteps DEF GInv, DeviceCallsOwn, tables
<1> QED
  BY <1>2, <1>3, <1>4, MessageSteps, ReaderForgets

\* ReaderStops, or DispatcherReturns: the identifier forgotten is of a call of
\* the device, or that of what could not be decoded.
LEMMA ReturnsSteps ==
    ASSUME IInv, GInv, ReaderStops \/ DispatcherReturns
    PROVE  /\ reader.pc \in {"read", "dispatcher"} /\ reader'.pc \in {"read", "stopped"}
           /\ UNCHANGED <<wire, outgoing, caller, requests, answered, undecodable, lastDeviceId,
                          fragmentedCalls, messageIdentifier, Line>>
           /\ ~mutex'
           /\ \/ ~mutex /\ UNCHANGED tables
              \/ mutex /\ reader.pc = "dispatcher" /\ Forget(reader.msg.id)
           /\ DOMAIN defragmenters' \subseteq DOMAIN defragmenters
           /\ \A i \in DOMAIN defragmenters' : defragmenters'[i] = defragmenters[i]
           /\ \A x : Fragment(x)' => Fragment(x)
<1>1. /\ reader.pc \in {"read", "dispatcher"} /\ reader'.pc \in {"read", "stopped"}
      /\ UNCHANGED <<wire, outgoing, caller, requests, answered, undecodable, lastDeviceId,
                     fragmentedCalls, messageIdentifier>>
      /\ ~mutex'
  BY DEF ReaderStops, DispatcherReturns, channelVars, deviceVars, GInv, DeviceCallsOwn, IInv,
         TypeOK, ReaderType
<1>2. UNCHANGED Line
  BY <1>1 DEF Line
<1>3. \/ ~mutex /\ UNCHANGED tables
      \/ mutex /\ reader.pc = "dispatcher" /\ Forget(reader.msg.id)
  BY DEF ReaderStops, DispatcherReturns, channelVars, tables, GInv, DeviceCallsOwn, IInv, TypeOK,
         ReaderType
<1>4. /\ DOMAIN defragmenters' \subseteq DOMAIN defragmenters
      /\ \A i \in DOMAIN defragmenters' : defragmenters'[i] = defragmenters[i]
  BY <1>3, ForgetType DEF tables
<1>5. \A x : Fragment(x)' => Fragment(x)
  BY <1>1, <1>4 DEF Fragment, InSystem
<1> QED
  BY <1>1, <1>2, <1>3, <1>4, <1>5

LEMMA ReaderGInv ==
    ASSUME IInv, IInv', GInv, ReaderStep
    PROVE  GInv'
<1>1. CASE ReaderStops \/ DispatcherReturns
  <2>1. DecodersKeyed'
    BY <1>1, ReturnsSteps DEF GInv, DecodersKeyed
  <2>2. DeviceCallsOwn'
    BY <1>1, ReturnsSteps DEF GInv, DeviceCallsOwn, InLine
  <2> QED
    BY <1>1, <2>1, <2>2, GTypes, ReturnsSteps, ReaderForgets
<1> QED
  BY <1>1, MessageGInv, TableGInv DEF ReaderStep

-----------------------------------------------------------------------------
(* Every identifier: what the device does *)

\* A message sent goes on the wire, and its next fragment stays behind.
LEMMA TransmitFragments ==
    ASSUME IInv, NEW m \in Message, Transmit(m)
    PROVE  /\ \A x : Fragment(x)' => Fragment(x) \/ (SameMessage(x, m) /\ IsFragment(m))
           /\ \A x \in outgoing' : x \in outgoing \/ (SameMessage(x, m) /\ IsFragment(x))
<1>1. /\ UNCHANGED <<reader, defragmenters>>
      /\ wire \in Seq(Message) /\ wire' = Append(wire, m)
      /\ outgoing' \subseteq outgoing \cup {[m EXCEPT !.index = @ + 1]}
      /\ ~IsFragment(m) => outgoing' \subseteq outgoing
  BY DEF Transmit, channelVars, IInv, TypeOK, DeviceType
<1>2. /\ SameMessage([m EXCEPT !.index = @ + 1], m)
      /\ IsFragment(m) => IsFragment([m EXCEPT !.index = @ + 1])
  BY DEF SameMessage, IsFragment, Message
<1>3. \A x \in outgoing' : x \in outgoing \/ (SameMessage(x, m) /\ IsFragment(x))
  BY <1>1, <1>2
<1>4. ASSUME NEW x, Fragment(x)', ~InSystem(x) PROVE SameMessage(x, m) /\ IsFragment(m)
  <2>1. SUFFICES SameMessage(x, m)
    BY <1>4 DEF Fragment, SameMessage, IsFragment
  <2>2. CASE x \in outgoing'
    BY <1>1, <1>2, <1>4, <2>2 DEF InSystem
  <2>3. CASE \E i \in 1..Len(wire') : wire'[i] = x
    <3>1. x = m
      BY <1>1, <1>4, <2>3 DEF InSystem
    <3> QED
      BY <3>1 DEF SameMessage
  <2> QED
    BY <1>1, <1>4, <2>2, <2>3 DEF Fragment, InSystem
<1> QED
  BY <1>3, <1>4 DEF Fragment

LEMMA SentGInv ==
    ASSUME IInv, GInv, NEW m \in Message, Transmit(m),
           lastDeviceId' \in Nat, lastDeviceId' >= lastDeviceId,
           fragmentedCalls \subseteq fragmentedCalls', answered \subseteq answered',
           IsFragment(m) => IF m.conversation = 0
                            THEN m.id \in fragmentedCalls' /\ m.id <= lastDeviceId'
                            ELSE /\ [id |-> m.id, body |-> m.body] \in requests
                                 /\ m.body \in answered',
           m.conversation = 0 => m.body[1] = Device,
           \A b \in answered' : \E q \in requests : q.body = b
    PROVE  GInv'
<1>1. UNCHANGED <<messageIdentifier, tables, mutex, reader, caller, requests>>
  BY DEF Transmit, channelVars, tables
<1>2. FragmentIds'
  <2> SUFFICES ASSUME NEW x, Fragment(x)'
               PROVE  IF x.conversation = 0 THEN x.id \in fragmentedCalls' /\ x.id <= lastDeviceId'
                      ELSE [id |-> x.id, body |-> x.body] \in requests' /\ x.body \in answered'
    BY DEF FragmentIds
  <2>1. CASE Fragment(x)
    <3>1. IF x.conversation = 0 THEN x.id \in fragmentedCalls /\ x.id <= lastDeviceId
          ELSE [id |-> x.id, body |-> x.body] \in requests /\ x.body \in answered
      BY <2>1 DEF GInv, FragmentIds
    <3>2. x.id \in Nat
      BY <2>1 DEF Fragment, Message
    <3> QED
      BY <1>1, <3>1, <3>2, GTypes
  <2>2. CASE SameMessage(x, m) /\ IsFragment(m)
    <3>1. x.id = m.id /\ x.conversation = m.conversation /\ x.body = m.body
      BY <2>2 DEF SameMessage
    <3> QED
      BY <1>1, <2>2, <3>1
  <2> QED
    BY <2>1, <2>2, TransmitFragments
<1>3. DeviceCallsOwn'
  <2>1. \A x \in InLine' \cup outgoing' : x.conversation = 0 => x.body[1] = Device
    BY Appended, TransmitFragments DEF GInv, DeviceCallsOwn, SameMessage
  <2>2. \A x \in outgoing' : IsFragment(x)
    BY TransmitFragments DEF GInv, DeviceCallsOwn
  <2> QED
    BY <1>1, <2>1, <2>2 DEF GInv, DeviceCallsOwn, tables
<1>4. RequestIds' /\ RequestsOfCalls' /\ DecodersKeyed'
  BY <1>1 DEF GInv, RequestIds, RequestsOfCalls, DecodersKeyed, InCall, tables
<1> QED
  BY <1>2, <1>3, <1>4 DEF GInv

\* What the device sends: an answer, a call, or the next fragment of one.
LEMMA DeviceSteps ==
    ASSUME IInv, GInv, DeviceStep
    PROVE  \E m \in Message :
              /\ Transmit(m) /\ undecodable \subseteq undecodable'
              /\ fragmentedCalls \subseteq fragmentedCalls' /\ answered \subseteq answered'
              /\ answered' \subseteq answered \cup {m.body} /\ lastDeviceId' >= lastDeviceId
              /\ m.conversation = 0 => m.body[1] = Device
              /\ \/ m \in outgoing /\ UNCHANGED <<answered, fragmentedCalls, lastDeviceId>>
                 \/ /\ m.index = 0 /\ m.conversation = 1 /\ m.body \notin answered
                    /\ m.body \in answered' /\ [id |-> m.id, body |-> m.body] \in requests
                    /\ UNCHANGED <<fragmentedCalls, lastDeviceId>>
                 \/ /\ m.index = 0 /\ m.conversation = 0 /\ UNCHANGED answered
                    /\ m.id > lastDeviceId /\ m.id = lastDeviceId'
                    /\ IsFragment(m) => m.id \in fragmentedCalls'
<1>1. ASSUME NEW n \in 1..MaxFragments, NEW readable \in BOOLEAN, NEW q \in requests,
             DeviceAnswers(q, n, readable), NEW m,
             m = [id |-> q.id, conversation |-> 1, fragments |-> n, index |-> 0, body |-> q.body]
      PROVE  /\ m \in Message /\ Transmit(m) /\ undecodable \subseteq undecodable'
             /\ answered' = answered \cup {m.body} /\ m.conversation = 1 /\ m.index = 0
             /\ m.body \notin answered /\ [id |-> m.id, body |-> m.body] \in requests
             /\ UNCHANGED <<fragmentedCalls, lastDeviceId>>
  <2>1. q.id \in Nat /\ q.body \in Body /\ q = [id |-> q.id, body |-> q.body]
    BY DEF IInv, TypeOK, DeviceType
  <2>2. m \in Message
    BY <1>1, <2>1, ChannelAssumption DEF Message
  <2>3. m.id = q.id /\ m.body = q.body /\ m.index = 0 /\ m.conversation = 1
    BY <1>1
  <2>4. /\ q.body \notin answered /\ answered' = answered \cup {q.body} /\ Transmit(m)
        /\ undecodable \subseteq undecodable' /\ UNCHANGED <<fragmentedCalls, lastDeviceId>>
    BY <1>1 DEF DeviceAnswers, Payload
  <2> QED
    BY <2>1, <2>2, <2>3, <2>4
<1>2. ASSUME NEW n \in 1..MaxFragments, NEW readable \in BOOLEAN,
             NEW i \in CallIdentifiers \cup FragmentedCallIds, DeviceCalls(i, n, readable), NEW m,
             m = [id |-> i, conversation |-> 0, fragments |-> n, index |-> 0, body |-> <<Device, i>>]
      PROVE  /\ m \in Message /\ Transmit(m) /\ undecodable \subseteq undecodable'
             /\ fragmentedCalls \subseteq fragmentedCalls'
             /\ m.index = 0 /\ m.conversation = 0 /\ UNCHANGED answered /\ m.body[1] = Device
             /\ m.id > lastDeviceId /\ m.id = lastDeviceId' /\ lastDeviceId' >= lastDeviceId
             /\ IsFragment(m) => m.id \in fragmentedCalls'
  <2>1. m \in Message /\ i \in Nat /\ n \in Nat
    BY <1>2, ChannelAssumption DEF Message, Body
  <2>2. m.id = i /\ m.index = 0 /\ m.conversation = 0 /\ m.body[1] = Device /\ m.fragments = n
    BY <1>2
  <2>3. /\ i > lastDeviceId /\ lastDeviceId' = i /\ UNCHANGED answered /\ Transmit(m)
        /\ undecodable \subseteq undecodable' /\ fragmentedCalls \subseteq fragmentedCalls'
        /\ n # 1 => i \in fragmentedCalls'
    BY <1>2 DEF DeviceCalls, Payload
  <2>4. IsFragment(m) => n # 1
    BY <2>1, <2>2 DEF IsFragment
  <2> QED
    BY <2>1, <2>2, <2>3, <2>4, GTypes
<1>3. ASSUME NEW m \in outgoing, DeviceContinues(m)
      PROVE  /\ m \in Message /\ Transmit(m) /\ UNCHANGED undecodable
             /\ m.conversation = 0 => m.body[1] = Device
             /\ UNCHANGED <<answered, fragmentedCalls, lastDeviceId>>
  BY <1>3 DEF GInv, DeviceCallsOwn, DeviceContinues, IInv, TypeOK, DeviceType
<1>4. CASE \E n \in 1..MaxFragments, readable \in BOOLEAN, q \in requests :
              DeviceAnswers(q, n, readable)
  <2>1. PICK n \in 1..MaxFragments, readable \in BOOLEAN, q \in requests :
           DeviceAnswers(q, n, readable)
    BY <1>4
  <2> DEFINE m == [id |-> q.id, conversation |-> 1, fragments |-> n, index |-> 0, body |-> q.body]
  <2>2. /\ m \in Message /\ Transmit(m) /\ undecodable \subseteq undecodable'
        /\ answered' = answered \cup {m.body} /\ m.conversation = 1 /\ m.index = 0
        /\ m.body \notin answered /\ [id |-> m.id, body |-> m.body] \in requests
        /\ UNCHANGED <<fragmentedCalls, lastDeviceId>>
    BY <1>1, <2>1
  <2> HIDE DEF m
  <2> QED
    BY <2>2, GTypes
<1>5. CASE \E n \in 1..MaxFragments, readable \in BOOLEAN, i \in CallIdentifiers \cup FragmentedCallIds :
              DeviceCalls(i, n, readable)
  <2>1. PICK n \in 1..MaxFragments, readable \in BOOLEAN, i \in CallIdentifiers \cup FragmentedCallIds :
           DeviceCalls(i, n, readable)
    BY <1>5
  <2> DEFINE m == [id |-> i, conversation |-> 0, fragments |-> n, index |-> 0,
                   body |-> <<Device, i>>]
  <2>2. /\ m \in Message /\ Transmit(m) /\ undecodable \subseteq undecodable'
        /\ fragmentedCalls \subseteq fragmentedCalls'
        /\ m.index = 0 /\ m.conversation = 0 /\ UNCHANGED answered /\ m.body[1] = Device
        /\ m.id > lastDeviceId /\ m.id = lastDeviceId' /\ lastDeviceId' >= lastDeviceId
        /\ IsFragment(m) => m.id \in fragmentedCalls'
    BY <1>2, <2>1
  <2> HIDE DEF m
  <2> QED
    BY <2>2
<1>6. CASE \E m \in outgoing : DeviceContinues(m)
  <2>1. PICK m \in outgoing : DeviceContinues(m)
    BY <1>6
  <2>2. /\ m \in Message /\ Transmit(m) /\ UNCHANGED undecodable
        /\ m.conversation = 0 => m.body[1] = Device
        /\ UNCHANGED <<answered, fragmentedCalls, lastDeviceId>>
    BY <1>3, <2>1
  <2> QED
    BY <2>2, GTypes
<1> QED
  BY <1>4, <1>5, <1>6, ChannelAssumption DEF DeviceStep

LEMMA DeviceGInv ==
    ASSUME IInv, IInv', GInv, DeviceStep
    PROVE  GInv'
<1>1. PICK m \in Message :
         /\ Transmit(m) /\ undecodable \subseteq undecodable'
         /\ fragmentedCalls \subseteq fragmentedCalls' /\ answered \subseteq answered'
         /\ answered' \subseteq answered \cup {m.body} /\ lastDeviceId' >= lastDeviceId
         /\ m.conversation = 0 => m.body[1] = Device
         /\ \/ m \in outgoing /\ UNCHANGED <<answered, fragmentedCalls, lastDeviceId>>
            \/ /\ m.index = 0 /\ m.conversation = 1 /\ m.body \notin answered
               /\ m.body \in answered' /\ [id |-> m.id, body |-> m.body] \in requests
               /\ UNCHANGED <<fragmentedCalls, lastDeviceId>>
            \/ /\ m.index = 0 /\ m.conversation = 0 /\ UNCHANGED answered
               /\ m.id > lastDeviceId /\ m.id = lastDeviceId'
               /\ IsFragment(m) => m.id \in fragmentedCalls'
  BY DeviceSteps
<1>2. IsFragment(m) => IF m.conversation = 0
                       THEN m.id \in fragmentedCalls' /\ m.id <= lastDeviceId'
                       ELSE [id |-> m.id, body |-> m.body] \in requests /\ m.body \in answered'
  <2>1. CASE m \in outgoing /\ UNCHANGED <<answered, fragmentedCalls, lastDeviceId>>
    <3>1. IsFragment(m) => Fragment(m)
      BY <2>1 DEF Fragment, InSystem
    <3> QED
      BY <2>1, <3>1 DEF GInv, FragmentIds
  <2>2. CASE m.id = lastDeviceId' /\ m.conversation = 0 /\ (IsFragment(m) => m.id \in fragmentedCalls')
    <3>1. m.id \in Nat
      BY DEF Message
    <3> QED
      BY <2>2, <3>1
  <2> QED
    BY <1>1, <2>1, <2>2
<1>3. \A b \in answered' : \E q \in requests : q.body = b
  <2>1. \A b \in answered : \E q \in requests : q.body = b
    BY DEF GInv, RequestsOfCalls
  <2>2. m.body \in answered' /\ m.body \notin answered => \E q \in requests : q.body = m.body
    <3>1. SUFFICES ASSUME [id |-> m.id, body |-> m.body] \in requests
                   PROVE  \E q \in requests : q.body = m.body
      BY <1>1
    <3>2. [id |-> m.id, body |-> m.body].body = m.body
      OBVIOUS
    <3> QED
      BY <3>1, <3>2
  <2> QED
    BY <1>1, <2>1, <2>2
<1>4. lastDeviceId' \in Nat
  BY DEF IInv, TypeOK, DeviceType
<1> QED
  BY <1>1, <1>2, <1>3, <1>4, SentGInv

LEMMA GStep ==
    ASSUME IInv, IInv', GInv, [Next]_vars
    PROVE  GInv'
<1>1. CASE \E c \in Callers : Begin(c) \/ MethodCallAsync(c) \/ CallStep(c)
  BY <1>1, CallerGInv
<1>2. CASE ReaderStep
  BY <1>2, ReaderGInv
<1>3. CASE DeviceStep
  BY <1>3, DeviceGInv
<1>4. CASE ConnectionLost \/ UNCHANGED vars
  <2>1. UNCHANGED <<channelVars, reader, caller, wire, deviceVars>>
    BY <1>4 DEF ConnectionLost, vars
  <2> QED
    BY <2>1 DEF channelVars, deviceVars, GInv, RequestIds, FragmentIds, DecodersKeyed,
                DeviceCallsOwn, RequestsOfCalls, InCall, Fragment, InSystem, InLine, Line
<1> QED
  BY <1>1, <1>2, <1>3, <1>4 DEF Next

-----------------------------------------------------------------------------
(* One identifier: callers *)

\* A fragment on its way is of a call of the device or of the answer to a request.
LEMMA FlyingGenuine ==
    ASSUME IInv, GInv, NEW k, NEW x \in Flying(k)
    PROVE  /\ x \in Message /\ Fragment(x) /\ IsFragment(x) /\ x.id = k
           /\ IF x.conversation = 0 THEN k \in fragmentedCalls /\ k <= lastDeviceId
              ELSE [id |-> k, body |-> x.body] \in requests /\ x.body \in answered
<1>1. x \in Message /\ Fragment(x) /\ x.id = k
  BY LineType DEF Flying, Of
<1> QED
  BY <1>1 DEF GInv, FragmentIds, Fragment

\* A decoder goes on as long as what it expects does, or is gone.
LEMMA DecoderGoesOn ==
    ASSUME NEW k, DecoderFilled(k), undecodable \subseteq undecodable',
           k \in DOMAIN defragmenters' => /\ k \in DOMAIN defragmenters
                                          /\ defragmenters'[k] = defragmenters[k],
           UNCHANGED Flying(k),
           \/ UNCHANGED <<reader, mutex>>
           \/ k \in DOMAIN defragmenters' => ~(reader.pc = "dispatcher" /\ mutex /\ reader.msg.id = k)
    PROVE  DecoderFilled(k)'
<1> SUFFICES ASSUME k \in DOMAIN defragmenters'
             PROVE  \E j \in 1..defragmenters'[k].first.fragments : Expects(k, j)'
  BY DEF DecoderFilled
<1>1. PICK j \in 1..defragmenters[k].first.fragments : Expects(k, j)
  BY DEF DecoderFilled
<1>2. Expects(k, j)'
  BY <1>1 DEF Expects
<1> QED
  BY <1>1, <1>2

LEMMA CallerLInv ==
    ASSUME IInv, GInv, NEW k, LInv(k), NEW c \in Callers,
           Begin(c) \/ MethodCallAsync(c) \/ CallStep(c)
    PROVE  LInv(k)' /\ UNCHANGED <<Line, InLine, Flying(k)>>
<1>1. UNCHANGED <<reader, wire, outgoing, answered, undecodable, mutex, Line>>
  BY CallerSteps, CallerTables
<1>2. UNCHANGED <<InLine, Flying(k)>> /\ FragmentsInOrder(k)' /\ NoneSkipped(k)'
  BY <1>1, LineSame DEF LInv
<1>3. FragmentsAgree(k)'
  BY CallerTables DEF LInv, FragmentsAgree
<1>4. DecoderFilled(k)'
  BY <1>1, <1>2, CallerTables, DecoderGoesOn DEF LInv
<1>5. NoPanic(k)'
  BY CallerSteps DEF NoPanic
<1> QED
  BY <1>1, <1>2, <1>3, <1>4, <1>5 DEF LInv

LEMMA CallerRInv ==
    ASSUME IInv, GInv, NEW k, LInv(k), RInv(k), NEW c \in Callers,
           Begin(c) \/ MethodCallAsync(c) \/ CallStep(c)
    PROVE  RInv(k)'
<1>1. /\ UNCHANGED <<reader, wire, outgoing, answered, undecodable>> /\ UNCHANGED Flying(k)
      /\ \A d \in Callers \ {c} : caller'[d] = caller[d]
  BY CallerSteps, CallerLInv
<1>2. \A body : InFlight(body)' = InFlight(body)
  BY <1>1 DEF InFlight
<1>3. /\ DOMAIN responseWaiters \ {caller[c].id} \subseteq DOMAIN responseWaiters'
      /\ DOMAIN defragmenters \ {caller[c].id} \subseteq DOMAIN defragmenters'
      /\ ~InCall(c) => /\ DOMAIN responseWaiters \subseteq DOMAIN responseWaiters'
                       /\ DOMAIN defragmenters \subseteq DOMAIN defragmenters'
  BY CallerSteps, ForgetType DEF tables, InCall
<1>4. ASSUME NEW d \in Callers, d # c, Awaits(d, k)
      PROVE  /\ k \in DOMAIN responseWaiters => k \in DOMAIN responseWaiters'
             /\ k \in DOMAIN defragmenters => k \in DOMAIN defragmenters'
  <2>1. InCall(d) /\ caller[d].id = k
    BY <1>4 DEF Awaits, Waiting, InCall
  <2>2. InCall(c) => caller[c].id # k
    BY <1>4, <2>1, CallerFacts DEF IdsUnique
  <2> QED
    BY <1>3, <2>2
<1>5. Awaits(c, k)' =>
        \/ /\ caller[c].pc = "encode" /\ caller'[c].pc = "send" /\ caller[c].id = k
           /\ k \in DOMAIN responseWaiters'
        \/ Awaits(c, k) /\ UNCHANGED tables
  BY CallerSteps DEF Waiting, Awaits
<1>6. \A d \in Callers : d # c /\ Awaits(d, k)' => Awaits(d, k)
  BY <1>1 DEF Waiting, Awaits
<1>7. Registered(k)'
  <2> SUFFICES ASSUME NEW d \in Callers, Awaits(d, k)' PROVE k \in DOMAIN responseWaiters'
    BY DEF Registered
  <2> QED
    BY <1>4, <1>5, <1>6 DEF RInv, Registered, tables
<1>8. AnswerDecoded(k)'
  <2> SUFFICES ASSUME NEW d \in Callers, NEW x \in Flying(k), Awaits(d, k)', x.conversation = 1
               PROVE  k \in DOMAIN defragmenters' \/ \E y \in Flying(k) : y.index = 0
    BY <1>1 DEF AnswerDecoded
  <2>1. CASE d = c /\ caller[c].pc = "encode" /\ caller[c].id = k
    <3>1. [id |-> k, body |-> x.body] \in requests
      BY FlyingGenuine
    <3>2. InCall(c)
      BY <2>1 DEF InCall
    <3>3. x.body = <<c, caller[c].n>>
      BY <2>1, <3>1, <3>2, CallerFacts DEF RequestsKnown
    <3> QED
      BY <2>1, <3>1, <3>2, <3>3 DEF GInv, RequestsOfCalls
  <2>2. CASE d = c /\ Awaits(c, k) /\ UNCHANGED tables
    BY <2>2 DEF RInv, AnswerDecoded, tables
  <2>3. CASE d # c
    BY <1>4, <1>6, <2>3 DEF RInv, AnswerDecoded
  <2> QED
    BY <1>5, <2>1, <2>2, <2>3
<1>9. Deposited(k)'
  <2> SUFFICES ASSUME NEW d \in Callers, caller'[d].id = k, caller'[d].pc = "await",
                      <<d, caller'[d].n>> \in answered \ undecodable,
                      ~InFlight(<<d, caller'[d].n>>)
               PROVE  caller'[d].inbox # << >>
    BY <1>1, <1>2 DEF Deposited
  <2>1. CASE caller'[d] = caller[d]
    BY <2>1 DEF RInv, Deposited
  <2>2. CASE d = c /\ caller[c].pc = "send" /\ caller'[c].n = caller[c].n
    <3>1. PICK q \in requests : q.body = <<c, caller[c].n>>
      BY <2>2 DEF GInv, RequestsOfCalls
    <3> QED
      BY <2>2, <3>1 DEF GInv, RequestsOfCalls, InCall
  <2>3. d = c /\ caller'[d] # caller[d] => caller[c].pc = "send" /\ caller'[c].n = caller[c].n
    BY CallerSteps
  <2> QED
    BY <1>1, <2>1, <2>2, <2>3
<1> QED
  BY <1>7, <1>8, <1>9 DEF RInv

-----------------------------------------------------------------------------
(* One identifier: the reader *)

LEMMA MessageLInv ==
    ASSUME IInv, GInv, NEW k, LInv(k), DispatchMessage
    PROVE  LInv(k)' /\ UNCHANGED Flying(k)
<1>1. UNCHANGED Flying(k) /\ FragmentsInOrder(k)' /\ NoneSkipped(k)'
  <2>1. CASE UNCHANGED Line
    BY <2>1, MessageSteps, LineSame DEF LInv
  <2>2. CASE Line' = Tail(Line) /\ ~IsFragment(Head(wire))
    <3>1. Line # << >> /\ Head(Line) = Head(wire) /\ ~Of(k, Head(Line)) /\ UNCHANGED outgoing
      BY <2>2, MessageSteps DEF Of
    <3>2. UNCHANGED Flying(k) /\ FragmentsInOrder(k)' /\ InLine' \subseteq InLine
      BY <2>2, <3>1, LineShorter DEF LInv
    <3> QED
      BY <3>2 DEF LInv, NoneSkipped
  <2> QED
    BY <2>1, <2>2, MessageSteps
<1>2. FragmentsAgree(k)'
  <2>1. \A x : Fragment(x)' => Fragment(x)
    <3> SUFFICES ASSUME NEW x, InSystem(x)' PROVE InSystem(x)
      BY DEF Fragment
    <3>1. CASE \E i \in 1..Len(wire') : wire'[i] = x
      <4>1. PICK i \in 1..Len(wire') : wire'[i] = x
        BY <3>1
      <4>2. i + 1 \in 1..Len(wire) /\ wire[i + 1] = x
        BY <4>1, MessageSteps
      <4> QED
        BY <4>2 DEF InSystem
    <3>2. CASE reader'.msg = x
      <4>1. 1 \in 1..Len(wire) /\ wire[1] = x
        BY <3>2, MessageSteps
      <4> QED
        BY <4>1 DEF InSystem
    <3> QED
      BY <3>1, <3>2, MessageSteps DEF InSystem, tables
  <2> QED
    BY <2>1 DEF LInv, FragmentsAgree
<1>3. DecoderFilled(k)'
  BY <1>1, MessageSteps, DecoderGoesOn DEF LInv, tables
<1>4. NoPanic(k)'
  BY MessageSteps DEF NoPanic
<1> QED
  BY <1>1, <1>2, <1>3, <1>4 DEF LInv

LEMMA MessageRInv ==
    ASSUME IInv, GInv, NEW k, LInv(k), RInv(k), DispatchMessage
    PROVE  RInv(k)'
<1>1. UNCHANGED <<caller, answered, undecodable, responseWaiters, defragmenters, outgoing>>
      /\ UNCHANGED Flying(k)
  BY MessageSteps, MessageLInv DEF tables
<1>2. \A body : InFlight(body) => InFlight(body)'
  <2> SUFFICES ASSUME NEW body, InFlight(body) PROVE InFlight(body)'
    OBVIOUS
  <2>1. reader'.pc \in {"table", "dispatcher"} /\ reader'.msg = Head(wire) /\ reader.pc = "read"
    BY MessageSteps
  <2>2. CASE \E i \in 1..Len(wire) : wire[i].body = body
    <3>1. PICK i \in 1..Len(wire) : wire[i].body = body
      BY <2>2
    <3>2. CASE i = 1
      BY <2>1, <3>1, <3>2, MessageSteps DEF InFlight
    <3>3. CASE i # 1
      <4>1. i - 1 \in 1..Len(wire') /\ wire'[i - 1] = wire[i]
        BY <3>1, <3>3, MessageSteps
      <4> QED
        BY <3>1, <4>1 DEF InFlight
    <3> QED
      BY <3>2, <3>3
  <2> QED
    BY <1>1, <2>1, <2>2 DEF InFlight
<1>3. Registered(k)' /\ AnswerDecoded(k)'
  BY <1>1 DEF RInv, Registered, AnswerDecoded, Awaits, Waiting
<1>4. Deposited(k)'
  BY <1>1, <1>2 DEF RInv, Deposited
<1> QED
  BY <1>3, <1>4 DEF RInv

LEMMA ReturnsLInv ==
    ASSUME IInv, GInv, NEW k, LInv(k), ReaderStops \/ DispatcherReturns
    PROVE  LInv(k)' /\ UNCHANGED Flying(k)
<1>1. UNCHANGED Flying(k) /\ FragmentsInOrder(k)' /\ NoneSkipped(k)'
  BY ReturnsSteps, LineSame DEF LInv
<1>2. FragmentsAgree(k)' /\ NoPanic(k)'
  BY ReturnsSteps DEF LInv, FragmentsAgree, NoPanic
<1>3. k \in DOMAIN defragmenters' => ~(reader.pc = "dispatcher" /\ mutex /\ reader.msg.id = k)
  BY ReturnsSteps, ForgetType
<1>4. DecoderFilled(k)'
  BY <1>1, <1>3, ReturnsSteps, DecoderGoesOn DEF LInv
<1> QED
  BY <1>1, <1>2, <1>4 DEF LInv

LEMMA ReturnsRInv ==
    ASSUME IInv, GInv, NEW k, LInv(k), RInv(k), k \notin fragmentedCalls,
           ReaderStops \/ DispatcherReturns
    PROVE  RInv(k)'
<1>1. /\ UNCHANGED <<wire, outgoing, caller, answered, undecodable>> /\ UNCHANGED Flying(k)
      /\ reader.pc \in {"read", "dispatcher"} /\ reader'.pc \in {"read", "stopped"}
  BY ReturnsSteps, ReturnsLInv
<1>2. ASSUME NEW c \in Callers, Awaits(c, k)
      PROVE  /\ k \in DOMAIN responseWaiters => k \in DOMAIN responseWaiters'
             /\ k \in DOMAIN defragmenters => k \in DOMAIN defragmenters'
  <2>1. CASE UNCHANGED tables
    BY <2>1 DEF tables
  <2>2. CASE mutex /\ reader.pc = "dispatcher" /\ Forget(reader.msg.id)
    <3>1. k >= FirstIdentifier
      BY <1>2 DEF GInv, RequestIds, Awaits, Waiting, InCall
    <3>2. reader.msg.id # k
      BY <2>2, <3>1, ChannelAssumption DEF GInv, DeviceCallsOwn
    <3>3. /\ DOMAIN responseWaiters' = DOMAIN responseWaiters \ {reader.msg.id}
          /\ DOMAIN defragmenters' = DOMAIN defragmenters \ {reader.msg.id}
      BY <2>2, ForgetType
    <3> QED
      BY <3>2, <3>3
  <2> QED
    BY <2>1, <2>2, ReturnsSteps
<1>3. Registered(k)' /\ AnswerDecoded(k)'
  BY <1>1, <1>2 DEF RInv, Registered, AnswerDecoded, Awaits, Waiting
<1>4. Deposited(k)'
  <2>1. ASSUME NEW c \in Callers, InFlight(<<c, caller[c].n>>) PROVE InFlight(<<c, caller[c].n>>)'
    <3>1. ~ (reader.pc = "dispatcher" /\ reader.msg.body = <<c, caller[c].n>>)
      BY ChannelAssumption DEF GInv, DeviceCallsOwn
    <3> QED
      BY <1>1, <2>1, <3>1 DEF InFlight
  <2> QED
    BY <1>1, <2>1 DEF RInv, Deposited
<1> QED
  BY <1>3, <1>4 DEF RInv

\* A last fragment belongs to the message of the decoder it meets.
LEMMA LastFragmentFits ==
    ASSUME IInv, GInv, NEW m, LInv(m.id), reader.pc = "table", reader.msg = m,
           IsLastFragment(m), m.id \in DOMAIN defragmenters
    PROVE  AddFragment(defragmenters[m.id], m).finished
<1>1. m \in Message /\ defragmenters[m.id] \in Decoder
  BY DEF IInv, TypeOK, ReaderType, TablesType
<1>2. Fragment(m) /\ Fragment(defragmenters[m.id].first) /\ defragmenters[m.id].first.id = m.id
  BY <1>1 DEF Fragment, InSystem, GInv, DecodersKeyed, IsLastFragment, IsFragment, Decoder
<1>3. defragmenters[m.id].first.fragments = m.fragments
  BY <1>2 DEF LInv, FragmentsAgree, SameMessage
<1>4. m.index > 0 /\ m.index < m.fragments
  BY <1>1, ChannelAssumption DEF IsLastFragment, Message
<1> QED
  BY <1>1, <1>2, <1>3, <1>4 DEF AddFragment, MessageIsFirstFragmentFor, InRange, Decoder

\* What DispatchTable does to the line, whatever the message is.
LEMMA TableLine ==
    ASSUME IInv, IInv', GInv, NEW k, LInv(k), DispatchTable
    PROVE  LET m == reader.msg IN
           /\ FragmentsAgree(k)' /\ NoPanic(k)' /\ FragmentsInOrder(k)' /\ NoneSkipped(k)'
           /\ Flying(k)' \subseteq Flying(k) /\ Flying(k) \subseteq Message
           /\ \A x \in Flying(k) \ Flying(k)' : x = m
           /\ ~Of(k, m) => Flying(k)' = Flying(k)
           /\ Of(k, m) => /\ m \in Flying(k) /\ m.index < m.fragments
                          /\ \A x \in Flying(k)' : x.index > m.index
           /\ Of(k, m) /\ ~IsLastFragment(m) =>
                 \E y \in Flying(k)' : SameMessage(m, y) /\ y.index = m.index + 1
<1> DEFINE m == reader.msg
<1>1. /\ reader.pc = "table" /\ m \in Message /\ m \in InLine /\ UNCHANGED outgoing
      /\ Line # << >> /\ Head(Line) = m /\ Line' = Tail(Line)
  BY TableSteps
<1>2. /\ FragmentsInOrder(k)' /\ InLine' \subseteq InLine /\ Flying(k)' \subseteq Flying(k)
      /\ Flying(k) \subseteq Flying(k)' \cup {m}
      /\ ~Of(k, m) => Flying(k)' = Flying(k)
      /\ Of(k, m) => \A x \in Flying(k)' : m.index < x.index
  BY <1>1, LineShorter DEF LInv
<1>3. FragmentsAgree(k)'
  <2>1. \A x : Fragment(x)' => Fragment(x)
    BY TableSteps DEF Fragment, InSystem
  <2> QED
    BY <2>1 DEF LInv, FragmentsAgree
<1>4. NoPanic(k)'
  BY LastFragmentFits, TableSteps DEF RejectedLastFragment, NoPanic
<1> HIDE DEF m
<1>5. Of(k, m) => m \in Flying(k) /\ m.index < m.fragments
  BY <1>1 DEF Flying, LInv, NoneSkipped
<1>6. Flying(k) \subseteq Message /\ Flying(k)' \subseteq Message
  BY <1>2, LineType
<1>7. NoneSkipped(k)'
  <2> SUFFICES ASSUME NEW x \in Flying(k)'
               PROVE  /\ x.index < x.fragments
                      /\ x \in InLine' /\ x.index + 1 < x.fragments =>
                            \E y \in Flying(k)' : SameMessage(x, y) /\ y.index = x.index + 1
    BY DEF NoneSkipped
  <2>1. x \in Flying(k) /\ x.index < x.fragments
    BY <1>2 DEF LInv, NoneSkipped
  <2>2. ASSUME x \in InLine', x.index + 1 < x.fragments
        PROVE  \E y \in Flying(k)' : SameMessage(x, y) /\ y.index = x.index + 1
    <3>1. PICK y \in Flying(k) : SameMessage(x, y) /\ y.index = x.index + 1
      BY <1>2, <2>1, <2>2 DEF LInv, NoneSkipped
    <3>2. y # m
      <4> SUFFICES ASSUME y = m PROVE FALSE
        OBVIOUS
      <4>1. Of(k, m)
        BY <3>1 DEF Flying
      <4>2. m.index < x.index /\ m.index = x.index + 1
        BY <1>2, <3>1, <4>1
      <4>3. x.index \in Nat
        BY <1>6 DEF Message
      <4> QED
        BY <4>2, <4>3
    <3> QED
      BY <1>2, <3>1, <3>2
  <2> QED
    BY <2>1, <2>2
<1>8. ASSUME Of(k, m), ~IsLastFragment(m)
      PROVE  \E y \in Flying(k)' : SameMessage(m, y) /\ y.index = m.index + 1
  <2>1. m.index \in Nat /\ m.fragments \in Nat
    BY <1>1, ChannelAssumption DEF Message, m
  <2>2. m.index + 1 < m.fragments
    BY <1>5, <1>8, <2>1 DEF IsLastFragment, IsFragment, Of
  <2>3. PICK y \in Flying(k) : SameMessage(m, y) /\ y.index = m.index + 1
    BY <1>1, <1>5, <1>8, <2>2 DEF LInv, NoneSkipped, m
  <2>4. y # m
    BY <2>1, <2>3
  <2> QED
    BY <1>2, <2>3, <2>4
<1>9. \A x \in Flying(k)' : Of(k, m) => x.index > m.index
  BY <1>1, <1>2, <1>6 DEF Message, m
<1> QED
  BY <1>2, <1>3, <1>4, <1>5, <1>6, <1>7, <1>8, <1>9 DEF m


-----------------------------------------------------------------------------
(* One identifier: the tables *)

\* A message with another identifier does no harm, whatever becomes of it.
LEMMA OtherTable ==
    ASSUME IInv, IInv', GInv, NEW k, LInv(k), DispatchTable, reader.msg.id # k
    PROVE  LInv(k)' /\ (RInv(k) => RInv(k)')
<1> DEFINE m == reader.msg
<1>1. /\ FragmentsAgree(k)' /\ NoPanic(k)' /\ FragmentsInOrder(k)' /\ NoneSkipped(k)'
      /\ Flying(k)' = Flying(k)
  BY TableLine DEF Of
<1>2. /\ k \in DOMAIN responseWaiters' <=> k \in DOMAIN responseWaiters
      /\ k \in DOMAIN defragmenters' <=> k \in DOMAIN defragmenters
      /\ k \in DOMAIN defragmenters => defragmenters'[k] = defragmenters[k]
      /\ UNCHANGED <<wire, outgoing, requests, answered, undecodable>>
      /\ reader.pc = "table"
  BY TableSteps
<1>3. DecoderFilled(k)'
  <2>1. DecoderFilled(k)
    BY DEF LInv
  <2> QED
    BY <1>1, <1>2, <2>1, DecoderGoesOn
<1>4. ASSUME RInv(k) PROVE RInv(k)'
  <2>1. \A c \in Callers : Awaits(c, k)' => Awaits(c, k)
    BY TableCallers DEF Awaits, Waiting
  <2>2. Registered(k)' /\ AnswerDecoded(k)'
    BY <1>1, <1>2, <1>4, <2>1 DEF RInv, Registered, AnswerDecoded
  <2>3. Deposited(k)'
    <3> SUFFICES ASSUME NEW c \in Callers, NEW body, body = <<c, caller'[c].n>>,
                        caller'[c].id = k, caller'[c].pc = "await",
                        body \in answered \ undecodable, ~InFlight(body)',
                        caller'[c].inbox = << >>
                 PROVE  FALSE
      BY <1>2 DEF Deposited
    <3>1. /\ caller[c].pc = "await" /\ caller[c].id = k /\ body = <<c, caller[c].n>>
          /\ caller[c].inbox = << >>
      BY TableCallers
    <3>2. InFlight(body)
      BY <1>4, <3>1 DEF RInv, Deposited
    <3>3. m.body = body
      BY <1>2, <3>2 DEF InFlight
    <3>4. m.conversation = 1
      BY <3>3, TableSteps, ChannelAssumption DEF GInv, DeviceCallsOwn
    <3>5. [id |-> m.id, body |-> m.body] \in requests
      BY <1>2, <3>4 DEF IInv, RepliesGenuine, Genuine
    <3>6. m.id = k
      BY <3>1, <3>3, <3>5 DEF GInv, RequestsOfCalls, InCall
    <3> QED
      BY <3>6
  <2> QED
    BY <2>2, <2>3 DEF RInv
<1> QED
  BY <1>1, <1>3, <1>4 DEF LInv

\* A fragment meets a decoder that expects it.
LEMMA NextExpected ==
    ASSUME IInv, IInv', GInv, NEW k, LInv(k), DispatchTable, k = reader.msg.id,
           IsFragment(reader.msg), k \in DOMAIN defragmenters
    PROVE  LET m == reader.msg
               d == defragmenters[k]
           IN  /\ Expects(k, m.index) /\ SameMessage(m, d.first)
               /\ m.index \in 1..(d.first.fragments - 1)
               /\ d \in Decoder /\ Fragment(d.first) /\ d.first.id = k
               /\ MessageIsFirstFragmentFor(d.first, m) /\ InRange(d, m)
<1> DEFINE m == reader.msg
           d == defragmenters[k]
<1>1. m \in Message /\ d \in Decoder /\ Of(k, m)
  BY TableSteps, GTypes DEF Of
<1>2. /\ m \in Flying(k) /\ m.index < m.fragments
      /\ \A x \in Flying(k) \ Flying(k)' : x = m
      /\ \A x \in Flying(k)' : x.index > m.index
  BY <1>1, TableLine
<1>3. Fragment(m) /\ d.first.id = k /\ Fragment(d.first)
  BY <1>1, <1>2, LineType DEF GInv, DecodersKeyed, Fragment, InSystem, Decoder
<1>4. SameMessage(m, d.first)
  BY <1>3 DEF LInv, FragmentsAgree
<1>5. PICK j \in 1..d.first.fragments : Expects(k, j)
  BY DEF LInv, DecoderFilled
<1> HIDE DEF m, d
<1>6. m.index >= j
  BY <1>2, <1>5 DEF Expects
<1>7. m.index \in Nat /\ d.first.fragments \in Nat /\ j \in Nat /\ d.first.fragments = m.fragments
  BY <1>1, <1>4, <1>5, ChannelAssumption DEF Message, Decoder, SameMessage
<1>8. j < d.first.fragments
  BY <1>2, <1>6, <1>7
<1>9. PICK x \in Flying(k) : x.index = j
  BY <1>5, <1>8 DEF Expects, d
<1>10. x = m
  <2> SUFFICES ASSUME x # m PROVE FALSE
    OBVIOUS
  <2>1. x.index > m.index
    BY <1>2
  <2> QED
    BY <1>6, <1>7, <1>9, <2>1
<1>11. m.index = j
  BY <1>9, <1>10
<1>12. m.id = k
  BY <1>1 DEF Of
<1>13. MessageIsFirstFragmentFor(d.first, m) /\ InRange(d, m)
  BY <1>3, <1>5, <1>7, <1>8, <1>11, <1>12 DEF MessageIsFirstFragmentFor, InRange
<1> QED
  BY <1>1, <1>3, <1>4, <1>5, <1>7, <1>8, <1>11, <1>13 DEF m, d

\* m is put into its decoder, which then has all the fragments up to m.
LEMMA AddFragmentFills ==
    ASSUME NEW d \in Decoder, NEW m \in Message, m.index \in 1..(d.first.fragments - 1),
           SameMessage(m, d.first), MessageIsFirstFragmentFor(d.first, m), InRange(d, m),
           d.parts = {<<j, d.first.body>> : j \in 1..(m.index - 1)}
    PROVE  /\ AddFragment(d, m).first = d.first
           /\ AddFragment(d, m).parts = {<<j, d.first.body>> : j \in 1..m.index}
<1>1. AddFragment(d, m) = [d EXCEPT !.parts = {p \in @ : p[1] # m.index} \cup {<<m.index, m.body>>},
                                    !.finished = @ \/ IsLastFragment(m)]
  BY DEF AddFragment
<1>2. /\ AddFragment(d, m).first = d.first
      /\ AddFragment(d, m).parts = {p \in d.parts : p[1] # m.index} \cup {<<m.index, m.body>>}
  BY <1>1 DEF Decoder
<1>3. m.index \in Nat \ {0} /\ m.body = d.first.body
  BY DEF SameMessage, Message
<1>4. {p \in d.parts : p[1] # m.index} = d.parts
  BY <1>3
<1>5. 1..m.index = (1..(m.index - 1)) \cup {m.index}
  BY <1>3
<1> QED
  BY <1>2, <1>3, <1>4, <1>5

\* A fragment that is not the last of a reply leaves the callers alone.
LEMMA KeepsWaiters ==
    ASSUME IInv, IInv', GInv, NEW k, LInv(k), RInv(k), DispatchTable, k = reader.msg.id,
           IsFragment(reader.msg), UNCHANGED <<caller, responseWaiters>>,
           k \in DOMAIN defragmenters',
           \/ ~IsLastFragment(reader.msg)
           \/ reader.msg.body \in undecodable
           \/ reader'.pc = "dispatcher" /\ reader'.msg.body = reader.msg.body
    PROVE  RInv(k)'
<1> DEFINE m == reader.msg
<1>1. UNCHANGED <<wire, outgoing, answered, undecodable>> /\ reader.pc = "table" /\ Of(k, m)
  BY TableSteps DEF Of
<1>2. Registered(k)' /\ AnswerDecoded(k)'
  BY DEF RInv, Registered, AnswerDecoded, Awaits, Waiting
<1>3. Deposited(k)'
  <2> SUFFICES ASSUME NEW c \in Callers, NEW body, body = <<c, caller[c].n>>,
                      body \in answered \ undecodable, ~InFlight(body)', InFlight(body)
               PROVE  FALSE
    BY <1>1 DEF RInv, Deposited
  <2>1. m.body = body
    BY <1>1 DEF InFlight
  <2>2. ~IsLastFragment(m)
    BY <1>1, <2>1 DEF InFlight
  <2>3. PICK y \in Flying(k)' : SameMessage(m, y)
    BY <1>1, <2>2, TableLine
  <2>4. y.body = body
    BY <2>1, <2>3 DEF SameMessage
  <2>5. y \in outgoing' \/ \E i \in 1..Len(wire') : wire'[i] = y
    <3>1. reader'.pc # "table"
      BY TableSteps
    <3> QED
      BY <3>1 DEF Flying, InLine, Line
  <2> QED
    BY <2>4, <2>5 DEF InFlight
<1> QED
  BY <1>2, <1>3 DEF RInv

\* When nobody waits with the identifier k, there is nothing to keep for its caller.
LEMMA NobodyWaits ==
    ASSUME NEW k, \A c \in Callers : ~Awaits(c, k)'
    PROVE  RInv(k)'
  BY DEF RInv, Registered, AnswerDecoded, Deposited, Awaits, Waiting

\* The caller of a complete reply, if it still waits, gets it.
LEMMA DeliverRInv ==
    ASSUME IInv, NEW k, RInv(k), DispatchTable, NEW w, w.id = k, caller' = SendResponse(w)
    PROVE  RInv(k)'
<1> SUFFICES ASSUME NEW c \in Callers, Awaits(c, k)' PROVE FALSE
  BY NobodyWaits
<1>1. Awaits(c, k)
  BY TableCallers DEF Awaits, Waiting
<1>2. k \in DOMAIN responseWaiters /\ InCall(c)
  BY <1>1 DEF RInv, Registered, Awaits, Waiting, InCall
<1> DEFINE d == responseWaiters[k]
<1>3. d \in Callers /\ caller[d].id = k /\ InCall(d)
  BY <1>2, CallerFacts DEF NoWaiterLeak, InCall, TypeOK, TablesType
<1>4. d = c
  BY <1>1, <1>2, <1>3, CallerFacts DEF IdsUnique, Awaits
<1> HIDE DEF d
<1>5. caller' = [caller EXCEPT ![c].inbox = <<w.body>>]
  BY <1>1, <1>2, <1>4 DEF SendResponse, Waiting, Awaits, d
<1>6. caller'[c].inbox = <<w.body>>
  <2>1. caller \in [Callers -> Caller] /\ caller[c] \in Caller
    BY CallerFacts
  <2> DEFINE q == <<w.body>>
  <2>2. caller' = [caller EXCEPT ![c].inbox = q]
    BY <1>5
  <2> HIDE DEF q
  <2>3. caller'[c].inbox = q
    BY <2>1, <2>2 DEF Caller
  <2> QED
    BY <2>3 DEF q
<1>7. <<w.body>> # << >>
  OBVIOUS
<1>8. caller'[c].inbox = << >>
  BY DEF Awaits, Waiting
<1> QED
  BY <1>6, <1>7, <1>8

\* With the rest of the line as it should be, the decoder is what counts.
LEMMA TableLInv ==
    ASSUME IInv, IInv', GInv, NEW k, LInv(k), DispatchTable, DecoderFilled(k)'
    PROVE  LInv(k)'
  BY TableLine DEF LInv

LEMMA FirstFragmentKInv ==
    ASSUME IInv, IInv', GInv, NEW k, LInv(k), DispatchTable, k = reader.msg.id,
           FirstFragment(reader.msg)
    PROVE  LInv(k)' /\ (RInv(k) => RInv(k)')
<1> DEFINE m == reader.msg
<1>1. /\ IsFragment(m) /\ m.index = 0 /\ ~IsLastFragment(m) /\ Of(k, m)
      /\ defragmenters' = Put(defragmenters, k, NewFragmentDecoder(m))
      /\ UNCHANGED <<caller, responseWaiters>>
  BY DEF FirstFragment, IsFirstFragment, IsFragment, IsLastFragment, Of
<1>2. m \in Message
  BY TableSteps
<1>3. /\ \A x \in Flying(k)' : x.index > m.index
      /\ \E y \in Flying(k)' : SameMessage(m, y) /\ y.index = m.index + 1
      /\ Flying(k)' \subseteq Message
  BY <1>1, TableLine
<1> HIDE DEF m
<1>4. /\ k \in DOMAIN defragmenters'
      /\ defragmenters'[k].first = m /\ defragmenters'[k].parts = {}
  BY <1>1 DEF Put, NewFragmentDecoder
<1>5. m.fragments \in Nat /\ m.fragments > 1
  BY <1>1, <1>2, ChannelAssumption DEF Message, IsFragment
<1>6. DecoderFilled(k)'
  <2>1. \A x \in Flying(k)' : x.index >= 1
    BY <1>1, <1>3 DEF Message
  <2>2. \E y \in Flying(k)' : y.index = 1
    BY <1>1, <1>3
  <2>3. {<<j, m.body>> : j \in 1..(1 - 1)} = {}
    OBVIOUS
  <2>4. Expects(k, 1)'
    BY <1>4, <1>5, <2>1, <2>2, <2>3 DEF Expects
  <2>5. 1 \in 1..defragmenters'[k].first.fragments
    BY <1>4, <1>5
  <2> QED
    BY <2>4, <2>5 DEF DecoderFilled
<1> QED
  BY <1>1, <1>4, <1>6, TableLInv, KeepsWaiters DEF m

LEMMA MiddleFragmentKInv ==
    ASSUME IInv, IInv', GInv, NEW k, LInv(k), DispatchTable, k = reader.msg.id,
           MiddleFragment(reader.msg)
    PROVE  LInv(k)' /\ (RInv(k) => RInv(k)')
<1> DEFINE m == reader.msg
           d == defragmenters[k]
<1>1. /\ IsFragment(m) /\ ~IsLastFragment(m) /\ k \in DOMAIN defragmenters /\ Of(k, m)
      /\ defragmenters' = [defragmenters EXCEPT ![k] = AddFragment(d, m)]
      /\ UNCHANGED <<caller, responseWaiters>>
  BY DEF MiddleFragment, Of
<1>2. /\ Expects(k, m.index) /\ SameMessage(m, d.first) /\ m.index \in 1..(d.first.fragments - 1)
      /\ d \in Decoder /\ MessageIsFirstFragmentFor(d.first, m) /\ InRange(d, m)
  BY <1>1, NextExpected
<1>3. m \in Message
  BY TableSteps
<1>4. /\ \A x \in Flying(k)' : x.index > m.index
      /\ \E y \in Flying(k)' : SameMessage(m, y) /\ y.index = m.index + 1
      /\ Flying(k)' \subseteq Message
  BY <1>1, TableLine
<1>5. /\ AddFragment(d, m).first = d.first
      /\ AddFragment(d, m).parts = {<<j, d.first.body>> : j \in 1..m.index}
  BY <1>2, <1>3, AddFragmentFills DEF Expects
<1> HIDE DEF m, d
<1>6. /\ k \in DOMAIN defragmenters'
      /\ defragmenters'[k].first = d.first
      /\ defragmenters'[k].parts = {<<j, d.first.body>> : j \in 1..m.index}
  BY <1>1, <1>5
<1>7. /\ m.index \in Nat /\ m.fragments \in Nat /\ d.first.fragments = m.fragments
      /\ m.index + 1 < m.fragments
  BY <1>1, <1>2, <1>3, ChannelAssumption DEF Message, SameMessage, IsLastFragment, IsFragment
<1>8. DecoderFilled(k)'
  <2> SUFFICES ASSUME NEW j, j = m.index + 1 PROVE DecoderFilled(k)'
    OBVIOUS
  <2>1. /\ j \in 1..d.first.fragments /\ j < d.first.fragments /\ j - 1 = m.index
    BY <1>7
  <2>2. \A x \in Flying(k)' : x.index >= j
    BY <1>4, <1>7 DEF Message
  <2>3. \E y \in Flying(k)' : y.index = j
    BY <1>4
  <2>4. Expects(k, j)'
    BY <1>6, <2>1, <2>2, <2>3 DEF Expects
  <2> QED
    BY <1>6, <2>1, <2>4 DEF DecoderFilled
<1> QED
  BY <1>1, <1>6, <1>8, TableLInv, KeepsWaiters DEF m

LEMMA LastFragmentKInv ==
    ASSUME IInv, IInv', GInv, NEW k, LInv(k), DispatchTable, k = reader.msg.id,
           LastFragment(reader.msg)
    PROVE  LInv(k)' /\ (RInv(k) => RInv(k)')
<1> DEFINE m == reader.msg
           d == AddFragment(defragmenters[k], m)
           whole == Reassemble(d)
           first == defragmenters[k].first
<1>1. IsFragment(m) /\ IsLastFragment(m) /\ k \in DOMAIN defragmenters /\ Of(k, m)
  BY DEF LastFragment, IsFragment, IsLastFragment, Of
<1>2. /\ Expects(k, m.index) /\ SameMessage(m, first) /\ m.index \in 1..(first.fragments - 1)
      /\ defragmenters[k] \in Decoder /\ Fragment(first) /\ first.id = k
      /\ MessageIsFirstFragmentFor(first, m) /\ InRange(defragmenters[k], m)
  BY <1>1, NextExpected
<1>3. m \in Message /\ UNCHANGED undecodable
  BY TableSteps
<1>4. \A x \in Flying(k)' : x.index > m.index
  BY <1>1, TableLine
<1>5. Flying(k)' \subseteq Message
  BY LineType, TableLine
<1>6. d.first = first /\ d.parts = {<<j, first.body>> : j \in 1..m.index} /\ d \in Decoder
  BY <1>2, <1>3, AddFragmentFills, AddFragmentType DEF Expects
<1>7. /\ m.index \in Nat /\ m.fragments \in Nat /\ first.fragments = m.fragments
      /\ first.fragments - 1 = m.index /\ first.body = m.body
      /\ first.conversation = m.conversation
  BY <1>1, <1>2, <1>3, ChannelAssumption DEF Message, SameMessage, IsLastFragment
<1>8. \/ first.body \in undecodable /\ whole = ZeroMessage
      \/ first.body \notin undecodable /\ whole = [first EXCEPT !.fragments = 1]
  <2> HIDE DEF d
  <2>1. Whole(d) <=> first.body \notin undecodable
    BY <1>6, <1>7 DEF Whole
  <2> QED
    BY <1>6, <2>1 DEF Reassemble
<1>9. first \in Message
  BY <1>2 DEF Decoder
<1>10. \/ /\ whole.conversation > 0 /\ caller' = SendResponse(whole) /\ Forget(whole.id)
       \/ /\ whole.conversation = 0
          /\ defragmenters' = [defragmenters EXCEPT ![k] = d]
          /\ reader' = [pc |-> "dispatcher", msg |-> whole] /\ mutex'
          /\ UNCHANGED <<responseWaiters, caller>>
  BY DEF LastFragment, Return, HandToDispatcher
<1> HIDE DEF m, d, whole, first
<1>11. CASE whole.conversation > 0 /\ caller' = SendResponse(whole) /\ Forget(whole.id)
  <2>1. whole = [first EXCEPT !.fragments = 1]
    BY <1>8, <1>11 DEF ZeroMessage
  <2>2. whole.id = k
    BY <1>2, <1>9, <2>1 DEF Message
  <2>3. RInv(k) => RInv(k)'
    BY <1>11, <2>2, DeliverRInv
  <2>4. k \notin DOMAIN defragmenters'
    BY <1>11, <2>2, ForgetType
  <2> QED
    BY <2>3, <2>4, TableLInv DEF DecoderFilled
<1>12. CASE /\ whole.conversation = 0
            /\ defragmenters' = [defragmenters EXCEPT ![k] = d]
            /\ reader' = [pc |-> "dispatcher", msg |-> whole] /\ mutex'
            /\ UNCHANGED <<responseWaiters, caller>>
  <2>1. k \in DOMAIN defragmenters' /\ defragmenters'[k] = d
    BY <1>1, <1>12
  <2>2. reader'.pc = "dispatcher" /\ reader'.msg = whole
    BY <1>12
  <2>3. \/ first.body \in undecodable
        \/ whole.id = k /\ whole.body = first.body
    BY <1>2, <1>8, <1>9 DEF Message
  <2>4. DecoderFilled(k)'
    <3> SUFFICES ASSUME NEW j, j = first.fragments PROVE DecoderFilled(k)'
      OBVIOUS
    <3>1. j \in 1..first.fragments /\ j - 1 = m.index /\ ~(j < first.fragments)
      BY <1>1, <1>7 DEF IsFragment
    <3>2. \A x \in Flying(k)' : x.index >= j
      BY <1>4, <1>5, <1>7, <3>1 DEF Message
    <3>3. Expects(k, j)'
      BY <1>3, <1>6, <1>12, <2>1, <2>2, <2>3, <3>1, <3>2 DEF Expects
    <3>4. j \in 1..defragmenters'[k].first.fragments
      BY <1>6, <2>1, <3>1
    <3> QED
      BY <3>3, <3>4 DEF DecoderFilled
  <2>5. RInv(k) => RInv(k)'
    BY <1>1, <1>7, <1>12, <2>1, <2>2, <2>3, KeepsWaiters DEF m
  <2> QED
    BY <2>4, <2>5, TableLInv
<1> QED
  BY <1>10, <1>11, <1>12

\* A fragment without a decoder is of a call of the device, or nobody waits for it.
LEMMA StrayFragmentKInv ==
    ASSUME IInv, IInv', GInv, NEW k, LInv(k), DispatchTable, k = reader.msg.id,
           StrayFragment(reader.msg)
    PROVE  LInv(k)' /\ (RInv(k) /\ k \notin fragmentedCalls => RInv(k)')
<1> DEFINE m == reader.msg
<1>1. /\ m.index # 0 /\ k \notin DOMAIN defragmenters /\ Of(k, m)
      /\ Forget(k) /\ UNCHANGED caller
  BY DEF StrayFragment, IsFragment, IsFirstFragment, Of
<1>2. m \in Message
  BY TableSteps
<1>3. /\ \A x \in Flying(k)' : x.index > m.index
      /\ \A x \in Flying(k) \ Flying(k)' : x = m
      /\ m \in Flying(k)
  BY <1>1, TableLine
<1>4. k \notin DOMAIN defragmenters'
  BY <1>1, ForgetType
<1>5. LInv(k)'
  BY <1>4, TableLInv DEF DecoderFilled
<1>6. ASSUME RInv(k), k \notin fragmentedCalls PROVE RInv(k)'
  <2> SUFFICES ASSUME NEW c \in Callers, Awaits(c, k)' PROVE FALSE
    BY NobodyWaits
  <2>1. Awaits(c, k)
    BY <1>1 DEF Awaits, Waiting
  <2>2. m.conversation = 1
    BY <1>2, <1>3, <1>6, FlyingGenuine DEF Message
  <2> HIDE DEF m
  <2>3. PICK y \in Flying(k) : y.index = 0
    BY <1>1, <1>3, <1>6, <2>1, <2>2 DEF RInv, AnswerDecoded
  <2>4. y \in Flying(k)' /\ m.index \in Nat
    BY <1>1, <1>2, <1>3, <2>3 DEF Message
  <2> QED
    BY <1>3, <2>3, <2>4
<1> QED
  BY <1>5, <1>6

LEMMA WholeReplyKInv ==
    ASSUME IInv, IInv', GInv, NEW k, LInv(k), DispatchTable, k = reader.msg.id,
           WholeReply(reader.msg)
    PROVE  LInv(k)' /\ (RInv(k) => RInv(k)')
<1>1. caller' = SendResponse(reader.msg) /\ Forget(k)
  BY DEF WholeReply
<1>2. k \notin DOMAIN defragmenters'
  <2>1. DOMAIN defragmenters' = DOMAIN defragmenters \ {k}
    BY <1>1 DEF Forget, Delete
  <2> QED
    BY <2>1
<1>3. LInv(k)'
  BY <1>2, TableLInv DEF DecoderFilled
<1>4. RInv(k) => RInv(k)'
  BY <1>1, DeliverRInv
<1> QED
  BY <1>3, <1>4

LEMMA TableKInv ==
    ASSUME IInv, IInv', GInv, NEW k, LInv(k), DispatchTable
    PROVE  LInv(k)' /\ (RInv(k) /\ k \notin fragmentedCalls => RInv(k)')
<1>1. CASE reader.msg.id # k
  BY <1>1, OtherTable
<1>2. CASE reader.msg.id = k
  <2>1. CASE RejectedLastFragment(reader.msg)
    BY <1>2, <2>1, TableSteps, LastFragmentFits DEF RejectedLastFragment
  <2> QED
    BY <1>2, <2>1, FirstFragmentKInv, MiddleFragmentKInv, LastFragmentKInv, StrayFragmentKInv,
       WholeReplyKInv DEF DispatchTable
<1> QED
  BY <1>1, <1>2

-----------------------------------------------------------------------------
(* One identifier: the device *)

\* The device sends m: the first of a message with an identifier that no
\* fragment has, or the next fragment of one.
LEMMA SentKInv ==
    ASSUME IInv, GInv, NEW k, LInv(k), NEW m \in Message, Transmit(m),
           undecodable \subseteq undecodable',
           answered' \subseteq answered \cup {m.body},
           \/ m \in outgoing
           \/ m.index = 0 /\ (Of(k, m) => \A y : Fragment(y) => y.id # k)
    PROVE  LInv(k)' /\ (RInv(k) => RInv(k)')
<1>1. UNCHANGED <<tables, mutex, reader, caller, requests>>
  BY DEF Transmit, channelVars, tables
<1>2. wire \in Seq(Message) /\ wire' = Append(wire, m) /\ outgoing \subseteq Message
  BY DEF Transmit, IInv, TypeOK, DeviceType
<1>3. \A x \in Flying(k) : Fragment(x) /\ x.id = k
  BY LineType DEF Flying, Of
<1>4. m \in outgoing /\ Of(k, m) => m \in Flying(k)
  BY DEF Flying
<1>5. Of(k, m) => m.index < m.fragments
  <2>1. CASE m \in outgoing
    BY <1>4, <2>1 DEF LInv, NoneSkipped
  <2>2. CASE m.index = 0
    BY <2>2, ChannelAssumption DEF Message
  <2> QED
    BY <2>1, <2>2
<1>6. \A x \in InLine : Of(k, x) /\ Of(k, m) => x.index < m.index
  <2>1. CASE m \in outgoing
    BY <2>1 DEF LInv, FragmentsInOrder
  <2>2. CASE Of(k, m) => \A y : Fragment(y) => y.id # k
    BY <1>3, <2>2 DEF Flying
  <2> QED
    BY <2>1, <2>2
<1>7. \A y \in outgoing : Of(k, y) /\ Of(k, m) => y = m
  <2>1. CASE m \in outgoing
    BY <2>1 DEF LInv, FragmentsInOrder
  <2>2. CASE Of(k, m) => \A y : Fragment(y) => y.id # k
    BY <1>3, <2>2 DEF Flying
  <2> QED
    BY <2>1, <2>2
<1>8. FragmentsInOrder(k) /\ NoneSkipped(k)
  BY DEF LInv
<1>9. /\ FragmentsInOrder(k)' /\ NoneSkipped(k)'
      /\ Flying(k) \subseteq Flying(k)'
      /\ \A x \in Flying(k)' \ Flying(k) : SameMessage(x, m) /\ Of(k, m) /\ x.index >= m.index
      /\ Of(k, m) => m \in Flying(k)'
  BY <1>5, <1>6, <1>7, <1>8, LineLonger
<1>10. FragmentsAgree(k)'
  <2> SUFFICES ASSUME NEW x, NEW y, Fragment(x)', Fragment(y)', x.id = k, y.id = k
               PROVE  SameMessage(x, y)
    BY DEF FragmentsAgree
  <2>1. /\ Fragment(x) \/ (SameMessage(x, m) /\ IsFragment(m))
        /\ Fragment(y) \/ (SameMessage(y, m) /\ IsFragment(m))
    BY TransmitFragments
  <2>2. CASE Fragment(x) /\ Fragment(y)
    BY <2>2 DEF LInv, FragmentsAgree
  <2>3. CASE SameMessage(x, m) /\ SameMessage(y, m)
    BY <2>3 DEF SameMessage
  <2>4. ASSUME NEW z, Fragment(z), z.id = k, m.id = k, IsFragment(m) PROVE SameMessage(z, m)
    <3>1. Of(k, m)
      BY <2>4 DEF Of
    <3>2. Fragment(m)
      BY <1>3, <1>4, <2>4, <3>1
    <3> QED
      BY <2>4, <3>2 DEF LInv, FragmentsAgree
  <2>5. CASE Fragment(x) /\ SameMessage(y, m) /\ IsFragment(m)
    <3>1. m.id = k
      BY <2>5 DEF SameMessage
    <3>2. SameMessage(x, m)
      BY <2>4, <2>5, <3>1
    <3> QED
      BY <2>5, <3>2 DEF SameMessage
  <2>6. CASE Fragment(y) /\ SameMessage(x, m) /\ IsFragment(m)
    <3>1. m.id = k
      BY <2>6 DEF SameMessage
    <3>2. SameMessage(y, m)
      BY <2>4, <2>6, <3>1
    <3> QED
      BY <2>6, <3>2 DEF SameMessage
  <2> QED
    BY <2>1, <2>2, <2>3, <2>5, <2>6
<1>11. NoPanic(k)'
  BY <1>1 DEF LInv, NoPanic
<1>12. DecoderFilled(k)'
  <2> SUFFICES ASSUME k \in DOMAIN defragmenters'
               PROVE  \E j \in 1..defragmenters'[k].first.fragments : Expects(k, j)'
    BY DEF DecoderFilled
  <2>1. UNCHANGED <<defragmenters, reader, mutex>>
    BY <1>1 DEF tables
  <2>2. PICK j \in 1..defragmenters[k].first.fragments : Expects(k, j)
    BY <2>1 DEF LInv, DecoderFilled
  <2>3. \A x \in Flying(k)' : x.index >= j
    <3> SUFFICES ASSUME NEW x \in Flying(k)', x \notin Flying(k) PROVE x.index >= j
      BY <2>2 DEF Expects
    <3>1. Of(k, m) /\ x.index >= m.index
      BY <1>9
    <3>2. Fragment(defragmenters[k].first) /\ defragmenters[k].first.id = k
      BY <2>1, GTypes DEF GInv, DecodersKeyed, Fragment, InSystem
    <3>3. m \in Flying(k)
      BY <1>4, <3>1, <3>2
    <3>4. m.index >= j
      BY <2>2, <3>3 DEF Expects
    <3>5. x.index \in Nat /\ m.index \in Nat /\ j \in Nat
      <4>1. x \in outgoing' \/ x \in InLine \cup {m}
        BY Appended DEF Flying
      <4>2. outgoing' \subseteq outgoing \cup {[m EXCEPT !.index = @ + 1]} /\ m.index \in Nat
        BY DEF Transmit, Message
      <4>3. [m EXCEPT !.index = @ + 1].index \in Nat
        BY <4>2 DEF Message
      <4>4. InLine \subseteq Message
        BY LineType
      <4> QED
        BY <1>2, <4>1, <4>2, <4>3, <4>4 DEF Message
    <3> QED
      BY <3>1, <3>4, <3>5
  <2>4. Expects(k, j)'
    BY <1>9, <2>1, <2>2, <2>3 DEF Expects
  <2> QED
    BY <2>1, <2>4
<1>13. ASSUME RInv(k) PROVE RInv(k)'
  <2>1. Registered(k)'
    BY <1>1, <1>13 DEF RInv, Registered, Awaits, Waiting, tables
  <2>2. AnswerDecoded(k)'
    <3> SUFFICES ASSUME NEW c \in Callers, NEW x \in Flying(k)', Awaits(c, k), x.conversation = 1
                 PROVE  k \in DOMAIN defragmenters \/ \E y \in Flying(k)' : y.index = 0
      BY <1>1 DEF AnswerDecoded, Awaits, Waiting, tables
    <3>1. CASE x \in Flying(k)
      BY <1>9, <1>13, <3>1 DEF RInv, AnswerDecoded
    <3>2. CASE x \notin Flying(k)
      <4>1. Of(k, m) /\ m.conversation = 1 /\ m \in Flying(k)'
        BY <1>9, <3>2 DEF SameMessage
      <4>2. CASE m \in outgoing
        BY <1>4, <1>9, <1>13, <4>1, <4>2 DEF RInv, AnswerDecoded
      <4>3. CASE m.index = 0
        BY <4>1, <4>3
      <4> QED
        BY <4>2, <4>3
    <3> QED
      BY <3>1, <3>2
  <2>3. Deposited(k)'
    <3>1. \A i \in 1..Len(wire) : i \in 1..Len(wire') /\ wire'[i] = wire[i]
      BY <1>2
    <3>2. Len(wire) + 1 \in 1..Len(wire') /\ wire'[Len(wire) + 1] = m
      BY <1>2
    <3>3. \A y \in outgoing : y \in outgoing' \/ y = m
      BY DEF Transmit
    <3>4. \A body : InFlight(body) => InFlight(body)'
      BY <1>1, <3>1, <3>2, <3>3 DEF InFlight
    <3>5. InFlight(m.body)'
      BY <3>2 DEF InFlight
    <3> SUFFICES ASSUME NEW c \in Callers, caller[c].id = k, caller[c].pc = "await", NEW body,
                        body = <<c, caller[c].n>>, body \in answered' \ undecodable',
                        ~InFlight(body)'
                 PROVE  caller[c].inbox # << >>
      BY <1>1 DEF Deposited
    <3>6. body # m.body
      BY <3>5
    <3>7. body \in answered \ undecodable
      BY <3>6
    <3> QED
      BY <1>13, <3>4, <3>7 DEF RInv, Deposited
  <2> QED
    BY <2>1, <2>2, <2>3 DEF RInv
<1> QED
  BY <1>9, <1>10, <1>11, <1>12, <1>13 DEF LInv

\* A new message of the device meets no fragment with its identifier, unless
\* that is then contested.
LEMMA DeviceKInv ==
    ASSUME IInv, GInv, GInv', NEW k, LInv(k), DeviceStep, ~Contested(k)'
    PROVE  LInv(k)' /\ (RInv(k) => RInv(k)')
<1>1. PICK m \in Message :
         /\ Transmit(m) /\ undecodable \subseteq undecodable'
         /\ fragmentedCalls \subseteq fragmentedCalls' /\ answered \subseteq answered'
         /\ answered' \subseteq answered \cup {m.body} /\ lastDeviceId' >= lastDeviceId
         /\ m.conversation = 0 => m.body[1] = Device
         /\ \/ m \in outgoing /\ UNCHANGED <<answered, fragmentedCalls, lastDeviceId>>
            \/ /\ m.index = 0 /\ m.conversation = 1 /\ m.body \notin answered
               /\ m.body \in answered' /\ [id |-> m.id, body |-> m.body] \in requests
               /\ UNCHANGED <<fragmentedCalls, lastDeviceId>>
            \/ /\ m.index = 0 /\ m.conversation = 0 /\ UNCHANGED answered
               /\ m.id > lastDeviceId /\ m.id = lastDeviceId'
               /\ IsFragment(m) => m.id \in fragmentedCalls'
  BY DeviceSteps
<1>2. UNCHANGED requests
  BY <1>1 DEF Transmit
<1>3. ~(k \in fragmentedCalls' /\ \E q \in requests : q.id = k)
  BY <1>2 DEF Contested
<1>4. ASSUME NEW y, Fragment(y), y.id = k
      PROVE  IF y.conversation = 0 THEN k \in fragmentedCalls /\ k <= lastDeviceId
             ELSE [id |-> k, body |-> y.body] \in requests /\ y.body \in answered
  BY <1>4 DEF GInv, FragmentIds
<1>5. CASE m \in outgoing
  BY <1>1, <1>5, SentKInv
<1>6. CASE /\ m.index = 0 /\ m.conversation = 1 /\ m.body \notin answered
           /\ [id |-> m.id, body |-> m.body] \in requests
  <2>1. ASSUME Of(k, m), NEW y, Fragment(y), y.id = k PROVE FALSE
    <3> DEFINE q == [id |-> k, body |-> m.body]
               r == [id |-> k, body |-> y.body]
    <3>1. q \in requests /\ q.id = k
      BY <1>6, <2>1 DEF Of
    <3>2. y.conversation # 0
      BY <1>1, <1>3, <1>4, <2>1, <3>1
    <3>3. r \in requests /\ r.id = k /\ y.body \in answered
      BY <1>4, <2>1, <3>2
    <3>4. q.body = r.body
      BY <3>1, <3>3 DEF GInv, RequestIds
    <3> QED
      BY <1>6, <3>3, <3>4
  <2> QED
    BY <1>1, <1>6, <2>1, SentKInv
<1>7. CASE /\ m.index = 0 /\ m.conversation = 0
           /\ m.id > lastDeviceId /\ m.id = lastDeviceId'
           /\ IsFragment(m) => m.id \in fragmentedCalls'
  <2>1. ASSUME Of(k, m), NEW y, Fragment(y), y.id = k PROVE FALSE
    <3>1. m.id = k /\ k \in fragmentedCalls' /\ k > lastDeviceId
      BY <1>7, <2>1 DEF Of
    <3>2. y.conversation # 0
      <4> SUFFICES ASSUME y.conversation = 0 PROVE FALSE
        OBVIOUS
      <4>1. k \in Nat /\ lastDeviceId \in Nat
        BY <3>1, GTypes DEF Message
      <4>2. k <= lastDeviceId
        BY <1>4, <2>1
      <4> QED
        BY <3>1, <4>1, <4>2
    <3>3. [id |-> k, body |-> y.body] \in requests /\ [id |-> k, body |-> y.body].id = k
      BY <1>4, <2>1, <3>2
    <3> QED
      BY <1>3, <3>1, <3>3
  <2> QED
    BY <1>1, <1>7, <2>1, SentKInv
<1> QED
  BY <1>1, <1>5, <1>6, <1>7

-----------------------------------------------------------------------------
\* One identifier, any step: it is as it should be unless it becomes contested.
LEMMA KStep ==
    ASSUME IInv, IInv', GInv, GInv', NEW k, KInv(k), [Next]_vars, ~Contested(k)'
    PROVE  KInv(k)'
<1>1. LInv(k) /\ (k \notin fragmentedCalls' => RInv(k) /\ k \notin fragmentedCalls)
  BY ContestedStays DEF KInv
<1>2. SUFFICES LInv(k)' /\ (RInv(k) /\ k \notin fragmentedCalls => RInv(k)')
  BY <1>1 DEF KInv
<1>3. CASE \E c \in Callers : Begin(c) \/ MethodCallAsync(c) \/ CallStep(c)
  BY <1>1, <1>3, CallerLInv, CallerRInv
<1>4. CASE ReaderStep
  <2>1. CASE DispatchMessage
    BY <1>1, <2>1, MessageLInv, MessageRInv
  <2>2. CASE ReaderStops \/ DispatcherReturns
    BY <1>1, <2>2, ReturnsLInv, ReturnsRInv
  <2> QED
    BY <1>1, <1>4, <2>1, <2>2, TableKInv DEF ReaderStep
<1>5. CASE DeviceStep
  BY <1>1, <1>5, DeviceKInv
<1>6. CASE ConnectionLost \/ UNCHANGED vars
  <2>1. UNCHANGED <<reader, caller, wire, outgoing, requests, answered, undecodable,
                    responseWaiters, defragmenters, mutex>>
    BY <1>6 DEF ConnectionLost, vars, channelVars, deviceVars
  <2>2. UNCHANGED <<Line, outgoing>>
    BY <2>1 DEF Line
  <2>3. UNCHANGED Flying(k) /\ FragmentsInOrder(k)' /\ NoneSkipped(k)'
    BY <1>1, <2>2, LineSame DEF LInv
  <2>4. FragmentsAgree(k)' /\ NoPanic(k)'
    BY <1>1, <2>1 DEF LInv, FragmentsAgree, NoPanic, Fragment, InSystem
  <2>5. DecoderFilled(k)'
    <3>1. DecoderFilled(k)
      BY <1>1 DEF LInv
    <3> QED
      BY <2>1, <2>3, <3>1, DecoderGoesOn
  <2>6. RInv(k) => RInv(k)'
    BY <2>1, <2>3 DEF RInv, Registered, AnswerDecoded, Deposited, Awaits, Waiting, InFlight
  <2> QED
    BY <2>3, <2>4, <2>5, <2>6 DEF LInv
<1> QED
  BY <1>3, <1>4, <1>5, <1>6 DEF Next

LEMMA FStep ==
    ASSUME IInv, IInv', FInv, [Next]_vars
    PROVE  FInv'
<1>1. GInv'
  BY GStep DEF FInv
<1>2. ASSUME NEW k, ~Contested(k)' PROVE KInv(k)'
  <2>1. KInv(k)
    BY <1>2, ContestedStays DEF FInv
  <2> QED
    BY <1>1, <1>2, <2>1, KStep DEF FInv
<1> QED
  BY <1>1, <1>2 DEF FInv

LEMMA LineInvariant == Spec => [](IInv /\ FInv)
<1>1. Init => FInv
  BY FInit
<1>2. IInv /\ IInv' /\ FInv /\ [Next]_vars => FInv'
  BY FStep
<1> QED
  BY <1>1, <1>2, Invariant, PTL DEF Spec

\* fragmentdecoder.go, "Never call this befor HasFinished is true": Extract is
\* called on an unfinished decoder, and the reader panics, only over a message
\* under whose identifier the device has sent a call in fragments and the
\* channel a request.
THEOREM ExtractsFinishedDecoders == Spec => []ExtractOnlyFinished
<1>1. FInv => ExtractOnlyFinished
  BY DEF FInv, KInv, LInv, NoPanic, ExtractOnlyFinished
<1> QED
  BY <1>1, LineInvariant, PTL

\* channel.go, Dispatch and sendResponse: a readable answer that the reader has
\* seen all of is in the channel of the caller that waits for it, whatever the
\* order in which answers and fragments came and whatever became of other
\* identifiers, unless its own is contested.
THEOREM AnswersAreDeposited == Spec => []ReplyDeposited
<1>1. FInv => ReplyDeposited
  <2> SUFFICES ASSUME FInv, NEW c \in Callers, NEW body, body = <<c, caller[c].n>>,
                      caller[c].pc = "await", body \in answered \ undecodable, ~InFlight(body),
                      ~Contested(caller[c].id)
               PROVE  caller[c].inbox # << >>
    BY DEF ReplyDeposited
  <2>1. \E q \in requests : q.id = caller[c].id
    BY DEF FInv, GInv, RequestsOfCalls
  <2>2. caller[c].id \notin fragmentedCalls
    BY <2>1 DEF Contested
  <2>3. Deposited(caller[c].id)
    BY <2>2 DEF FInv, KInv, RInv
  <2> QED
    BY <2>3 DEF Deposited
<1> QED
  BY <1>1, LineInvariant, PTL

\* channel.go, Dispatch: a FragmentDecoder is kept only while fragments of its
\* message are still to come or the user is looking at it, or when the message
\* turned out unreadable, or under a contested identifier.
THEOREM DefragmentersDoNotLeak == Spec => []NoDefragmenterLeak
<1>1. IInv /\ FInv => NoDefragmenterLeak
  <2> SUFFICES ASSUME IInv, FInv, NEW k \in DOMAIN defragmenters, ~Contested(k)
               PROVE  LET body == defragmenters[k].first.body
                      IN  InFlight(body) \/ body \in undecodable
    BY DEF NoDefragmenterLeak
  <2> DEFINE first == defragmenters[k].first
  <2>1. GInv /\ LInv(k)
    BY DEF FInv, KInv
  <2>2. first.id = k /\ Fragment(first) /\ first.fragments \in Nat
    BY <2>1, GTypes, ChannelAssumption DEF GInv, DecodersKeyed, Fragment, InSystem, Message
  <2>3. PICK j \in 1..first.fragments : Expects(k, j)
    BY <2>1 DEF LInv, DecoderFilled
  <2>4. CASE j < first.fragments
    <3>1. PICK x \in Flying(k) : x.index = j
      BY <2>3, <2>4 DEF Expects
    <3>2. Fragment(x) /\ x.id = k
      BY LineType DEF Flying, Of
    <3>3. x.body = first.body
      BY <2>1, <2>2, <3>2 DEF LInv, FragmentsAgree, SameMessage
    <3>4. \/ x \in outgoing \/ \E i \in 1..Len(wire) : wire[i] = x
          \/ reader.pc = "table" /\ reader.msg = x
      BY LineType DEF Flying
    <3> QED
      BY <3>3, <3>4 DEF InFlight
  <2>5. CASE j = first.fragments
    BY <2>3, <2>5 DEF Expects, InFlight
  <2> QED
    BY <2>2, <2>3, <2>4, <2>5
<1> QED
  BY <1>1, LineInvariant, PTL
===============================================================================
