------------------------------ MODULE DtxChannel ------------------------------
(***************************************************************************)
(* The request table of one channel of a DTX connection                    *)
(* (ios/dtx_codec/channel.go, fragmentdecoder.go) and the goroutines that  *)
(* share it: callers inside MethodCall and MethodCallAsync, and the        *)
(* connection's single reader goroutine, which runs Dispatch.  d.mutex is  *)
(* held for one step at a time, except where the reader calls the message  *)
(* dispatcher with the mutex held.  The channel has no registered methods  *)
(* (module DtxEvents has), as every channel that RequestChannelIdentifier  *)
(* returns.                                                                *)
(*                                                                         *)
(* The device is the environment: it answers requests in any order, late   *)
(* or never, whole or in fragments, sends the fragments of several         *)
(* messages interleaved, and issues calls of its own.                      *)
(***************************************************************************)
EXTENDS Integers, Sequences

CONSTANTS
    Callers,            \* goroutines that call methods on the channel
    Device,             \* the origin of the device's own calls
    Failed,             \* the outcome of a call that ended with an error
    NoMessage,          \* the reader holds no message
    FirstIdentifier,    \* messageIdentifier of a new channel
    Decodable,          \* {TRUE}, or BOOLEAN when a payload may be unreadable
    CallIdentifiers,    \* identifiers of the device's unfragmented calls
    FragmentedCallIds,  \* identifiers of the device's fragmented calls
    MaxFragments,       \* bound: fragments of a message
    MaxCalls,           \* bound: calls of one caller
    MaxIdentifier,      \* bound: messageIdentifier
    MaxWire             \* bound: messages on the wire at a time

ASSUME ChannelAssumption ==
    /\ {FirstIdentifier, MaxFragments} \subseteq Nat \ {0}
    /\ {MaxCalls, MaxIdentifier, MaxWire} \subseteq Nat
    /\ CallIdentifiers \cup FragmentedCallIds \subseteq Nat \ {0}
    /\ Decodable \subseteq BOOLEAN
    /\ Device \notin Callers
    /\ Failed \notin (Callers \cup {Device}) \X Nat

VARIABLES
    messageIdentifier,  \* the next identifier
    responseWaiters,    \* identifier -> the caller whose buffered channel waits there
    defragmenters,      \* identifier -> FragmentDecoder
    mutex,              \* TRUE while the reader holds d.mutex across a dispatcher call
    reader,             \* the reader goroutine: [pc, msg]
    caller,             \* per caller [pc, id: its identifier, inbox: its responseChannel,
                        \*   n: calls started, outcome: how the last one ended]
    connected,          \* the transport is up
    wire,               \* messages on their way to the reader, in order
    requests,           \* requests the device has got: [id, body]
    outgoing,           \* next fragments of the messages the device is in the middle of
    lastDeviceId,       \* the identifier of the device's latest call
    fragmentedCalls,    \* the identifiers of its calls so far that are in fragments
    answered,           \* bodies of the requests the device has answered
    undecodable         \* bodies the payload decoder cannot read

channelVars == <<messageIdentifier, responseWaiters, defragmenters, mutex>>
tables == <<responseWaiters, defragmenters>>
deviceVars == <<requests, outgoing, lastDeviceId, fragmentedCalls, answered, undecodable>>
vars == <<channelVars, reader, caller, connected, wire, deviceVars>>

-----------------------------------------------------------------------------
(* Messages: a body names the call a message belongs to. *)

Body == (Callers \cup {Device}) \X Nat
Message == [id : Nat, conversation : {0, 1}, fragments : 1..MaxFragments,
            index : Nat, body : Body]

IsFragment(m) == m.fragments > 1
IsFirstFragment(m) == m.fragments > 1 /\ m.index = 0
IsLastFragment(m) == m.fragments > 1 /\ m.fragments - m.index = 1

\* What DecodeNonBlocking returns beside an error: the zero Message.
ZeroMessage ==
    [id |-> 0, conversation |-> 0, fragments |-> 1, index |-> 0, body |-> <<Device, 0>>]

(* FragmentDecoder: the first fragment and the <<index, body>> got since. *)

NewFragmentDecoder(m) == [first |-> m, parts |-> {}, finished |-> FALSE]

MessageIsFirstFragmentFor(first, m) ==
    first.id = m.id /\ first.fragments = m.fragments /\ m.index > 0

InRangeShort(d, m) == m.index < d.first.fragments - 1
InRange(d, m) == m.index < d.first.fragments

AddFragment(d, m) ==
    IF MessageIsFirstFragmentFor(d.first, m) /\ InRange(d, m)
    THEN [d EXCEPT !.parts = {p \in @ : p[1] # m.index} \cup {<<m.index, m.body>>},
                   !.finished = @ \/ IsLastFragment(m)]
    ELSE d

Whole(d) ==
    /\ d.parts = {<<i, d.first.body>> : i \in 1..(d.first.fragments - 1)}
    /\ d.first.body \notin undecodable

\* Extract, then DecodeNonBlocking: missing parts, parts of two messages and
\* an unknown archive do not decode.
SwappedPatch(d) ==
    IF Whole(d) THEN [d.first EXCEPT !.fragments = 0, !.index = 1] ELSE ZeroMessage
Reassemble(d) ==
    IF Whole(d) THEN [d.first EXCEPT !.fragments = 1] ELSE ZeroMessage

(* Insert into and delete from a Go map. *)

Put(f, id, v) == [x \in DOMAIN f \cup {id} |-> IF x = id THEN v ELSE f[x]]
Delete(f, id) == [x \in DOMAIN f \ {id} |-> f[x]]

-----------------------------------------------------------------------------
Init ==
    /\ messageIdentifier = FirstIdentifier
    /\ responseWaiters = << >>
    /\ defragmenters = << >>
    /\ mutex = FALSE
    /\ reader = [pc |-> "read", msg |-> NoMessage]
    /\ caller = [c \in Callers |-> [pc |-> "idle", id |-> 0, inbox |-> << >>, n |-> 0,
                                    outcome |-> Failed]]
    /\ connected = TRUE
    /\ wire = << >>
    /\ requests = {} /\ outgoing = {} /\ lastDeviceId = 0
    /\ fragmentedCalls = {} /\ answered = {} /\ undecodable = {}

\* A panic in any goroutine ends the process.
Running == reader.pc # "panicked"

-----------------------------------------------------------------------------
(* Callers.  MethodCall, MethodCallWithContext, MethodCallWithAuxiliary    *)
(* and RequestChannelIdentifier end in sendAndAwaitReply.                  *)

StuckIdentifier(i) == i
NextIdentifier(i) == i + 1

AllocateIdentifier ==
    /\ Running
    /\ ~mutex
    /\ messageIdentifier < MaxIdentifier
    /\ messageIdentifier' = NextIdentifier(messageIdentifier)

\* The caller's next program counter, and nothing else outside its own state.
Goto(c, from, to) ==
    /\ Running
    /\ caller[c].pc = from
    /\ caller' = [caller EXCEPT ![c].pc = to]

Begin(c) ==
    /\ AllocateIdentifier
    /\ caller[c].pc = "idle"
    /\ caller[c].n < MaxCalls
    /\ caller' = [caller EXCEPT ![c].pc = "encode", ![c].id = messageIdentifier, ![c].n = @ + 1]
    /\ UNCHANGED <<tables, mutex, reader, connected, wire, deviceVars>>

\* Channel.Send: takes an identifier and looks for no answer.
MethodCallAsync(c) ==
    /\ AllocateIdentifier
    /\ caller[c].pc = "idle"
    /\ UNCHANGED <<tables, mutex, reader, caller, connected, wire, deviceVars>>

EncodeFails(c) ==
    /\ Running
    /\ caller[c].pc = "encode"
    /\ caller' = [caller EXCEPT ![c].pc = "idle", ![c].outcome = Failed]
    /\ UNCHANGED <<channelVars, reader, connected, wire, deviceVars>>

AddResponseWaiter(c) ==
    /\ Running
    /\ ~mutex
    /\ caller[c].pc = "encode"
    /\ responseWaiters' = Put(responseWaiters, caller[c].id, c)
    /\ caller' = [caller EXCEPT ![c].pc = "send", ![c].inbox = << >>]
    /\ UNCHANGED <<messageIdentifier, defragmenters, mutex, reader, connected, wire, deviceVars>>

SendRequest(c) ==
    /\ connected
    /\ Goto(c, "send", "await")
    /\ requests' = requests \cup {[id |-> caller[c].id, body |-> <<c, caller[c].n>>]}
    /\ UNCHANGED <<channelVars, reader, connected, wire, outgoing, lastDeviceId,
                   fragmentedCalls, answered, undecodable>>

SendFails(c) ==
    /\ ~connected
    /\ Goto(c, "send", "remove")
    /\ UNCHANGED <<channelVars, reader, connected, wire, deviceVars>>

ReceiveReply(c) ==
    /\ Running
    /\ caller[c].pc = "await"
    /\ caller[c].inbox # << >>
    /\ caller' = [caller EXCEPT ![c].pc = "idle", ![c].outcome = Head(caller[c].inbox),
                                ![c].inbox = Tail(@)]
    /\ UNCHANGED <<channelVars, reader, connected, wire, deviceVars>>

\* ctx.Done(): possible when a reply is ready too, select picks either case.
NoDeadline(c) == FALSE
Deadline(c) == caller[c].pc = "await"

Timeout(c) ==
    /\ Deadline(c)
    /\ Goto(c, "await", "remove")
    /\ UNCHANGED <<channelVars, reader, connected, wire, deviceVars>>

\* Seeded faults: a waiter, or a defragmenter, is left behind.
ForgetDefragmenter(id) ==
    responseWaiters' = responseWaiters /\ defragmenters' = Delete(defragmenters, id)
ForgetWaiter(id) ==
    responseWaiters' = Delete(responseWaiters, id) /\ defragmenters' = defragmenters

Forget(id) ==
    responseWaiters' = Delete(responseWaiters, id) /\ defragmenters' = Delete(defragmenters, id)

RemoveResponseWaiter(c) ==
    /\ Running
    /\ ~mutex
    /\ caller[c].pc = "remove"
    /\ Forget(caller[c].id)
    /\ caller' = [caller EXCEPT ![c].pc = "idle", ![c].outcome = Failed]
    /\ UNCHANGED <<messageIdentifier, mutex, reader, connected, wire, deviceVars>>

-----------------------------------------------------------------------------
(* The reader goroutine: ReadMessage, then Channel.Dispatch. *)

\* It ends at the end of the stream and at a payload it cannot decode.
ReaderStops ==
    /\ reader.pc = "read"
    /\ \/ ~connected /\ wire = << >>
       \/ wire # << >> /\ ~IsFragment(Head(wire)) /\ Head(wire).body \in undecodable
    /\ reader' = [reader EXCEPT !.pc = "stopped"]
    /\ UNCHANGED <<channelVars, caller, connected, wire, deviceVars>>

\* The first critical section of Dispatch and what it decides.
DispatchMessage ==
    /\ reader.pc = "read"
    /\ wire # << >>
    /\ LET m == Head(wire) IN
       /\ IsFragment(m) \/ m.body \notin undecodable
       /\ wire' = Tail(wire)
       /\ messageIdentifier' = IF m.id >= messageIdentifier THEN NextIdentifier(m.id)
                                                            ELSE messageIdentifier
       /\ reader' = [msg |-> m, pc |-> IF m.conversation > 0 \/ IsFragment(m)
                                       THEN "table" ELSE "dispatcher"]
    /\ UNCHANGED <<tables, mutex, caller, connected, deviceVars>>

\* The message dispatcher gets m; the reader is back when it returns.
HandToDispatcher(m, locked) ==
    reader' = [pc |-> "dispatcher", msg |-> m] /\ mutex' = locked

Return == reader' = [pc |-> "read", msg |-> NoMessage] /\ UNCHANGED mutex

\* sendResponse: without a waiter, or with a full channel, the message is dropped.
DropResponse(m) == caller
SendResponse(m) ==
    IF m.id \in DOMAIN responseWaiters /\ caller[responseWaiters[m.id]].inbox = << >>
    THEN [caller EXCEPT ![responseWaiters[m.id]].inbox = <<m.body>>]
    ELSE caller

FirstFragment(m) ==
    /\ IsFirstFragment(m)
    /\ defragmenters' = Put(defragmenters, m.id, NewFragmentDecoder(m))
    /\ Return
    /\ UNCHANGED <<responseWaiters, caller>>

MiddleFragment(m) ==
    /\ IsFragment(m) /\ ~IsFirstFragment(m) /\ ~IsLastFragment(m)
    /\ m.id \in DOMAIN defragmenters
    /\ defragmenters' = [defragmenters EXCEPT ![m.id] = AddFragment(@, m)]
    /\ Return
    /\ UNCHANGED <<responseWaiters, caller>>

\* Extract panics when AddFragment has rejected the last fragment.
RejectedLastFragment(m) ==
    /\ IsLastFragment(m)
    /\ m.id \in DOMAIN defragmenters
    /\ ~AddFragment(defragmenters[m.id], m).finished
    /\ reader' = [reader EXCEPT !.pc = "panicked"]
    /\ UNCHANGED <<tables, mutex, caller>>

LastFragment(m) ==
    /\ IsLastFragment(m)
    /\ m.id \in DOMAIN defragmenters
    /\ LET d == AddFragment(defragmenters[m.id], m)
           whole == Reassemble(d)
       IN  /\ d.finished
           /\ \/ /\ whole.conversation > 0
                 /\ caller' = SendResponse(whole)
                 /\ Forget(whole.id)
                 /\ Return
              \/ /\ whole.conversation = 0
                 /\ defragmenters' = [defragmenters EXCEPT ![m.id] = d]
                 /\ HandToDispatcher(whole, TRUE)
                 /\ UNCHANGED <<responseWaiters, caller>>

StrayFragment(m) ==
    /\ IsFragment(m) /\ ~IsFirstFragment(m)
    /\ m.id \notin DOMAIN defragmenters
    /\ Forget(m.id)
    /\ Return
    /\ UNCHANGED caller

WholeReply(m) ==
    /\ ~IsFragment(m)
    /\ caller' = SendResponse(m)
    /\ Forget(m.id)
    /\ Return

\* The second critical section of Dispatch.
DispatchTable ==
    /\ reader.pc = "table"
    /\ LET m == reader.msg IN
       \/ FirstFragment(m) \/ MiddleFragment(m) \/ RejectedLastFragment(m)
       \/ LastFragment(m) \/ StrayFragment(m) \/ WholeReply(m)
    /\ UNCHANGED <<messageIdentifier, connected, wire, deviceVars>>

\* messageDispatcher.Dispatch returns; after a reassembled call the deletes
\* follow and the mutex is released.
DispatcherReturns ==
    /\ reader.pc = "dispatcher"
    /\ IF mutex THEN Forget(reader.msg.id) ELSE UNCHANGED tables
    /\ mutex' = FALSE
    /\ reader' = [pc |-> "read", msg |-> NoMessage]
    /\ UNCHANGED <<messageIdentifier, caller, connected, wire, deviceVars>>

-----------------------------------------------------------------------------
(* The device: it answers a request at most once, its own calls have       *)
(* increasing identifiers, and it sends a message's fragments in order.    *)

Transmit(m) ==
    /\ Running
    /\ connected
    /\ Len(wire) < MaxWire
    /\ wire' = Append(wire, m)
    /\ outgoing' = IF IsFragment(m) /\ ~IsLastFragment(m)
                   THEN (outgoing \ {m}) \cup {[m EXCEPT !.index = @ + 1]}
                   ELSE outgoing \ {m}
    /\ UNCHANGED <<channelVars, reader, caller, connected, requests>>

Payload(body, readable) ==
    undecodable' = IF readable THEN undecodable ELSE undecodable \cup {body}

DeviceAnswers(q, n, readable) ==
    /\ q.body \notin answered
    /\ answered' = answered \cup {q.body}
    /\ Payload(q.body, readable)
    /\ Transmit([id |-> q.id, conversation |-> 1, fragments |-> n, index |-> 0,
                 body |-> q.body])
    /\ UNCHANGED <<lastDeviceId, fragmentedCalls>>

DeviceCalls(i, n, readable) ==
    /\ i > lastDeviceId
    /\ i \in IF n = 1 THEN CallIdentifiers ELSE FragmentedCallIds
    /\ lastDeviceId' = i
    /\ fragmentedCalls' = fragmentedCalls \cup IF n = 1 THEN {} ELSE {i}
    /\ Payload(<<Device, i>>, readable)
    /\ Transmit([id |-> i, conversation |-> 0, fragments |-> n, index |-> 0,
                 body |-> <<Device, i>>])
    /\ UNCHANGED answered

DeviceContinues(m) ==
    Transmit(m) /\ UNCHANGED <<lastDeviceId, fragmentedCalls, answered, undecodable>>

ConnectionLost ==
    /\ Running
    /\ connected
    /\ connected' = FALSE
    /\ UNCHANGED <<channelVars, reader, caller, wire, deviceVars>>

-----------------------------------------------------------------------------
CallStep(c) ==
    \/ EncodeFails(c) \/ AddResponseWaiter(c) \/ SendRequest(c) \/ SendFails(c)
    \/ ReceiveReply(c) \/ Timeout(c) \/ RemoveResponseWaiter(c)

ReaderStep == ReaderStops \/ DispatchMessage \/ DispatchTable \/ DispatcherReturns

DeviceStep ==
    \/ \E n \in 1..MaxFragments, readable \in Decodable :
          \/ \E q \in requests : DeviceAnswers(q, n, readable)
          \/ \E i \in CallIdentifiers \cup FragmentedCallIds : DeviceCalls(i, n, readable)
    \/ \E m \in outgoing : DeviceContinues(m)

Next ==
    \/ \E c \in Callers : Begin(c) \/ MethodCallAsync(c) \/ CallStep(c)
    \/ ReaderStep
    \/ DeviceStep
    \/ ConnectionLost

Spec == Init /\ [][Next]_vars

\* The Go scheduler runs every goroutine that can run, a context's deadline
\* passes, and the user's message dispatcher returns.
Fairness == WF_vars(ReaderStep) /\ \A c \in Callers : WF_vars(CallStep(c))

FairSpec == Spec /\ Fairness

-----------------------------------------------------------------------------
(* Properties *)

Decoder == [first : Message, parts : SUBSET (Nat \X Body), finished : BOOLEAN]
CallerPC == {"idle", "encode", "send", "await", "remove"}
ReaderPC == {"read", "table", "dispatcher", "stopped", "panicked"}

Caller == [pc : CallerPC, id : Nat, inbox : Seq(Body), n : Nat, outcome : Body \cup {Failed}]

TablesType ==
    /\ messageIdentifier \in Nat \ {0}
    /\ DOMAIN responseWaiters \subseteq Nat
    /\ \A i \in DOMAIN responseWaiters : responseWaiters[i] \in Callers
    /\ DOMAIN defragmenters \subseteq Nat
    /\ \A i \in DOMAIN defragmenters : defragmenters[i] \in Decoder

ReaderType ==
    /\ mutex \in BOOLEAN
    /\ reader \in [pc : ReaderPC, msg : Message \cup {NoMessage}]
    /\ reader.pc \in {"table", "dispatcher"} => reader.msg \in Message

CallersType ==
    /\ caller \in [Callers -> Caller]
    /\ \A c \in Callers : Len(caller[c].inbox) <= 1

DeviceType ==
    /\ connected \in BOOLEAN
    /\ wire \in Seq(Message)
    /\ requests \subseteq [id : Nat, body : Body]
    /\ outgoing \subseteq Message
    /\ lastDeviceId \in Nat
    /\ fragmentedCalls \subseteq FragmentedCallIds
    /\ answered \subseteq Body
    /\ undecodable \subseteq Body

\* The state has its type; a response channel holds at most one message.
TypeOK == TablesType /\ ReaderType /\ CallersType /\ DeviceType

InCall(c) == caller[c].pc # "idle"

\* channel.go, sendAndAwaitReply: a caller is handed the answer to its own
\* request, never to another caller's or an earlier one, however late answers
\* come and wherever the device's own calls push the counter.
OwnReply ==
    \A c \in Callers :
        /\ caller[c].pc = "await" =>
              caller[c].inbox = << >> \/ caller[c].inbox = << <<c, caller[c].n>> >>
        /\ caller[c].outcome # Failed => caller[c].outcome[1] = c

\* channel.go, "Deregister so the abandoned waiter does not leak in
\* responseWaiters": a registered waiter belongs to a caller still in that call.
NoWaiterLeak ==
    \A i \in DOMAIN responseWaiters :
        /\ caller[responseWaiters[i]].id = i
        /\ caller[responseWaiters[i]].pc \in {"send", "await", "remove"}

\* Parts of a message that have not been through Dispatch yet.
InFlight(body) ==
    \/ \E i \in 1..Len(wire) : wire[i].body = body
    \/ \E m \in outgoing : m.body = body
    \/ reader.pc \in {"table", "dispatcher", "panicked"} /\ reader.msg.body = body

\* The device has sent a call in fragments with the identifier of a request:
\* Dispatch finds the decoder and the waiter of both under one key.
Contested(i) == i \in fragmentedCalls /\ \E q \in requests : q.id = i

\* channel.go, Dispatch and sendResponse: a readable answer that the reader
\* has seen all of is in the channel of the caller that waits for it, unless
\* its own identifier is contested; what happens to others does it no harm.
ReplyDeposited ==
    \A c \in Callers :
        LET body == <<c, caller[c].n>> IN
        caller[c].pc = "await" /\ body \in answered \ undecodable /\ ~InFlight(body)
            => caller[c].inbox # << >> \/ Contested(caller[c].id)

\* channel.go, Dispatch: a FragmentDecoder is kept only while fragments of
\* its message are still to come, or when the message turned out unreadable,
\* or under a contested identifier.
NoDefragmenterLeak ==
    \A i \in DOMAIN defragmenters :
        LET body == defragmenters[i].first.body
        IN  InFlight(body) \/ body \in undecodable \/ Contested(i)

\* fragmentdecoder.go, "Never call this befor HasFinished is true": Extract
\* is called on a decoder that has not finished, and the reader panics, only
\* over a message with a contested identifier.
ExtractOnlyFinished == reader.pc = "panicked" => Contested(reader.msg.id)

\* The same comment, of every device.
NeverPanics == Running

\* Every call ends, with an answer or at its deadline, unless the process does.
CallsEnd == \A c \in Callers : InCall(c) ~> ~InCall(c) \/ ~Running

\* The channel implements remote calls: the calls open are those of callers
\* inside sendAndAwaitReply.
Remote == INSTANCE RemoteCall WITH
    calls <- [c \in Callers |-> caller[c].n],
    open <- [c \in Callers |-> InCall(c)],
    outcome <- [c \in Callers |-> caller[c].outcome]
ImplementsRemoteCall == Remote!Spec
===============================================================================
