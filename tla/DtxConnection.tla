----------------------------- MODULE DtxConnection -----------------------------
(***************************************************************************)
(* One DTX connection (ios/dtx_codec/connection.go): opening channels,     *)
(* accepting the channels the device asks for, routing what the reader     *)
(* goroutine gets, and closing.  Replies to channel requests travel on the *)
(* global channel, whose request table is module DtxChannel; here a reply  *)
(* reaches its requester if that still waits.                              *)
(*                                                                         *)
(* There are two mutexes.  RequestChannelIdentifier holds the connection's *)
(* until it returns, ForChannelRequest takes it after it has got a         *)
(* request, the reader never takes it.  The global channel's guards short  *)
(* sections of a call, and the reader keeps it while it dispatches what    *)
(* came in fragments.  A channel code is an int here, 32 bits on the wire. *)
(***************************************************************************)
EXTENDS Integers, Sequences

CONSTANTS
    Requesters,    \* goroutines that call RequestChannelIdentifier, once each
    NoOne,         \* nobody holds the mutex
    Capacity,      \* of requestChannelMessages, 5 in the code
    CodeSpace,     \* 2^32 in the code
    RequestKinds,  \* how the device asks for channels: in one piece, in fragments
    MaxRequests,   \* bound: channels the device asks for
    MaxPushes,     \* bound: other messages of the device
    MaxWire        \* bound: messages on the wire at a time

ASSUME ConnectionAssumption ==
    /\ NoOne \notin Requesters
    /\ {Capacity, MaxRequests, MaxPushes, MaxWire} \subseteq Nat
    /\ CodeSpace \in Nat \ {0}
    /\ RequestKinds \subseteq {"request", "fragmented"}

VARIABLES
    mutex,                   \* who holds dtxConn.mutex
    channelMutex,            \* the reader holds globalChannel.mutex
    channelCodeCounter,
    activeChannels,          \* the keys in the sync.Map
    requestChannelMessages,  \* how many requests are in the Go channel
    requester,               \* per requester [pc, code]
    acceptor,                \* the goroutine that calls ForChannelRequest
    reader,                  \* the reader goroutine
    closer,                  \* the goroutine that calls Close
    closed, err,             \* dtxConn.closed is closed, and dtxConn.err
    transport,               \* of the deviceConnection: up, lost, or closed by the host
    wire,                    \* messages on their way to the reader, in order
    opened,                  \* codes the device has been asked to open
    replied,                 \* those it has confirmed
    deviceRequests, pushes,  \* what the device has sent
    delivered                \* pushes the reader has routed, and where to

channels == <<channelCodeCounter, activeChannels>>
closing == <<closed, err, transport, closer>>
device == <<opened, replied, deviceRequests, pushes>>
dispatching == <<reader, channelMutex>>
vars == <<mutex, channels, requestChannelMessages, requester, acceptor, dispatching, closing, wire,
          device, delivered>>

-----------------------------------------------------------------------------
(* Codes and keys *)

\* Encode writes uint32(channelCode), readHeader makes an int of it.
OnWire(code) == code % CodeSpace

\* A key of the sync.Map is equal to another of the same Go type only.
IntKey(code) == [type |-> "int", code |-> code]
Uint32Key(code) == [type |-> "uint32", code |-> code % CodeSpace]
ChannelKey(code) == IntKey(code)

DefaultCode == -1

Push(code, late) == [kind |-> "push", code |-> code, late |-> late]
Reply(code) == [kind |-> "reply", code |-> code, late |-> FALSE]
ChannelRequest(kind) == [kind |-> kind, code |-> 0, late |-> FALSE]

Init ==
    /\ mutex = NoOne /\ channelMutex = FALSE
    /\ channelCodeCounter = 1
    /\ activeChannels = {}
    /\ requestChannelMessages = 0
    /\ requester = [c \in Requesters |-> [pc |-> "idle", code |-> 0]]
    /\ acceptor = "idle"
    /\ reader = "read"
    /\ closer = "idle"
    /\ closed = FALSE /\ err = "nil"
    /\ transport = "up"
    /\ wire = << >>
    /\ opened = {} /\ replied = {} /\ deviceRequests = 0 /\ pushes = 0
    /\ delivered = {}

-----------------------------------------------------------------------------
(* RequestChannelIdentifier *)

StuckCode(code) == code
NextCode(code) == code + 1

GoTo(c, pc) == requester' = [requester EXCEPT ![c].pc = pc]

\* The call; its first statement waits for the mutex.
RequestChannelIdentifier(c) ==
    /\ requester[c].pc = "idle"
    /\ GoTo(c, "lock")
    /\ UNCHANGED <<mutex, channels, requestChannelMessages, acceptor, dispatching, closing, wire,
                   device, delivered>>

TakeCode(c) ==
    /\ requester[c].pc = "lock"
    /\ mutex = NoOne
    /\ mutex' = c
    /\ requester' = [requester EXCEPT ![c] = [pc |-> "register", code |-> channelCodeCounter]]
    /\ channelCodeCounter' = NextCode(channelCodeCounter)
    /\ UNCHANGED <<activeChannels, requestChannelMessages, acceptor, dispatching, closing, wire,
                   device, delivered>>

\* sendAndAwaitReply: the identifier and the waiter, under the channel's mutex.
AddResponseWaiter(c) ==
    /\ requester[c].pc = "register"
    /\ ~channelMutex
    /\ GoTo(c, "send")
    /\ UNCHANGED <<mutex, channels, requestChannelMessages, acceptor, dispatching, closing, wire,
                   device, delivered>>

SendRequest(c) ==
    /\ requester[c].pc = "send"
    /\ transport = "up"
    /\ GoTo(c, "await")
    /\ opened' = opened \cup {requester[c].code}
    /\ UNCHANGED <<mutex, channels, requestChannelMessages, acceptor, dispatching, closing, wire,
                   replied, deviceRequests, pushes, delivered>>

\* deviceConnection.Send closes the socket when it cannot write.
SendFails(c) ==
    /\ requester[c].pc = "send"
    /\ transport # "up"
    /\ transport' = "closed"
    /\ GoTo(c, "remove")
    /\ UNCHANGED <<mutex, channels, requestChannelMessages, acceptor, dispatching, closed, err,
                   closer, wire, device, delivered>>

ReceiveReply(c) ==
    /\ requester[c].pc = "answered"
    /\ GoTo(c, "store")
    /\ UNCHANGED <<mutex, channels, requestChannelMessages, acceptor, dispatching, closing, wire,
                   device, delivered>>

\* ctx.Done() in the select, which may take it although a reply is there.
NoDeadline(c) == FALSE
Deadline(c) == requester[c].pc \in {"await", "answered"}

RequestTimeout(c) ==
    /\ Deadline(c)
    /\ GoTo(c, "remove")
    /\ UNCHANGED <<mutex, channels, requestChannelMessages, acceptor, dispatching, closing, wire,
                   device, delivered>>

\* The error is logged and no more.  The deadline does not end the wait for
\* the channel's mutex.
RemoveResponseWaiter(c) ==
    /\ requester[c].pc = "remove"
    /\ ~channelMutex
    /\ GoTo(c, "store")
    /\ UNCHANGED <<mutex, channels, requestChannelMessages, acceptor, dispatching, closing, wire,
                   device, delivered>>

\* The channel is stored and returned whether or not the device confirmed it.
StoreChannel(c) ==
    /\ requester[c].pc = "store"
    /\ activeChannels' = activeChannels \cup {ChannelKey(requester[c].code)}
    /\ mutex' = NoOne
    /\ GoTo(c, "returned")
    /\ UNCHANGED <<channelCodeCounter, requestChannelMessages, acceptor, dispatching, closing, wire,
                   device, delivered>>

RequesterStep(c) ==
    \/ TakeCode(c) \/ AddResponseWaiter(c) \/ SendRequest(c) \/ SendFails(c)
    \/ ReceiveReply(c) \/ RequestTimeout(c) \/ RemoveResponseWaiter(c) \/ StoreChannel(c)

-----------------------------------------------------------------------------
(* ForChannelRequest and AddDefaultChannelReceiver *)

ForChannelRequest ==
    /\ acceptor = "idle"
    /\ requestChannelMessages > 0
    /\ requestChannelMessages' = requestChannelMessages - 1
    /\ acceptor' = "lock"
    /\ UNCHANGED <<mutex, channels, requester, dispatching, closing, wire, device, delivered>>

\* The mutex is released by the step that takes it: nothing waits in between.
AcceptChannel ==
    /\ acceptor = "lock"
    /\ mutex = NoOne
    /\ activeChannels' = activeChannels \cup {IntKey(DefaultCode)}
    /\ acceptor' = "idle"
    /\ UNCHANGED <<mutex, channelCodeCounter, requestChannelMessages, requester, dispatching, closing,
                   wire, device, delivered>>

\* The reader looks codes up as int and does not find this channel.
AddDefaultChannelReceiver ==
    /\ activeChannels' = activeChannels \cup {Uint32Key(DefaultCode)}
    /\ UNCHANGED <<mutex, channelCodeCounter, requestChannelMessages, requester, acceptor, dispatching,
                   closing, wire, device, delivered>>

-----------------------------------------------------------------------------
(* The reader *)

\* channel.Dispatch or globalChannel.Dispatch.
Route(m) ==
    LET to == IF IntKey(m.code) \in activeChannels THEN "channel" ELSE "global"
    IN  delivered' = delivered \cup {[code |-> m.code, late |-> m.late, to |-> to]}

DispatchPush ==
    /\ reader = "read"
    /\ wire # << >> /\ Head(wire).kind = "push"
    /\ Route(Head(wire))
    /\ wire' = Tail(wire)
    /\ UNCHANGED <<mutex, channels, requestChannelMessages, requester, acceptor, dispatching,
                   closing, device>>

\* A reply that comes after the timeout has no waiter and is dropped, or one
\* that has given up.
DispatchReply ==
    /\ reader = "read"
    /\ wire # << >> /\ Head(wire).kind = "reply"
    /\ requester' = [c \in Requesters |->
          IF requester[c] = [pc |-> "await", code |-> Head(wire).code]
          THEN [requester[c] EXCEPT !.pc = "answered"] ELSE requester[c]]
    /\ wire' = Tail(wire)
    /\ UNCHANGED <<mutex, channels, requestChannelMessages, acceptor, dispatching, closing, device,
                   delivered>>

\* Seeded fault: one more than the buffer holds.
OneTooMany(n) == n <= Capacity
HasRoom(n) == n < Capacity

\* GlobalDispatcher.Dispatch sends on requestChannelMessages, and blocks there.
\* Channel.Dispatch has released its mutex, but not for reassembled fragments.
DispatchRequest ==
    /\ reader = "read"
    /\ wire # << >> /\ Head(wire).kind \in {"request", "fragmented"}
    /\ reader' = "send"
    /\ channelMutex' = (Head(wire).kind = "fragmented")
    /\ wire' = Tail(wire)
    /\ UNCHANGED <<mutex, channels, requestChannelMessages, requester, acceptor, closing, device,
                   delivered>>

SendToAcceptor ==
    /\ reader = "send"
    /\ HasRoom(requestChannelMessages)
    /\ requestChannelMessages' = requestChannelMessages + 1
    /\ reader' = "read" /\ channelMutex' = FALSE
    /\ UNCHANGED <<mutex, channels, requester, acceptor, closing, wire, device, delivered>>

\* closeOnce: only the first error is kept.
EveryClose(e) == err' = e /\ closed' = TRUE
CloseOnce(e) == IF closed THEN UNCHANGED <<closed, err>> ELSE err' = e /\ closed' = TRUE

\* ReadMessage fails; messages bufio holds may be read before that or not.
ReaderStops ==
    /\ reader = "read"
    /\ transport = "closed" \/ (transport = "lost" /\ wire = << >>)
    /\ CloseOnce("read")
    /\ reader' = "stopped"
    /\ UNCHANGED <<mutex, channelMutex, channels, requestChannelMessages, requester, acceptor,
                   transport, closer, wire, device, delivered>>

-----------------------------------------------------------------------------
(* Close: the transport first, then closed and err, whatever the reader    *)
(* has put there meanwhile.  deviceConnection.Close returns nil, or an     *)
(* error if a failed write has closed the socket before.                   *)

CloseTransport ==
    /\ closer = "idle"
    /\ transport' = "closed"
    /\ closer' = IF transport = "closed" THEN "failed" ELSE "closed"
    /\ UNCHANGED <<mutex, channels, requestChannelMessages, requester, acceptor, dispatching, closed,
                   err, wire, device, delivered>>

CloseReturns ==
    /\ closer \in {"closed", "failed"}
    /\ CloseOnce(IF closer = "failed" THEN "closed" ELSE "nil")
    /\ closer' = "done"
    /\ UNCHANGED <<mutex, channels, requestChannelMessages, requester, acceptor, dispatching, transport,
                   wire, device, delivered>>

-----------------------------------------------------------------------------
(* The device and the transport *)

Transmit(m) ==
    /\ transport = "up"
    /\ Len(wire) < MaxWire
    /\ wire' = Append(wire, m)
    /\ UNCHANGED <<mutex, channels, requestChannelMessages, requester, acceptor, dispatching, closing,
                   opened, delivered>>

DeviceReplies(code) ==
    /\ code \in opened \ replied
    /\ replied' = replied \cup {code}
    /\ Transmit(Reply(code))
    /\ UNCHANGED <<deviceRequests, pushes>>

Returned(code) == \E c \in Requesters : requester[c] = [pc |-> "returned", code |-> code]

\* Messages on a channel follow its confirmation; the default channel is
\* always there.  late: RequestChannelIdentifier had returned the channel.
DevicePushes(code) ==
    /\ code \in replied \cup {DefaultCode}
    /\ pushes < MaxPushes
    /\ pushes' = pushes + 1
    /\ Transmit(Push(OnWire(code), Returned(code)))
    /\ UNCHANGED <<replied, deviceRequests>>

DeviceRequestsChannel(kind) ==
    /\ deviceRequests < MaxRequests
    /\ deviceRequests' = deviceRequests + 1
    /\ Transmit(ChannelRequest(kind))
    /\ UNCHANGED <<replied, pushes>>

ConnectionLost ==
    /\ transport = "up"
    /\ transport' = "lost"
    /\ UNCHANGED <<mutex, channels, requestChannelMessages, requester, acceptor, dispatching, closed,
                   err, closer, wire, device, delivered>>

-----------------------------------------------------------------------------
ReaderStep ==
    DispatchPush \/ DispatchReply \/ DispatchRequest \/ SendToAcceptor \/ ReaderStops

Next ==
    \/ \E c \in Requesters : RequestChannelIdentifier(c) \/ RequesterStep(c)
    \/ ForChannelRequest \/ AcceptChannel \/ AddDefaultChannelReceiver
    \/ ReaderStep
    \/ CloseTransport \/ CloseReturns
    \/ \E code \in opened \cup {DefaultCode} : DeviceReplies(code) \/ DevicePushes(code)
    \/ \E kind \in RequestKinds : DeviceRequestsChannel(kind)
    \/ ConnectionLost

Spec == Init /\ [][Next]_vars

\* Goroutines that can run do, deadlines pass, and a sync.Mutex starves nobody.
\* Nobody has to call RequestChannelIdentifier or ForChannelRequest.
Fairness ==
    /\ WF_vars(ReaderStep) /\ WF_vars(CloseReturns) /\ SF_vars(AcceptChannel)
    /\ \A c \in Requesters : SF_vars(RequesterStep(c))

FairSpec == Spec /\ Fairness

-----------------------------------------------------------------------------
(* Properties *)

Code == Int
Message == [kind : {"push", "reply", "request", "fragmented"}, code : Code, late : BOOLEAN]
RequesterPcs ==
    {"idle", "lock", "register", "send", "await", "answered", "remove", "store", "returned"}

\* The state has its type.
TypeOK ==
    /\ mutex \in Requesters \cup {NoOne}
    /\ channelCodeCounter \in Nat \ {0}
    /\ activeChannels \subseteq [type : {"int", "uint32"}, code : Code]
    /\ requestChannelMessages \in 0..Capacity
    /\ requester \in [Requesters -> [pc : RequesterPcs, code : Nat]]
    /\ acceptor \in {"idle", "lock"}
    /\ reader \in {"read", "send", "stopped"}
    /\ channelMutex \in BOOLEAN /\ (channelMutex => reader = "send")
    /\ closer \in {"idle", "closed", "failed", "done"}
    /\ closed \in BOOLEAN /\ err \in {"nil", "read", "closed"}
    /\ transport \in {"up", "lost", "closed"}
    /\ wire \in Seq(Message)
    /\ opened \subseteq Nat /\ replied \subseteq opened
    /\ deviceRequests \in Nat /\ pushes \in Nat
    /\ delivered \subseteq [code : Code, late : BOOLEAN, to : {"channel", "global"}]

HasCode(c) == requester[c].pc \notin {"idle", "lock"}

\* connection.go, RequestChannelIdentifier: every call gets a channel of its
\* own, with a code nobody else has and never the global channel's code 0, and
\* one call at a time is between taking a code and storing the channel.
ChannelsDistinct ==
    \A c, d \in Requesters :
        /\ HasCode(c) => requester[c].code \in 1..(channelCodeCounter - 1)
        /\ HasCode(c) /\ HasCode(d) /\ c # d => requester[c].code # requester[d].code
        /\ HasCode(c) /\ requester[c].pc # "returned" => mutex = c

\* connection.go, reader: what the device sends on a channel after
\* RequestChannelIdentifier has returned it is dispatched to that channel.
ReturnedChannelReceives == \A m \in delivered : m.late => m.to = "channel"

\* connection.go, close: Close and the failing reader race, and whoever comes
\* second changes nothing and does not close the Go channel again.  The first
\* outcome is kept, also when it is the nil of Close, for which connection.go:67
\* promises ErrConnectionClosed.
ClosedOnce == [][closed => UNCHANGED <<closed, err>>]_vars

\* The reader is in the dispatch of a fragmented channel request, with the
\* global channel's mutex, and there is no room for the request.
ReaderBlocked == reader = "send" /\ channelMutex

\* RequestChannelIdentifier returns, from the moment it is called: although
\* others hold the mutex of the connection, the device may not answer and the
\* reader may wait for room in requestChannelMessages.  One thing keeps it: a
\* reader that waits there for ever with the mutex of the global channel, although
\* it must never block (channel.go:40-42).
RequestsReturn ==
    \A c \in Requesters :
        (requester[c].pc # "idle") ~> (requester[c].pc = "returned" \/ []ReaderBlocked)

\* ForChannelRequest returns once it has got a request.  It waits for the mutex
\* of a RequestChannelIdentifier that waits for a reply, which the reader cannot
\* bring while it waits for room in requestChannelMessages, that only
\* ForChannelRequest makes: the five seconds of the request end the wait, with
\* the same exception.
AcceptReturns == (acceptor = "lock") ~> (acceptor = "idle" \/ []ReaderBlocked)
===============================================================================
