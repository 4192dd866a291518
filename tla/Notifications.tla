----------------------------- MODULE Notifications -----------------------------
(***************************************************************************)
(* Watching app-state notifications and killing apps over one DTX          *)
(* connection (ios/instruments/instruments_notifications.go ListenAndKill, *)
(* and runKillWatch in cmd_device_apps_kill.go).  Three goroutines share   *)
(* the connection: its reader, which hands every push to messageChannel    *)
(* and blocks when that is full; the watcher, which receives pushes and    *)
(* waits for the reader while it kills an app; and the signal handler that *)
(* closes.  A method call is one request and one reply here (DtxChannel    *)
(* has the request table).                                                 *)
(***************************************************************************)
EXTENDS Integers, Sequences

CONSTANTS
    Watched,     \* the pushes that report a watched app as running
    Backlog,     \* notificationBacklog, 256 in the code
    MaxBurst,    \* bound: pushes before ListenAndKill returns
    MaxEvents,   \* bound: pushes of the device
    MaxWire      \* bound: messages on the wire at a time

ASSUME NotificationsAssumption ==
    /\ {Backlog, MaxBurst, MaxEvents, MaxWire} \subseteq Nat
    /\ Watched \subseteq Nat \ {0}

VARIABLES
    wire,            \* messages on their way to the reader, in order
    reader,          \* the reader goroutine: [pc, event]
    messageChannel,  \* pushes not yet received, each a number
    watcher,         \* [pc, event]: the goroutine that calls Receive and kill
    closer,          \* the goroutine that calls closeFunc
    transport,       \* up, lost, or closed by the host
    sent,            \* pushes the device has sent
    replied,         \* calls the device has answered
    received         \* pushes Receive has taken, in order

device == <<sent, replied>>
vars == <<wire, reader, messageChannel, watcher, closer, transport, device, received>>

\* The calls ListenAndKill makes; a kill has the number of its push.
AppState == -2
Memory == -1
ProcessControl == 0

Event(n) == [kind |-> "event", n |-> n]
Reply(n) == [kind |-> "reply", n |-> n]

Init ==
    /\ wire = << >>
    /\ reader = [pc |-> "read", event |-> 0]
    /\ messageChannel = << >>
    /\ watcher = [pc |-> "call", event |-> AppState]
    /\ closer = "idle"
    /\ transport = "up"
    /\ sent = 0 /\ replied = {}
    /\ received = << >>

-----------------------------------------------------------------------------
(* The reader: GlobalDispatcher passes pushes to channelDispatcher.Dispatch. *)

DispatchPush ==
    /\ reader.pc = "read"
    /\ wire # << >> /\ Head(wire).kind = "event"
    /\ reader' = [pc |-> "deliver", event |-> Head(wire).n]
    /\ wire' = Tail(wire)
    /\ UNCHANGED <<messageChannel, watcher, closer, transport, device, received>>

\* Seeded faults: a buffer of one more or one less, and pushes that replace
\* those still waiting.
LargeBuffer(queue) == Len(queue) <= Backlog
SmallBuffer(queue) == Len(queue) < Backlog - 1
HasRoom(queue) == Len(queue) < Backlog
NewestOnly(queue, event) == <<event>>
Enqueue(queue, event) == Append(queue, event)

DeliverPush ==
    /\ reader.pc = "deliver"
    /\ HasRoom(messageChannel)
    /\ messageChannel' = Enqueue(messageChannel, reader.event)
    /\ reader' = [pc |-> "read", event |-> 0]
    /\ UNCHANGED <<wire, watcher, closer, transport, device, received>>

Continue(w) ==
    IF w.event < ProcessControl THEN [pc |-> "call", event |-> w.event + 1]
    ELSE [w EXCEPT !.pc = "receive"]

\* The reply of a call that has timed out has no waiter and is dropped.
DispatchReply ==
    /\ reader.pc = "read"
    /\ wire # << >> /\ Head(wire).kind = "reply"
    /\ watcher' = IF watcher = [pc |-> "await", event |-> Head(wire).n]
                  THEN Continue(watcher) ELSE watcher
    /\ wire' = Tail(wire)
    /\ UNCHANGED <<reader, messageChannel, closer, transport, device, received>>

ReaderStops ==
    /\ reader.pc = "read"
    /\ transport = "closed" \/ (transport = "lost" /\ wire = << >>)
    /\ reader' = [reader EXCEPT !.pc = "stopped"]
    /\ UNCHANGED <<wire, messageChannel, watcher, closer, transport, device, received>>

-----------------------------------------------------------------------------
(* The watcher.  ListenAndKill enables the notifications and opens the     *)
(* process control channel; it closes the connection when one of the first *)
(* two calls fails and ignores a failure of the third.                     *)

Subscribed == watcher.event > 0 \/ watcher.pc \in {"receive", "exited"}
GivesUp == watcher.event < ProcessControl
AfterFailure == IF GivesUp THEN [watcher EXCEPT !.pc = "failed"] ELSE Continue(watcher)
CloseOnFailure == transport' = IF GivesUp THEN "closed" ELSE transport

SendCall ==
    /\ watcher.pc = "call"
    /\ transport = "up"
    /\ watcher' = [watcher EXCEPT !.pc = "await"]
    /\ UNCHANGED <<wire, reader, messageChannel, closer, transport, device, received>>

SendFails ==
    /\ watcher.pc = "call"
    /\ transport # "up"
    /\ watcher' = AfterFailure
    /\ CloseOnFailure
    /\ UNCHANGED <<wire, reader, messageChannel, closer, device, received>>

NoDeadline == FALSE
Deadline == watcher.pc = "await"

CallTimeout ==
    /\ Deadline
    /\ watcher' = AfterFailure
    /\ CloseOnFailure
    /\ UNCHANGED <<wire, reader, messageChannel, closer, device, received>>

\* Receive takes the next push; runKillWatch kills the app it is about.
Receive ==
    /\ watcher.pc = "receive"
    /\ messageChannel # << >>
    /\ LET n == Head(messageChannel)
       IN  /\ received' = Append(received, n)
           /\ watcher' = [pc |-> IF n \in Watched THEN "call" ELSE "receive", event |-> n]
    /\ messageChannel' = Tail(messageChannel)
    /\ UNCHANGED <<wire, reader, closer, transport, device>>

\* closeChannel has no buffer: Close and Receive meet.  select takes either
\* case when a push is waiting too.
ReceiveClose ==
    /\ closer = "offer"
    /\ watcher.pc = "receive"
    /\ watcher' = [watcher EXCEPT !.pc = "exited"]
    /\ closer' = "close"
    /\ UNCHANGED <<wire, reader, messageChannel, transport, device, received>>

-----------------------------------------------------------------------------
(* closeFunc: dispatcher.Close, which waits five seconds for a Receive,    *)
(* then conn.Close.                                                        *)

CloseFunc ==
    /\ Subscribed
    /\ closer = "idle"
    /\ closer' = "offer"
    /\ UNCHANGED <<wire, reader, messageChannel, watcher, transport, device, received>>

\* Seeded fault: closeFunc returns the error of dispatcher.Close at once.
ReturnTimeout == "done"
AfterTimeout == "close"

CloseTimeout ==
    /\ closer = "offer" /\ watcher.pc # "receive"
    /\ closer' = AfterTimeout
    /\ UNCHANGED <<wire, reader, messageChannel, watcher, transport, device, received>>

CloseConnection ==
    /\ closer = "close"
    /\ transport' = "closed"
    /\ closer' = "done"
    /\ UNCHANGED <<wire, reader, messageChannel, watcher, device, received>>

-----------------------------------------------------------------------------
(* The device and the transport *)

Transmit(m) ==
    /\ transport = "up"
    /\ Len(wire) < MaxWire
    /\ wire' = Append(wire, m)
    /\ UNCHANGED <<reader, messageChannel, watcher, closer, transport, received>>

\* It answers the call that is open, unless it has; it may never.
DeviceReplies ==
    /\ watcher.pc = "await"
    /\ watcher.event \notin replied
    /\ replied' = replied \cup {watcher.event}
    /\ Transmit(Reply(watcher.event))
    /\ UNCHANGED sent

\* Enabled by the first call; the apps that run already come before the rest.
DevicePushes ==
    /\ watcher # [pc |-> "call", event |-> AppState]
    /\ sent < IF Subscribed THEN MaxEvents ELSE MaxBurst
    /\ sent' = sent + 1
    /\ Transmit(Event(sent + 1))
    /\ UNCHANGED replied

ConnectionLost ==
    /\ transport = "up"
    /\ transport' = "lost"
    /\ UNCHANGED <<wire, reader, messageChannel, watcher, closer, device, received>>

-----------------------------------------------------------------------------
ReaderStep == DispatchPush \/ DeliverPush \/ DispatchReply \/ ReaderStops
WatcherStep == SendCall \/ SendFails \/ CallTimeout \/ Receive \/ ReceiveClose
CloserStep == CloseTimeout \/ CloseConnection

Next ==
    \/ ReaderStep \/ WatcherStep \/ CloserStep
    \/ CloseFunc \/ DeviceReplies \/ DevicePushes \/ ConnectionLost

Spec == Init /\ [][Next]_vars

\* Goroutines that can run do and deadlines pass; nobody has to call closeFunc
\* and the device does as it likes.
FairSpec == Spec /\ WF_vars(ReaderStep) /\ WF_vars(WatcherStep) /\ WF_vars(CloserStep)

-----------------------------------------------------------------------------
(* Properties *)

\* The state has its type.
TypeOK ==
    /\ wire \in Seq([kind : {"event", "reply"}, n : Int])
    /\ reader \in [pc : {"read", "deliver", "stopped"}, event : Nat]
    /\ messageChannel \in Seq(Nat) /\ Len(messageChannel) <= Backlog
    /\ watcher \in [pc : {"call", "await", "receive", "exited", "failed"}, event : Int]
    /\ closer \in {"idle", "offer", "close", "done"}
    /\ transport \in {"up", "lost", "closed"}
    /\ sent \in Nat /\ replied \subseteq Int
    /\ received \in Seq(Nat)

\* The pushes that have reached this side, and where on the wire the rest is.
InHand == IF reader.pc = "deliver" THEN <<reader.event>> ELSE << >>
Arrived == received \o messageChannel \o InHand
Waiting == {i \in 1..Len(wire) : wire[i].kind = "event"}

\* instruments_notifications.go, Dispatch and Receive: no push is lost,
\* repeated or overtaken between the wire and the watcher.  The first pushes
\* have arrived in order, and all later ones are on the wire in order.
NoPushLost ==
    /\ \A i \in 1..Len(Arrived) : Arrived[i] = i
    /\ {wire[i].n : i \in Waiting} = Len(Arrived) + 1..sent
    /\ \A i, j \in Waiting : i < j => wire[i].n < wire[j].n

\* instruments_notifications.go:18-26, notificationBacklog: before ListenAndKill
\* returns, the pushes of the device do not block the reader, unless they are
\* more than the backlog is made for.
BurstFits ==
    ~Subscribed /\ reader.pc = "deliver" => HasRoom(messageChannel) \/ sent > Backlog

\* The reader waits for the watcher to make room, the watcher in a kill waits
\* for a reply only the reader can bring: they get out of it.  So they do when
\* a burst larger than the backlog blocks the reader during the set-up.
BackpressureEnds ==
    (reader.pc = "deliver") ~> (reader.pc # "deliver" \/ watcher.pc \in {"exited", "failed"})

\* closeFunc returns and closes the connection, also when no Receive is there
\* to take the close.
CloseFuncReturns == (closer = "offer") ~> (closer = "done" /\ transport = "closed")

\* instruments_notifications.go:119-120: "receive blocks until the next
\* AppStateEvent, or returns an error once closeFunc has been called or the
\* connection drops."  Once the connection is closed or lost, a Receive ends.
ReceiveReturns ==
    (watcher.pc = "receive" /\ transport # "up") ~> (watcher.pc # "receive")
===============================================================================
