------------------------------ MODULE HttpStreams ------------------------------
(***************************************************************************)
(* The streams of one HTTP/2 connection (ios/http/http.go).  Each stream   *)
(* has a goroutine of its own; whichever of them needs a frame takes the   *)
(* connection's read side, framerReadMu, and handles the next frame for    *)
(* everybody.  r.mu is held for one step at a time.  A byte is a unit of   *)
(* the windows; its value does not matter.                                 *)
(*                                                                         *)
(* What is written is with the peer at once: the peer may act on it late.  *)
(* Frames that processFrame ignores are left out: of other types, SETTINGS *)
(* acknowledgements, and WINDOW_UPDATE for a stream that is not known.     *)
(***************************************************************************)
EXTENDS Integers, Sequences, FiniteSetsExt

CONSTANTS
    Streams,                \* the ids of the streams, each with its goroutine
    OtherStreams,           \* the ids of streams the peer opens, unknown on this side
    defaultWindowSize,
    recvWindowSize,
    windowUpdateThreshold,
    maxFrameSize,
    FirstWindow,            \* of the peer's first SETTINGS, defaultWindowSize without one
    InitialWindows,         \* those the peer may announce later
    Padding,                \* the padding of DATA frames
    Lengths,                \* bound: bytes of one Read, Write, DATA frame or grant
    MaxCalls,               \* bound: calls of Read and Write on a stream
    MaxFrames               \* bound: frames of the peer

\* Stream 0 is the connection; as the holder of framerReadMu it is nobody.
InitStream == 0
ClientServer == 1

ASSUME HttpAssumption ==
    /\ Streams \subseteq Nat
    /\ \A s \in Streams : s % 2 = 1 /\ (s = ClientServer \/ s - 2 \in Streams)
    /\ OtherStreams \subseteq {s \in Nat \ {InitStream} : s % 2 = 0}
    /\ {defaultWindowSize, recvWindowSize, maxFrameSize} \cup Lengths \subseteq Nat \ {0}
    /\ windowUpdateThreshold \in 1..recvWindowSize
    /\ {FirstWindow} \cup InitialWindows \cup Padding \subseteq Nat
    /\ {MaxCalls, MaxFrames} \subseteq Nat

VARIABLES
    framerReadMu,        \* who holds it
    peerInitialWindow,
    connSendWindow,
    connRecvUnacked,
    forgone,             \* bytes counted off connRecvUnacked and never granted back
    nextStreamId,
    streams,             \* stream -> [buf: its length, sendWindow, recvUnacked, reset]
    user,                \* stream -> the goroutine: [pc, op, left, chunk, calls]
    increments,          \* of the frame in hand: [stream, conn, onStream]
    transport,           \* up or lost
    wire,                \* frames on their way from the peer, in order
    announced,           \* the initial window the peer announced last
    credit, connCredit,  \* what the peer lets us send, as it counts
    room, connRoom,      \* what the peer may send, as it counts
    finished,            \* streams on which the peer has sent END_STREAM or RST_STREAM
    frames               \* the number of frames the peer has sent

table == <<nextStreamId, streams>>
windows == <<peerInitialWindow, connSendWindow, connRecvUnacked, forgone>>
peer == <<announced, credit, connCredit, room, connRoom, finished, frames>>
vars == <<framerReadMu, windows, table, user, increments, transport, wire, peer>>

NoIncrements == [stream |-> InitStream, conn |-> 0, onStream |-> 0]

\* After NewHttpConnection, which reads the peer's first SETTINGS frame.
Init ==
    /\ framerReadMu = InitStream
    /\ peerInitialWindow = FirstWindow
    /\ connSendWindow = defaultWindowSize
    /\ connRecvUnacked = 0 /\ forgone = 0
    /\ nextStreamId = ClientServer
    /\ streams = << >>
    /\ user = [s \in Streams |-> [pc |-> "none", op |-> "none", left |-> 0, chunk |-> 0,
                                  calls |-> 0]]
    /\ increments = NoIncrements
    /\ transport = "up"
    /\ wire = << >>
    /\ announced = peerInitialWindow
    /\ credit = [s \in Streams |-> peerInitialWindow] /\ connCredit = defaultWindowSize
    /\ room = [s \in Streams |-> recvWindowSize] /\ connRoom = recvWindowSize
    /\ finished = {}
    /\ frames = 0

-----------------------------------------------------------------------------
(* OpenStream: the table first, then the HEADERS frame. *)

NewStreamState == [buf |-> 0, sendWindow |-> peerInitialWindow, recvUnacked |-> 0, reset |-> FALSE]

OpenStream(s) ==
    /\ user[s].pc = "none"
    /\ s = nextStreamId
    /\ nextStreamId' = nextStreamId + 2
    /\ streams' = [t \in DOMAIN streams \cup {s} |-> IF t = s THEN NewStreamState ELSE streams[t]]
    /\ user' = [user EXCEPT ![s].pc = "headers"]
    /\ UNCHANGED <<framerReadMu, windows, increments, transport, wire, peer>>

WriteHeaders(s) ==
    /\ user[s].pc = "headers"
    /\ user' = [user EXCEPT ![s].pc = IF transport = "up" THEN "idle" ELSE "done"]
    /\ UNCHANGED <<framerReadMu, windows, table, increments, transport, wire, peer>>

-----------------------------------------------------------------------------
(* Read and Write *)

Call(s, op, n) ==
    /\ user[s].pc = "idle"
    /\ user[s].calls < MaxCalls
    /\ user' = [user EXCEPT ![s] = [pc |-> op, op |-> op, left |-> n, chunk |-> 0,
                                    calls |-> @.calls + 1]]
    /\ UNCHANGED <<framerReadMu, windows, table, increments, transport, wire, peer>>

\* The next program counter of s and nothing else of it.
Goto(s, to) == user' = [user EXCEPT ![s].pc = to]

Read(s) ==
    LET st == streams[s] IN
    /\ user[s].pc = "read"
    /\ IF st.buf >= user[s].left
       THEN Goto(s, "idle") /\ streams' = [streams EXCEPT ![s].buf = @ - user[s].left]
       ELSE Goto(s, IF st.reset THEN "done" ELSE "lock") /\ UNCHANGED streams
    /\ UNCHANGED <<framerReadMu, windows, nextStreamId, increments, transport, wire, peer>>

\* Seeded fault: the connection's window is not looked at.
StreamWindowOnly(s) == Min({user[s].left, maxFrameSize, streams[s].sendWindow})
Reservable(s) ==
    Min({user[s].left, maxFrameSize, streams[s].sendWindow, connSendWindow})

Write(s) ==
    LET n == Reservable(s) IN
    /\ user[s].pc = "write"
    /\ IF streams[s].reset \/ n <= 0
       THEN /\ Goto(s, IF streams[s].reset THEN "done" ELSE "lock")
            /\ UNCHANGED <<streams, connSendWindow>>
       ELSE /\ user' = [user EXCEPT ![s].pc = "data", ![s].chunk = n]
            /\ streams' = [streams EXCEPT ![s].sendWindow = @ - n]
            /\ connSendWindow' = connSendWindow - n
    /\ UNCHANGED <<framerReadMu, nextStreamId, peerInitialWindow, connRecvUnacked, forgone,
                   increments, transport, wire, peer>>

WriteData(s) ==
    LET n == user[s].chunk IN
    /\ user[s].pc = "data"
    /\ transport = "up"
    /\ credit' = [credit EXCEPT ![s] = @ - n]
    /\ connCredit' = connCredit - n
    /\ user' = [user EXCEPT ![s].pc = IF user[s].left = n THEN "idle" ELSE "write",
                            ![s].left = @ - n, ![s].chunk = 0]
    /\ UNCHANGED <<framerReadMu, windows, table, increments, transport, wire, announced, room,
                   connRoom, finished, frames>>

WriteFails(s) ==
    /\ user[s].pc = "data"
    /\ transport = "lost"
    /\ Goto(s, "done")
    /\ UNCHANGED <<framerReadMu, windows, table, increments, transport, wire, peer>>

\* Close half-closes the stream; its owner writes and reads no more.
Close(s) ==
    /\ user[s].pc = "idle"
    /\ Goto(s, "done")
    /\ UNCHANGED <<framerReadMu, windows, table, increments, transport, wire, peer>>

-----------------------------------------------------------------------------
(* processFrame *)

Readable(s) == streams[s].reset \/ streams[s].buf >= user[s].left
Writable(s) == streams[s].reset \/ (streams[s].sendWindow > 0 /\ connSendWindow > 0)
Ready(s) == IF user[s].op = "read" THEN Readable(s) ELSE Writable(s)

\* Takes the read side, and gives it back at once when ready.
LockReadSide(s) ==
    /\ user[s].pc = "lock"
    /\ framerReadMu = InitStream
    /\ IF Ready(s)
       THEN Goto(s, user[s].op) /\ UNCHANGED framerReadMu
       ELSE Goto(s, "frame") /\ framerReadMu' = s
    /\ UNCHANGED <<windows, table, increments, transport, wire, peer>>

\* Seeded fault: an error path keeps the mutex.
KeepReadSide == UNCHANGED framerReadMu
UnlockReadSide == framerReadMu' = InitStream

ReadFrameFails(s) ==
    /\ user[s].pc = "frame"
    /\ transport = "lost"
    /\ Goto(s, "done")
    /\ UnlockReadSide
    /\ UNCHANGED <<windows, table, increments, transport, wire, peer>>

GrantedBack(unacked) == IF unacked < windowUpdateThreshold THEN 0 ELSE unacked

\* Both windows count the frame; one that ends the stream is not granted back.
StreamIncrement(f) ==
    IF streams[f.stream].reset \/ f.end THEN 0
    ELSE GrantedBack(streams[f.stream].recvUnacked + f.length)

\* Seeded fault: the connection's window does not count a stream's last frame.
CountOpenOnly(f) == IF f.end THEN 0 ELSE f.length
ConnectionBytes(f) == f.length

Data(f) ==
    LET conn == connRecvUnacked + ConnectionBytes(f)
        unacked == IF streams[f.stream].reset \/ f.end THEN streams[f.stream].recvUnacked
                   ELSE streams[f.stream].recvUnacked + f.length
    IN
    /\ f.type = "data" /\ f.stream \in DOMAIN streams
    /\ streams' = [streams EXCEPT ![f.stream].buf = @ + f.length - f.padding,
                                  ![f.stream].recvUnacked = unacked - StreamIncrement(f)]
    /\ connRecvUnacked' = conn - GrantedBack(conn)
    /\ increments' = [stream |-> f.stream, conn |-> GrantedBack(conn),
                      onStream |-> StreamIncrement(f)]
    /\ UNCHANGED <<peerInitialWindow, connSendWindow, forgone>>

\* Seeded fault: open streams keep the window they started with.
KeepWindows(v) == streams
WithInitialWindow(v) ==
    [s \in DOMAIN streams |-> [streams[s] EXCEPT !.sendWindow = @ + v - peerInitialWindow]]

Settings(f) ==
    /\ f.type = "settings"
    /\ peerInitialWindow' = f.length
    /\ streams' = WithInitialWindow(f.length)
    /\ UNCHANGED <<connSendWindow, connRecvUnacked, forgone, increments>>

WindowUpdate(f) ==
    /\ f.type = "update"
    /\ IF f.stream = InitStream
       THEN connSendWindow' = connSendWindow + f.length /\ UNCHANGED streams
       ELSE /\ streams' = [streams EXCEPT ![f.stream].sendWindow = @ + f.length]
            /\ UNCHANGED connSendWindow
    /\ UNCHANGED <<peerInitialWindow, connRecvUnacked, forgone, increments>>

RSTStream(f) ==
    /\ f.type = "reset" /\ f.stream \in DOMAIN streams
    /\ streams' = [streams EXCEPT ![f.stream].reset = TRUE]
    /\ UNCHANGED <<windows, increments>>

\* DATA or RST_STREAM of a stream that is not in the table: the goroutine that
\* reads it fails, the others read on.  The connection's window counts the data,
\* but an increment that falls due with it is computed and never written.
UnknownStream(s) ==
    LET f == Head(wire)
        conn == connRecvUnacked + ConnectionBytes(f)
    IN
    /\ user[s].pc = "frame"
    /\ wire # << >>
    /\ f.type \in {"data", "reset"} /\ f.stream \notin DOMAIN streams
    /\ IF f.type = "data"
       THEN /\ connRecvUnacked' = conn - GrantedBack(conn)
            /\ forgone' = forgone + GrantedBack(conn)
       ELSE UNCHANGED <<connRecvUnacked, forgone>>
    /\ wire' = Tail(wire)
    /\ Goto(s, "done")
    /\ UnlockReadSide
    /\ UNCHANGED <<peerInitialWindow, connSendWindow, table, increments, transport, peer>>

\* The goroutine that reads it fails; the others read on.
GoAway(s) ==
    /\ user[s].pc = "frame"
    /\ wire # << >> /\ Head(wire).type = "goaway"
    /\ wire' = Tail(wire)
    /\ Goto(s, "done")
    /\ UnlockReadSide
    /\ UNCHANGED <<windows, table, increments, transport, peer>>

\* A SETTINGS frame is acknowledged, used up windows are granted back.
NeedsAnswer(f) ==
    IF f.type = "data" THEN increments'.conn + increments'.onStream > 0 ELSE f.type = "settings"

ReadFrame(s) ==
    /\ user[s].pc = "frame"
    /\ wire # << >>
    /\ wire' = Tail(wire)
    /\ LET f == Head(wire)
       IN  /\ Data(f) \/ Settings(f) \/ WindowUpdate(f) \/ RSTStream(f)
           /\ IF NeedsAnswer(f) THEN Goto(s, "answer") /\ UNCHANGED framerReadMu
              ELSE Goto(s, user[s].op) /\ UnlockReadSide
    /\ UNCHANGED <<nextStreamId, transport, peer>>

\* writeWindowUpdate for the connection and the stream, or WriteSettingsAck.
Answer(s) ==
    /\ user[s].pc = "answer"
    /\ IF transport = "up"
       THEN /\ connRoom' = connRoom + increments.conn
            /\ room' = [t \in Streams |->
                  room[t] + IF t = increments.stream THEN increments.onStream ELSE 0]
            /\ Goto(s, user[s].op)
       ELSE Goto(s, "done") /\ UNCHANGED <<room, connRoom>>
    /\ increments' = NoIncrements
    /\ UnlockReadSide
    /\ UNCHANGED <<windows, table, transport, wire, announced, credit, connCredit, finished,
                   frames>>

-----------------------------------------------------------------------------
(* The peer knows a stream once it has got its HEADERS. *)

Known(s) == user[s].pc \notin {"none", "headers"}

Frame(type, s, n) == [type |-> type, stream |-> s, length |-> n, padding |-> 0, end |-> FALSE]

Transmit(f) ==
    /\ transport = "up"
    /\ frames < MaxFrames
    /\ frames' = frames + 1
    /\ wire' = Append(wire, f)
    /\ UNCHANGED <<framerReadMu, windows, table, user, increments, transport>>

PeerSendsData(s, n, padding, end) ==
    /\ padding <= n
    /\ Known(s) /\ s \notin finished
    /\ n <= room[s] /\ n <= connRoom
    /\ room' = [room EXCEPT ![s] = @ - n]
    /\ connRoom' = connRoom - n
    /\ finished' = IF end THEN finished \cup {s} ELSE finished
    /\ Transmit([Frame("data", s, n) EXCEPT !.padding = padding, !.end = end])
    /\ UNCHANGED <<announced, credit, connCredit>>

PeerGrants(s, n) ==
    /\ IF s = InitStream
       THEN connCredit' = connCredit + n /\ UNCHANGED credit
       ELSE Known(s) /\ credit' = [credit EXCEPT ![s] = @ + n] /\ UNCHANGED connCredit
    /\ Transmit(Frame("update", s, n))
    /\ UNCHANGED <<announced, room, connRoom, finished>>

PeerAnnounces(v) ==
    /\ v # announced
    /\ announced' = v
    /\ credit' = [s \in Streams |-> credit[s] + v - announced]
    /\ Transmit(Frame("settings", InitStream, v))
    /\ UNCHANGED <<connCredit, room, connRoom, finished>>

PeerResets(s) ==
    /\ Known(s) /\ s \notin finished
    /\ finished' = finished \cup {s}
    /\ Transmit(Frame("reset", s, 0))
    /\ UNCHANGED <<announced, credit, connCredit, room, connRoom>>

\* On a stream of its own the peer minds the connection's window only.
PeerSendsElsewhere(t, n) ==
    /\ n <= connRoom
    /\ connRoom' = connRoom - n
    /\ Transmit(Frame("data", t, n))
    /\ UNCHANGED <<announced, credit, connCredit, room, finished>>

PeerResetsElsewhere(t) ==
    /\ Transmit(Frame("reset", t, 0))
    /\ UNCHANGED <<announced, credit, connCredit, room, connRoom, finished>>

PeerGoesAway ==
    /\ Transmit(Frame("goaway", InitStream, 0))
    /\ UNCHANGED <<announced, credit, connCredit, room, connRoom, finished>>

ConnectionLost ==
    /\ transport = "up"
    /\ transport' = "lost"
    /\ UNCHANGED <<framerReadMu, windows, table, user, increments, wire, peer>>

-----------------------------------------------------------------------------
UserStep(s) ==
    \/ WriteHeaders(s) \/ Read(s) \/ Write(s) \/ WriteData(s) \/ WriteFails(s)
    \/ LockReadSide(s) \/ ReadFrameFails(s) \/ GoAway(s) \/ UnknownStream(s)
    \/ ReadFrame(s) \/ Answer(s)

PeerStep ==
    \/ \E s \in Streams, n \in Lengths, padding \in Padding, end \in BOOLEAN :
          PeerSendsData(s, n, padding, end)
    \/ \E s \in Streams \cup {InitStream}, n \in Lengths : PeerGrants(s, n)
    \/ \E v \in InitialWindows : PeerAnnounces(v)
    \/ \E s \in Streams : PeerResets(s)
    \/ \E t \in OtherStreams :
          PeerResetsElsewhere(t) \/ \E n \in Lengths : PeerSendsElsewhere(t, n)
    \/ PeerGoesAway

Next ==
    \/ \E s \in Streams :
          \/ OpenStream(s) \/ Close(s) \/ UserStep(s)
          \/ \E op \in {"read", "write"}, n \in Lengths : Call(s, op, n)
    \/ PeerStep
    \/ ConnectionLost

Spec == Init /\ [][Next]_vars

\* Goroutines that can run do.  Nobody has to call, and the peer owes us nothing.
FairSpec == Spec /\ \A s \in Streams : WF_vars(UserStep(s))

-----------------------------------------------------------------------------
(* Properties *)

AllStreams == Streams \cup OtherStreams
Frames == [type : {"data", "settings", "update", "reset", "goaway"},
           stream : AllStreams \cup {InitStream}, length : Nat, padding : Nat, end : BOOLEAN]
StreamStates == [buf : Nat, sendWindow : Int, recvUnacked : 0..(windowUpdateThreshold - 1),
                 reset : BOOLEAN]
Places == {"none", "headers", "idle", "read", "write", "data", "lock", "frame", "answer", "done"}
Goroutines == [pc : Places, op : {"none", "read", "write"}, left : Nat, chunk : Nat,
               calls : 0..MaxCalls]

\* The state has its type; exactly the holder of the mutex reads frames.
TypeOK ==
    /\ framerReadMu \in Streams \cup {InitStream}
    /\ peerInitialWindow \in Nat /\ connSendWindow \in Int
    /\ connRecvUnacked \in 0..(windowUpdateThreshold - 1) /\ forgone \in Nat
    /\ nextStreamId \in Nat /\ DOMAIN streams = {s \in Streams : s < nextStreamId}
    /\ \A s \in DOMAIN streams : streams[s] \in StreamStates
    /\ user \in [Streams -> Goroutines]
    /\ \A s \in Streams : framerReadMu = s <=> user[s].pc \in {"frame", "answer"}
    /\ increments \in [stream : Streams \cup {InitStream}, conn : Nat, onStream : Nat]
    /\ transport \in {"up", "lost"}
    /\ wire \in Seq(Frames)
    /\ announced \in Nat
    /\ credit \in [Streams -> Int] /\ connCredit \in Int
    /\ room \in [Streams -> Nat] /\ connRoom \in Nat
    /\ finished \subseteq Streams
    /\ frames \in 0..MaxFrames

\* w[1] + ... + w[m], as a recursive function: HttpStreamsProofs argues about it.
SumTo(w, m) == LET sum[n \in 0..m] == IF n = 0 THEN 0 ELSE sum[n - 1] + w[n] IN sum[m]

\* Bytes of the frames of one kind on the wire, of one stream or of all.
Bytes(f, type, of) == IF f.type = type /\ f.stream \in of THEN f.length ELSE 0
BytesOn(q, type, of) == SumTo([i \in 1..Len(q) |-> Bytes(q[i], type, of)], Len(q))
Pending(type, of) == BytesOn(wire, type, of)

\* Bytes reserved by Write and not yet written, by a stream and by all.
Reserved(s) == IF s \in Streams THEN user[s].chunk ELSE 0
AllReserved == SumTo([s \in 1..nextStreamId |-> Reserved(s)], nextStreamId)

\* http.go, sendWindow, updateInitialWindow and the WINDOW_UPDATE case: however
\* the streams share the connection's window and whatever settings and updates
\* are on their way, the windows here promise what the peer has granted, no
\* more and no less.
SendWindowsHonest ==
    /\ \A s \in DOMAIN streams :
          streams[s].sendWindow + Reserved(s) + Pending("update", {s})
              + announced - peerInitialWindow = credit[s]
    /\ connSendWindow + AllReserved + Pending("update", {InitStream}) = connCredit

\* http.go, Stream: "Writes honor the peer's flow-control windows": all streams
\* together never send more than the peer has granted the connection.
ConnectionWindowHonored == connCredit >= 0

\* http.go, ackReceived: no byte is lost from the windows granted to the peer:
\* each is on the wire, not yet acknowledged, or the peer has it back.  Only a
\* frame of an unknown stream costs the connection's window anything, and then
\* exactly the increment that fell due with it.
ReceiveWindowsReplenished ==
    transport = "up" =>
        /\ connRoom + Pending("data", AllStreams) + connRecvUnacked + increments.conn
              + forgone = recvWindowSize
        /\ \A s \in DOMAIN streams \ finished :
              room[s] + Pending("data", {s}) + streams[s].recvUnacked
                  + (IF increments.stream = s THEN increments.onStream ELSE 0) = recvWindowSize

Calling(s) == user[s].pc \in {"read", "write", "data", "lock", "frame", "answer"}

\* http.go, processFrame: the goroutine that meets the end of the connection
\* lets the next one in, until every Read and Write has returned.
LostConnectionEndsCalls ==
    \A s \in Streams : (transport = "lost" /\ Calling(s)) ~> ~Calling(s)

\* http.go, Stream: "Every stream of a connection can be read and written from
\* its own goroutine": one whose data or window is there does not wait for
\* what another is waiting for.
StreamsIndependent ==
    \A s \in Streams : (user[s].pc = "lock" /\ Ready(s)) ~> (user[s].pc # "lock")
===============================================================================
