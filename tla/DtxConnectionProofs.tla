-------------------------- MODULE DtxConnectionProofs --------------------------
(***************************************************************************)
(* The channels of a DTX connection are distinct, for any number of        *)
(* goroutines that ask for one and whatever the device does; and what the  *)
(* device sends on a channel that was returned reaches it, as long as the  *)
(* codes fit the 32 bits of the wire.                                      *)
(***************************************************************************)
EXTENDS DtxConnection, FiniteSetTheorems, TLAPS

USE ConnectionAssumption

-----------------------------------------------------------------------------
(* Messages and keys have their type. *)

LEMMA DefaultCodeType == DefaultCode \in Int
  BY DEF DefaultCode

LEMMA OpenedType ==
    ASSUME TypeOK, NEW code \in opened \cup {DefaultCode}
    PROVE  code \in Int
  <1>1. opened \subseteq Nat
    BY DEF TypeOK
  <1> QED
    BY <1>1, DefaultCodeType

LEMMA CodesType ==
    ASSUME NEW code \in Int
    PROVE  OnWire(code) \in Int /\ Uint32Key(code) \in [type : {"int", "uint32"}, code : Int]
           /\ IntKey(code) \in [type : {"int", "uint32"}, code : Int]
  BY DEF OnWire, Uint32Key, IntKey

LEMMA TransmitType ==
    ASSUME TypeOK, NEW m \in Message, Transmit(m)
    PROVE  wire' \in Seq(Message)
  BY DEF TypeOK, Transmit

LEMMA GoToType ==
    ASSUME TypeOK, NEW c \in Requesters, NEW pc \in RequesterPcs, GoTo(c, pc)
    PROVE  requester' \in [Requesters -> [pc : RequesterPcs, code : Nat]]
  BY DEF TypeOK, GoTo

\* What the goroutines that open and accept channels may change.
LEMMA RequestersType ==
    ASSUME TypeOK,
           \/ \E c \in Requesters : RequestChannelIdentifier(c) \/ RequesterStep(c)
           \/ ForChannelRequest \/ AcceptChannel \/ AddDefaultChannelReceiver
    PROVE  TypeOK'
  <1>1. CASE \E c \in Requesters : TakeCode(c)
    <2> PICK c \in Requesters : TakeCode(c)
      BY <1>1
    <2>1. channelCodeCounter \in Nat /\ channelCodeCounter' \in Nat \ {0}
      BY DEF TypeOK, TakeCode, NextCode
    <2>2. requester' \in [Requesters -> [pc : RequesterPcs, code : Nat]]
      BY <2>1 DEF TypeOK, TakeCode, RequesterPcs
    <2> QED
      BY <2>1, <2>2 DEF TypeOK, TakeCode, closing, dispatching, device
  <1>2. CASE \E c \in Requesters : SendRequest(c) \/ SendFails(c)
    <2> PICK c \in Requesters : SendRequest(c) \/ SendFails(c)
      BY <1>2
    <2>1. requester' \in [Requesters -> [pc : RequesterPcs, code : Nat]]
      BY GoToType DEF SendRequest, SendFails, RequesterPcs
    <2>2. opened' \subseteq Nat /\ replied' \subseteq opened'
      BY DEF TypeOK, SendRequest, SendFails, device
    <2>3. transport' \in {"up", "lost", "closed"}
      BY DEF TypeOK, SendRequest, SendFails, closing
    <2>4. UNCHANGED <<mutex, channels, requestChannelMessages, acceptor, dispatching, closed, err,
                      closer, wire, replied, deviceRequests, pushes, delivered>>
      BY DEF SendRequest, SendFails, closing, device
    <2> QED
      BY <2>1, <2>2, <2>3, <2>4 DEF TypeOK, channels, dispatching
  <1>7. CASE \E c \in Requesters :
               \/ RequestChannelIdentifier(c) \/ AddResponseWaiter(c) \/ ReceiveReply(c)
               \/ RequestTimeout(c) \/ RemoveResponseWaiter(c)
    <2> PICK c \in Requesters :
               \/ RequestChannelIdentifier(c) \/ AddResponseWaiter(c) \/ ReceiveReply(c)
               \/ RequestTimeout(c) \/ RemoveResponseWaiter(c)
      BY <1>7
    <2>1. requester' \in [Requesters -> [pc : RequesterPcs, code : Nat]]
      BY GoToType DEF RequestChannelIdentifier, AddResponseWaiter, ReceiveReply, RequestTimeout,
         RemoveResponseWaiter, RequesterPcs
    <2>2. UNCHANGED <<mutex, channels, requestChannelMessages, acceptor, dispatching, closing, wire,
                      device, delivered>>
      BY DEF RequestChannelIdentifier, AddResponseWaiter, ReceiveReply, RequestTimeout,
         RemoveResponseWaiter
    <2> QED
      BY <2>1, <2>2 DEF TypeOK, channels, dispatching, closing, device
  <1>3. CASE \E c \in Requesters : StoreChannel(c)
    <2> PICK c \in Requesters : StoreChannel(c)
      BY <1>3
    <2>1. requester[c].code \in Int
      BY DEF TypeOK
    <2>2. requester' \in [Requesters -> [pc : RequesterPcs, code : Nat]]
      BY GoToType DEF StoreChannel, RequesterPcs
    <2> QED
      BY <2>1, <2>2, CodesType DEF TypeOK, StoreChannel, ChannelKey, closing, dispatching, device, Code
  <1>4. CASE ForChannelRequest
    BY <1>4 DEF TypeOK, ForChannelRequest, channels, closing, dispatching, device
  <1>5. CASE AcceptChannel
    <2>1. IntKey(DefaultCode) \in [type : {"int", "uint32"}, code : Int]
      BY DefaultCodeType, CodesType
    <2> QED
      BY <1>5, <2>1 DEF TypeOK, AcceptChannel, closing, dispatching, device, Code
  <1>6. CASE AddDefaultChannelReceiver
    <2>1. Uint32Key(DefaultCode) \in [type : {"int", "uint32"}, code : Int]
      BY DefaultCodeType, CodesType
    <2> QED
      BY <1>6, <2>1 DEF TypeOK, AddDefaultChannelReceiver, closing, dispatching, device,
         Code
  <1> QED
    BY <1>1, <1>2, <1>3, <1>4, <1>5, <1>6, <1>7 DEF RequesterStep

LEMMA ReaderType ==
    ASSUME TypeOK, ReaderStep
    PROVE  TypeOK'
  <1>1. CASE DispatchPush
    <2>1. Head(wire) \in Message /\ Tail(wire) \in Seq(Message)
      BY <1>1 DEF TypeOK, DispatchPush
    <2>2. delivered' \subseteq [code : Code, late : BOOLEAN, to : {"channel", "global"}]
      BY <1>1, <2>1 DEF TypeOK, DispatchPush, Route, Message
    <2> QED
      BY <1>1, <2>1, <2>2 DEF TypeOK, DispatchPush, channels, closing, device, dispatching
  <1>2. CASE DispatchReply
    <2>1. Tail(wire) \in Seq(Message)
      BY <1>2 DEF TypeOK, DispatchReply
    <2> QED
      BY <1>2, <2>1 DEF TypeOK, DispatchReply, RequesterPcs, channels, closing, dispatching, device
  <1>3. CASE DispatchRequest
    <2>1. Tail(wire) \in Seq(Message)
      BY <1>3 DEF TypeOK, DispatchRequest
    <2>2. channelMutex' \in BOOLEAN /\ reader' = "send"
      BY <1>3, Zenon DEF DispatchRequest
    <2>3. UNCHANGED <<mutex, channels, requestChannelMessages, requester, acceptor, closing, device,
                      delivered>> /\ wire' = Tail(wire)
      BY <1>3 DEF DispatchRequest
    <2>4. (channelMutex \in BOOLEAN /\ (channelMutex => reader = "send"))'
      BY <2>2, Zenon
    <2>5. reader' \in {"read", "send", "stopped"}
      BY <2>2
    <2>6. /\ mutex' \in Requesters \cup {NoOne} /\ channelCodeCounter' \in Nat \ {0}
          /\ activeChannels' \subseteq [type : {"int", "uint32"}, code : Code]
          /\ requestChannelMessages' \in 0..Capacity
          /\ requester' \in [Requesters -> [pc : RequesterPcs, code : Nat]]
          /\ acceptor' \in {"idle", "lock"} /\ closer' \in {"idle", "closed", "failed", "done"}
          /\ closed' \in BOOLEAN /\ err' \in {"nil", "read", "closed"}
          /\ transport' \in {"up", "lost", "closed"} /\ wire' \in Seq(Message)
          /\ opened' \subseteq Nat /\ replied' \subseteq opened'
          /\ deviceRequests' \in Nat /\ pushes' \in Nat
          /\ delivered' \subseteq [code : Code, late : BOOLEAN, to : {"channel", "global"}]
      BY <2>1, <2>3 DEF TypeOK, channels, closing, device
    <2> QED
      BY <2>4, <2>5, <2>6, Zenon DEF TypeOK
  <1>4. CASE SendToAcceptor
    <2>1. channelMutex' = FALSE /\ reader' = "read"
      BY <1>4, Zenon DEF SendToAcceptor
    <2>2. /\ UNCHANGED <<mutex, channels, requester, acceptor, closing, wire, device, delivered>>
          /\ requestChannelMessages' = requestChannelMessages + 1
          /\ requestChannelMessages < Capacity
      BY <1>4 DEF SendToAcceptor, HasRoom
    <2>4. (channelMutex \in BOOLEAN /\ (channelMutex => reader = "send"))'
      BY <2>1, Zenon
    <2>5. reader' \in {"read", "send", "stopped"}
      BY <2>1
    <2>6. /\ mutex' \in Requesters \cup {NoOne} /\ channelCodeCounter' \in Nat \ {0}
          /\ activeChannels' \subseteq [type : {"int", "uint32"}, code : Code]
          /\ requestChannelMessages' \in 0..Capacity
          /\ requester' \in [Requesters -> [pc : RequesterPcs, code : Nat]]
          /\ acceptor' \in {"idle", "lock"} /\ closer' \in {"idle", "closed", "failed", "done"}
          /\ closed' \in BOOLEAN /\ err' \in {"nil", "read", "closed"}
          /\ transport' \in {"up", "lost", "closed"} /\ wire' \in Seq(Message)
          /\ opened' \subseteq Nat /\ replied' \subseteq opened'
          /\ deviceRequests' \in Nat /\ pushes' \in Nat
          /\ delivered' \subseteq [code : Code, late : BOOLEAN, to : {"channel", "global"}]
      BY <2>2 DEF TypeOK, channels, closing, device
    <2> QED
      BY <2>4, <2>5, <2>6, Zenon DEF TypeOK
  <1>5. CASE ReaderStops
    BY <1>5 DEF TypeOK, ReaderStops, CloseOnce, channels, device
  <1> QED
    BY <1>1, <1>2, <1>3, <1>4, <1>5 DEF ReaderStep

LEMMA DeviceType ==
    ASSUME TypeOK,
           \/ \E code \in opened \cup {DefaultCode} : DeviceReplies(code) \/ DevicePushes(code)
           \/ (\E kind \in RequestKinds : DeviceRequestsChannel(kind)) \/ ConnectionLost
    PROVE  TypeOK'
  <1>1. CASE \E code \in opened \cup {DefaultCode} : DeviceReplies(code)
    <2> PICK code \in opened \cup {DefaultCode} : DeviceReplies(code)
      BY <1>1
    <2>1. Reply(code) \in Message
      BY OpenedType DEF Reply, Message, Code
    <2>2. wire' \in Seq(Message)
      BY <2>1, TransmitType DEF DeviceReplies
    <2> QED
      BY <2>2 DEF TypeOK, DeviceReplies, Transmit, channels, closing, dispatching
  <1>2. CASE \E code \in opened \cup {DefaultCode} : DevicePushes(code)
    <2> PICK code \in opened \cup {DefaultCode} : DevicePushes(code)
      BY <1>2
    <2>1. OnWire(code) \in Int /\ Returned(code) \in BOOLEAN
      BY OpenedType, CodesType DEF Returned
    <2>2. Push(OnWire(code), Returned(code)) \in Message
      BY <2>1 DEF Push, Message, Code
    <2>3. wire' \in Seq(Message)
      BY <2>2, TransmitType DEF DevicePushes
    <2> QED
      BY <2>3 DEF TypeOK, DevicePushes, Transmit, channels, closing, dispatching
  <1>3. CASE \E kind \in RequestKinds : DeviceRequestsChannel(kind)
    <2> PICK kind \in RequestKinds : DeviceRequestsChannel(kind)
      BY <1>3
    <2>0. kind \in {"push", "reply", "request", "fragmented"}
      OBVIOUS
    <2>1. ChannelRequest(kind) \in Message
      BY <2>0 DEF ChannelRequest, Message, Code
    <2>2. wire' \in Seq(Message)
      BY <2>1, TransmitType DEF DeviceRequestsChannel
    <2> QED
      BY <2>2 DEF TypeOK, DeviceRequestsChannel, Transmit, channels, closing, dispatching
  <1>4. CASE ConnectionLost
    BY <1>4 DEF TypeOK, ConnectionLost, channels, device, dispatching
  <1> QED
    BY <1>1, <1>2, <1>3, <1>4

LEMMA StepType ==
    ASSUME TypeOK, [Next]_vars
    PROVE  TypeOK'
  <1>1. CASE CloseTransport
    BY <1>1 DEF TypeOK, CloseTransport, channels, device, dispatching
  <1>2. CASE CloseReturns
    BY <1>2 DEF TypeOK, CloseReturns, CloseOnce, channels, device, dispatching
  <1>3. CASE UNCHANGED vars
    BY <1>3 DEF TypeOK, vars, channels, closing, device, dispatching
  <1> QED
    BY <1>1, <1>2, <1>3, RequestersType, ReaderType, DeviceType DEF Next

LEMMA InitType == ASSUME Init PROVE TypeOK
  <1>1. requester \in [Requesters -> [pc : RequesterPcs, code : Nat]]
    BY DEF Init, RequesterPcs
  <1>2. wire \in Seq(Message)
    BY DEF Init
  <1>3. requestChannelMessages \in 0..Capacity
    BY DEF Init
  <1>4. /\ activeChannels \subseteq [type : {"int", "uint32"}, code : Code]
        /\ opened \subseteq Nat /\ replied \subseteq opened
        /\ delivered \subseteq [code : Code, late : BOOLEAN, to : {"channel", "global"}]
    BY DEF Init
  <1>5. closed \in BOOLEAN /\ err \in {"nil", "read", "closed"}
    BY Zenon DEF Init
  <1>7. channelMutex \in BOOLEAN /\ (channelMutex => reader = "send")
    BY Zenon DEF Init
  <1>6. /\ mutex \in Requesters \cup {NoOne} /\ channelCodeCounter \in Nat \ {0}
        /\ acceptor \in {"idle", "lock"} /\ reader \in {"read", "send", "stopped"}
        /\ closer \in {"idle", "closed", "failed", "done"} /\ transport \in {"up", "lost", "closed"}
        /\ deviceRequests \in Nat /\ pushes \in Nat
    BY DEF Init
  <1> QED
    BY <1>1, <1>2, <1>3, <1>4, <1>5, <1>6, <1>7, Zenon DEF TypeOK

\* connection.go: the state has its type in every run of a connection.
THEOREM TypeCorrect == Spec => []TypeOK
  BY InitType, StepType, PTL DEF Spec

-----------------------------------------------------------------------------
(* ChannelsDistinct is inductive: the mutex is held from the moment a code *)
(* is taken until the channel is stored, and the counter only grows.       *)

LEMMA StepDistinct ==
    ASSUME TypeOK, ChannelsDistinct, [Next]_vars
    PROVE  ChannelsDistinct'
  <1>1. ASSUME NEW c \in Requesters, TakeCode(c)
        PROVE  ChannelsDistinct'
    <2>1. channelCodeCounter' = channelCodeCounter + 1 /\ mutex' = c
      BY <1>1 DEF TakeCode, NextCode
    <2>2. requester'[c].code = channelCodeCounter /\ requester'[c].pc = "register"
      BY <1>1 DEF TypeOK, TakeCode
    <2>3. \A d \in Requesters \ {c} :
             requester'[d] = requester[d] /\ (HasCode(d) => requester[d].pc = "returned")
      BY <1>1 DEF TypeOK, ChannelsDistinct, TakeCode
    <2> QED
      BY <2>1, <2>2, <2>3 DEF TypeOK, ChannelsDistinct, HasCode
  <1>2. ASSUME NEW c \in Requesters, NEW pc \in RequesterPcs, GoTo(c, pc),
               pc \in {"idle", "lock"} <=> ~HasCode(c),
               pc = "returned" <=> requester[c].pc = "returned",
               UNCHANGED <<mutex, channelCodeCounter>>
        PROVE  ChannelsDistinct'
    <2>1. \A d \in Requesters :
             /\ requester'[d].code = requester[d].code
             /\ HasCode(d)' <=> HasCode(d)
             /\ requester'[d].pc = "returned" <=> requester[d].pc = "returned"
      BY <1>2 DEF TypeOK, GoTo, HasCode
    <2> QED
      BY <1>2, <2>1 DEF ChannelsDistinct
  <1>9. ASSUME NEW c \in Requesters,
               \/ RequestChannelIdentifier(c) \/ AddResponseWaiter(c) \/ SendRequest(c)
               \/ SendFails(c) \/ ReceiveReply(c) \/ RequestTimeout(c) \/ RemoveResponseWaiter(c)
        PROVE  ChannelsDistinct'
    BY <1>2, <1>9 DEF RequestChannelIdentifier, AddResponseWaiter, SendRequest, SendFails,
       ReceiveReply, RequestTimeout, Deadline, RemoveResponseWaiter, HasCode, RequesterPcs, channels
  <1>3. ASSUME NEW c \in Requesters, StoreChannel(c)
        PROVE  ChannelsDistinct'
    BY <1>3 DEF TypeOK, ChannelsDistinct, HasCode, StoreChannel, GoTo
  <1>4. CASE DispatchReply
    <2>1. \A c \in Requesters :
             /\ requester'[c].code = requester[c].code
             /\ HasCode(c)' <=> HasCode(c)
             /\ requester'[c].pc = "returned" <=> requester[c].pc = "returned"
      BY <1>4 DEF TypeOK, DispatchReply, HasCode
    <2>2. mutex' = mutex /\ channelCodeCounter' = channelCodeCounter
      BY <1>4 DEF DispatchReply, channels
    <2> QED
      BY <2>1, <2>2 DEF ChannelsDistinct
  <1>5. ASSUME UNCHANGED <<mutex, channelCodeCounter, requester>>
        PROVE  ChannelsDistinct'
    BY <1>5 DEF ChannelsDistinct, HasCode
  <1>6. ASSUME \/ ForChannelRequest \/ AcceptChannel \/ AddDefaultChannelReceiver
               \/ DispatchPush \/ DispatchRequest \/ SendToAcceptor \/ ReaderStops
               \/ CloseTransport \/ CloseReturns \/ ConnectionLost \/ UNCHANGED vars
        PROVE  ChannelsDistinct'
    BY <1>5, <1>6 DEF ForChannelRequest, AcceptChannel, AddDefaultChannelReceiver, DispatchPush,
       DispatchRequest, SendToAcceptor, ReaderStops, CloseTransport, CloseReturns, ConnectionLost,
       channels, vars
  <1>7. ASSUME \/ \E code \in opened \cup {DefaultCode} :
                     DeviceReplies(code) \/ DevicePushes(code)
               \/ \E kind \in RequestKinds : DeviceRequestsChannel(kind)
        PROVE  ChannelsDistinct'
    BY <1>5, <1>7 DEF DeviceReplies, DevicePushes, DeviceRequestsChannel, Transmit, channels
  <1> QED
    BY <1>1, <1>3, <1>4, <1>6, <1>7, <1>9 DEF Next, RequesterStep, ReaderStep

\* connection.go, RequestChannelIdentifier: whatever the device, the deadlines
\* and the scheduler do, no two calls get the same code, none gets the global
\* channel's, and one at a time is between its code and its channel.
THEOREM ChannelsStayDistinct == Spec => []ChannelsDistinct
  <1>1. Init => ChannelsDistinct
    BY DEF Init, ChannelsDistinct, HasCode
  <1>2. TypeOK /\ ChannelsDistinct /\ [Next]_vars => ChannelsDistinct'
    BY StepDistinct
  <1> QED
    BY <1>1, <1>2, TypeCorrect, PTL DEF Spec
-----------------------------------------------------------------------------
(* Codes fit the wire as long as fewer channels are requested than there   *)
(* are codes: the counter counts the calls.                                *)

FewRequesters == IsFiniteSet(Requesters) /\ Cardinality(Requesters) < CodeSpace

Callers == {c \in Requesters : HasCode(c)}
CounterCounts == channelCodeCounter = Cardinality(Callers) + 1

LEMMA StepCounts ==
    ASSUME FewRequesters, TypeOK, CounterCounts, [Next]_vars
    PROVE  CounterCounts'
  <1>1. ASSUME NEW c \in Requesters, TakeCode(c)
        PROVE  CounterCounts'
    <2>1. Callers' = Callers \cup {c} /\ c \notin Callers
      BY <1>1 DEF TypeOK, Callers, HasCode, TakeCode
    <2>2. IsFiniteSet(Callers)
      BY FS_Subset DEF FewRequesters, Callers
    <2>3. Cardinality(Callers') = Cardinality(Callers) + 1
      BY <2>1, <2>2, FS_AddElement
    <2>4. channelCodeCounter' = channelCodeCounter + 1
      BY <1>1 DEF TakeCode, NextCode
    <2> QED
      BY <2>2, <2>3, <2>4, FS_CardinalityType DEF CounterCounts
  <1>2. ASSUME channelCodeCounter' = channelCodeCounter,
               \A c \in Requesters : HasCode(c)' <=> HasCode(c)
        PROVE  CounterCounts'
    <2>1. Callers' = Callers
      BY <1>2 DEF Callers
    <2> QED
      BY <1>2, <2>1 DEF CounterCounts
  <1>3. CASE \E c \in Requesters :
               \/ RequestChannelIdentifier(c) \/ AddResponseWaiter(c) \/ SendRequest(c)
               \/ SendFails(c) \/ ReceiveReply(c) \/ RequestTimeout(c) \/ RemoveResponseWaiter(c)
               \/ StoreChannel(c)
    <2> PICK c \in Requesters :
               \/ RequestChannelIdentifier(c) \/ AddResponseWaiter(c) \/ SendRequest(c)
               \/ SendFails(c) \/ ReceiveReply(c) \/ RequestTimeout(c) \/ RemoveResponseWaiter(c)
               \/ StoreChannel(c)
      BY <1>3
    <2>1. \E pc \in RequesterPcs : GoTo(c, pc) /\ (pc \in {"idle", "lock"} <=> ~HasCode(c))
      BY DEF RequestChannelIdentifier, AddResponseWaiter, SendRequest, SendFails, ReceiveReply,
         RequestTimeout, Deadline, RemoveResponseWaiter, StoreChannel, HasCode, RequesterPcs
    <2>2. \A d \in Requesters : HasCode(d)' <=> HasCode(d)
      BY <2>1 DEF TypeOK, GoTo, HasCode
    <2>3. channelCodeCounter' = channelCodeCounter
      BY DEF RequestChannelIdentifier, AddResponseWaiter, SendRequest, SendFails, ReceiveReply,
         RequestTimeout, RemoveResponseWaiter, StoreChannel, channels
    <2> QED
      BY <1>2, <2>2, <2>3
  <1>4. CASE DispatchReply
    BY <1>2, <1>4 DEF TypeOK, DispatchReply, HasCode, channels
  <1>5. CASE \/ ForChannelRequest \/ AcceptChannel \/ AddDefaultChannelReceiver
             \/ DispatchPush \/ DispatchRequest \/ SendToAcceptor \/ ReaderStops
             \/ CloseTransport \/ CloseReturns \/ ConnectionLost \/ UNCHANGED vars
    BY <1>2, <1>5 DEF ForChannelRequest, AcceptChannel, AddDefaultChannelReceiver, DispatchPush,
       DispatchRequest, SendToAcceptor, ReaderStops, CloseTransport, CloseReturns, ConnectionLost,
       channels, vars, HasCode
  <1>6. CASE \/ \E code \in opened \cup {DefaultCode} : DeviceReplies(code) \/ DevicePushes(code)
             \/ \E kind \in RequestKinds : DeviceRequestsChannel(kind)
    BY <1>2, <1>6 DEF DeviceReplies, DevicePushes, DeviceRequestsChannel, Transmit, channels, HasCode
  <1> QED
    BY <1>1, <1>3, <1>4, <1>5, <1>6 DEF Next, RequesterStep, ReaderStep

LEMMA CodesFit ==
    ASSUME FewRequesters, TypeOK, ChannelsDistinct, CounterCounts,
           NEW c \in Requesters, HasCode(c)
    PROVE  OnWire(requester[c].code) = requester[c].code
  <1>1. Cardinality(Callers) <= Cardinality(Requesters)
    BY FS_Subset DEF FewRequesters, Callers
  <1>2. Cardinality(Callers) \in Nat /\ Cardinality(Requesters) \in Nat
    BY FS_Subset, FS_CardinalityType DEF FewRequesters, Callers
  <1>3. requester[c].code \in 1..(channelCodeCounter - 1)
    BY DEF ChannelsDistinct
  <1>4. requester[c].code \in Nat /\ requester[c].code < CodeSpace
    BY <1>1, <1>2, <1>3 DEF CounterCounts, FewRequesters
  <1> QED
    BY <1>4 DEF OnWire

-----------------------------------------------------------------------------
(* A returned channel is in the table and stays there, so whatever was     *)
(* sent on it, on the wire or routed, finds it.                            *)

Stored(code) == IntKey(code) \in activeChannels

LateStored ==
    /\ \A c \in Requesters : requester[c].pc = "returned" => Stored(requester[c].code)
    /\ \A i \in 1..Len(wire) : wire[i].late => Stored(wire[i].code)

RInv == TypeOK /\ ChannelsDistinct /\ CounterCounts /\ LateStored /\ ReturnedChannelReceives

LEMMA TransmitLate ==
    ASSUME TypeOK, LateStored, NEW m, m.late => Stored(m.code), Transmit(m)
    PROVE  LateStored'
  <1>1. wire \in Seq(Message) /\ wire' = Append(wire, m)
    BY DEF TypeOK, Transmit
  <1>2. \A i \in 1..Len(wire') : wire'[i].late => Stored(wire'[i].code)
    BY <1>1 DEF LateStored
  <1>3. requester' = requester /\ activeChannels' = activeChannels
    BY DEF Transmit, channels
  <1> QED
    BY <1>2, <1>3 DEF LateStored, Stored

LEMMA TakeLate ==
    ASSUME TypeOK, LateStored, wire # << >>, wire' = Tail(wire), activeChannels' = activeChannels,
           \A c \in Requesters : requester'[c].pc = "returned" =>
               requester[c].pc = "returned" /\ requester'[c].code = requester[c].code
    PROVE  LateStored' /\ (Head(wire).late => Stored(Head(wire).code))
  <1>1. wire \in Seq(Message)
    BY DEF TypeOK
  <1>2. \A i \in 1..Len(wire') : wire'[i].late => Stored(wire'[i].code)
    BY <1>1 DEF LateStored
  <1>3. Head(wire).late => Stored(Head(wire).code)
    BY <1>1 DEF LateStored
  <1> QED
    BY <1>2, <1>3 DEF LateStored, Stored

LEMMA StepLate ==
    ASSUME FewRequesters, RInv, [Next]_vars
    PROVE  LateStored' /\ ReturnedChannelReceives'
  <1> USE DEF RInv
  <1>1. ASSUME NEW c \in Requesters, StoreChannel(c)
        PROVE  LateStored'
    <2>1. activeChannels \subseteq activeChannels' /\ Stored(requester[c].code)'
      BY <1>1 DEF TypeOK, StoreChannel, GoTo, ChannelKey, Stored
    <2>2. \A d \in Requesters : requester'[d].code = requester[d].code
      BY <1>1 DEF TypeOK, StoreChannel, GoTo
    <2> QED
      BY <1>1, <2>1, <2>2 DEF TypeOK, StoreChannel, GoTo, LateStored, Stored
  <1>2. ASSUME NEW c \in Requesters,
               \/ RequestChannelIdentifier(c) \/ TakeCode(c) \/ AddResponseWaiter(c)
               \/ SendRequest(c) \/ SendFails(c) \/ ReceiveReply(c) \/ RequestTimeout(c)
               \/ RemoveResponseWaiter(c)
        PROVE  LateStored' /\ ReturnedChannelReceives'
    <2>1. /\ UNCHANGED <<activeChannels, wire, delivered>>
          /\ \A d \in Requesters : requester'[d].pc = "returned" => requester'[d] = requester[d]
      BY <1>2 DEF TypeOK, RequestChannelIdentifier, TakeCode, AddResponseWaiter, SendRequest,
         SendFails, ReceiveReply, RequestTimeout, RemoveResponseWaiter, GoTo, channels
    <2> QED
      BY <2>1 DEF LateStored, Stored, ReturnedChannelReceives
  <1>3. CASE AcceptChannel \/ AddDefaultChannelReceiver
    BY <1>3 DEF AcceptChannel, AddDefaultChannelReceiver, LateStored, Stored,
       ReturnedChannelReceives
  <1>4. CASE DispatchPush
    <2>1. LateStored' /\ (Head(wire).late => Stored(Head(wire).code))
      BY <1>4, TakeLate DEF DispatchPush, channels
    <2> QED
      BY <1>4, <2>1 DEF DispatchPush, Route, Stored, ReturnedChannelReceives
  <1>5. CASE DispatchReply
    <2>1. LateStored'
      BY <1>5, TakeLate DEF TypeOK, DispatchReply, channels
    <2> QED
      BY <1>5, <2>1 DEF DispatchReply, ReturnedChannelReceives
  <1>6. CASE DispatchRequest
    <2>1. LateStored'
      BY <1>6, TakeLate DEF DispatchRequest, channels
    <2> QED
      BY <1>6, <2>1 DEF DispatchRequest, ReturnedChannelReceives
  <1>7. ASSUME NEW code \in opened \cup {DefaultCode}, DevicePushes(code)
        PROVE  LateStored'
    <2>1. ASSUME Returned(code)
          PROVE  Stored(OnWire(code))
      <3> PICK c \in Requesters : requester[c] = [pc |-> "returned", code |-> code]
        BY <2>1 DEF Returned
      <3> QED
        BY CodesFit DEF LateStored, HasCode
    <2>2. Push(OnWire(code), Returned(code)).late => Stored(Push(OnWire(code), Returned(code)).code)
      BY <2>1 DEF Push
    <2> QED
      BY <1>7, <2>2, TransmitLate DEF DevicePushes
  <1>8. ASSUME NEW m \in {ChannelRequest(kind) : kind \in RequestKinds}
                             \cup {Reply(code) : code \in opened}, Transmit(m)
        PROVE  LateStored'
    <2>1. m.late = FALSE
      BY <1>8 DEF ChannelRequest, Reply
    <2> QED
      BY <1>8, <2>1, TransmitLate
  <1>9. CASE \/ \E kind \in RequestKinds : DeviceRequestsChannel(kind)
             \/ \E code \in opened \cup {DefaultCode} : DeviceReplies(code)
    BY <1>8, <1>9 DEF DeviceRequestsChannel, DeviceReplies, Transmit, ReturnedChannelReceives
  <1>10. CASE \/ ForChannelRequest \/ SendToAcceptor \/ ReaderStops
              \/ CloseTransport \/ CloseReturns \/ ConnectionLost \/ UNCHANGED vars
    BY <1>10 DEF ForChannelRequest, SendToAcceptor, ReaderStops, CloseTransport, CloseReturns,
       ConnectionLost, channels, vars, LateStored, Stored, ReturnedChannelReceives
  <1>11. \/ \E c \in Requesters : StoreChannel(c)
         \/ \E code \in opened \cup {DefaultCode} : DevicePushes(code)
         => ReturnedChannelReceives'
    BY DEF StoreChannel, DevicePushes, Transmit, ReturnedChannelReceives
  <1> QED
    BY <1>1, <1>2, <1>3, <1>4, <1>5, <1>6, <1>7, <1>9, <1>10, <1>11
    DEF Next, RequesterStep, ReaderStep

\* connection.go, reader: a message the device sends on a channel after
\* RequestChannelIdentifier has returned it is dispatched to that channel,
\* whatever else is requested, accepted, timed out or closed meanwhile.  The
\* codes must fit the wire: beyond that the truncated code finds no channel.
THEOREM ReturnedChannelsReceive ==
    ASSUME FewRequesters
    PROVE  Spec => []ReturnedChannelReceives
  <1>1. ASSUME Init PROVE RInv
    <2>1. TypeOK /\ ChannelsDistinct
      BY <1>1, InitType DEF Init, ChannelsDistinct, HasCode
    <2>2. Callers = {}
      BY <1>1 DEF Init, Callers, HasCode
    <2>3. CounterCounts
      BY <1>1, <2>2, FS_EmptySet DEF Init, CounterCounts
    <2> QED
      BY <1>1, <2>1, <2>3 DEF Init, RInv, LateStored, ReturnedChannelReceives
  <1>2. RInv /\ [Next]_vars => RInv'
    BY StepType, StepDistinct, StepCounts, StepLate DEF RInv
  <1>3. RInv => ReturnedChannelReceives
    BY DEF RInv
  <1> QED
    BY <1>1, <1>2, <1>3, PTL DEF Spec

-----------------------------------------------------------------------------
(* Close, the reader that fails and the transport race to end the          *)
(* connection; the first to get to closeOnce decides what Err returns.     *)

LEMMA StepClosed ==
    ASSUME closed, [Next]_vars
    PROVE  UNCHANGED <<closed, err>>
  <1>1. CASE ReaderStops \/ CloseReturns
    BY <1>1 DEF ReaderStops, CloseReturns, CloseOnce
  <1>2. CASE \E c \in Requesters : RequestChannelIdentifier(c) \/ RequesterStep(c)
    BY <1>2 DEF RequestChannelIdentifier, RequesterStep, TakeCode, AddResponseWaiter, SendRequest,
       SendFails, ReceiveReply, RequestTimeout, RemoveResponseWaiter, StoreChannel, closing
  <1>3. CASE ForChannelRequest \/ AcceptChannel \/ AddDefaultChannelReceiver
    BY <1>3 DEF ForChannelRequest, AcceptChannel, AddDefaultChannelReceiver, closing
  <1>4. CASE DispatchPush \/ DispatchReply \/ DispatchRequest \/ SendToAcceptor
    BY <1>4 DEF DispatchPush, DispatchReply, DispatchRequest, SendToAcceptor, closing
  <1>5. CASE CloseTransport \/ ConnectionLost \/ UNCHANGED vars
    BY <1>5 DEF CloseTransport, ConnectionLost, vars, closing
  <1>6. CASE \/ \E code \in opened \cup {DefaultCode} : DeviceReplies(code) \/ DevicePushes(code)
             \/ \E kind \in RequestKinds : DeviceRequestsChannel(kind)
    BY <1>6 DEF DeviceReplies, DevicePushes, DeviceRequestsChannel, Transmit, closing
  <1> QED
    BY <1>1, <1>2, <1>3, <1>4, <1>5, <1>6 DEF Next, ReaderStep

\* connection.go, close: once the connection is closed, its first error stays
\* and no step closes the Go channel again, whoever else fails or closes.
THEOREM ClosesOnce == Spec => ClosedOnce
  <1>1. [Next]_vars => [closed => UNCHANGED <<closed, err>>]_vars
    BY StepClosed
  <1> QED
    BY <1>1, PTL DEF Spec, ClosedOnce
===============================================================================
