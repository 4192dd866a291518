# Verification of go-ios

TLA+ models of go-ios, in two layers. The *concurrent core* has a model each: the DTX transport that
instruments, accessibility and XCTest run on, the services built on it, the test runner, the HTTP/2
streams of RemoteXPC and the tunnel agent. The *catalogue* covers the sequential rest, what every
client, command and REST handler does to a device, as 176 operations that one model runs against a
device which may accept, refuse or vanish at every step. TLC checks each model on small instances;
TLAPS proves the properties of the core for every value of the constants.

- [1. The system](#1-the-system)
- [2. Modules](#2-modules)
- [3. Runs, bounds and fairness](#3-runs-bounds-and-fairness)
- [4. Proofs](#4-proofs)
- [5. Disagreements between code and documentation](#5-disagreements-between-code-and-documentation)
- [6. What is not modelled](#6-what-is-not-modelled)
- [7. Plan](#7-plan)

## 1. The system

go-ios talks to iOS devices. `usbmuxd` gives it a byte stream to a service of the device; from
iOS 17 on, services are reached through a tunnel that an agent process keeps for every device.
On a stream runs one of a few protocols (plists, DTX, XPC over HTTP/2, AFC), and on those the
services that the command line and the REST API offer. Nothing but pair records is persisted, so
there is no crash recovery to verify; what is hard is goroutines, deadlines and lost connections.

| Component | State it keeps | Operations | Talks to | What makes it correct |
|---|---|---|---|---|
| DTX channel (`dtx_codec/channel.go`, `fragmentdecoder.go`) | next identifier, response waiters, fragment decoders | `MethodCall*`, `MethodCallAsync`, `Dispatch`, timeout | its connection's reader goroutine, callers, the service's `Dispatcher` | a caller gets the answer to its own call; calls end; no table entry outlives its use; fragments are reassembled of one message only |
| Registered events (`channel.go`) | a bounded Go channel per selector | `RegisterMethodForRemote`, `ReceiveMethodCall(WithTimeout)`, `deliverEvent` | reader goroutine, receivers | the reader never blocks; order is kept; the newest event survives |
| DTX connection (`connection.go`) | channel counter, active channels, requests of the device, closed/err | `RequestChannelIdentifier`, `ForChannelRequest`, `AddDefaultChannelReceiver`, `reader`, `Close` | the transport, its channels | codes are unique; messages reach their channel; circular waits end; closed once |
| Notifications (`instruments_notifications.go`, `cmd_device_apps_kill.go`) | bounded message channel, close channel | `ListenAndKill`, `Dispatch`, `Receive`, `Close`, the kill loop | one DTX connection, a signal handler | no push lost, set-up blocks only on a burst larger than the backlog, the reader and the close function get out |
| Other instruments services | a channel each, sampling services also an unbuffered Go channel | method calls, sample streams | DTX connection | samples are not sent on a closed channel |
| Tunnel manager (`tunnel/tunnel_api.go`) | tunnels, failed devices with their backoff, port offset | `UpdateTunnels`, `RemoveTunnel`, `FindTunnel`, `ListTunnels`, `Close`, HTTP handlers, `RefreshTunnelForDevice` | usbmuxd, tunnels, HTTP clients | no tunnel is leaked or resurrected; a device that stays gets a tunnel |
| Tunnels (`tunnel/userspace_tunnel.go`, `tunnel.go`, `rwcendpoint.go`, `framing.go`) | device connection, network stack, listener | start, two pumps, close, death of the data plane | device, kernel or gVisor | resources released once; packets keep their boundaries |
| Remote pairing (`tunnel/untrusted.go`, `codec.go`, `tunnel.go`) | keys, sequence numbers, cipher streams | pair, verify, create listener | device | message order; both sides agree on nonces; what a failed set-up has opened is closed |
| HTTP/2 and XPC (`http/`, `xpc/`) | streams, flow control windows, read and write mutexes | open, read, write, half-close | RSD and CoreDevice services | windows respected; every reader progresses |
| XCTest runner (`testmanagerd/`) | two DTX connections, a test listener | set-up sequence, test callbacks, kill | DTX, app service | no failure lost, no case lost, the runner ends, a target's end is its own |
| usbmuxd, lockdown, pairing, RSD (`ios/*.go`) | one connection and its TLS session | request/reply | device | an answer is taken for the answer to its own request; what is opened is closed |
| Forwarding, debug proxy | sockets | accept, copy, teardown | client and device sockets | torn down once |
| Images, management, files, applications, logs, small services | one connection, or a few in turn | request/reply, streams | device | as above; success means that the device accepted |
| CLI (`main.go`, `cmd_*.go`, `ui/`) | - | one operation a process | all of the above | exit status 0 means that it was done |
| REST API (`restapi/api`) | WDA sessions, device conditions | one operation a request | all of the above | status 200 means that it was done; a long-lived process closes what it opens |

The behaviours that are hard to test are listed in `PROJECT.json` under `hazards`, each at its line.
They are of five families:

1. **One reader goroutine per DTX connection.** It calls into channels, dispatchers and bounded
   queues. Whatever blocks it also blocks every reply on the connection, including the one that the
   goroutine it waits for is waiting for.
2. **Deadlines that race with answers.** A waiter is removed while its answer is on its way, in
   one piece or in fragments.
3. **Work on a copy.** `UpdateTunnels` decides on a snapshot of the tunnel map that HTTP handlers
   change meanwhile.
4. **Teardown from several sides.** The transport fails, a user closes, a goroutine gives up.
5. **One step of several failing.** A client opens a connection, asks for a session, sends requests: the
   device refuses the third, or the stream breaks after the second. Whether the connection is closed
   then, whether the next request reads a stale answer and whether the caller hears of it is
   seldom tested.

## 2. Modules

`RemoteCall` is the abstract promise of a remote procedure call; `DtxChannel` implements it. The
other modules stand on the promise of the one below: `DtxConnection` and `Notifications` treat a
call as one request and one reply that may come late or never, which is what `RemoteCall` says.

```
Notifications     TunnelManager     HttpStreams
      |
DtxConnection     DtxEvents
      |              |
      +-- DtxChannel-+  ==implements==>  RemoteCall
```

`HttpStreams` and `TestRun` stand beside them: RemoteXPC does not run on DTX, and of its two DTX
connections the test runner sees only messages, in order, and their end. Each module has an `MC` module
that TLC runs; theorems are in `DtxChannelProofs`, `DtxEventsProofs`, `DtxConnectionProofs`, `NotificationsProofs`,
`TunnelManagerProofs`, `HttpStreamsProofs`, `TestRunProofs` and `DeviceCallsProofs`.

The catalogue is one chain, each module using the scripts of those before it:

```
Scripts                      the vocabulary
  Connections                usbmuxd, lockdown, pairing, RSD, ways to connect
    Images                   developer disk images, signing of personalized ones
    Management               profiles, preparation, activation, developer mode, diagnostics
    FileServices             AFC, crash reports, house arrest, the file service
    Applications             installation, app service, debug server
    SmallServices            pasteboard, display, HID, springboard, location, instruments clients
    Testing                  set-up and teardown of a test run (what TestRun starts from)
    Streams                  syslog, os_trace, pcap, screenshots, forwarding, debug proxy
    Accessibility, WebInspector
    Commands, UiCommands     the command line
    RemotePairing            pairing and set-up of tunnels
    RestApi                  the REST server's handlers
DeviceCalls                  runs a script
  Outlines                   what proof outlines of the operations are, and when they hold
MCDeviceCalls                the table of the 176 operations, and their outlines, computed
```

### DtxChannel, RemoteCall

State: `messageIdentifier`, `responseWaiters`, `defragmenters` and `mutex` are the fields of
`Channel`. `defragmenters` is keyed by identifier alone, as in the code: a first fragment replaces whatever
decoder is there. `Contested` are the identifiers that a fragmented call of the device shares with a request. `mutex` is only ever TRUE between steps when the reader calls the service's dispatcher
with `d.mutex` held; every other critical section is one action. A caller's `pc` follows
`sendAndAwaitReply`: *encode*, *send*, *await*, *remove*. `inbox` is the buffered response channel.
`reader` is at *read*, between the two critical sections of `Dispatch` (*table*), inside the
service's dispatcher, *stopped* after a read error, or *panicked*, which ends the process.

| Action | Code |
|---|---|
| `Begin`, `EncodeFails`, `AddResponseWaiter`, `SendRequest`, `SendFails` | `sendAndAwaitReply` up to the select |
| `ReceiveReply`, `Timeout`, `RemoveResponseWaiter` | its select and what follows |
| `MethodCallAsync` | `MethodCallAsync`, `Send` |
| `DispatchMessage` | `ReadMessage` and the first critical section of `Dispatch` |
| `DispatchTable` (six cases) | the second critical section |
| `DispatcherReturns` | the return of the service's dispatcher |
| `ReaderStops` | a read or decode error in the reader |
| `DeviceAnswers`, `DeviceCalls`, `DeviceContinues`, `ConnectionLost` | the environment |

A message carries its identifier, conversation index, fragment count and index, and a *body* that
names the call it belongs to. Fragments of different messages may interleave on the wire, a payload
may be unreadable, and the device may answer after the deadline.

### DtxEvents

Queues are numbered in the order in which `RegisterMethodForRemote` makes them, so that registering
a selector again abandons the old queue, as in the code. `deliverEvent` is a loop of three steps:
`SendEvent`, `QueueFull`, `DropOldest`; receivers take events between any two of them. Events are
numbered, which makes order and loss visible.

### DtxConnection

There are two mutexes. `mutex` names the goroutine that holds the connection's: `RequestChannelIdentifier` keeps it
while it waits for the device. `channelMutex` is the global channel's while the reader holds it over a step,
which it does when it dispatches a channel request that came in fragments (channel.go:240-263); everywhere
else that mutex is taken and released within a step. `requester` and `acceptor` are the goroutines in
`RequestChannelIdentifier` and `ForChannelRequest`. A request goes through *lock* (the connection's mutex),
*register* (`AddResponseWaiter`, which needs the channel's mutex), *send*, *await* and *answered* or,
after its deadline, *remove* (`RemoveResponseWaiter`, which needs it too), to *store* and *returned*; a failed
write goes by *remove* too. `reader` blocks in *send* when
`requestChannelMessages` is full. `Close` closes the socket in one step and
puts what that returned, nil in the normal case, into `err` in a later one, between which the reader may fail first. Keys of the `sync.Map` carry their Go type, because a key of type
`uint32` never equals one of type `int`. `delivered` records where each message of the device was
routed to, and whether its channel had been returned when the device sent it.

### Notifications

The DTX reader (`reader`), the goroutine that sets the service up, receives and kills (`watcher`),
and the one that calls the close function (`closer`). The three set-up calls are the events -2, -1, 0;
failures of the first two close the connection, a failure of the third does not, as in
`ListenAndKill`; each of the three, and each kill, ends by its reply or its deadline. The burst that the
subscription sets off may be larger than the backlog. The unbuffered close channel is a rendezvous (`ReceiveClose`) or a deadline
(`CloseTimeout`).

### TunnelManager

`UpdateTunnels` is `Snapshot`, `ListDevices` or `ListDevicesFails`, then for each device `SkipDevice`
or `StartTunnel` with its outcome and `StoreTunnel`, `ScanEnds`, `StopTunnel`/`CloseStoppedTunnel`
for the devices that are gone, `UpdateEnds`. The HTTP handlers (`RemoveTunnel`, `FindTunnel`,
`Shutdown`) run between any two of these steps. A tunnel is numbered when it is started; `open` is
the set of tunnels that hold resources, `dead` of those whose data plane stopped on its own. Starting
a tunnel may fail at any time, and always fails for a device that is gone or a port beyond 65535.

### HttpStreams

The streams of one HTTP/2 connection, each with a goroutine of its own: *read* and *write* are the
heads of the loops of `Read` and `Write`, *data* the time between the reservation of a chunk
(`sendWindow`) and its `WriteData`, *lock* the wait for `framerReadMu`, *frame* the blocking
`ReadFrame`, *answer* the writes that follow with the read side still held. `r.mu` is held within
single steps only. The peer counts what it has granted (`credit`, `connCredit`) and what it may
send (`room`, `connRoom`) by itself, at its own end of the wire; that is what the windows of the code
are compared with. Bytes are counted, not represented. What is written reaches the peer at once,
which may act on it late; padding counts for the windows but is not read. `OtherStreams` are streams that the peer
opens and this side has no entry for: their `DATA` and `RST_STREAM` are errors of the goroutine that happens to
read them (http.go:163-176, 219-221). The connection window has been charged by then. The increment that falls
due with such a frame is never written; `forgone` counts it.

### TestRun

For each target of a test plan a runner opens two connections, each with a reader goroutine; both
dispatch to one `TestListener` that nothing locks and that the next target uses again after `reset`.
`runner` follows the select of `runXUITestWithBundleIds...`: *waiting*, then *finalize*, *append*, *fail*
(`FinishWithError`), then *kill*. `reset` is five assignments (testlistener.go:370-385) and as many steps: `NextTarget` makes
the first, a new `finished` channel, and `reset` one for each of *reset once*, *reset err*, *reset suites* and *reset
running*. Readers of the target before, whose connections are closed but may hold a message, dispatch between any two of them.
`at[r]` is where reader `r` is in `Dispatch`; a handler that tests the
running suite and then dereferences it is two or three steps (`testSuiteDidStart`, `AppendRunning`,
`AssignRunning`), any other is one. `finishedOnce` is whether the `sync.Once` that guards the close of the `finished` channel is used up. A late message
between the first two assignments of the reset closes the new channel by the old Once; by the new one it would be closed once more, and that panics
(`ClosesTwice`), which a reader recovers and the runner does not. `plan` is what the device has reported, at its own end;
`result` is what the runner returned and is compared with it. `stale` records that a message of an
earlier target was handled since the reset began.

### The catalogue: Scripts and DeviceCalls

A *script* is what a Go function does to a device, as a sequence of steps:

| Go | Script |
|---|---|
| `a(); if err != nil { return err }; b()` | `a \o b`: a failing step ends the script |
| `defer conn.Close()` | `With(c, open, body)`, or `Deferred` for other deferred calls |
| `if err := f(); err != nil { log }` | `Try(f)`; with more to do then, `Attempt` or `IfWorks` |
| write, read, look at `Error` or `Status` | `Ask(c, q)`; without the look, `AskAny(c, q)` |
| a method call on a DTX channel | `Call(c, q)`, which is the promise of `RemoteCall`: an answer or a failure |
| a method that closes the connection when its write fails | `Tell` rather than `Write` |
| branches on data: an argument, a version, what a reply holds | `Choose` |
| `x.(T)` of an answer | `Cast`, which panics on a refusal |
| exit of the command line tool | `Process`: the system closes the sockets, deferred functions do not run |

The steps of a function's own are kept in their order; errors, early returns and deferred calls are
what the script is about. Names, payloads and formats are not: a request is its name, a connection
its handle, an answer an acceptance or a refusal.

`DeviceCalls` interprets the scripts. `todo` is what is left to run, a deferred call or a handler
being a mark in it; `failing` is an error on its way up, which `Unwinds` takes to the next mark. `conn` is
each connection as this side sees it, `due` the answers that it has not read. `given` are the
connections whose opening function has returned: from then on the caller has to close them. `done` is what
the device has accepted of the operation's promises. The device accepts or refuses in `SendWorks`
and speaks up by itself in `DevicePushes`; `DialFails`, `HandshakeFails`, `SendFails` and `ReadFails` are
the connection breaking at any step; `LocalWork` is a file or a key that may not be there.

`AnswersMatch` says that a read takes the answer to its own request; `SuccessIsAccepted` that an
operation which reports success had the device accept what its name promises; `ConnectionsReleased` that
whoever is given a connection closes it or returns it. The paths known to break the last are listed by
operation and connection in `MCDeviceCalls` (`LibraryLeaks`, `RestLeaks`); an operation that is not listed is
held to the promise in full, and a listed one for its other connections. An operation whose success depends on its
arguments, or which changes nothing (`ListDevices`), promises the empty set.
One promise of a doc comment is taken off by name, in `UncheckedAnswers`: the last answer of an activation
(section 5).

`Outlines` serves the proofs (section 4). An outline of an operation follows one connection through
every function the operation consists of. It is a set of judgements, each about one script: what can
be true of the connection before each step (`j.ok`), and when an error leaves the script (`j.err`).
What can be true is a set of *views* (`View`): the connection's entries in the variables, `done` and
`answer`. `Works` and `Fails` say which views a step leads to, on the connection itself or on another one,
`StepHolds` that the judgements allow them, `Follows` that every judgement follows from the others, and
`OutlineHolds` that one of them is about the whole operation and promises that the connection is
released. `OutlinesHold`, an `ASSUME`, says that of every operation and every connection it names.
`MCDeviceCalls` computes the outlines by running each script forward over sets of views
(`ComputedOutline`). How they are found does not matter: `OutlinesHold` judges the result.

## 3. Runs, bounds and fairness

| Run | Shows | Bounds, and why they are enough |
|---|---|---|
| `dtx_channel` | two calls, an asynchronous send, a whole and a fragmented call of the device: own replies, no leaked waiter, every call ends; reply deposited, no leaked decoder and no panic but under an identifier that is contested; refinement of `RemoteCall` | two callers race for the mutex, identifiers and the reader, and the late answer of one meets the call of the other; a fragmented call of the device has the identifier of one request (2), which contests it, and a whole one that of another (3), which does not; two fragments have a first and a last; one message is on the wire while another is in the reader's hands |
| `dtx_identifier_clash` | *violation*: the reader panics (section 5) | one caller, an answer and a call of the device in two or three fragments, two messages on the wire |
| `dtx_events` | newest event survives, order, the reader returns | two receivers empty a queue of two while the reader drops; three queues for two selectors, so one is registered twice; four events overflow a queue |
| `dtx_connection` | distinct codes, returned channels receive, closed once; requests and accepts return, unless the reader waits for room with the global channel's mutex | capacity one and three requests of the device, in one piece or in fragments, make the reader block as five and seven would; two requesters queue for the mutex; one message of a channel comes early or late |
| `notifications` | nothing lost, set-up blocks only on a burst that is too large, the reader gets out of blocking, the close function returns | a backlog of two, a burst of up to four, so that it fits, fills or overflows; six pushes overflow it again during two kills |
| `notifications_receive` | *violation*: `Receive` outlives its connection | no app to kill, three pushes |
| `tunnel_manager` | no tunnel forgotten, fresh refresh, teardown on list errors, devices get tunnels and lose them | two devices, two of the bounded events (failure, plugging, removal) in any combination, port offsets up to one beyond the valid ones |
| `tunnel_recreate` | *violation*: a dead tunnel is not replaced | one device |
| `http_streams` | windows agree with the peer's count, the shared window is not overrun, no received byte is lost from the windows but what is counted as forgone, a lost connection ends every call | two streams compete for a connection window that only one of them can use up; three frames, so that one changes a window while others are on their way; data of two bytes with a threshold of three is below it once and above it twice; one stream that the peer opens itself |
| `http_starved` | *violation*: a goroutine whose data is there waits | two streams that each read or write once, one frame |
| `test_run` | failures are reported, no case is lost, every target returns | two targets with two connections each, so that the readers of the first meet the listener of the second in any stage of its reset; seven messages report a case in a nested suite from start to end; four about the second target are enough for a suite that meets what the first left |
| `device_calls` | 176 operations: answers match requests, success was accepted, connections are released, but for what `UncheckedAnswers`, `LibraryLeaks` and `RestLeaks` name | each operation alone, because none shares a connection with another; loops run up to twice, so that a second round meets what the first left on the connection, and directories are walked two levels deep; a client's user calls two methods, so that the second meets the first one's failure. TLC also evaluates `OutlinesHold` for all of them |

Bounds stand in the guards: `MaxCalls`, `MaxIdentifier`, `MaxFragments`, `MaxWire`, `MaxEvents`,
`MaxQueues`, `MaxRequests`, `MaxPushes`, `MaxBurst`, `MaxPort`, `MaxFrames`, `Lengths`, `Budgets`. They cap counters and the
environment's generosity; `Buffer`, `Capacity`, `Backlog` and `CodeSpace` are parameters of the code
(16, 5, 256 and 2^32 there) made small, as are the windows of `HttpStreams` (65535, 1048576 and half of
that, 16384). `TunnelManager` needs no bound on updates: tunnels are
numbered, and each new one takes a bounded event. Deadlock is not checked in
the models that stop once the bounds are used up or the process has ended; `DeviceCalls` and `TestRun` say
where they end (`Returned`, `Over`), and there it is checked: no script gets stuck half-way. A panic
or a call that never returns (`Hang`) is an end of its own, about which the promises say nothing;
section 6 lists them.

Fairness, and why the code justifies it:

- *Weak fairness of the reader's and the callers' steps*: a goroutine that can run is run by the Go
  scheduler, and a context's deadline passes. A caller's wait is a step that is enabled from the
  start, which is why the mutants that take the deadline away break the liveness properties.
- `DtxChannel` assumes that the service's dispatcher returns. A dispatcher that makes a call on its
  own channel never would; no dispatcher of the repository does. The global dispatcher, which may wait for room
  with the mutex held, is in `DtxConnection`, where nothing of the kind is assumed.
- *Strong fairness of `AcceptChannel` and of each requester's steps* in `DtxConnection`: they wait for a `sync.Mutex`
  that others take and release; in starvation mode the mutex is handed to its longest waiter. Nothing is assumed
  of who calls `ForChannelRequest`: a reader that waits for room may wait for ever, and the two properties
  say what still ends then.
- `TunnelManager`: the ticker calls `UpdateTunnels` again, and device lists and tunnel starts return.
  The last of these is an assumption about the device: the lockdown path passes `context.TODO()`, so
  the manager's start timeout does not end it.
- `HttpStreams` assumes weak fairness of each goroutine only, although `LockReadSide` waits for a mutex:
  once the connection is lost the frames on the wire run out and the mutex stays free.
- `TestRun`: weak fairness of the runner and of each reader's dispatch of a message it holds. Nothing is
  assumed of the device, so that `RunReturns` holds only from the end of the plan or of a connection.
- `device_calls` has no liveness property and no fairness: most exchanges have no deadline, and those
  that have one (a DTX call, an awaited event) are written with the failure they may end in.
- The device, the network, users and clients are never fair: nothing makes them answer, close or
  receive.

## 4. Proofs

The properties are those the runs check, so TLC has looked for counterexamples on a small instance of
each before it was proved for all. An assumption on a constant is a named `ASSUME` of the module that
declares it, or is stated with the theorem that needs it.

| Module | Theorems (the property each states) |
|---|---|
| `DtxChannelProofs` | `TypeCorrect` (`TypeOK`), `CallsGetOwnReply` (`OwnReply`), `WaitersDoNotLeak` (`NoWaiterLeak`), `ChannelImplementsRemoteCall` (`ImplementsRemoteCall`); on fragments `ExtractsFinishedDecoders` (`ExtractOnlyFinished`), `AnswersAreDeposited` (`ReplyDeposited`), `DefragmentersDoNotLeak` (`NoDefragmenterLeak`) |
| `DtxEventsProofs` | `TypeCorrect` (`TypeOK`), `EventsInOrder` (`ReceivedInOrder`), `NewestEventSurvives` (`NewestSurvives`) |
| `DtxConnectionProofs` | `TypeCorrect` (`TypeOK`), `ChannelsStayDistinct` (`ChannelsDistinct`), `ReturnedChannelsReceive` (`ReturnedChannelReceives`), `ClosesOnce` (`ClosedOnce`) |
| `NotificationsProofs` | `TypeCorrect` (`TypeOK`), `PushesArrive` (`NoPushLost`), `BurstsFit` (`BurstFits`) |
| `TunnelManagerProofs` | `TypeCorrect` (`TypeOK`), `ManagerForgetsNone` (`NoTunnelForgotten`), `RefreshReturnsFresh` (`RefreshIsFresh`), `ListErrorStops` (`ListErrorStopsAll`) |
| `HttpStreamsProofs` | `TypeCorrect` (`TypeOK`), `WindowsAreHonest` (`SendWindowsHonest`), `ConnectionWindowIsHonored` (`ConnectionWindowHonored`), `WindowsAreReplenished` (`ReceiveWindowsReplenished`) |
| `TestRunProofs` | `FailuresAreReported` (`FailuresReported`), `NoCaseIsLost` (`NoCaseLost`) |
| `DeviceCallsProofs` | `OutlinesAreSound`, `AnswersAreMatched` (`AnswersMatch`), `SuccessMeansAccepted` (`SuccessIsAccepted`), `ConnectionsAreReleased` (`ConnectionsReleased`) |

`DtxChannelProofs` proves, for any number of callers, calls, identifiers and fragments:

- `TypeCorrect`, with one lemma per group of actions.
- `CallsGetOwnReply` (`OwnReply`) and `WaitersDoNotLeak` (`NoWaiterLeak`). Neither is inductive: that
  a reply carries the identifier of the call it answers has to be known of everything between the
  device and the waiter. `IInv` therefore says that the identifiers of calls are below the counter
  and differ (`IdsUnique`), that a request was made by a call that was begun, and by the open call that
  has its identifier if there is one (`RequestsKnown`), that every reply answers a request, be it in
  the device's hands, on the wire, in a decoder or in the reader's (`RepliesGenuine`), that a
  waiter's key is its caller's identifier (`NoWaiterLeak`), and that an inbox holds the reply of its
  own caller's call (`InboxOwn`).
- `ChannelImplementsRemoteCall`: `Spec => Remote!Spec`, step by step. `DeviceAnswers` maps to `Answer`,
  `ReceiveReply` to `Return`, the three ways to fail to `Fail`, `Begin` to `Start`, all else to
  stuttering.

The theorems on fragments, in the module's second part, hold for any device, one that numbers its calls
like the host's requests included. They are stated for each identifier that is not `Contested`; of a contested one nothing can
be promised, as `dtx_identifier_clash` shows. So they say that a clash harms its own identifier and no other.

- `ExtractsFinishedDecoders` (`ExtractOnlyFinished`): no last fragment with an uncontested identifier meets the decoder of
  another message, so that the reader does not panic over it.
- `AnswersAreDeposited` (`ReplyDeposited`) and `DefragmentersDoNotLeak` (`NoDefragmenterLeak`): nothing gets
  stuck on the way, no readable answer in a table and no decoder once its message is through.

The invariant `FInv` has two parts. `GInv` speaks of all identifiers: a request has one of its own, at or above the
first (`RequestIds`), a fragment is one of a fragmented call of the device or of the reply to a request it has
answered (`FragmentIds`), a decoder is filed under the identifier of its first fragment (`DecodersKeyed`),
the device's calls are told from answers (`DeviceCallsOwn`) and a call has made one request at most
(`RequestsOfCalls`). `KInv(k)` speaks of one identifier `k`: it holds, or `k` is contested. It takes the message in the reader's
hands and the wire as one line (`Line`). Of the fragments with identifier `k` it says that they are fragments of one message
(`FragmentsAgree`), in order on the line, the one the device is about to send behind them
(`FragmentsInOrder`), that the fragment after any but the last is on its way too (`NoneSkipped`), that a
decoder has the fragments below some number while those from there on are on their way (`DecoderFilled`), and that
the reader did not panic over `k` (`NoPanic`); together these are `LInv(k)`. `RInv(k)`, for identifiers no fragmented call of the device
has, adds that a caller without an answer is registered, that the decoder of its answer exists once the first fragment is
dispatched and that what has been dispatched is with the caller. What happens under other identifiers, contested
ones included, leaves the waiter, the decoder and the callers of `k` alone (`OtherTable`).
Together with the channel's `IInv` this is inductive.

`DtxEventsProofs` proves, for any number of receivers, selectors, queues and events:

- `TypeCorrect`: no queue outgrows its buffer.
- `EventsInOrder` and `NewestEventSurvives`. The invariant adds that the events of a queue, the one
  received last and the one the reader holds are in order and none is newer than the newest,
  and that the reader's event is that newest one. The loop needs this: between `QueueFull` and
  `SendEvent` the queue may be empty, and what survives is in the reader's hands.

`DtxConnectionProofs` proves, for any number of requesters, requests and messages:

- `TypeCorrect`.
- `ChannelsStayDistinct` (`ChannelsDistinct`), which is inductive: the mutex is held from the moment a
  code is taken until its channel is stored, and the counter only grows.
- `ReturnedChannelsReceive` (`ReturnedChannelReceives`), if there are fewer requesters than codes
  (`FewRequesters`): a code that does not fit the 32 bits of the wire comes back as another one. The
  invariant `RInv` adds that the counter counts the calls (`CounterCounts`), so that codes fit, that
  returned channels are in the table, and that so are the channels of those messages on the wire
  that were sent after their channel was returned (`LateStored`).
- `ClosesOnce` (`ClosedOnce`), an action property: of all steps only the reader's failure and `Close` assign
  `closed` and `err`, both through `closeOnce`.

`NotificationsProofs` proves, for any backlog, burst and set of watched apps:

- `TypeCorrect`.
- `PushesArrive` (`NoPushLost`) and `BurstsFit` (`BurstFits`); the second for any burst, also one the backlog
  is too small for: until the subscription returns the reader blocks only if the device has sent more than the
  backlog holds. Pushes are numbered as the device sends them. The
  invariant says that those received, those in the channel and the one in the reader's hands are
  numbered from 1 on without a gap (`ArrivedNumbered`) and that those on the wire go on from there to
  the last one sent (`WireNumbered`), so that the oldest push on the wire is always the next number; and
  that before the subscription returns nothing is received (`NoneReceived`), so that all that was taken from the wire
  is in the channel or in the reader's hands.

`TunnelManagerProofs` proves, for any number of devices, clients, updates and tunnels:

- `TypeCorrect`.
- `ManagerForgetsNone` (`NoTunnelForgotten`), `RefreshReturnsFresh` (`RefreshIsFresh`) and
  `ListErrorStops` (`ListErrorStopsAll`). All three rest on one fact about the stale snapshot: while an
  update runs, an entry of the tunnel map is the snapshot's or has been removed (`SnapshotAgrees`),
  because only the update itself adds entries and it adds them to its snapshot too. Hence a tunnel
  is stored where there is none (`NothingReplaced`), and what `stopTunnel` deletes is what it then
  closes. The invariant `Safe` adds that the tunnel about to be stored is its device's and in nobody
  else's hands (`StoredIsNew`), that a removed tunnel is not in the map again (`Refreshing`), and that
  what the update has passed after a list error is stopped (`Stopping`).

`HttpStreamsProofs` proves, for any number of streams, frames and bytes:

- `TypeCorrect`, the owner of the read side among it.
- `WindowsAreHonest` (`SendWindowsHonest`) and `WindowsAreReplenished` (`ReceiveWindowsReplenished`), which
  are conservation laws: a window on this side, plus what is reserved, plus what is on the wire, is what
  the peer has granted, and what the peer may still send, plus what is on the wire or not yet
  acknowledged, is the window granted to it, less what was forgone with data of unknown streams. They are stated with sums over the wire and over the
  streams (`Pending`, `AllReserved`, both on the recursive function `SumTo`). `NatSetInduction` proves
  induction on numbers for a *set* of them from the well-foundedness of `<`, so that no operator has to
  be passed to a library theorem; on it rest the lemmas that say how a sum changes when a frame is
  appended or read and when one stream reserves bytes (`SumToShift`, `SumToChange`, `BytesOnAppend`,
  `BytesOnTail`, `AllReservedChange`, `AllReservedOpen`).
- `ConnectionWindowIsHonored` (`ConnectionWindowHonored`), which follows from the first, as no sum is negative.

The two laws are not inductive alone. `IInv` adds that a goroutine is inside a call on a stream of the
table only, with no more reserved than it has left to write (`GoroutinesInv`), that frames are about streams
the peer knows and a stream ends once (`PeerInv`), that there is something to give back only while
somebody is about to (`IncrementsInv`), and that a stream which is not open yet has the windows
announced (`UnopenedInv`): this is what makes the law hold when the stream opens while settings are on their
way. What the peer does on streams of its own concerns the connection's windows only (`OthersApart`).

`TestRunProofs` proves, for any number of targets, messages, classes and suites:

- `FailuresAreReported` (`FailuresReported`). Nothing between two resets takes an error away, as every
  assignment to `err` but the reset's is an error; the invariant `Inv` adds that an error the run of the
  current target knows of is in the listener, or the runner is on its way to put it there.
- `NoCaseIsLost` (`NoCaseLost`). The listener keeps cases in the running suite only and appends that suite to
  its list when it ends, when a nested one starts and when the run fails. A verdict goes to the last case
  of the running suite or to the last one there without a verdict, if name and class fit.
  The invariant `CaseInv` has four parts. `BaseInv` is types and where
  the goroutines can be. `ResetInv` says that as far as the reset has come the listener is new, unless something stale was
  handled since it began. It rests on `IdleInv`, which is proved first: while the listener is being reset
  the connections of the target are not open yet and its run is unbroken, so that only an earlier target's readers can interfere. `MineInv` says, while the target's run lasts and nothing stale was handled, that the
  listener agrees with the device: no recorded case is a passed one that failed (`ListenerInv`), what a
  reader holds is what the device has last said (`HandsInv`), every case that was started is in a
  suite, in the running one, or in the reader's hands (`AllRecorded`), the running suite is
  the innermost open one up to the message in hand (`RunningMatch`), and the end of the plan is the last
  thing reported (`EndInv`). `LostInv` says, once the events' connection is lost on iOS 17, that its reader
  has come to rest and that no case is outside the suites when the runner returns. The assumptions
  are `NestingAssumption`, that nested suites are given by a sequence of names, and `NilAssumption`, that
  `NoSuite` is not a suite.

`DeviceCallsProofs` proves, for any catalogue of operations, any connections and any known leaks:

- `OutlinesAreSound`: if `OutlinesHold`, then at every moment of every operation every connection is in a
  state its outline allows.
- `AnswersAreMatched` (`AnswersMatch`), `SuccessMeansAccepted` (`SuccessIsAccepted`) and
  `ConnectionsAreReleased` (`ConnectionsReleased`), which follow from it.

None of the three properties is inductive, nor do they hold of every catalogue: a script that leaves a reply
unread breaks the first, one that closes nothing the last. What has to be known of the scripts is
`OutlinesHold`, and it is stated so that it can be checked without running anything: it looks at each step of
each script once, for one connection at a time, with no call stack, no marks and no error on its way up. What is
left to the theorem is what the interpreter adds to that: that functions call each other to any depth,
that deferred calls and handlers run when an error passes them and the error then goes on or not,
that several connections are used at once, and that any of them breaks.

The invariant is about `todo`, which at every moment consists of the rests of the functions that are
running, with a mark where each scope ends. `Annotates` says that there is a set of views before each of
its elements, for success and for an error, such that a step leads from its own to the next, a mark
to what its deferred call or handler is judged to do, and an error on to the next mark unchanged; `Ahead` that the
connection's view is in the first of them. A function that is called puts a judgement in front
(`Prepends`), a scope that is entered a judgement and a mark (`MarkPrepends`), and all that returns or
unwinds drops a beginning (`Drops`). `DialViews` to `ReadViews` show that every action leads to a
view `Works` or `Fails` knows, of the connection it is on and of every other. A connection no script of the operation
names is judged as `Nobody`, which no step concerns. The assumptions on the constants are `HandlesAssumption` and
`OutlinesHold`; the run `device_calls` evaluates both for the 176 operations. TLC cannot evaluate the
invariant, because the annotation in it is a quantified function over sets of views; it checks the
three properties, state by state, and the judgements the annotations are made of.

A change of a script that breaks a property falsifies `OutlinesHold` before TLC reaches the first state, so the
mutants of that run are changes of the interpreter: a connection that stays usable after a failed read, a
refusal that is taken like any other answer, a close that leaves the socket open.

Only model-checked:

- Liveness, which is out of this prover's reach: `CallsEnd`, `DispatchReturns`, `RequestsReturn`,
  `AcceptReturns`, `BackpressureEnds`, `CloseFuncReturns`, `DeviceGetsTunnel`, `DisconnectCleansUp`,
  `LostConnectionEndsCalls`, `RunReturns`.
- What the recursive `ComputedOutline` computes: `OutlinesHold`, for the catalogue in
  `MCDeviceCalls`. No theorem speaks of it, and none has to.

## 5. Disagreements between code and documentation

| Run | What happens |
|---|---|
| `dtx_identifier_clash` | A fragmented call of the device and a fragmented reply have one identifier: whichever first fragment comes second (in the run the reply's) replaces the decoder of the other message. The last fragment of that message is rejected, `Extract` is called all the same and panics (channel.go:243-251), against fragmentdecoder.go:57. |
| `notifications_receive` | `Receive` waits for ever when the connection drops, although it "returns an error once closeFunc has been called or the connection drops" (instruments_notifications.go:119-120): its select looks at the messages and at the close channel only, and nothing is put on either. The same happens after a close whose deadline passes while the watcher is elsewhere. |
| `tunnel_recreate` | A userspace tunnel that has torn itself down keeps its entry, and `UpdateTunnels` never replaces it while the device stays. |
| `http_starved` | A goroutine waits for the read side although its data is there: the holder has delivered it, goes on to read for its own stream and blocks until the peer sends again. |

Four more are seen in the models of the passing runs, whose properties except them in so many words:

| Property | What it excepts |
|---|---|
| `SuccessIsAccepted` | `Activate` "returns an error if the activation is unsuccessful" (activation.go:59-60). The last request hands the answer of Apple's server to the device; what the device says to it is logged, and nil is returned (activation.go:178-187). `UncheckedAnswers` takes that request off the promises; with it among them the run fails. |
| `ClosedOnce` | "When Close was called this will be ErrConnectionClosed" (connection.go:67), but `Close` hands on the error of closing the socket (connection.go:75-76), which is nil for a connection that works: it is closed and `Err` is nil. The property says that the first outcome stays, not that it is an error. The test runners compare `Err` with `ErrConnectionClosed` (xcuitestrunner.go:455, 462). |
| `RequestsReturn`, `AcceptReturns` | "Dispatch runs on the connection's single reader goroutine and must never block" (channel.go:40-42). If channel requests came in fragments, the reader would wait for room in `requestChannelMessages` (connection.go:118) with the global channel's mutex held, a `RequestChannelIdentifier` for that mutex with the connection's held, also after its deadline (channel.go:185-191), and `ForChannelRequest`, which alone makes room, for the latter. No deadline ends that. For requests in one piece the deadline does. |
| `ReturnedChannelReceives` | A connection "dispatches received messages to the right channel" (connection.go:24-25). A message right after the confirmation of its channel may be read before the channel is stored (connection.go:296-303) and then goes to the global dispatcher; the property begins when the channel has been returned. |

## 6. What is not modelled

- *Encodings* (DTX bytes, NSKeyedArchiver, XPC, OPACK, TLV, plists): data without control. Where a
  decoder's failure changes the control flow it is a choice in the model (`Local`, a garbled message,
  an unreadable fragment).
- *Cryptography* of pairing and tunnels, signing of images and apps: succeeds or fails.
- *Tunnel data plane*: the packet pumps, kernel interfaces, gVisor, the NCM driver. `RemotePairing` ends
  where the pumps start.
- *Operating system and network*: mDNS, usbmuxd itself, the Go standard library.
- *Command line*: parsing of arguments and printing. *REST server*: routing, its limit on requests per
  device, the map of WDA sessions.
- *Sampling services* of instruments: their clients are scripts in `SmallServices`, the race of
  `Close` with a sample that is being dispatched is not modelled.
- *Connections an opening function keeps to itself*: one that fails half-way (connect.go:105-108, 236-257) leaves its
  connection open and returns nothing to close it by. The scripts have the step (`Open` without `Give`), but `ConnectionsReleased`
  begins when a connection is returned to a caller.
- *An overwrite of the `sync.Once`* of the test listener by `reset` while a late reader is inside its `Do`: a fatal
  error of the runtime that ends the process. `Do` is one step in `TestRun`.
- *Several operations at once on one connection* of the request/reply services: the code gives each
  operation a connection of its own. Device conditions of the REST server are the exception.
- Within the modelled components: the content of messages, logging, the two implementations of
  starting a tunnel (an outcome in `TunnelManager`), and the matching of process names
  (`Watched` in `Notifications`).

### Observations

What the models had to take over from the code, and what a reader of it may not expect. No run checks a
statement of the documentation about these.

Connections that stay open (`LibraryLeaks`, `RestLeaks`):

- `closeAndReconnect` of personalized images; the image mounter behind an image list; diagnostics
  whose reboot, shutdown or goodbye is refused; a location simulation whose stop is refused.
- `LaunchAppWithStdIo` when the launch fails; `debugserver.Start`; `forward.StartNewProxyConnection` when
  `Connect` fails (forward.go:88); the debug proxy's client when usbmuxd cannot be dialled.
- `accessibility.New` when its set-up fails; `ListenAppStateNotifications`, always.
- The pairing connection of `ManualPairAndConnectToTunnel`, and the tunnel's own when its set-up fails.
- In the REST server, which lives on: `GetImages`, `Info`, `ResetAccessibility`, `GetSupportedConditions`,
  `EnableDeviceCondition`, `DisableDeviceCondition`, `ListApps`, `LaunchApp`, `KillApp`, `InstallApp`.

Success that is none, or an error that is dropped:

- `devicestate list` ignores the error of `List`, `ps` and `kill` that of `ProcessList`, `mobilegestalt` that
  of its query; `runtest` and `runxctest` end with status 0 when the tests could not be run.
- `isProcessAlive` (main.go:1854) takes a failed listing for an ended process; `CloseAgent` accepts any HTTP
  status; an RPC error in a body of status 200 is printed like a result.
- `WaitLoop` of amfi takes the first device list that shows the device for its restart.
- The TCP tunnel uses the secret of a verification that was refused (untrusted.go:349).
- The runners up to iOS 16 return no error when a connection is lost (xcuitestrunner_12.go:83); a failure
  of a case that was started outside any suite is dropped; a failure overwrites the *stalled* verdict
  that a comment in `testlistener.go` says is kept.

Panics on what a device may answer:

- `Pair` and `PairSupervised` close a connection before looking at its error (pair.go:124, 236).
- `GetLanguage` and `GetBatteryDiagnostics` assert the type of a value that a refusal does not have; the
  REST `Info` writes to a map that is nil when lockdown refuses.
- `DeviceMiddleware` goes on to the handler without a device after an error of RSD (middleware.go:60);
  `InstallApp` uses the file before the error.
- `FinishWithError` of the test listener races with the end of a suite; `runwda` closes a channel that a
  goroutine may still send on.

Between two targets of a test run, if a late message of the first is dispatched while `reset` is under way
(testlistener.go:370-385): the next target ends before it has begun, has the other's error, or keeps a closed channel with
an unused `sync.Once`, so that its own end panics. `test_run` reaches all three.

Bytes of `DATA` for a stream that this side does not know are never given back to the peer in full (http.go:163-176):
the increment that falls due with them is lost to the connection's window.

Waits without an end: the read goroutine of the notification proxy; `ForChannelRequest` of
the test runner when the connection dies; `TurnOff` and `SwitchToDevice` of accessibility.

## 7. Plan

Done: the core with its proofs (`RemoteCall`, `DtxChannel`, `DtxEvents`, `DtxConnection`, `Notifications`,
`TunnelManager`, `HttpStreams`, `TestRun`) and the catalogue with its outlines and theirs.

Left, the model:

1. `SamplingService`: dispatchers with an unbuffered channel that is closed before its connection.
2. The REST server's WDA sessions and device conditions, which requests share.
3. `TunnelDataPlane`: the two pumps, close against death of the data plane; two tunnel managers on
   adjacent ports.

Left, the proofs: every safety property that a run checks is proved. Beyond the runs, `DtxConnection`
could be shown to use its calls as `RemoteCall` promises, for which its requesters would have to keep the
outcome that the code logs and drops.
