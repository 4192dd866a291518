----------------------------- MODULE TunnelManager -----------------------------
(***************************************************************************)
(* The tunnel agent (ios/tunnel/tunnel_api.go).  One goroutine calls       *)
(* UpdateTunnels on every tick; it works on a snapshot of the tunnel map   *)
(* and on the device list it got, and takes the mutex again only for its   *)
(* single updates of the maps.  HTTP handlers remove tunnels, list them    *)
(* and close the manager in between.  A tunnel is a number here, the       *)
(* number-th one that was started.                                         *)
(***************************************************************************)
EXTENDS Integers, Sequences

CONSTANTS
    Devices,
    Filter,         \* the devices udidFilter lets through: all of them or one
    Network,        \* those connected over the network only
    userspaceTUN,
    MaxPort,        \* the largest port offset that gives a valid TCP port
    Clients,        \* users of the agent's HTTP API
    MaxEvents       \* bound: failures, (un)plugged devices and removals

ASSUME ManagerAssumption ==
    /\ Filter \subseteq Devices /\ Network \subseteq Devices
    /\ userspaceTUN \in BOOLEAN
    /\ MaxPort \in Nat \ {0} /\ MaxEvents \in Nat

VARIABLES
    tunnels,               \* TunnelManager.tunnels: device -> tunnel, 0 for none
    failedDevices,         \* the devices with an entry there
    holdOff,               \* those whose backoff window has not elapsed
    portOffset,
    firstUpdateCompleted,
    localTunnels,          \* UpdateTunnels' snapshot of tunnels
    devices,               \* its device list
    updater,               \* where it is: [pc, todo, device, ok]
    client,                \* per client [pc, device, old, new]
    closer,                \* Close: [pc, todo]
    owner,                 \* the device of every tunnel started
    open,                  \* tunnels whose resources the host holds
    dead,                  \* tunnels whose data plane has stopped on its own
    connected,             \* devices usbmuxd lists
    happened               \* number of the bounded events so far

maps == <<tunnels, failedDevices, holdOff, portOffset, firstUpdateCompleted>>
update == <<localTunnels, devices, updater>>
resources == <<owner, open, dead>>
environment == <<connected, happened>>
vars == <<maps, update, client, closer, resources, environment>>

Event == happened < MaxEvents /\ happened' = happened + 1
NoTunnels == [d \in Devices |-> 0]

Init ==
    /\ tunnels = NoTunnels
    /\ failedDevices = {} /\ holdOff = {}
    /\ portOffset = 1
    /\ firstUpdateCompleted = FALSE
    /\ localTunnels = NoTunnels
    /\ devices = {}
    /\ updater = [pc |-> "idle", todo |-> {}, device |-> "none", ok |-> TRUE]
    /\ client = [c \in Clients |-> [pc |-> "idle", device |-> "none", old |-> 0, new |-> 0]]
    /\ closer = [pc |-> "idle", todo |-> {}]
    /\ owner = << >> /\ open = {} /\ dead = {}
    /\ connected \in SUBSET Devices
    /\ happened = 0

-----------------------------------------------------------------------------
(* UpdateTunnels: the snapshot, the device list, a tunnel for every device *)
(* that lacks one, then the tunnels of the devices that are gone.          *)

Snapshot ==
    /\ updater.pc = "idle"
    /\ localTunnels' = tunnels
    /\ updater' = [updater EXCEPT !.pc = "list"]
    /\ UNCHANGED <<maps, devices, client, closer, resources, environment>>

ListDevices ==
    /\ updater.pc = "list"
    /\ devices' = connected
    /\ updater' = [updater EXCEPT !.pc = "scan", !.todo = connected \cap Filter, !.ok = TRUE]
    /\ UNCHANGED <<maps, localTunnels, client, closer, resources, environment>>

\* Seeded fault: a list error stops nothing.
KeepAll == {}
StopAll == {d \in Devices : localTunnels[d] # 0}

ListDevicesFails ==
    /\ updater.pc = "list"
    /\ Event
    /\ updater' = [updater EXCEPT !.pc = "stop", !.todo = StopAll, !.ok = FALSE]
    /\ UNCHANGED <<maps, localTunnels, devices, client, closer, resources, connected>>

\* Seeded fault: the snapshot is not looked at.
NeverExists(d) == FALSE
Exists(d) == localTunnels[d] # 0
ShouldSkipDevice(d) == d \in Network \/ d \in holdOff

SkipDevice(d) ==
    /\ updater.pc = "scan" /\ d \in updater.todo
    /\ Exists(d) \/ ShouldSkipDevice(d)
    /\ updater' = [updater EXCEPT !.todo = @ \ {d}]
    /\ UNCHANGED <<maps, localTunnels, devices, client, closer, resources, environment>>

\* startTunnel begins, with a port of its own when it runs in user space.
\* The offset is capped: beyond MaxPort every port is invalid.
StartTunnel(d) ==
    /\ updater.pc = "scan" /\ d \in updater.todo
    /\ ~Exists(d) /\ ~ShouldSkipDevice(d)
    /\ updater' = [updater EXCEPT !.pc = "start", !.device = d, !.todo = @ \ {d}]
    /\ portOffset' = IF userspaceTUN /\ portOffset <= MaxPort + 1
                     THEN portOffset + 1 ELSE portOffset
    /\ UNCHANGED <<tunnels, failedDevices, holdOff, firstUpdateCompleted, localTunnels, devices,
                   client, closer, resources, environment>>

ValidPort == portOffset - 1 <= MaxPort

StartTunnelSucceeds ==
    /\ updater.pc = "start"
    /\ ValidPort
    /\ updater.device \in connected
    /\ owner' = Append(owner, updater.device)
    /\ open' = open \cup {Len(owner) + 1}
    /\ updater' = [updater EXCEPT !.pc = "store"]
    /\ UNCHANGED <<maps, localTunnels, devices, client, closer, dead, environment>>

StartTunnelFails ==
    /\ updater.pc = "start"
    /\ IF ValidPort /\ updater.device \in connected THEN Event ELSE UNCHANGED happened
    /\ failedDevices' = failedDevices \cup {updater.device}
    /\ holdOff' = holdOff \cup {updater.device}
    /\ updater' = [updater EXCEPT !.pc = "scan"]
    /\ UNCHANGED <<tunnels, portOffset, firstUpdateCompleted, localTunnels, devices, client,
                   closer, resources, connected>>

\* Seeded fault: the snapshot is written back.
WriteBack(d, t) == [localTunnels EXCEPT ![d] = t]
WithTunnel(d, t) == [tunnels EXCEPT ![d] = t]

StoreTunnel ==
    LET d == updater.device IN
    /\ updater.pc = "store"
    /\ failedDevices' = failedDevices \ {d}
    /\ holdOff' = holdOff \ {d}
    /\ localTunnels' = [localTunnels EXCEPT ![d] = Len(owner)]
    /\ tunnels' = WithTunnel(d, Len(owner))
    /\ updater' = [updater EXCEPT !.pc = "scan"]
    /\ UNCHANGED <<portOffset, firstUpdateCompleted, devices, client, closer, resources,
                   environment>>

\* Seeded fault: tunnels of devices that are gone are kept.
NoneGone == {}
Gone == {d \in Devices : localTunnels[d] # 0 /\ d \notin devices}

ScanEnds ==
    /\ updater.pc = "scan" /\ updater.todo = {}
    /\ updater' = [updater EXCEPT !.pc = "stop", !.todo = Gone]
    /\ UNCHANGED <<maps, localTunnels, devices, client, closer, resources, environment>>

\* stopTunnel deletes the device's entry, whatever it holds by now, and
\* closes the tunnel of the snapshot after it has released the mutex.
KeepEntry(d) == tunnels
WithoutTunnel(d) == [tunnels EXCEPT ![d] = 0]

StopTunnel(d) ==
    /\ updater.pc = "stop" /\ d \in updater.todo
    /\ tunnels' = WithoutTunnel(d)
    /\ updater' = [updater EXCEPT !.pc = "close", !.device = d, !.todo = @ \ {d}]
    /\ UNCHANGED <<failedDevices, holdOff, portOffset, firstUpdateCompleted, localTunnels, devices,
                   client, closer, resources, environment>>

CloseStoppedTunnel ==
    /\ updater.pc = "close"
    /\ open' = open \ {localTunnels[updater.device]}
    /\ updater' = [updater EXCEPT !.pc = "stop"]
    /\ UNCHANGED <<maps, localTunnels, devices, client, closer, owner, dead, environment>>

\* A device that is gone may be tried again as soon as it is back.
UpdateEnds ==
    /\ updater.pc = "stop" /\ updater.todo = {}
    /\ IF updater.ok
       THEN /\ failedDevices' = failedDevices \cap devices
            /\ holdOff' = holdOff \cap devices
            /\ firstUpdateCompleted' = TRUE
       ELSE UNCHANGED <<failedDevices, holdOff, firstUpdateCompleted>>
    /\ updater' = [updater EXCEPT !.pc = "idle"]
    /\ UNCHANGED <<tunnels, portOffset, localTunnels, devices, client, closer, resources,
                   environment>>

\* failedDeviceBackoff: 30 seconds to 5 minutes after the last attempt.
BackoffElapses(d) ==
    /\ d \in holdOff
    /\ holdOff' = holdOff \ {d}
    /\ UNCHANGED <<tunnels, failedDevices, portOffset, firstUpdateCompleted, update, client,
                   closer, resources, environment>>

-----------------------------------------------------------------------------
(* Clients: RefreshTunnelForDevice is a DELETE, which RemoveTunnel serves, *)
(* then GETs, which FindTunnel serves, until there is a tunnel again.  A   *)
(* plain DELETE is a refresh that gives up at once.                        *)

RemoveTunnel(c, d) ==
    /\ client[c].pc = "idle"
    /\ Event
    /\ tunnels' = WithoutTunnel(d)
    /\ client' = [client EXCEPT ![c] =
          [pc |-> IF tunnels[d] # 0 THEN "close" ELSE "find",
           device |-> d, old |-> tunnels[d], new |-> 0]]
    /\ UNCHANGED <<failedDevices, holdOff, portOffset, firstUpdateCompleted, update, closer,
                   resources, connected>>

CloseRemovedTunnel(c) ==
    /\ client[c].pc = "close"
    /\ open' = open \ {client[c].old}
    /\ client' = [client EXCEPT ![c].pc = "find"]
    /\ UNCHANGED <<maps, update, closer, owner, dead, environment>>

FindTunnel(c) ==
    /\ client[c].pc = "find"
    /\ tunnels[client[c].device] # 0
    /\ client' = [client EXCEPT ![c].pc = "done", ![c].new = tunnels[client[c].device]]
    /\ UNCHANGED <<maps, update, closer, resources, environment>>

GiveUp(c) ==
    /\ client[c].pc \in {"find", "done"}
    /\ client' = [client EXCEPT ![c].pc = "idle"]
    /\ UNCHANGED <<maps, update, closer, resources, environment>>

-----------------------------------------------------------------------------
(* Close, which /shutdown calls: the tunnels listed now are closed, once,  *)
(* and stay in the map; the agent exits a second later.                    *)

\* Seeded fault: entries without a tunnel are listed too.
AllEntries == {tunnels[d] : d \in Devices}
ListTunnels == {tunnels[d] : d \in Devices} \ {0}

Shutdown ==
    /\ closer.pc = "idle"
    /\ closer' = [pc |-> "close", todo |-> ListTunnels]
    /\ UNCHANGED <<maps, update, client, resources, environment>>

CloseListedTunnel(t) ==
    /\ t \in closer.todo
    /\ open' = open \ {t}
    /\ closer' = [closer EXCEPT !.todo = @ \ {t}]
    /\ UNCHANGED <<maps, update, client, owner, dead, environment>>

-----------------------------------------------------------------------------
(* Devices come and go.  A userspace tunnel whose data plane stops closes  *)
(* itself, a kernel one stays as it is; neither tells the manager.         *)

Plug(d) ==
    /\ d \notin connected
    /\ Event
    /\ connected' = connected \cup {d}
    /\ UNCHANGED <<maps, update, client, closer, resources>>

Unplug(d) ==
    /\ d \in connected
    /\ Event
    /\ connected' = connected \ {d}
    /\ UNCHANGED <<maps, update, client, closer, resources>>

TunnelDies(t) ==
    /\ t \in open \ dead
    /\ dead' = dead \cup {t}
    /\ open' = IF userspaceTUN THEN open \ {t} ELSE open
    /\ UNCHANGED <<maps, update, client, closer, owner, environment>>

-----------------------------------------------------------------------------
UpdateStep ==
    \/ Snapshot \/ ListDevices \/ ListDevicesFails
    \/ \E d \in Devices : SkipDevice(d) \/ StartTunnel(d) \/ StopTunnel(d)
    \/ StartTunnelSucceeds \/ StartTunnelFails \/ StoreTunnel
    \/ ScanEnds \/ CloseStoppedTunnel \/ UpdateEnds

Next ==
    \/ UpdateStep
    \/ \E d \in Devices : BackoffElapses(d) \/ Plug(d) \/ Unplug(d)
    \/ \E c \in Clients :
          \/ \E d \in Devices : RemoveTunnel(c, d)
          \/ CloseRemovedTunnel(c) \/ FindTunnel(c) \/ GiveUp(c)
    \/ Shutdown \/ \E t \in closer.todo : CloseListedTunnel(t)
    \/ \E t \in open : TunnelDies(t)

Spec == Init /\ [][Next]_vars

\* The ticker ticks, calls return and backoff windows elapse.
FairSpec ==
    /\ Spec
    /\ WF_vars(UpdateStep)
    /\ \A d \in Devices : WF_vars(BackoffElapses(d))
    /\ \A c \in Clients : WF_vars(CloseRemovedTunnel(c))

-----------------------------------------------------------------------------
(* Properties *)

Tunnels == 1..Len(owner)
Listed(t) == \E d \in Devices : tunnels[d] = t

\* The state has its type.
TypeOK ==
    /\ owner \in Seq(Devices)
    /\ tunnels \in [Devices -> 0..Len(owner)]
    /\ failedDevices \subseteq Devices /\ holdOff \subseteq failedDevices
    /\ portOffset \in 1..(MaxPort + 2)
    /\ firstUpdateCompleted \in BOOLEAN
    /\ localTunnels \in [Devices -> 0..Len(owner)]
    /\ devices \subseteq Devices
    /\ updater \in [pc : {"idle", "list", "scan", "start", "store", "stop", "close"},
                    todo : SUBSET Devices, device : Devices \cup {"none"}, ok : BOOLEAN]
    /\ client \in [Clients -> [pc : {"idle", "close", "find", "done"},
                               device : Devices \cup {"none"},
                               old : 0..Len(owner), new : 0..Len(owner)]]
    /\ closer \in [pc : {"idle", "close"}, todo : SUBSET Tunnels]
    /\ open \subseteq Tunnels /\ dead \subseteq Tunnels
    /\ connected \subseteq Devices
    /\ happened \in 0..MaxEvents

\* Somebody has the tunnel in hand and is about to store or to close it.
InHand(t) ==
    \/ updater.pc = "store" /\ t = Len(owner)
    \/ updater.pc = "close" /\ t = localTunnels[updater.device]
    \/ \E c \in Clients : client[c].pc = "close" /\ client[c].old = t

\* tunnel_api.go, UpdateTunnels, RemoveTunnel, stopTunnel: however removals,
\* list errors and updates interleave, no tunnel is forgotten while the host
\* still holds its resources, and a device is given its own tunnel.
NoTunnelForgotten ==
    /\ \A t \in open : Listed(t) \/ InHand(t)
    /\ \A d \in Devices : tunnels[d] # 0 => owner[tunnels[d]] = d

\* tunnel_api.go, RefreshTunnelForDevice: the tunnel a refresh comes back with
\* is not the one it removed, although an update may be working on a snapshot
\* in which that is still there.
RefreshIsFresh ==
    \A c \in Clients : client[c].pc = "done" => client[c].new # client[c].old

\* tunnel_api.go, UpdateTunnels: when the devices cannot be listed, "tear down
\* the local tunnels so a stale one can't survive": at its end none of them is
\* listed or holds resources.
ListErrorStopsAll ==
    updater.pc = "stop" /\ updater.todo = {} /\ ~updater.ok =>
        \A d \in Devices : localTunnels[d] # 0 =>
            tunnels[d] = 0 /\ localTunnels[d] \notin open

\* tunnel_api.go, TunnelManager: "starts tunnels for devices when needed (if no
\* tunnel is running yet)".  A device that stays connected gets a tunnel after
\* failures, removals and list errors.  The tunnel may have died since (see
\* TunnelsComeBack), and the agent may be shut down or out of ports.
DeviceGetsTunnel ==
    \A d \in Filter \ Network :
        d \in connected ~> \/ tunnels[d] \in open \cup dead \/ d \notin connected
                           \/ closer.pc # "idle" \/ ~ValidPort

\* tunnel_api.go, UpdateTunnels: "On device disconnects the tunnel resources get
\* cleaned up".
DisconnectCleansUp ==
    \A d \in Devices :
        d \notin connected ~> d \in connected \/ \A t \in open : owner[t] # d

\* userspace_tunnel.go: when the data plane has stopped, "Auto-recreation is the
\* TunnelManager's job once the tunnel is gone".
TunnelsComeBack ==
    \A d \in Filter \ Network :
        (d \in connected /\ tunnels[d] \in dead) ~>
            (d \notin connected \/ tunnels[d] \notin dead \/ closer.pc # "idle")
===============================================================================
