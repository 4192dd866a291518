-------------------------- MODULE TunnelManagerProofs --------------------------
(***************************************************************************)
(* The tunnel manager forgets no tunnel, for any number of devices and     *)
(* clients.  The argument: while an update runs, the tunnel map differs    *)
(* from its snapshot in what was removed only, so that the update stores   *)
(* and stops nothing but what it has seen or started itself.               *)
(***************************************************************************)
EXTENDS TunnelManager, TLAPS

USE ManagerAssumption

-----------------------------------------------------------------------------
(* Type correctness, in parts that a step can leave alone *)

EntriesType ==
    tunnels \in [Devices -> 0..Len(owner)] /\ localTunnels \in [Devices -> 0..Len(owner)]

BackoffType ==
    /\ failedDevices \subseteq Devices /\ holdOff \subseteq failedDevices
    /\ portOffset \in 1..(MaxPort + 2)
    /\ firstUpdateCompleted \in BOOLEAN

UpdaterType ==
    /\ devices \subseteq Devices
    /\ updater \in [pc : {"idle", "list", "scan", "start", "store", "stop", "close"},
                    todo : SUBSET Devices, device : Devices \cup {"none"}, ok : BOOLEAN]
    /\ updater.pc \in {"start", "store", "close"} => updater.device \in Devices

ClientsType ==
    /\ client \in [Clients -> [pc : {"idle", "close", "find", "done"},
                               device : Devices \cup {"none"},
                               old : 0..Len(owner), new : 0..Len(owner)]]
    /\ \A c \in Clients : client[c].pc # "idle" => client[c].device \in Devices

ResourcesType ==
    /\ owner \in Seq(Devices)
    /\ open \subseteq Tunnels /\ dead \subseteq Tunnels
    /\ closer \in [pc : {"idle", "close"}, todo : SUBSET Tunnels]

EnvironmentType == connected \subseteq Devices /\ happened \in 0..MaxEvents

TypeParts ==
    /\ EntriesType /\ BackoffType /\ UpdaterType /\ ClientsType /\ ResourcesType
    /\ EnvironmentType

LEMMA PartsOfType == TypeParts => TypeOK
  BY Zenon DEF TypeOK, TypeParts, EntriesType, BackoffType, UpdaterType, ClientsType, ResourcesType,
     EnvironmentType

LEMMA InitType == ASSUME Init PROVE TypeParts
  <1>1. EntriesType
    BY DEF Init, NoTunnels, EntriesType
  <1>2. failedDevices \subseteq Devices /\ holdOff \subseteq failedDevices
        /\ portOffset \in 1..(MaxPort + 2)
    BY DEF Init
  <1>3. firstUpdateCompleted \in BOOLEAN
    BY Zenon DEF Init
  <1>4. UpdaterType
    BY DEF Init, UpdaterType
  <1>5. ClientsType
    BY DEF Init, ClientsType
  <1>6. ResourcesType
    BY DEF Init, ResourcesType
  <1>7. EnvironmentType
    BY DEF Init, EnvironmentType
  <1> QED
    BY <1>1, <1>2, <1>3, <1>4, <1>5, <1>6, <1>7, Zenon DEF TypeParts, BackoffType

LEMMA EventType ==
    ASSUME EnvironmentType, Event, connected' \subseteq Devices
    PROVE  EnvironmentType'
  BY DEF EnvironmentType, Event

LEMMA StartType ==
    ASSUME TypeParts,
           \/ Snapshot \/ ListDevices \/ ListDevicesFails \/ ScanEnds
           \/ \E d \in Devices : SkipDevice(d) \/ StartTunnel(d)
    PROVE  TypeParts'
  <1> USE DEF TypeParts
  <1>1. CASE Snapshot
    <2>1. UpdaterType'
      BY <1>1 DEF UpdaterType, Snapshot
    <2> QED
      BY <1>1, <2>1 DEF EntriesType, BackoffType, ClientsType, ResourcesType, EnvironmentType,
         Snapshot, maps, resources, environment, Tunnels
  <1>2. CASE ListDevices
    <2>1. UpdaterType'
      BY <1>2 DEF UpdaterType, EnvironmentType, ListDevices
    <2> QED
      BY <1>2, <2>1 DEF EntriesType, BackoffType, ClientsType, ResourcesType, EnvironmentType,
         ListDevices, maps, resources, environment, Tunnels
  <1>3. CASE ListDevicesFails
    <2>1. UpdaterType'
      BY <1>3 DEF UpdaterType, ListDevicesFails, StopAll
    <2>2. EnvironmentType'
      BY <1>3, EventType DEF EnvironmentType, ListDevicesFails
    <2> QED
      BY <1>3, <2>1, <2>2 DEF EntriesType, BackoffType, ClientsType, ResourcesType,
         ListDevicesFails, maps, resources, Tunnels
  <1>4. CASE ScanEnds
    <2>1. UpdaterType'
      BY <1>4 DEF UpdaterType, ScanEnds, Gone
    <2> QED
      BY <1>4, <2>1 DEF EntriesType, BackoffType, ClientsType, ResourcesType, EnvironmentType,
         ScanEnds, maps, resources, environment, Tunnels
  <1>5. ASSUME NEW d \in Devices, SkipDevice(d)
        PROVE  TypeParts'
    <2>1. UpdaterType'
      BY <1>5 DEF UpdaterType, SkipDevice
    <2> QED
      BY <1>5, <2>1 DEF EntriesType, BackoffType, ClientsType, ResourcesType, EnvironmentType,
         SkipDevice, maps, resources, environment, Tunnels
  <1>6. ASSUME NEW d \in Devices, StartTunnel(d)
        PROVE  TypeParts'
    <2>1. UpdaterType'
      BY <1>6 DEF UpdaterType, StartTunnel
    <2>2. portOffset' = portOffset \/ (portOffset <= MaxPort + 1 /\ portOffset' = portOffset + 1)
      BY <1>6, Zenon DEF StartTunnel
    <2>3. portOffset' \in 1..(MaxPort + 2)
      BY <2>2 DEF BackoffType
    <2> QED
      BY <1>6, <2>1, <2>3 DEF EntriesType, BackoffType, ClientsType, ResourcesType,
         EnvironmentType, StartTunnel, resources, environment, Tunnels
  <1> QED
    BY <1>1, <1>2, <1>3, <1>4, <1>5, <1>6

LEMMA StartSucceedsType ==
    ASSUME TypeParts, StartTunnelSucceeds
    PROVE  TypeParts'
  <1> USE DEF TypeParts
  <1>1. owner' \in Seq(Devices) /\ Len(owner) \in Nat /\ Len(owner') = Len(owner) + 1
    <2>1. updater.device \in Devices
      BY DEF EnvironmentType, StartTunnelSucceeds
    <2> QED
      BY <2>1 DEF ResourcesType, StartTunnelSucceeds
  <1>2. 0..Len(owner) \subseteq 0..Len(owner') /\ Tunnels \subseteq Tunnels'
    BY <1>1 DEF Tunnels
  <1>3. EntriesType'
    BY <1>2 DEF EntriesType, StartTunnelSucceeds, maps
  <1>4. ClientsType'
    BY <1>2 DEF ClientsType, StartTunnelSucceeds
  <1>5. open' \subseteq Tunnels' /\ dead' \subseteq Tunnels'
    BY <1>1, <1>2 DEF ResourcesType, StartTunnelSucceeds, Tunnels
  <1>6. closer' \in [pc : {"idle", "close"}, todo : SUBSET Tunnels']
    BY <1>2 DEF ResourcesType, StartTunnelSucceeds
  <1>7. UpdaterType'
    BY DEF UpdaterType, StartTunnelSucceeds
  <1>8. BackoffType' /\ EnvironmentType'
    BY DEF BackoffType, EnvironmentType, StartTunnelSucceeds, maps, environment
  <1> QED
    BY <1>1, <1>3, <1>4, <1>5, <1>6, <1>7, <1>8 DEF ResourcesType

\* The steps of an update that change the maps or the resources.
LEMMA ChangeType ==
    ASSUME TypeParts,
           \/ StartTunnelFails \/ StoreTunnel \/ CloseStoppedTunnel \/ UpdateEnds
           \/ \E d \in Devices : StopTunnel(d)
    PROVE  TypeParts'
  <1> USE DEF TypeParts
  <1>1. CASE StartTunnelFails
    <2>1. UpdaterType' /\ updater.device \in Devices
      BY <1>1 DEF UpdaterType, StartTunnelFails
    <2>2. EnvironmentType'
      <3>1. CASE Event
        BY <1>1, <3>1, EventType DEF EnvironmentType, StartTunnelFails
      <3>2. CASE UNCHANGED happened
        BY <1>1, <3>2 DEF EnvironmentType, StartTunnelFails
      <3> QED
        BY <1>1, <3>1, <3>2, Zenon DEF StartTunnelFails
    <2>3. BackoffType'
      BY <1>1, <2>1 DEF BackoffType, StartTunnelFails
    <2>4. EntriesType' /\ ClientsType' /\ ResourcesType'
      BY <1>1 DEF EntriesType, ClientsType, ResourcesType, StartTunnelFails, resources, Tunnels
    <2> QED
      BY <2>1, <2>2, <2>3, <2>4
  <1>2. CASE StoreTunnel
    <2>1. UpdaterType' /\ updater.device \in Devices
      BY <1>2 DEF UpdaterType, StoreTunnel
    <2>2. BackoffType'
      BY <1>2, <2>1 DEF BackoffType, StoreTunnel
    <2>3. Len(owner) \in 0..Len(owner)
      BY DEF ResourcesType
    <2>4. EntriesType'
      <3>1. owner' = owner
        BY <1>2 DEF StoreTunnel, resources
      <3>2. tunnels' = [tunnels EXCEPT ![updater.device] = Len(owner)]
            /\ localTunnels' = [localTunnels EXCEPT ![updater.device] = Len(owner)]
        BY <1>2 DEF StoreTunnel, WithTunnel
      <3>3. tunnels' \in [Devices -> 0..Len(owner)]
        BY <2>1, <2>3, <3>2 DEF EntriesType
      <3>4. localTunnels' \in [Devices -> 0..Len(owner)]
        BY <2>1, <2>3, <3>2 DEF EntriesType
      <3> QED
        BY <3>1, <3>3, <3>4 DEF EntriesType
    <2>5. ClientsType' /\ ResourcesType' /\ EnvironmentType'
      BY <1>2 DEF ClientsType, ResourcesType, EnvironmentType, StoreTunnel, resources, Tunnels,
         environment
    <2> QED
      BY <2>1, <2>2, <2>4, <2>5
  <1>3. CASE CloseStoppedTunnel
    <2>1. UpdaterType' /\ ResourcesType'
      BY <1>3 DEF UpdaterType, ResourcesType, CloseStoppedTunnel, Tunnels
    <2> QED
      BY <1>3, <2>1 DEF EntriesType, BackoffType, ClientsType, EnvironmentType,
         CloseStoppedTunnel, maps, environment
  <1>4. CASE UpdateEnds
    <2>1. UpdaterType'
      BY <1>4 DEF UpdaterType, UpdateEnds
    <2>2. failedDevices' \subseteq Devices /\ holdOff' \subseteq failedDevices'
          /\ portOffset' \in 1..(MaxPort + 2)
      BY <1>4 DEF BackoffType, UpdateEnds
    <2>3. firstUpdateCompleted' \in BOOLEAN
      BY <1>4, Zenon DEF BackoffType, UpdateEnds
    <2>4. EntriesType' /\ ClientsType' /\ ResourcesType' /\ EnvironmentType'
      BY <1>4 DEF EntriesType, ClientsType, ResourcesType, EnvironmentType, UpdateEnds, resources,
         environment, Tunnels
    <2> QED
      BY <2>1, <2>2, <2>3, <2>4, Zenon DEF BackoffType
  <1>5. ASSUME NEW d \in Devices, StopTunnel(d)
        PROVE  TypeParts'
    <2>1. UpdaterType'
      BY <1>5 DEF UpdaterType, StopTunnel
    <2>2. EntriesType'
      <3>1. 0 \in 0..Len(owner)
        BY DEF ResourcesType
      <3>2. owner' = owner /\ localTunnels' = localTunnels
            /\ tunnels' = [tunnels EXCEPT ![d] = 0]
        BY <1>5 DEF StopTunnel, WithoutTunnel, resources
      <3>3. tunnels' \in [Devices -> 0..Len(owner)]
        BY <3>1, <3>2 DEF EntriesType
      <3> QED
        BY <3>2, <3>3, Zenon DEF EntriesType
    <2> QED
      BY <1>5, <2>1, <2>2 DEF BackoffType, ClientsType, ResourcesType, EnvironmentType, StopTunnel,
         resources, environment, Tunnels
  <1> QED
    BY <1>1, <1>2, <1>3, <1>4, <1>5

LEMMA ClientType ==
    ASSUME TypeParts, NEW c \in Clients,
           \/ \E d \in Devices : RemoveTunnel(c, d)
           \/ CloseRemovedTunnel(c) \/ FindTunnel(c) \/ GiveUp(c)
    PROVE  TypeParts'
  <1> USE DEF TypeParts
  <1>1. ASSUME NEW d \in Devices, RemoveTunnel(c, d)
        PROVE  TypeParts'
    <2>1. tunnels[d] \in 0..Len(owner) /\ 0 \in 0..Len(owner) /\ owner' = owner
      BY <1>1 DEF EntriesType, ResourcesType, RemoveTunnel, resources
    <2>2. EntriesType'
      BY <1>1, <2>1 DEF EntriesType, RemoveTunnel, WithoutTunnel, update
    <2>3. ClientsType'
      BY <1>1, <2>1 DEF ClientsType, RemoveTunnel
    <2>4. EnvironmentType'
      BY <1>1, EventType DEF EnvironmentType, RemoveTunnel
    <2> QED
      BY <1>1, <2>2, <2>3, <2>4 DEF BackoffType, UpdaterType, ResourcesType, RemoveTunnel, update,
         resources, Tunnels
  <1>2. CASE CloseRemovedTunnel(c)
    <2>1. ClientsType' /\ ResourcesType'
      BY <1>2 DEF ClientsType, ResourcesType, CloseRemovedTunnel, Tunnels
    <2> QED
      BY <1>2, <2>1 DEF EntriesType, BackoffType, UpdaterType, EnvironmentType,
         CloseRemovedTunnel, maps, update, environment
  <1>3. CASE FindTunnel(c)
    <2>1. tunnels[client[c].device] \in 0..Len(owner)
      BY <1>3 DEF EntriesType, ClientsType, FindTunnel
    <2>2. ClientsType'
      BY <1>3, <2>1 DEF ClientsType, FindTunnel, resources
    <2> QED
      BY <1>3, <2>2 DEF EntriesType, BackoffType, UpdaterType, ResourcesType, EnvironmentType,
         FindTunnel, maps, update, resources, environment, Tunnels
  <1>4. CASE GiveUp(c)
    <2>1. ClientsType'
      BY <1>4 DEF ClientsType, GiveUp, resources
    <2> QED
      BY <1>4, <2>1 DEF EntriesType, BackoffType, UpdaterType, ResourcesType, EnvironmentType,
         GiveUp, maps, update, resources, environment, Tunnels
  <1> QED
    BY <1>1, <1>2, <1>3, <1>4

LEMMA OutsideType ==
    ASSUME TypeParts,
           \/ Shutdown \/ \E t \in closer.todo : CloseListedTunnel(t)
           \/ \E t \in open : TunnelDies(t)
           \/ \E d \in Devices : BackoffElapses(d) \/ Plug(d) \/ Unplug(d)
    PROVE  TypeParts'
  <1> USE DEF TypeParts
  <1>1. CASE Shutdown
    <2>1. ListTunnels \subseteq Tunnels
      BY DEF EntriesType, ResourcesType, ListTunnels, Tunnels
    <2>2. ResourcesType'
      BY <1>1, <2>1 DEF ResourcesType, Shutdown, resources, Tunnels
    <2> QED
      BY <1>1, <2>2 DEF EntriesType, BackoffType, UpdaterType, ClientsType, EnvironmentType,
         Shutdown, maps, update, resources, environment
  <1>2. ASSUME NEW t \in closer.todo, CloseListedTunnel(t)
        PROVE  TypeParts'
    <2>1. ResourcesType'
      BY <1>2 DEF ResourcesType, CloseListedTunnel, Tunnels
    <2> QED
      BY <1>2, <2>1 DEF EntriesType, BackoffType, UpdaterType, ClientsType, EnvironmentType,
         CloseListedTunnel, maps, update, environment
  <1>3. ASSUME NEW t \in open, TunnelDies(t)
        PROVE  TypeParts'
    <2>1. open' \subseteq open /\ dead' \subseteq open \cup dead
      BY <1>3, Zenon DEF TunnelDies
    <2>2. ResourcesType'
      BY <1>3, <2>1 DEF ResourcesType, TunnelDies, Tunnels
    <2> QED
      BY <1>3, <2>2 DEF EntriesType, BackoffType, UpdaterType, ClientsType, EnvironmentType,
         TunnelDies, maps, update, environment
  <1>4. ASSUME NEW d \in Devices, BackoffElapses(d)
        PROVE  TypeParts'
    BY <1>4 DEF EntriesType, BackoffType, UpdaterType, ClientsType, ResourcesType,
       EnvironmentType, BackoffElapses, update, resources, environment, Tunnels
  <1>5. ASSUME NEW d \in Devices, Plug(d) \/ Unplug(d)
        PROVE  TypeParts'
    <2>1. EnvironmentType'
      BY <1>5, EventType DEF EnvironmentType, Plug, Unplug
    <2> QED
      BY <1>5, <2>1 DEF EntriesType, BackoffType, UpdaterType, ClientsType, ResourcesType,
         Plug, Unplug, maps, update, resources, Tunnels
  <1> QED
    BY <1>1, <1>2, <1>3, <1>4, <1>5

LEMMA TypeInductive ==
    ASSUME TypeParts, [Next]_vars
    PROVE  TypeParts'
  <1>1. CASE Next
    BY <1>1, StartType, StartSucceedsType, ChangeType, ClientType, OutsideType, Zenon
       DEF Next, UpdateStep
  <1>2. CASE UNCHANGED vars
    BY <1>2, Zenon DEF vars, maps, update, resources, environment, TypeParts, EntriesType,
       BackoffType, UpdaterType, ClientsType, ResourcesType, EnvironmentType, Tunnels
  <1> QED
    BY <1>1, <1>2

\* tunnel_api.go, TunnelManager: the maps, the snapshot and the tunnels in
\* hand keep their types through every interleaving.
THEOREM TypeCorrect == Spec => []TypeOK
  <1>1. Spec => []TypeParts
    BY InitType, TypeInductive, PTL DEF Spec
  <1> QED
    BY <1>1, PartsOfType, PTL

-----------------------------------------------------------------------------
(* The invariant behind the three safety properties *)

\* Since its snapshot, entries have been removed only, but for the update's own.
SnapshotAgrees ==
    updater.pc # "idle" => \A d \in Devices : tunnels[d] \in {0, localTunnels[d]}

\* A tunnel is started for a device that has none.
NothingReplaced ==
    updater.pc \in {"start", "store"} => localTunnels[updater.device] = 0

\* The tunnel about to be stored is its device's, and nobody has seen it.
StoredIsNew ==
    updater.pc = "store" =>
        /\ Len(owner) > 0 /\ owner[Len(owner)] = updater.device
        /\ \A d \in Devices : tunnels[d] # Len(owner)
        /\ \A c \in Clients : client[c].old # Len(owner)

\* A removed tunnel does not come back to the map.
Refreshing ==
    \A c \in Clients :
        /\ client[c].pc \in {"close", "find"} /\ client[c].old # 0 =>
               tunnels[client[c].device] # client[c].old
        /\ client[c].pc = "done" => client[c].new # client[c].old

\* After a list error, every tunnel of the snapshot that the update has passed
\* is stopped; at most the one it has in hand is still open.
ScanIsOk == updater.pc \in {"scan", "start", "store"} => updater.ok
Stopped(d) ==
    /\ tunnels[d] = 0
    /\ localTunnels[d] \in open => updater.pc = "close" /\ d = updater.device
Stopping ==
    updater.pc \in {"stop", "close"} /\ ~updater.ok =>
        \A d \in Devices \ updater.todo : localTunnels[d] # 0 => Stopped(d)

Kept == \A t \in open : Listed(t) \/ InHand(t)
Owned == \A d \in Devices : tunnels[d] # 0 => owner[tunnels[d]] = d

Safe ==
    /\ SnapshotAgrees /\ NothingReplaced /\ StoredIsNew /\ Refreshing
    /\ ScanIsOk /\ Stopping /\ Kept /\ Owned

LEMMA InitSafe == ASSUME Init PROVE Safe
  <1>1. SnapshotAgrees /\ NothingReplaced /\ StoredIsNew
    BY DEF Init, SnapshotAgrees, NothingReplaced, StoredIsNew
  <1>2. Refreshing
    BY DEF Init, Refreshing
  <1>3. ScanIsOk /\ Stopping
    BY DEF Init, ScanIsOk, Stopping
  <1>4. Kept /\ Owned
    BY DEF Init, NoTunnels, Kept, Owned
  <1> QED
    BY <1>1, <1>2, <1>3, <1>4 DEF Safe

\* Closing tunnels disturbs nothing.
LEMMA SafeCloses ==
    ASSUME Safe, open' \subseteq open,
           UNCHANGED <<tunnels, localTunnels, updater, client, owner>>
    PROVE  Safe'
  <1>1. SnapshotAgrees' /\ NothingReplaced' /\ StoredIsNew' /\ Refreshing' /\ ScanIsOk' /\ Owned'
    BY Zenon DEF Safe, SnapshotAgrees, NothingReplaced, StoredIsNew, Refreshing, ScanIsOk, Owned
  <1>2. Stopping'
    BY Zenon DEF Safe, Stopping, Stopped
  <1>3. Kept'
    BY Zenon DEF Safe, Kept, Listed, InHand
  <1> QED
    BY <1>1, <1>2, <1>3, Zenon DEF Safe

\* Nor does an update that moves on with no tunnel in hand.
LEMMA UpdaterMoves ==
    ASSUME Safe, UNCHANGED <<tunnels, localTunnels, client, owner, open>>,
           updater.pc \notin {"idle", "store", "close"}, updater'.pc \notin {"store", "close"},
           NothingReplaced', ScanIsOk', Stopping'
    PROVE  Safe'
  <1>1. SnapshotAgrees' /\ StoredIsNew'
    BY DEF Safe, SnapshotAgrees, StoredIsNew
  <1>2. Refreshing' /\ Owned'
    BY Zenon DEF Safe, Refreshing, Owned
  <1>3. Kept'
    BY Zenon DEF Safe, Kept, Listed, InHand
  <1> QED
    BY <1>1, <1>2, <1>3, Zenon DEF Safe

LEMMA ScanSafe ==
    ASSUME TypeParts, Safe,
           \/ ListDevices \/ ListDevicesFails \/ ScanEnds \/ StartTunnelFails \/ UpdateEnds
           \/ \E d \in Devices : SkipDevice(d) \/ StartTunnel(d)
    PROVE  Safe'
  <1> USE DEF TypeParts
  <1>1. CASE ListDevices
    <2>1. updater.pc = "list" /\ updater'.pc = "scan" /\ updater'.ok = TRUE
      BY <1>1 DEF UpdaterType, ListDevices
    <2>2. UNCHANGED <<tunnels, localTunnels, client, owner, open>>
      BY <1>1 DEF ListDevices, maps, resources
    <2>3. ScanIsOk'
      BY <2>1, Zenon DEF ScanIsOk
    <2>4. NothingReplaced' /\ Stopping'
      BY <2>1 DEF NothingReplaced, Stopping
    <2> QED
      BY <2>1, <2>2, <2>3, <2>4, UpdaterMoves
  <1>2. CASE ListDevicesFails
    <2>1. updater.pc = "list" /\ updater'.pc = "stop" /\ updater'.todo = StopAll
      BY <1>2 DEF UpdaterType, ListDevicesFails
    <2>2. UNCHANGED <<tunnels, localTunnels, client, owner, open>>
      BY <1>2 DEF ListDevicesFails, maps, resources
    <2>3. Stopping'
      BY <2>1, <2>2 DEF Stopping, StopAll
    <2>4. NothingReplaced' /\ ScanIsOk'
      BY <2>1 DEF NothingReplaced, ScanIsOk
    <2> QED
      BY <2>1, <2>2, <2>3, <2>4, UpdaterMoves
  <1>3. CASE ScanEnds
    <2>1. updater.pc = "scan" /\ updater'.pc = "stop" /\ updater'.ok = updater.ok
      BY <1>3 DEF UpdaterType, ScanEnds
    <2>2. UNCHANGED <<tunnels, localTunnels, client, owner, open>>
      BY <1>3 DEF ScanEnds, maps, resources
    <2>3. updater'.ok
      BY <2>1, Zenon DEF Safe, ScanIsOk
    <2>4. NothingReplaced' /\ ScanIsOk'
      BY <2>1 DEF NothingReplaced, ScanIsOk
    <2>5. Stopping'
      BY <2>3, Zenon DEF Stopping
    <2> QED
      BY <2>1, <2>2, <2>4, <2>5, UpdaterMoves
  <1>4. CASE StartTunnelFails
    <2>1. updater.pc = "start" /\ updater'.pc = "scan" /\ updater'.ok = updater.ok
      BY <1>4 DEF UpdaterType, StartTunnelFails
    <2>2. UNCHANGED <<tunnels, localTunnels, client, owner, open>>
      BY <1>4 DEF StartTunnelFails, resources
    <2>3. ScanIsOk'
      BY <2>1, Zenon DEF Safe, ScanIsOk
    <2>4. NothingReplaced' /\ Stopping'
      BY <2>1 DEF NothingReplaced, Stopping
    <2> QED
      BY <2>1, <2>2, <2>3, <2>4, UpdaterMoves
  <1>5. CASE UpdateEnds
    <2>1. updater.pc = "stop" /\ updater'.pc = "idle"
      BY <1>5 DEF UpdaterType, UpdateEnds
    <2>2. UNCHANGED <<tunnels, localTunnels, client, owner, open>>
      BY <1>5 DEF UpdateEnds, resources
    <2>3. NothingReplaced' /\ ScanIsOk' /\ Stopping'
      BY <2>1 DEF NothingReplaced, ScanIsOk, Stopping
    <2> QED
      BY <2>1, <2>2, <2>3, UpdaterMoves
  <1>6. ASSUME NEW d \in Devices, SkipDevice(d)
        PROVE  Safe'
    <2>1. updater.pc = "scan" /\ updater'.pc = "scan" /\ updater'.ok = updater.ok
      BY <1>6 DEF UpdaterType, SkipDevice
    <2>2. UNCHANGED <<tunnels, localTunnels, client, owner, open>>
      BY <1>6 DEF SkipDevice, maps, resources
    <2>3. ScanIsOk'
      BY <2>1, Zenon DEF Safe, ScanIsOk
    <2>4. NothingReplaced' /\ Stopping'
      BY <2>1 DEF NothingReplaced, Stopping
    <2> QED
      BY <2>1, <2>2, <2>3, <2>4, UpdaterMoves
  <1>7. ASSUME NEW d \in Devices, StartTunnel(d)
        PROVE  Safe'
    <2>1. updater.pc = "scan" /\ updater'.pc = "start" /\ updater'.ok = updater.ok
          /\ updater'.device = d
      BY <1>7 DEF UpdaterType, StartTunnel
    <2>2. UNCHANGED <<tunnels, localTunnels, client, owner, open>>
      BY <1>7 DEF StartTunnel, resources
    <2>3. ScanIsOk'
      BY <2>1, Zenon DEF Safe, ScanIsOk
    <2>4. localTunnels[d] = 0
      BY <1>7 DEF StartTunnel, Exists
    <2>5. NothingReplaced' /\ Stopping'
      BY <2>1, <2>2, <2>4 DEF NothingReplaced, Stopping
    <2> QED
      BY <2>1, <2>2, <2>3, <2>5, UpdaterMoves
  <1> QED
    BY <1>1, <1>2, <1>3, <1>4, <1>5, <1>6, <1>7

LEMMA SnapshotSafe ==
    ASSUME TypeParts, Safe, Snapshot
    PROVE  Safe'
  <1> USE DEF TypeParts
  <1>1. updater.pc = "idle" /\ updater'.pc = "list" /\ localTunnels' = tunnels
    BY DEF UpdaterType, Snapshot
  <1>2. UNCHANGED <<tunnels, client, owner, open>>
    BY DEF Snapshot, maps, resources
  <1>3. SnapshotAgrees' /\ NothingReplaced' /\ StoredIsNew' /\ ScanIsOk' /\ Stopping'
    BY <1>1, <1>2 DEF SnapshotAgrees, NothingReplaced, StoredIsNew, ScanIsOk, Stopping
  <1>4. Refreshing' /\ Owned'
    BY <1>2, Zenon DEF Safe, Refreshing, Owned
  <1>5. Kept'
    BY <1>1, <1>2, Zenon DEF Safe, Kept, Listed, InHand
  <1> QED
    BY <1>3, <1>4, <1>5, Zenon DEF Safe

LEMMA StartSucceedsSafe ==
    ASSUME TypeParts, Safe, StartTunnelSucceeds
    PROVE  Safe'
  <1> USE DEF TypeParts
  <1>1. updater.pc = "start" /\ updater'.pc = "store" /\ updater'.ok = updater.ok
        /\ updater'.device = updater.device /\ updater.device \in Devices
    BY DEF UpdaterType, StartTunnelSucceeds
  <1>2. UNCHANGED <<tunnels, localTunnels, client>> /\ open' = open \cup {Len(owner) + 1}
    BY DEF StartTunnelSucceeds, maps
  <1>3. Len(owner) \in Nat /\ Len(owner') = Len(owner) + 1 /\ owner'[Len(owner')] = updater.device
        /\ \A t \in 1..Len(owner) : owner'[t] = owner[t]
    BY <1>1 DEF ResourcesType, StartTunnelSucceeds
  <1>4. SnapshotAgrees' /\ NothingReplaced'
    BY <1>1, <1>2 DEF Safe, SnapshotAgrees, NothingReplaced
  <1>5. StoredIsNew'
    <2>1. \A d \in Devices : tunnels[d] \in 0..Len(owner)
      BY DEF EntriesType
    <2>2. \A c \in Clients : client[c].old \in 0..Len(owner)
      BY DEF ClientsType
    <2> QED
      BY <1>1, <1>2, <1>3, <2>1, <2>2 DEF StoredIsNew
  <1>6. Refreshing'
    BY <1>2, Zenon DEF Safe, Refreshing
  <1>7. ScanIsOk'
    BY <1>1, Zenon DEF Safe, ScanIsOk
  <1>8. Stopping'
    BY <1>1 DEF Stopping
  <1>9. Kept'
    <2>1. ASSUME NEW t \in open
          PROVE  (Listed(t) \/ InHand(t))'
      <3>1. Listed(t) \/ \E c \in Clients : client[c].pc = "close" /\ client[c].old = t
        BY <1>1 DEF Safe, Kept, InHand
      <3> QED
        BY <1>2, <3>1, Zenon DEF Listed, InHand
    <2>2. InHand(Len(owner))'
      BY <1>1 DEF InHand
    <2>3. open' = open \cup {Len(owner')}
      BY <1>2, <1>3
    <2> QED
      BY <2>1, <2>2, <2>3, Zenon DEF Kept
  <1>10. Owned'
    <2>1. ASSUME NEW d \in Devices, tunnels[d] # 0
          PROVE  owner'[tunnels[d]] = d
      <3>1. tunnels[d] \in 1..Len(owner)
        BY <1>3, <2>1 DEF EntriesType
      <3> QED
        BY <1>3, <2>1, <3>1 DEF Safe, Owned
    <2> QED
      BY <1>2, <2>1 DEF Owned
  <1> QED
    BY <1>4, <1>5, <1>6, <1>7, <1>8, <1>9, <1>10, Zenon DEF Safe

\* The device has no entry that the new tunnel would replace.
LEMMA StoreSafe ==
    ASSUME TypeParts, Safe, StoreTunnel
    PROVE  Safe'
  <1> USE DEF TypeParts
  <1> DEFINE d == updater.device
             new == Len(owner)
  <1>1. updater.pc = "store" /\ updater'.pc = "scan" /\ updater'.ok = updater.ok /\ d \in Devices
    BY DEF UpdaterType, StoreTunnel
  <1>2. UNCHANGED <<client, owner, open>>
    BY DEF StoreTunnel, resources
  <1>3. /\ tunnels' = [tunnels EXCEPT ![d] = new]
        /\ localTunnels' = [localTunnels EXCEPT ![d] = new]
    BY DEF StoreTunnel, WithTunnel
  <1>4. /\ tunnels'[d] = new /\ localTunnels'[d] = new
        /\ \A e \in Devices \ {d} : tunnels'[e] = tunnels[e] /\ localTunnels'[e] = localTunnels[e]
    BY <1>1, <1>3 DEF EntriesType
  <1>5. tunnels[d] = 0
    BY <1>1 DEF Safe, SnapshotAgrees, NothingReplaced
  <1>6. new > 0 /\ owner[new] = d /\ \A c \in Clients : client[c].old # new
    BY <1>1 DEF Safe, StoredIsNew
  <1> HIDE DEF d, new
  <1>7. SnapshotAgrees'
    BY <1>1, <1>4 DEF Safe, SnapshotAgrees
  <1>8. NothingReplaced' /\ StoredIsNew' /\ Stopping'
    BY <1>1 DEF NothingReplaced, StoredIsNew, Stopping
  <1>9. Refreshing'
    <2>1. ASSUME NEW c \in Clients, client[c].pc \in {"close", "find"}, client[c].old # 0
          PROVE  tunnels'[client[c].device] # client[c].old
      <3>1. client[c].device \in Devices /\ tunnels[client[c].device] # client[c].old
        BY <2>1 DEF ClientsType, Safe, Refreshing
      <3> QED
        BY <1>4, <1>6, <3>1
    <2> QED
      BY <1>2, <2>1 DEF Safe, Refreshing
  <1>10. ScanIsOk'
    BY <1>1, Zenon DEF Safe, ScanIsOk
  <1>11. Kept'
    <2>1. ASSUME NEW t \in open
          PROVE  (Listed(t) \/ InHand(t))'
      <3>1. CASE t = new
        BY <1>1, <1>4, <3>1 DEF Listed
      <3>2. CASE \E e \in Devices : tunnels[e] = t
        <4>1. t # 0
          BY DEF ResourcesType, Tunnels
        <4> QED
          BY <1>4, <1>5, <3>2, <4>1 DEF Listed
      <3>3. CASE \E c \in Clients : client[c].pc = "close" /\ client[c].old = t
        BY <1>2, <3>3, Zenon DEF InHand
      <3> QED
        BY <1>1, <3>1, <3>2, <3>3 DEF Safe, Kept, Listed, InHand, new
    <2> QED
      BY <1>2, <2>1 DEF Kept
  <1>12. Owned'
    BY <1>2, <1>4, <1>6 DEF Safe, Owned
  <1> QED
    BY <1>7, <1>8, <1>9, <1>10, <1>11, <1>12, Zenon DEF Safe

\* The tunnel removed from the map is the one of the snapshot, which is in hand.
LEMMA StopSafe ==
    ASSUME TypeParts, Safe, NEW d \in Devices, StopTunnel(d)
    PROVE  Safe'
  <1> USE DEF TypeParts
  <1>1. updater.pc = "stop" /\ updater'.pc = "close" /\ updater'.ok = updater.ok
        /\ updater'.device = d /\ updater'.todo = updater.todo \ {d}
    BY DEF UpdaterType, StopTunnel
  <1>2. UNCHANGED <<localTunnels, client, owner, open>>
    BY DEF StopTunnel, resources
  <1>3. tunnels'[d] = 0 /\ \A e \in Devices \ {d} : tunnels'[e] = tunnels[e]
    BY DEF EntriesType, StopTunnel, WithoutTunnel
  <1>4. SnapshotAgrees'
    BY <1>1, <1>2, <1>3 DEF Safe, SnapshotAgrees
  <1>5. NothingReplaced' /\ StoredIsNew' /\ ScanIsOk'
    BY <1>1 DEF NothingReplaced, StoredIsNew, ScanIsOk
  <1>6. Refreshing'
    <2>1. ASSUME NEW c \in Clients, client[c].pc \in {"close", "find"}, client[c].old # 0
          PROVE  tunnels'[client[c].device] # client[c].old
      <3>1. client[c].device \in Devices /\ tunnels[client[c].device] # client[c].old
        BY <2>1 DEF ClientsType, Safe, Refreshing
      <3> QED
        BY <1>3, <2>1, <3>1
    <2> QED
      BY <1>2, <2>1 DEF Safe, Refreshing
  <1>7. Stopping'
    <2>1. ASSUME ~updater.ok, NEW e \in Devices \ updater'.todo, localTunnels[e] # 0
          PROVE  Stopped(e)'
      <3>1. CASE e = d
        BY <1>1, <1>3, <3>1 DEF Stopped
      <3>2. CASE e # d
        <4>1. e \in Devices \ updater.todo
          BY <1>1, <3>2
        <4>2. Stopped(e)
          BY <1>1, <2>1, <4>1 DEF Safe, Stopping
        <4> QED
          BY <1>1, <1>2, <1>3, <3>2, <4>2 DEF Stopped
      <3> QED
        BY <3>1, <3>2
    <2> QED
      BY <1>1, <1>2, <2>1 DEF Stopping
  <1>8. Kept'
    <2>1. ASSUME NEW t \in open
          PROVE  (Listed(t) \/ InHand(t))'
      <3>1. CASE Listed(t)
        <4>1. CASE tunnels[d] = t
          <5>1. t # 0
            BY DEF ResourcesType, Tunnels
          <5>2. t = localTunnels[d]
            BY <1>1, <4>1, <5>1 DEF Safe, SnapshotAgrees
          <5> QED
            BY <1>1, <1>2, <5>2 DEF InHand
        <4>2. CASE tunnels[d] # t
          BY <1>3, <3>1, <4>2 DEF Listed
        <4> QED
          BY <4>1, <4>2
      <3>2. CASE \E c \in Clients : client[c].pc = "close" /\ client[c].old = t
        BY <1>2, <3>2, Zenon DEF InHand
      <3> QED
        BY <1>1, <3>1, <3>2 DEF Safe, Kept, InHand
    <2> QED
      BY <1>2, <2>1 DEF Kept
  <1>9. Owned'
    BY <1>2, <1>3 DEF Safe, Owned
  <1> QED
    BY <1>4, <1>5, <1>6, <1>7, <1>8, <1>9, Zenon DEF Safe

LEMMA CloseStoppedSafe ==
    ASSUME TypeParts, Safe, CloseStoppedTunnel
    PROVE  Safe'
  <1> USE DEF TypeParts
  <1>1. updater.pc = "close" /\ updater'.pc = "stop" /\ updater'.ok = updater.ok
        /\ updater'.device = updater.device /\ updater'.todo = updater.todo
    BY DEF UpdaterType, CloseStoppedTunnel
  <1>2. UNCHANGED <<tunnels, localTunnels, client, owner>>
        /\ open' = open \ {localTunnels[updater.device]}
    BY DEF CloseStoppedTunnel, maps
  <1>3. SnapshotAgrees' /\ NothingReplaced' /\ StoredIsNew' /\ ScanIsOk'
    BY <1>1, <1>2 DEF Safe, SnapshotAgrees, NothingReplaced, StoredIsNew, ScanIsOk
  <1>4. Refreshing' /\ Owned'
    BY <1>2, Zenon DEF Safe, Refreshing, Owned
  <1>5. Stopping'
    <2>1. ASSUME ~updater.ok, NEW e \in Devices \ updater.todo, localTunnels[e] # 0
          PROVE  Stopped(e)'
      <3>1. Stopped(e)
        BY <1>1, <2>1 DEF Safe, Stopping
      <3> QED
        BY <1>2, <3>1 DEF Stopped
    <2> QED
      BY <1>1, <1>2, <2>1 DEF Stopping
  <1>6. Kept'
    <2>1. ASSUME NEW t \in open, t # localTunnels[updater.device]
          PROVE  (Listed(t) \/ InHand(t))'
      <3>1. Listed(t) \/ \E c \in Clients : client[c].pc = "close" /\ client[c].old = t
        BY <1>1, <2>1 DEF Safe, Kept, InHand
      <3> QED
        BY <1>2, <3>1, Zenon DEF Listed, InHand
    <2> QED
      BY <1>2, <2>1 DEF Kept
  <1> QED
    BY <1>3, <1>4, <1>5, <1>6, Zenon DEF Safe

\* What a client removes from the map it has in hand.
LEMMA RemoveSafe ==
    ASSUME TypeParts, Safe, NEW c \in Clients, NEW d \in Devices, RemoveTunnel(c, d)
    PROVE  Safe'
  <1> USE DEF TypeParts
  <1>1. UNCHANGED <<localTunnels, updater, owner, open>> /\ client[c].pc = "idle"
    BY DEF RemoveTunnel, update, resources
  <1>2. tunnels'[d] = 0 /\ \A e \in Devices \ {d} : tunnels'[e] = tunnels[e]
    BY DEF EntriesType, RemoveTunnel, WithoutTunnel
  <1>3. /\ client'[c].pc = IF tunnels[d] # 0 THEN "close" ELSE "find"
        /\ client'[c].device = d /\ client'[c].old = tunnels[d]
        /\ \A o \in Clients \ {c} : client'[o] = client[o]
    BY DEF ClientsType, RemoveTunnel
  <1>4. SnapshotAgrees' /\ NothingReplaced' /\ ScanIsOk'
    BY <1>1, <1>2 DEF Safe, SnapshotAgrees, NothingReplaced, ScanIsOk
  <1>5. StoredIsNew'
    <2>1. ASSUME updater.pc = "store"
          PROVE  /\ \A e \in Devices : tunnels'[e] # Len(owner)
                 /\ \A o \in Clients : client'[o].old # Len(owner)
      BY <1>2, <1>3, <2>1 DEF Safe, StoredIsNew
    <2> QED
      BY <1>1, <2>1 DEF Safe, StoredIsNew
  <1>6. Refreshing'
    <2>1. ASSUME NEW o \in Clients, client'[o].pc \in {"close", "find"}, client'[o].old # 0
          PROVE  tunnels'[client'[o].device] # client'[o].old
      <3>1. CASE o = c
        BY <1>2, <1>3, <2>1, <3>1
      <3>2. CASE o # c
        <4>1. client'[o] = client[o] /\ client[o].device \in Devices
              /\ tunnels[client[o].device] # client[o].old
          BY <1>3, <2>1, <3>2 DEF ClientsType, Safe, Refreshing
        <4> QED
          BY <1>2, <2>1, <4>1
      <3> QED
        BY <3>1, <3>2
    <2>2. ASSUME NEW o \in Clients, client'[o].pc = "done"
          PROVE  client'[o].new # client'[o].old
      BY <1>3, <2>2 DEF Safe, Refreshing
    <2> QED
      BY <2>1, <2>2 DEF Refreshing
  <1>7. Stopping'
    <2>1. ASSUME NEW e \in Devices, Stopped(e)
          PROVE  Stopped(e)'
      BY <1>1, <1>2, <2>1 DEF Stopped
    <2> QED
      BY <1>1, <2>1, Zenon DEF Safe, Stopping
  <1>8. Kept'
    <2>1. ASSUME NEW t \in open
          PROVE  (Listed(t) \/ InHand(t))'
      <3>1. CASE t = tunnels[d]
        <4>1. t # 0
          BY DEF ResourcesType, Tunnels
        <4> QED
          BY <1>3, <3>1, <4>1 DEF InHand
      <3>2. CASE Listed(t) /\ t # tunnels[d]
        BY <1>2, <3>2 DEF Listed
      <3>3. CASE InHand(t)
        <4>1. ASSUME NEW o \in Clients, client[o].pc = "close"
              PROVE  client'[o] = client[o]
          BY <1>1, <1>3, <4>1
        <4> QED
          BY <1>1, <3>3, <4>1, Zenon DEF InHand
      <3> QED
        BY <3>1, <3>2, <3>3 DEF Safe, Kept
    <2> QED
      BY <1>1, <2>1 DEF Kept
  <1>9. Owned'
    BY <1>1, <1>2 DEF Safe, Owned
  <1> QED
    BY <1>4, <1>5, <1>6, <1>7, <1>8, <1>9, Zenon DEF Safe

LEMMA CloseRemovedSafe ==
    ASSUME TypeParts, Safe, NEW c \in Clients, CloseRemovedTunnel(c)
    PROVE  Safe'
  <1> USE DEF TypeParts
  <1>1. UNCHANGED <<tunnels, localTunnels, updater, owner>> /\ open' = open \ {client[c].old}
        /\ client[c].pc = "close"
    BY DEF CloseRemovedTunnel, maps, update
  <1>2. /\ client'[c].pc = "find" /\ client'[c].device = client[c].device
        /\ client'[c].old = client[c].old
        /\ \A o \in Clients \ {c} : client'[o] = client[o]
    BY DEF ClientsType, CloseRemovedTunnel
  <1>3. SnapshotAgrees' /\ NothingReplaced' /\ ScanIsOk' /\ Owned'
    BY <1>1, Zenon DEF Safe, SnapshotAgrees, NothingReplaced, ScanIsOk, Owned
  <1>4. StoredIsNew'
    BY <1>1, <1>2 DEF Safe, StoredIsNew
  <1>5. Refreshing'
    BY <1>1, <1>2 DEF Safe, Refreshing
  <1>6. Stopping'
    <2>1. ASSUME NEW e \in Devices, Stopped(e)
          PROVE  Stopped(e)'
      BY <1>1, <2>1 DEF Stopped
    <2> QED
      BY <1>1, <2>1, Zenon DEF Safe, Stopping
  <1>7. Kept'
    <2>1. ASSUME NEW t \in open, t # client[c].old
          PROVE  (Listed(t) \/ InHand(t))'
      <3>1. ASSUME NEW o \in Clients, client[o].old = t
            PROVE  client'[o] = client[o]
        BY <1>2, <2>1, <3>1
      <3>2. Listed(t) \/ InHand(t)
        BY DEF Safe, Kept
      <3> QED
        BY <1>1, <3>1, <3>2, Zenon DEF Listed, InHand
    <2> QED
      BY <1>1, <2>1 DEF Kept
  <1> QED
    BY <1>3, <1>4, <1>5, <1>6, <1>7, Zenon DEF Safe

\* The rest of a client's steps: it has no tunnel in hand.
LEMMA ClientMoves ==
    ASSUME TypeParts, Safe, NEW c \in Clients, FindTunnel(c) \/ GiveUp(c)
    PROVE  Safe'
  <1> USE DEF TypeParts
  <1>1. UNCHANGED <<tunnels, localTunnels, updater, owner, open>>
        /\ client[c].pc \in {"find", "done"}
    BY DEF FindTunnel, GiveUp, maps, update, resources
  <1>2. /\ client'[c].pc \in {"idle", "done"} /\ client'[c].old = client[c].old
        /\ client'[c].pc = "done" =>
               client[c].pc = "find" /\ client'[c].new = tunnels[client[c].device]
               /\ tunnels[client[c].device] # 0
        /\ \A o \in Clients \ {c} : client'[o] = client[o]
    BY DEF ClientsType, FindTunnel, GiveUp
  <1>3. SnapshotAgrees' /\ NothingReplaced' /\ ScanIsOk' /\ Owned'
    BY <1>1, Zenon DEF Safe, SnapshotAgrees, NothingReplaced, ScanIsOk, Owned
  <1>4. Stopping'
    BY <1>1, Zenon DEF Safe, Stopping, Stopped
  <1>5. StoredIsNew'
    BY <1>1, <1>2 DEF Safe, StoredIsNew
  <1>6. Refreshing'
    BY <1>1, <1>2 DEF Safe, Refreshing
  <1>7. Kept'
    <2>1. ASSUME NEW t \in open
          PROVE  (Listed(t) \/ InHand(t))'
      <3>1. ASSUME NEW o \in Clients, client[o].pc = "close"
            PROVE  client'[o] = client[o]
        BY <1>1, <1>2, <3>1
      <3>2. Listed(t) \/ InHand(t)
        BY DEF Safe, Kept
      <3> QED
        BY <1>1, <3>1, <3>2, Zenon DEF Listed, InHand
    <2> QED
      BY <1>1, <2>1 DEF Kept
  <1> QED
    BY <1>3, <1>4, <1>5, <1>6, <1>7, Zenon DEF Safe

LEMMA OutsideSafe ==
    ASSUME Safe,
           \/ Shutdown \/ \E t \in closer.todo : CloseListedTunnel(t)
           \/ \E t \in open : TunnelDies(t)
           \/ \E d \in Devices : BackoffElapses(d) \/ Plug(d) \/ Unplug(d)
           \/ UNCHANGED vars
    PROVE  Safe'
  <1>1. UNCHANGED <<tunnels, localTunnels, updater, client, owner>>
    BY DEF Shutdown, CloseListedTunnel, TunnelDies, BackoffElapses, Plug, Unplug, vars, maps,
       update, resources
  <1>2. open' \subseteq open
    BY DEF Shutdown, CloseListedTunnel, TunnelDies, BackoffElapses, Plug, Unplug, vars, resources
  <1> QED
    BY <1>1, <1>2, SafeCloses, Zenon

LEMMA SafeInductive ==
    ASSUME TypeParts, Safe, [Next]_vars
    PROVE  Safe'
  <1>1. CASE UpdateStep
    BY <1>1, SnapshotSafe, ScanSafe, StartSucceedsSafe, StoreSafe, StopSafe, CloseStoppedSafe, Zenon
       DEF UpdateStep
  <1>2. CASE \E c \in Clients :
               \/ \E d \in Devices : RemoveTunnel(c, d)
               \/ CloseRemovedTunnel(c) \/ FindTunnel(c) \/ GiveUp(c)
    BY <1>2, RemoveSafe, CloseRemovedSafe, ClientMoves, Zenon
  <1> QED
    BY <1>1, <1>2, OutsideSafe, Zenon DEF Next

LEMMA SafeAlways == Spec => []Safe
  <1>1. Init => TypeParts /\ Safe
    BY InitType, InitSafe
  <1>2. TypeParts /\ Safe /\ [Next]_vars => TypeParts' /\ Safe'
    BY TypeInductive, SafeInductive
  <1> QED
    BY <1>1, <1>2, PTL DEF Spec

-----------------------------------------------------------------------------

\* tunnel_api.go, UpdateTunnels, RemoveTunnel, stopTunnel: for any number of
\* devices and clients, no interleaving forgets a tunnel whose resources the
\* host holds, and every device is given its own tunnel.
THEOREM ManagerForgetsNone == Spec => []NoTunnelForgotten
  <1>1. Safe => NoTunnelForgotten
    BY Zenon DEF Safe, Kept, Owned, NoTunnelForgotten
  <1> QED
    BY <1>1, SafeAlways, PTL

\* tunnel_api.go, RefreshTunnelForDevice: a refresh never comes back with the
\* tunnel it removed, however stale the snapshot is that an update works on.
THEOREM RefreshReturnsFresh == Spec => []RefreshIsFresh
  <1>1. Safe => RefreshIsFresh
    BY Zenon DEF Safe, Refreshing, RefreshIsFresh
  <1> QED
    BY <1>1, SafeAlways, PTL

\* tunnel_api.go, UpdateTunnels: after a list error the update ends with none
\* of its snapshot's tunnels listed or open.
THEOREM ListErrorStops == Spec => []ListErrorStopsAll
  <1>1. Safe => ListErrorStopsAll
    BY DEF Safe, Stopping, Stopped, ListErrorStopsAll
  <1> QED
    BY <1>1, SafeAlways, PTL
===============================================================================
