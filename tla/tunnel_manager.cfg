\* Two devices, a client that refreshes, userspace tunnels.
SPECIFICATION FairSpec
CONSTANTS
    Devices = {d1, d2}
    Filter = {d1, d2}
    Network = {}
    userspaceTUN = TRUE
    MaxPort = 3
    Clients = {c1}
    MaxEvents = 2
INVARIANTS TypeOK NoTunnelForgotten RefreshIsFresh ListErrorStopsAll
PROPERTIES DeviceGetsTunnel DisconnectCleansUp
CHECK_DEADLOCK FALSE
