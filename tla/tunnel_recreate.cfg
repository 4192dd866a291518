\* The data plane of a userspace tunnel stops while its device stays connected.
SPECIFICATION FairSpec
CONSTANTS
    Devices = {d1}
    Filter = {d1}
    Network = {}
    userspaceTUN = TRUE
    MaxPort = 3
    Clients = {c1}
    MaxEvents = 1
PROPERTIES TunnelsComeBack
CHECK_DEADLOCK FALSE
