\* The device numbers its own fragmented calls like the host's requests.
SPECIFICATION Spec
CONSTANTS
    Callers = {c1}
    Device = Device
    Failed = Failed
    NoMessage = NoMessage
    FirstIdentifier = 2
    Decodable = {TRUE}
    CallIdentifiers = {}
    FragmentedCallIds = {2}
    MaxFragments = 3
    MaxCalls = 1
    MaxIdentifier = 4
    MaxWire = 2
INVARIANTS NeverPanics
CHECK_DEADLOCK FALSE
