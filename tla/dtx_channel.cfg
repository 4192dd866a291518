\* Two callers and two device calls, one in fragments with the identifier of a
\* request; messages come whole or in two fragments.
SPECIFICATION FairSpec
CONSTANTS
    Callers = {c1, c2}
    Device = Device
    Failed = Failed
    NoMessage = NoMessage
    FirstIdentifier = 2
    Decodable = {TRUE, FALSE}
    CallIdentifiers = {3}
    FragmentedCallIds = {2}
    MaxFragments = 2
    MaxCalls = 1
    MaxIdentifier = 4
    MaxWire = 1
INVARIANTS TypeOK OwnReply NoWaiterLeak ReplyDeposited NoDefragmenterLeak ExtractOnlyFinished
PROPERTIES ImplementsRemoteCall CallsEnd
CHECK_DEADLOCK FALSE
