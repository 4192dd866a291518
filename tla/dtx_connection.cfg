\* Two goroutines open channels while messages for one arrive, the device asks for
\* one channel more than the acceptor and the buffer hold, in one piece or in
\* fragments, and the connection is closed or lost.
SPECIFICATION FairSpec
CONSTANTS
    Requesters = {c1, c2}
    NoOne = NoOne
    Capacity = 1
    CodeSpace = 8
    RequestKinds = {"request", "fragmented"}
    MaxRequests = 3
    MaxPushes = 1
    MaxWire = 1
INVARIANTS TypeOK ChannelsDistinct ReturnedChannelReceives
PROPERTIES ClosedOnce RequestsReturn AcceptReturns
CHECK_DEADLOCK FALSE
