\* Two streams share a connection window that is smaller than both windows; the
\* peer has a stream of its own.
SPECIFICATION FairSpec
CONSTANTS
    Streams = {1, 3}
    OtherStreams = {2}
    defaultWindowSize = 2
    recvWindowSize = 4
    windowUpdateThreshold = 3
    maxFrameSize = 2
    FirstWindow = 2
    InitialWindows = {1, 2}
    Padding = {1}
    Lengths = {2}
    MaxCalls = 1
    MaxFrames = 3
INVARIANTS TypeOK SendWindowsHonest ConnectionWindowHonored ReceiveWindowsReplenished
PROPERTIES LostConnectionEndsCalls
CHECK_DEADLOCK FALSE
