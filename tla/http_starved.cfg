\* Two streams that each read or write once, and one frame of the peer.
SPECIFICATION FairSpec
CONSTANTS
    Streams = {1, 3}
    OtherStreams = {}
    defaultWindowSize = 2
    recvWindowSize = 4
    windowUpdateThreshold = 3
    maxFrameSize = 2
    FirstWindow = 2
    InitialWindows = {1}
    Padding = {0}
    Lengths = {2}
    MaxCalls = 1
    MaxFrames = 1
PROPERTIES StreamsIndependent
CHECK_DEADLOCK FALSE
