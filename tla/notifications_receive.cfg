\* No app to kill: the watcher waits for a push when the connection is lost.
SPECIFICATION FairSpec
CONSTANTS
    Watched = {}
    Backlog = 2
    MaxBurst = 2
    MaxEvents = 3
    MaxWire = 2
PROPERTIES ReceiveReturns
CHECK_DEADLOCK FALSE
