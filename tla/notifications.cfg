\* A burst that the backlog holds or does not hold, two kills, and more pushes
\* than the backlog holds while the watcher is in them.
SPECIFICATION FairSpec
CONSTANTS
    Watched = {2, 3}
    Backlog = 2
    MaxBurst = 4
    MaxEvents = 6
    MaxWire = 3
INVARIANTS TypeOK NoPushLost BurstFits
PROPERTIES BackpressureEnds CloseFuncReturns
CHECK_DEADLOCK FALSE
