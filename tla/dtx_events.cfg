\* Two receivers, two selectors, a queue of two, one registration too many.
SPECIFICATION FairSpec
CONSTANTS
    Receivers = {r1, r2}
    Selectors = {s1, s2}
    Buffer = 2
    MaxEvents = 4
    MaxQueues = 3
INVARIANTS TypeOK NewestSurvives ReceivedInOrder
PROPERTIES DispatchReturns
CHECK_DEADLOCK FALSE
