CONSTANTS
    i1 = i1
    s1 = s1
    v1 = v1
    Templates <- MCTemplates
    MaxEvents = 3
    MaxTime = 2
    LongRead = 2
    VisitGap = 1
    Window = 1
    MaxTopics = 2
    General = 0
    None = None
    MaxRequests = 14
    TrainPercent = 70
    ValidationPercent = 15
SPECIFICATION AlgorithmsSpec
INVARIANTS
    LoopComputesLabel
    VectorAgreesWithLabel
    VisitsCountedOnce
    NothingFromTheFuture
PROPERTY OldViewsChangeNothing
CHECK_DEADLOCK FALSE
