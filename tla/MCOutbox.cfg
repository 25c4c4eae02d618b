CONSTANTS
    e1 = e1
    e2 = e2
    e3 = e3
    d1 = d1
    d2 = d2
    p1 = p1
    p2 = p2
    Events = {e1, e2}
    Partitions = {p1, p2}
    PartitionOf <- MCPartitionOf
    Dispatchers = {d1, d2}
    BatchSize = 2
    Poison = {e1}
    NoEvent = NoEvent
    MaxFaults = 3
SPECIFICATION FairSpec
INVARIANTS
    NoEventLost
    DuplicatesNeedFaults
PROPERTY HealthyEventsPublished
