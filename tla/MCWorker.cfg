CONSTANTS
    like = like
    view = view
    junk = junk
    save = save
    alice = alice
    gone = gone
    p1 = p1
    p2 = p2
    w1 = w1
    w2 = w2
    Events = {like, view, junk}
    Users = {alice, gone}
    Partitions = {p1}
    Workers = {w1}
    UserOf <- MCUserOf
    PartitionOf <- MCOnePartition
    Missing = {gone}
    Skipped = {}
    Unweighted = {view}
    ZeroWeight = {view}
    BatchSize = 2
    MaxFaults = 2
    NoUser = NoUser
    MaxLog = 3
    Cancellable = FALSE
SPECIFICATION FairSpec
INVARIANTS
    TrendingAtMostOnce
    VectorsMatchReceipts
    NothingLost
    CacheReflectsCommitted
PROPERTY EverythingConsumed
