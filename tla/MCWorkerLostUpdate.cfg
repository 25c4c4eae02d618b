CONSTANTS
    like = like
    view = view
    junk = junk
    save = save
    alice = alice
    gone = gone
    p1 = p1
    p2 = p2
    w1 = w1
    w2 = w2
    Events = {like, save}
    Users = {alice}
    Partitions = {p1, p2}
    Workers = {w1, w2}
    UserOf <- MCUserOf
    PartitionOf <- MCPartitionOf
    Missing = {}
    Skipped = {}
    Unweighted = {}
    ZeroWeight = {}
    BatchSize = 2
    MaxFaults = 1
    NoUser = NoUser
    MaxLog = 2
    Cancellable = FALSE
SPECIFICATION Spec
INVARIANT VectorsMatchReceipts
