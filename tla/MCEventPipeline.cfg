CONSTANTS
    like = like
    save = save
    alice = alice
    p1 = p1
    Events = {like}
    Users = {alice}
    Partitions = {p1}
    UserOf <- MCUserOf
    PartitionOf <- MCPartitionOf
    Dispatchers = {d1}
    Poison = {}
    NoEvent = NoEvent
    OutboxBatch = 2
    OutboxFaults = 2
    Workers = {w1}
    Missing = {}
    Skipped = {}
    Unweighted = {}
    ZeroWeight = {}
    FlushBatch = 2
    WorkerFaults = 2
    NoUser = NoUser
    MaxLog = 4
SPECIFICATION Spec
INVARIANT UnappliedIsRecoverable
PROPERTY ExactlyOnceEffects
