CONSTANTS
    alice = alice
    bob = bob
    c1 = c1
    c2 = c2
    r1 = r1
    r2 = r2
    Users = {alice, bob}
    Posts = {post}
    Comments = {c1, c2}
    Admins = {bob}
    Types = {"like", "hide"}
    Requests = {r1, r2}
    NoComment = NoComment
    MaxStarts = 4
    t1 = t1
    t2 = t2
    Tasks = {t1, t2}
    Kinds = {"view", "like", "unlike"}
    Window = 0
    ReplaceExisting = TRUE
    None = None
    MaxRows = 2
    MaxHour = 1
    MaxTasks = 3
    MaxMisses = 1
SPECIFICATION UserSpec
SYMMETRY UserSymmetry
INVARIANTS
    CountersMatchRows
    CommentCountNeverHigh
    ReplayMatchesRows
    ReplayNotBehind
    InteractionsCountedOnce
    TopicsFollowViews
    KeysFollowRows
    AnswersAreCurrent
CHECK_DEADLOCK FALSE
