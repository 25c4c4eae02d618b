CONSTANTS
    r1 = r1
    r2 = r2
    PostCount = 4
    Hidden = {3}
    Requests = {r1, r2}
    Followed = {1, 4}
    Topical = {1, 2}
    Similarity <- MCSimilarity
    Excluded <- MCExcluded
    Pool = 4
    FeedPool = 4
    SemanticWindow = 3
    Limit = 3
    Modes = {"heuristic", "shadow", "ml"}
    Heuristic <- MCHeuristic
    Model <- MCModel
    Author <- MCAuthor
    Topic <- MCTopic
    NoTask = NoTask
    MaxChanges = 1
SPECIFICATION ApiSpec
INVARIANTS
    PoolIsFilled
    NothingUnwanted
    HonestVersion
CHECK_DEADLOCK FALSE
