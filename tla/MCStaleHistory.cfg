CONSTANTS
    p1 = p1
    p2 = p2
    t1 = t1
    t2 = t2
    r1 = r1
    r2 = r2
    Posts = {p1}
    Texts = {t1, t2}
    Requests = {r1, r2}
    EventTypes = {"click"}
    Window = 1
    HistoryLimit = 1
    LookupSlack = 1
    NoText = NoText
    MaxTime = 4
    MaxLag = 0
    MaxEdits = 1
    MaxEvents = 2
SPECIFICATION DatasetSpec
SYMMETRY DatasetSymmetry
INVARIANT HistoryIsWhatWasRead
CHECK_DEADLOCK FALSE
