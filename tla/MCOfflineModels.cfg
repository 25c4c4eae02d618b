CONSTANTS
    p1 = p1
    p2 = p2
    c1 = c1
    c2 = c2
    m1 = m1
    m2 = m2
    Processes = {p1, p2}
    Configs <- Registered
    Parent = Parent
    ParentScore = 1
    Scores = {0, 1, 2}
    None = None
    Torn = Torn
    MaxFaults = 1
    Outputs = {m1, m2}
    Versions = {1, 3}
    Epochs = 2
    ShadowTime = 1
    CanaryTime = 1
    NoFile = NoFile
    MaxBuilds = 2
    MaxKills = 1
    MaxClock = 2
    MaxWindows = 2
SPECIFICATION OfflineSpec
SYMMETRY OfflineSymmetry
INVARIANTS
    HoldoutOpenedOnce
    FittedOnRegistered
    StuckOnlyByFaults
    ResumeIsExact
    ApprovedOnItsEvidence
CHECK_DEADLOCK FALSE
