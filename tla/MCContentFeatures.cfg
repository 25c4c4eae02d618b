CONSTANTS
    t1 = t1
    t2 = t2
    NPosts = 2
    Texts = {t1, t2}
    Creates <- MCCreates
    Updates <- MCUpdates
    BatchSize = 2
    MaxRetries = 1
    MaxWrites = 2
    MaxFaults = 1
SPECIFICATION FairSpec
INVARIANTS
    NoTextForgotten
    CheckpointCovers
    TopicsFollowText
PROPERTY AnnouncedIsClassified
CHECK_DEADLOCK FALSE
