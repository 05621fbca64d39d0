CONSTANTS
    Sessions = {s1, s2}
    Workers = {w1, w2}
    MaxActive = 1
    Following <- FollowingDef
    Careful = TRUE
    Kinds = {"crash", "stall", "error", "unsaved", "lost", "late"}
    MaxFaults = 1
    MaxRetries = 1

SPECIFICATION FairSpec

INVARIANTS
    EditInvariant
    
    PublishedByOwner

PROPERTIES
    QueuedEditSettles

CHECK_DEADLOCK FALSE
