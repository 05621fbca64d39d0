\* The documented serial topology: every limit is one.
SPECIFICATION Spec
CONSTANTS
    Items = {1, 2}
    Home <- TwoHomes
    Class <- OneClass
    Deadline <- EarlyDeadline
    Fits = {1, 2}
    Cancellable = {1, 2}
    GlobalLimit = 1
    WorkspaceLimit = 1
    ClassLimit = 1
    ResourceLimit = 1
    Slots = 1
    GrantTTL = 1
    MaxGeneration = 2
    MaxTime = 3
    Exactness = {TRUE, FALSE}
    MaxRevision = 3
    MaxFaults = 1
INVARIANTS
    AdmissionInvariant
    StartBoundOnce
    CapacityHeldForRun
    LimitsKept
PROPERTIES
    ReleaseIsFinal
    KeepsLedger
CHECK_DEADLOCK FALSE
