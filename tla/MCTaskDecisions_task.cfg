SPECIFICATION FairSpec
CONSTANTS
    Pipeline <- MCPipeline
    RequiredRuntimes = 1
    MaxRuns = 4
    MaxRuntimes = 2
    MaxEpoch = 2
    MaxEdits = 1
INVARIANTS
    RecordInvariant
    
PROPERTIES
    FencedCancellationEnds
    OutcomesStand
    NoRevisionAfterCancelled
CHECK_DEADLOCK FALSE
