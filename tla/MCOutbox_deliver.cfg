SPECIFICATION FairSpec
CONSTANTS
    Operations <- MCOperations
    Scopes <- MCScopes
    Scope <- MCScope
    MaxPosition = 2
    MaxEpoch = 1
    BatchSize = 1
    Copies = {1}
    MaxFaults = 2

    
PROPERTIES
    
    OperationsClose
CHECK_DEADLOCK FALSE
