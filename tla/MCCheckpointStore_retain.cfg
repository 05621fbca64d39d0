SPECIFICATION FairSpec
CONSTANTS
    Last = 2
    Payloads <- MCPayloads
    Payload <- MCPayload
    MaxOperations = 3
    Finishers = {f1}
    Waits = TRUE
    Lossy = FALSE
    MaxFaults = 1
INVARIANTS
    
    LineageKept
PROPERTIES
    OperationsEnd
CHECK_DEADLOCK FALSE
