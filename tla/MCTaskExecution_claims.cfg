SPECIFICATION FairSpec
CONSTANTS
    Workers = {w1, w2}
    Callers = {c1}
    WorkerStatuses <- MCWorkerStatuses
    Chained = {"publishing"}
    Onward <- MCOnward
    Start = "image_acquiring"
    Erasing = {"image_acquiring"}
    MaxReturns = 1
    MaxFaults = 1
INVARIANTS
    ExecutionInvariant
    CompletedIsPublished
PROPERTIES
    PromotionsInOrder
    OutcomesStand
    QueuedTaskSettles
CHECK_DEADLOCK FALSE
