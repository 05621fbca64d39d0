SPECIFICATION Spec
CONSTANTS
    Workers = {w1}
    Callers = {c1, c2}
    WorkerStatuses <- MCWorkerStatuses
    Chained = {"publishing"}
    Onward <- MCOnward
    Start = "image_acquiring"
    Erasing = {"image_acquiring"}
    MaxReturns = 2
    MaxFaults = 0
INVARIANTS
    ActiveVersionsAreWhole
CHECK_DEADLOCK FALSE
