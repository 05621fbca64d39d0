\* One mutating run; deliverers may die, the workspace may refuse.
SPECIFICATION LiveSpec
CONSTANTS
    r1 = r1
    r2 = r2
    n1 = n1
    Runs = {r1}
    Nodes = {n1}
    None = None
    NodeOf <- MCNodeOf
    Mutating = {r1}
    Deadline <- MCAtThree
    GrantExpiry <- MCAtTwo
    LeaseTTL = 1
    NodeTTL = 2
    Faults = {"Crash", "Refuse"}
    MaxTime = 3
    MaxNodeGeneration = 2
INVARIANTS
    LeaseInvariant
PROPERTIES
    StartsUnderCurrentLease
    DecisionsStand
    LeaseEventuallyReleased
    ViewsClose
    WaitingResolves
CHECK_DEADLOCK FALSE
