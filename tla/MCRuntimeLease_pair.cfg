CONSTANTS
    r1 = r1
    r2 = r2
    n1 = n1
    Runs = {r1, r2}
    Nodes = {n1}
    None = None
    NodeOf <- MCNodeOf
    Mutating = {}
    Deadline <- MCAtThree
    GrantExpiry <- MCAtThree
    LeaseTTL = 1
    NodeTTL = 2
    Faults = {}
    MaxTime = 2
    MaxNodeGeneration = 2
SPECIFICATION Spec
SYMMETRY MCSymmetry
INVARIANTS SandboxesConfined
PROPERTIES KeepsContract
CHECK_DEADLOCK FALSE
