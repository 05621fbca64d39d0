\* A first generation and two edits of it that share content.
SPECIFICATION FairSpec
CONSTANTS
    a = a
    b = b
    c = c
    x = x
    y = y
    None = None
    Operations = {a, b, c}
    Contents = {x, y}
    ContentsOf <- MCContents
    Edits = {b, c}
    Lapses = {y}
INVARIANTS
    VersionsFormChain
PROPERTIES
    EndsOnce
    ReleaseSparesVersions
    ResidueSettles
CHECK_DEADLOCK FALSE
