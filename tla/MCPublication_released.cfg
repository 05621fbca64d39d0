\* A first generation and two edits of it that share content.
SPECIFICATION Spec
CONSTANTS
    a = a
    b = b
    c = c
    x = x
    y = y
    None = None
    Operations = {a, b, c}
    Contents = {x, y}
    ContentsOf <- MCContents
    Edits = {b, c}
    Lapses = {y}
INVARIANTS
    VersionsHoldContent
CHECK_DEADLOCK FALSE
