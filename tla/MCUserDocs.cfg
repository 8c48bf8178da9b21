SPECIFICATION DocsSpec
CONSTANTS
    User = {u1, u2}
    Typo = {}
    Loc = {l1}
    DefaultLoc = tokyo
    None = none
    Absent = absent
    NoDoc = nodoc
    MaxLen = 4
INVARIANT ResendConverges
CHECK_DEADLOCK FALSE
