SPECIFICATION MCSpec
CONSTANTS
    User = {u1, u2}
    Typo = {}
    Loc = {}
    DefaultLoc = tokyo
    None = none
    Absent = absent
    NoDoc = nodoc
    Device = {d1, d2}
    Registered <- Registrations
    MaxQueue = 2
    Budgets <- WithdrawBudgets
SYMMETRY Symmetry
INVARIANTS WithdrawErasesUser
CHECK_DEADLOCK FALSE
