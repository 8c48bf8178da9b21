SPECIFICATION FairSpec
CONSTANTS
    User = {u1, u2}
    Typo = {}
    Loc = {l1}
    DefaultLoc = tokyo
    None = none
    Absent = absent
    NoDoc = nodoc
    Device = {d1, d2}
    Registered <- Registrations
    MaxQueue = 2
    Budgets <- ProgressBudgets
PROPERTIES PairingTakesEffect SignInEnds QueueDrains
CHECK_DEADLOCK FALSE
