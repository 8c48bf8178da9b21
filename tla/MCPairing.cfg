SPECIFICATION MCSpec
CONSTANTS
    User = {u1, u2}
    Typo = {t1}
    Loc = {l1, l2}
    DefaultLoc = tokyo
    None = none
    Absent = absent
    NoDoc = nodoc
    Device = {d1, d2}
    Registered <- Registrations
    MaxQueue = 2
    Budgets <- PairingBudgets
SYMMETRY Symmetry
INVARIANTS AnswersMatchPending MainIsSettled PartnerProvenance UncontestedPairing
    WithdrawnStaysGone SignUpIsKept LatestPosition
CHECK_DEADLOCK FALSE
