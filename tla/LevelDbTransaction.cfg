SPECIFICATION MCSpec
CONSTANTS
    Key = {1, 2, 3}
    Value = {a, b}
    MaxVersion = 3
SYMMETRY Symmetry
INVARIANTS
    GetMissesOnlyRestored
    ScanMissesNothing
PROPERTY
    ImplementsView
