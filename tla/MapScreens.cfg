SPECIFICATION FairSpec
CONSTANTS
    User = {u1, u2}
    None = None
    MaxControllers = 3
    MaxReads = 1
INVARIANTS
    MapIsOwn
PROPERTY
    PinAppears
