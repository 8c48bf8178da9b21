SPECIFICATION FairSpec
CONSTANTS
    Person = {p1, p2}
    Me = me
    None = none
    NoPin = nopin
    MaxReads = 2
    MaxOwn = 3
    MaxChanges = 1
INVARIANT PinWasPartner
PROPERTY PinNeverGoesBack PinFollows
