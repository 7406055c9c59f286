SPECIFICATION FairSpec
CONSTANTS
    Tasks = {t1, t2}
    Calls = {"resolve", "refresh"}
    Interval = 2
    MaxVersion = 3
    None = None
INVARIANTS
    TypeOK
    KeyAndAddressAgree
PROPERTIES
    NeverOlderThanAtCall
    FloodThrottled
    RotationPickedUp
