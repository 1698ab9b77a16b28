CONSTANTS
    Null = Null
    Second = 4
    MaxInt = 31
    AbsoluteMaxTTL = 12
    DefaultMaxTTL = 8
    Units = {1, 2}
    Ids = {1, 2, 3}
    MaxTTL = 9
    Amounts <- EveryInt
    DefaultLimit = 1
    MaxLimit = 2
    Asked = {0, 9}
    MaxTime = 1
SPECIFICATION Spec
INVARIANTS
    NeverShownTwice
    LastingRowsShown
    LifetimesFit
PROPERTIES
    WalkNarrows
