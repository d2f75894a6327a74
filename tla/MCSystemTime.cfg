CONSTANTS
    TickMod = 44
    Period = 3
    Sec = 3
    Min = 2
    Hrs = 2
    Base = 2
    MaxLag = 7
    MaxTicks = 100
SPECIFICATION FairSpec
CHECK_DEADLOCK FALSE
INVARIANTS
    Calendar
    NoSecondLost
    NeverAhead
    DisplaysAgree
PROPERTIES
    EverySecondCounted
