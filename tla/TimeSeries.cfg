\* Two systems, two metrics, a window of two days over two days.
SPECIFICATION FairSpec
CONSTANTS
    System = {"s1", "s2"}
    NVariants = 2
    FILL_IN_DAYS = 2
    History <- MCHistory
    Since <- MCSince
    FirstDay = 4
    LastDay = 5
    MaxIncidents = 1
INVARIANTS
    OneRowPerDay
PROPERTIES
    SumsAreWhole
    WindowFilled
