SPECIFICATION Spec
CONSTANTS
    Nil = Nil
    torn = torn
    p1 = p1
    p2 = p2
INVARIANTS
    CompoundingIsCovered
    OptionEventsAreOwned
    ActivitiesAreWhole
    RestartFindsTheWhole
    SummariesStand
PROPERTIES
    RecordsStand
SYMMETRY mcSymmetry
CHECK_DEADLOCK FALSE
