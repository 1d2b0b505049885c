CONSTANTS
    NoCandidate = NoCandidate
    NoOrder = NoOrder
    NoDay = NoDay
    Events = {e1}
    Candidates = {c1}
    Orders = {o1, o2, o3}
    Days = {d1}
    Exposure <- MCExposure
    Underlying <- MCUnderlying
    AggregateLimit = 2
    MaxOpen = 2
    MaxEntries = 2
    Workers = {w1, w2, w3}
    Qty = 2
    OpenExpiresAt = 1
    EntryDeadlineAt = 1
    TimeExitAt = 1
    FlatteningDeadlineAt = 1
    Horizon = 2
SPECIFICATION LifecycleSpec
SYMMETRY Symmetry
INVARIANTS
    OneOrderPerPhase
    ReleasedIsFlat
    NeverShort
PROPERTY LedgerRefined
CHECK_DEADLOCK FALSE
