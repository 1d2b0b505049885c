CONSTANTS
    small = small
    large = large
    NoCandidate = NoCandidate
    NoOrder = NoOrder
    Events = {e1, e2}
    Candidates = {small, large}
    Orders = {o1, o2}
    Exposure <- MCExposure
    Underlying <- MCUnderlying
    AggregateLimit = 2
    MaxOpen = 2
    MaxEntries = 1
    Days = {d1, d2}
    NoDay = NoDay
    Kernels = {k1}
    PerEventBudget = 1
    ConcentrationLimit = 1
    AccountCapital = 3
    DailyLossLimit = 1
    DrawdownLimit = 1
    CloseOnlyThreshold = 2
    Equities = {1}
    Amounts = {0}
SPECIFICATION LedgerAlone
SYMMETRY Symmetry
INVARIANTS
    RowsAgree
    PassportExplainsRows
    WithinPolicy
PROPERTY EnteredOnce
CHECK_DEADLOCK FALSE
