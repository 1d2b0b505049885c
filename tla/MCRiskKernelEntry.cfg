CONSTANTS
    small = small
    large = large
    NoCandidate = NoCandidate
    NoOrder = NoOrder
    NoDay = NoDay
    Kernels = {k1, k2}
    Events = {e1, e2}
    Candidates = {c1}
    Orders = {o1}
    Days = {d1}
    Exposure <- MCExposure
    Underlying <- MCUnderlying
    AggregateLimit = 2
    MaxOpen = 2
    MaxEntries = 2
    PerEventBudget = 1
    ConcentrationLimit = 2
    AccountCapital = 3
    DailyLossLimit = 1
    DrawdownLimit = 1
    CloseOnlyThreshold = 2
    Equities = {1, 2, 3}
    Amounts = {0, 1}
SPECIFICATION KernelSpec
SYMMETRY Symmetry
PROPERTY EntryOnlyWhileActive
