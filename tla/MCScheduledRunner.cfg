CONSTANTS
    m1 = m1
    m2 = m2
    e1 = e1
    e2 = e2
    NoProc = NoProc
    NoManifest = NoManifest
    Procs = {p1, p2}
    Events = {e1, e2}
    Manifests = {m1, m2}
    EventOf <- TwoEvents
    Qty = 2
    NotBefore = 0
    ExpiresAt = 2
    OpenExpiresAt = 1
    CloseExpiresAt = 2
    Horizon = 2
    MaxFaults = 1
SPECIFICATION RunnerSpec
SYMMETRY Symmetry
INVARIANTS
    OneAttemptEach
    TerminalIsFlat
    OneEventExposed
PROPERTY StoppedStaysStopped
