SPECIFICATION Spec
CONSTANTS
    Nil = Nil
    a1 = a1
    a2 = a2
    pf1 = pf1
    pf2 = pf2
    Procs = {p1, p2}
    Arms = {a1, a2}
    Offers <- mcOffers
    NumWindows = 1
    Opens <- mcOpens
    Closes <- mcCloses
    HardFlatAt = 2
    Times = {1}
    Lifecycles = {1}
    Proofs = {pf1}
    Plans <- mcPlans
    MaxCrashes = 0
    NoArm = Nil
    NoRow = Nil
    NoLifecycle = Nil
    NoProof = Nil
    NoReason = Nil
    NoId = Nil
    NoSummary = Nil
    NoProc = Nil
    NoBinding = Nil
    NoReceipt = Nil
INVARIANTS
    SessionIsAccounted
    ReceiptsAreFinal
    AuthorityIsBound
    PaperIsAccounted
    ServiceIsAccounted
PROPERTIES
    RowsImplementLog
    StopsHold
SYMMETRY mcSymmetry
CHECK_DEADLOCK FALSE
