SPECIFICATION Spec
CONSTANTS
    Nil = Nil
    t1 = t1
    t2 = t2
INVARIANTS
    CapturesAreFaithful
    FeaturesAreComparable
    NewsIsKnownAtCutoff
    InputsAreAdmissible
SYMMETRY mcSymmetry
CHECK_DEADLOCK FALSE
