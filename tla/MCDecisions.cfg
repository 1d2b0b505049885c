SPECIFICATION Spec
CONSTANTS
    Nil = Nil
    malformed = malformed
INVARIANTS
    DecisionsAreGrounded
    RoutesAreBound
    ProposalsAreGrounded
    ExpressionsAgree
PROPERTIES
    ProposalIsCurrent
CHECK_DEADLOCK FALSE
