SPECIFICATION Spec
CONSTANTS
    Nil = Nil
    torn = torn
PROPERTIES
    ReconcilingSettles
    SessionsSettle
CHECK_DEADLOCK FALSE
