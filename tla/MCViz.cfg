CONSTANTS
    g1 = g1
    g2 = g2
    g3 = g3
    x1 = x1
    None = None
    Reqs = {g1, g2, x1}
    KindsOf <- MCKindsOf
    Quitters = {g1, x1}
    MaxMishaps = 1
SPECIFICATION Spec
PROPERTIES RestartOnlyStale AnswerFresh RequestsEnd
CHECK_DEADLOCK FALSE
