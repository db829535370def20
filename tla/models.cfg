SPECIFICATION Spec
CONSTANTS
    ModelIds = {m1}
    Parameters = {x, y}
    Callers = {k1, k2, k3}
    NoModel = NoModel
    NoCopy = NoCopy
CHECK_DEADLOCK FALSE
INVARIANTS
    ParametersStaleHasCause
