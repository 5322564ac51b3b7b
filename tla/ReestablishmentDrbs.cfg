SPECIFICATION Spec
CONSTANTS
    Sessions = {1, 2}
    Drbs = {1, 2}
    UlParamCounts = {1, 2}
    UpContexts <- MCUpContexts
    E1apResponses <- MCE1apResponses
    F1apResponses <- MCF1apResponses
CHECK_DEADLOCK FALSE
INVARIANTS
    UeGetsEveryDrb
