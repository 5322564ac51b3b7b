SPECIFICATION Spec
CONSTANTS
    AppConfigs <- MCAppConfigs
    MacFields <- MCMacFields
    NOF_SUBCARRIERS_PER_RB = 1
    nof_symbols = 14
    ru_nof_prbs = 2
    NofFilterIndexes = 5
    Sent <- MCSent
CHECK_DEADLOCK FALSE
INVARIANTS
    TypeOK
    AlikeCellsTakePortsInOrder
    ReadsStayInsideMessage
    DecodedAsSent
    SamplesWithinLeastStep
