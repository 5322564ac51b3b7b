SPECIFICATION Spec
CONSTANTS
    NOF_SUBCARRIERS_PER_RB = 1
    nof_symbols = 14
    ru_nof_prbs = 2
    NofFilterIndexes = 5
    CompressionParams <- MCCompressionParams
    Sent <- MCSaturatedSent
CHECK_DEADLOCK FALSE
INVARIANTS
    SamplesWithinLeastStep
