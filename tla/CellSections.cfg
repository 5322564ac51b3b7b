SPECIFICATION Spec
CONSTANTS
    ConfigFiles <- MCConfigFiles
    DefaultCell <- MCDefaultCell
    DefaultTdd <- MCDefaultTdd
    Bands <- MCBands
    BandOfArfcn <- MCBandOfArfcn
    DuplexOf <- MCDuplexOf
    LongPreambles <- MCLongPreambles
CHECK_DEADLOCK FALSE
INVARIANTS
    ConsumersAlwaysAgree
