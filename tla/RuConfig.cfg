SPECIFICATION Spec
CONSTANTS
    AppConfigs <- MCAppConfigs
    MacFields <- MCMacFields
CHECK_DEADLOCK FALSE
INVARIANTS
    TypeOK
    AlikeCellsTakePortsInOrder
