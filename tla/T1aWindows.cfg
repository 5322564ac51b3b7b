SPECIFICATION Spec
CONSTANTS
    AppConfigs <- MCAnyAppConfigs
    MacFields <- MCMacFields
CHECK_DEADLOCK FALSE
INVARIANTS
    WindowsAreOrdered
