SPECIFICATION PdcpSpec
CONSTANTS
    PdcpModulo = 8
    BearerKinds = {"srb", "um", "um_short", "am", "am_gtp"}
    MaxPdus = 18
    MaxGap = 3
INVARIANTS
    PdcpTypeOK
    CountsAgree
    EndsInStep
PROPERTY NoCountTwice
CHECK_DEADLOCK FALSE
