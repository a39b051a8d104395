SPECIFICATION PdcpSpec
CONSTANTS
    PdcpModulo = 8
    BearerKinds = {"am_gtp"}
    MaxPdus = 18
    MaxGap = 0
INVARIANTS
    EveryCountAgrees
CHECK_DEADLOCK FALSE
