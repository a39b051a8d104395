SPECIFICATION UmSpec
CONSTANTS
    SnModulo = 6
    ShortSn = TRUE
    UmGrants = {2, 7}
    UmSduSizes = {1, 3}
    MaxSdus = 3
    MaxOnAir = 3
    NoPdu = NoPdu
INVARIANTS
    UmTypeOK
    SegmentationNeverAsserts
    UmWindow
    ReorderingLosesNothing
PROPERTIES
    ImplementsUmService
    StoredPduIsReassembled
CHECK_DEADLOCK FALSE
