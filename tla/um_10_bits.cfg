SPECIFICATION UmSpec
CONSTANTS
    SnModulo = 6
    ShortSn = FALSE
    UmGrants = {3, 5}
    UmSduSizes = {1, 3}
    MaxSdus = 3
    MaxOnAir = 2
    NoPdu = NoPdu
INVARIANT DeliveredIntact
CHECK_DEADLOCK FALSE
