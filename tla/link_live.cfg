SPECIFICATION LiveLinkSpec
CONSTANTS
    WINDOW_SIZE = 2
    DataGrants = {7, 8}
    SduSizes = {2}
    MaxBytes = 4
    MaxInFlight = 2
    max_retx_threshold = 1
    poll_pdu = 0
    poll_byte = 2
    RangeLists <- NoRangeLists
    StatusGrants = {15}
    MaxStatus = 1
    TimerConfigs <- WithProhibit
    StatusReorder = FALSE
    StaleFlags = {TRUE, FALSE}
INVARIANTS
    NoByteLost
PROPERTIES
    EveryByteDelivered
    EveryPduAcknowledged
CHECK_DEADLOCK FALSE
