SPECIFICATION LinkSpec
CONSTANTS
    WINDOW_SIZE = 2
    DataGrants = {5, 7}
    SduSizes = {5}
    MaxBytes = 5
    MaxInFlight = 3
    max_retx_threshold = 2
    poll_pdu = 1
    poll_byte = 0
    RangeLists <- NoRangeLists
    StatusGrants = {15}
    MaxStatus = 1
    TimerConfigs <- AllTimerConfigs
    StatusReorder = FALSE
    StaleFlags = {TRUE, FALSE}
PROPERTIES
    ImplementsService
CHECK_DEADLOCK FALSE
