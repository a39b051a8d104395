SPECIFICATION LinkSpec
CONSTANTS
    WINDOW_SIZE = 2
    DataGrants = {3}
    SduSizes = {1}
    MaxBytes = 5
    MaxInFlight = 2
    max_retx_threshold = 1
    poll_pdu = 2
    poll_byte = 0
    RangeLists <- NoRangeLists
    StatusGrants = {4, 6}
    MaxStatus = 1
    TimerConfigs <- AllTimerConfigs
    StatusReorder = FALSE
    StaleFlags = {TRUE, FALSE}
INVARIANTS
    LinkTypeOK
    NoByteLost
    WindowsAgree
PROPERTIES
    ImplementsService
CHECK_DEADLOCK FALSE
