SPECIFICATION TxSpec
CONSTANTS
    WINDOW_SIZE = 2
    DataGrants = {5}
    SduSizes = {3}
    MaxBytes = 9
    MaxInFlight = 1
    max_retx_threshold = 1
    poll_pdu = 2
    poll_byte = 0
    RangeLists <- Pieces
INVARIANTS
    TxTypeOK
    TxWindow
    RetransCoversPending
PROPERTIES
    NeverOverwritten
CHECK_DEADLOCK FALSE
