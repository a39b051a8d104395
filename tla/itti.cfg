SPECIFICATION IttiSpec
CONSTANTS
    Threads = {l2l1, rrc}
    L2L1 = l2l1
    SubTasks = {mac}
    Terminators = {l2l1}
    QUEUE_SIZE = 2
    MaxMessages = 1
INVARIANTS
    IttiTypeOK
    EventsMatchMessages
    SendersFindTheirTask
    EverybodyIsTold
PROPERTIES
    StartCompletes
    MessagesAreReceived
    InterruptEndsProgram
CHECK_DEADLOCK FALSE
