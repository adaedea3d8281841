\* The application may be done with the connection: CHECK_DEADLOCK FALSE.
SPECIFICATION LiveSpec
CONSTANTS
    Writers = {"u1"}
    MaxConnections = 1
    MaxPackets = 2
    MaxReentries = 2
    Burst = 2
    ReadLimit = 1
INVARIANTS
    InOrderOnce
PROPERTIES
    QueuedIsSent
CHECK_DEADLOCK FALSE
