\* The application may be done with the connection: CHECK_DEADLOCK FALSE.
SPECIFICATION Spec
CONSTANTS
    u1 = u1
    u2 = u2
    Writers = {u1, u2}
    MaxConnections = 2
    MaxPackets = 1
    MaxReentries = 2
    Burst = 1
    ReadLimit = 1
SYMMETRY Symmetry
INVARIANTS
    TypeOK
    FramesIntact
    NoCrossTalk
PROPERTIES
    FlushedOnReturn
CHECK_DEADLOCK FALSE
