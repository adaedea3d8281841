\* The bounds end the behaviours: CHECK_DEADLOCK FALSE.
SPECIFICATION Spec
CONSTANTS
    Usages = {{"net"}, {"u1"}}
    Capacity = 2
    AckLimit = 2
    MaxPlays = 2
    MaxSeen = 3
    MaxSent = 3
INVARIANTS
    TypeOK
    ServerAgrees
    BacklogBounded
    IndexesConsecutive
CHECK_DEADLOCK FALSE
