\* The bounds end the behaviours: CHECK_DEADLOCK FALSE.
SPECIFICATION Spec
CONSTANTS
    Usages = {{"net"}, {"u1"}}
    Senders = {"s1", "s2", "s3"}
    Capacity = 2
    MaxPlays = 2
    MaxSeen = 4
    MaxSent = 3
INVARIANTS
    EntriesAreRecent
    ChainLinked
    ListsAreConsistent
CHECK_DEADLOCK FALSE
