SPECIFICATION Spec
CONSTANTS
    Users = {u1, u2}
    Threads = {t1, t2, t3}
    NoThread = NoThread
    OutgoingCalls = {"connect", "disconnect"}
SYMMETRY Symmetry
INVARIANTS
    TypeOK
    SingleRunner
    SlotsTruthful
    
    ConnectedIsServed
    
    HandlerFindsThread
PROPERTIES
    ImplementsHandover
