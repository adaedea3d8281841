SPECIFICATION Spec
CONSTANTS
    Users = {u1}
    Threads = {t1, t2}
    NoThread = NoThread
    OutgoingCalls = {"connect", "disconnect"}
PROPERTIES
    HandlerSparesNewConnection
