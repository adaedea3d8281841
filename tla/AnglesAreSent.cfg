\* A transfer ends its behaviour: CHECK_DEADLOCK FALSE.
SPECIFICATION TransferSpec
CONSTANTS
  Versions <- SupportedProtocols
  MaxOutbox = 4
INVARIANTS
  AnglesAreSent
CHECK_DEADLOCK FALSE
