\* The application may be done and the servers gone: CHECK_DEADLOCK FALSE.
SPECIFICATION Spec
CONSTANTS
  LoginVersions = {340, 763, 764}
  MaxConnections = 2
  MaxUserPackets = 1
INVARIANTS
  NothingGarbled
  SessionsAreEncrypted
PROPERTY
  LoginSettles
CHECK_DEADLOCK FALSE
