\* The replies are bounded and a transfer ends its behaviour: CHECK_DEADLOCK FALSE.
SPECIFICATION PacketsSpec
CONSTANTS
  Versions <- SupportedProtocols
  MaxOutbox = 4
  Players = {p, q}
  ListVersions <- SupportedProtocols
  ModeVersions <- SupportedProtocols
  Size = 2
INVARIANTS
  NoClassShadowed
  LifelinesDecoded
  RepliesAreUnderstood
  RepliesAreComplete
  ReadsWhatIsWritten
  FieldsAreKept
  ListsAgree
  ModesAreIndependent
  MapsAgree
CHECK_DEADLOCK FALSE
