SPECIFICATION BeforeLoginSpec
CONSTANTS
  Supported = {1, 2, 3}
  Foreign = {9}
  MaxFaults = 4
  Accounts = {"a", "b", "c"}
  Gameless = {"c"}
  MaxTokens = 4
INVARIANTS
  OneQuery
  LoginIsAgreed
  MishapIsSurvived
  UserIsSpared
  IdentityIsWhole
