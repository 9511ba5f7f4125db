SPECIFICATION Spec
CONSTANTS
  Session = {c1, c2}
  Teardown = teardown
  NoSession = none
  Uri <- MCUri
  Key <- MCKey
  Canonical <- MCCanonical
  NoServer = no_server
  Option <- MCOption
  Uncompared <- MCUncompared
  Unknown = "unknown_option"
  Default = default
  Other = other
  Null = null
  Given <- MCGiven
  MaxStatements = 2
  MaxHandlers = 1
INVARIANT DocumentedAccepted
CHECK_DEADLOCK FALSE
