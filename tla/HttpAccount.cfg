SPECIFICATION Spec
CONSTANTS
  CommandLines <- OverrideLines
  MaxRuns = 1
  SignerKey = "signer"
  StatusLists <- MCStatusLists
  MaxClock = 1
  MaxErrorBody = 3
  Pages <- MCPages
  MaxPolls = 2
INVARIANT OverrideReachesTx
CHECK_DEADLOCK FALSE
