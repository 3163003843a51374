SPECIFICATION Spec
CONSTANTS
  CommandLines <- MCCommandLines
  MaxRuns = 2
  SignerKey = "signer"
  StatusLists <- MCStatusLists
  MaxClock = 1
  MaxErrorBody = 3
  Pages <- MCPages
  MaxPolls = 2
INVARIANT ExecutedWasConfirmed
INVARIANT OncePerRun
INVARIANT AdminThroughMultisig
INVARIANT MarketComesUpSuspended
INVARIANT ReportIsTrue
INVARIANT HistoryErrorIsTheServers
PROPERTY CommandEnds
CHECK_DEADLOCK FALSE
