SPECIFICATION Spec
CONSTANTS
  Cases <- MCCases
  Domains <- MCDomains
  Exchange = "mainnet"
  MaxDrafts = 3
  MaxBusChanges = 2
  MaxText = 3
INVARIANTS
  TypeOK
  ExecutedIsSigned
  SignedIsAccepted
  TargetSigns
  FoundIfPresent
  DeviceTellsAll
  OrderIdIsTheExchanges
CHECK_DEADLOCK FALSE
