CONSTANTS
  o1 = o1  o2 = o2  btc = btc  usdc = usdc
  Stable = usdc
  Dollars = {usdc}
  Orders = {o1, o2}
  Sells = {o2}
  SymbolOf <- OneSymbol
  Prices <- TwoPrices
  MaxSize = 2
  MaxPosition = 2
  MaxChanges = 3
  MaxLosses = 1
  MaxInFlight = 1
  EndStatuses = {"cancelled", "unknown"}
SPECIFICATION Spec
INVARIANTS
  AccountFollowsExchange
  PnlIsThatOfTheFills
CHECK_DEADLOCK FALSE
