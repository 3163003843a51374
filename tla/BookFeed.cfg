CONSTANTS
  Prices <- ThreePrices
  Sizes <- TwoSizes
  MaxLevels = 2
  MaxChanges = 2
  StreamCap = 1
  Absent = Absent
SPECIFICATION Spec
INVARIANTS
  BookFollowsExchange
  FastAgrees
  SweepMatchesDepth
  AggregateIsGroupBy
