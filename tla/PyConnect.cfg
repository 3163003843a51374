CONSTANTS
  k1 = k1  h1 = h1  x1 = x1  acc = acc  tick = tick  book = book
  Calls = {}
  HandlerCalls = {}
  Oracles = {x1}
  AutoTopics <- AutoSubscribed
  UserTopics = {book}
  Debug = FALSE
  Hasty = FALSE
  Errors = FALSE
  UnknownStatus = FALSE
  MaxConns = 3
  MaxFailures = 1
  MaxEnds = 2
  InboxCap = 1
  NoCall = NoCall
SPECIFICATION Spec
INVARIANTS
  DisconnectIsFinal
  SubscriptionsReplayed
CHECK_DEADLOCK FALSE
