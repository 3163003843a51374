CONSTANTS
  k1 = k1  h1 = h1  x1 = x1  acc = acc  tick = tick  book = book
  Calls = {}
  HandlerCalls = {h1}
  Oracles = {}
  AutoTopics <- AutoSubscribed
  UserTopics = {}
  Debug = FALSE
  Hasty = FALSE
  Errors = FALSE
  UnknownStatus = FALSE
  MaxConns = 1
  MaxFailures = 0
  MaxEnds = 0
  InboxCap = 1
  NoCall = NoCall
SPECIFICATION FairSpec
PROPERTIES
  CallsAreAnswered
CHECK_DEADLOCK FALSE
