CONSTANTS
  k1 = k1  h1 = h1  x1 = x1  acc = acc  tick = tick  book = book
  Calls = {k1}
  HandlerCalls = {h1}
  Oracles = {}
  AutoTopics <- OneTopic
  UserTopics = {}
  Debug = FALSE
  Hasty = FALSE
  Errors = TRUE
  UnknownStatus = TRUE
  MaxConns = 2
  MaxFailures = 0
  MaxEnds = 1
  InboxCap = 1
  NoCall = NoCall
SPECIFICATION Spec
INVARIANTS
  OwnAnswersAreTrue
  PendingIsAwaited
PROPERTIES
  ImplementsContract
CHECK_DEADLOCK FALSE
