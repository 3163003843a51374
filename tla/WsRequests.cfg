CONSTANTS
  r1 = r1  r2 = r2  q1 = q1  u1 = u1  s1 = s1  s2 = s2  c1 = c1  w1 = w1  w2 = w2
  Requests = {r1, r2}
  Readers = {}
  Subscribers = {}
  Stoppers = {s1}
  Waiters = {}
  Watchers = {}
  Cancellable = {}
  InitialSubs = TRUE
  Bodies = {"ok", "failed", "ackError", "other", "update"}
  QueueCap = 1
  EventCap = 1
  InboxCap = 2
  NoOne = NoOne
SPECIFICATION Spec
SYMMETRY CallSymmetry
INVARIANTS
  TypeOK
  AnswersAreTrue
  NoStrandedCall
  NoStaleEntry
PROPERTIES
  ImplementsContract
CHECK_DEADLOCK FALSE
