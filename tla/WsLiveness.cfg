CONSTANTS
  r1 = r1  r2 = r2  q1 = q1  u1 = u1  s1 = s1  s2 = s2  c1 = c1  w1 = w1  w2 = w2
  Requests = {}
  Readers = {q1}
  Subscribers = {u1}
  Stoppers = {s1}
  Waiters = {c1}
  Watchers = {w1}
  Cancellable = {c1}
  InitialSubs = FALSE
  Bodies = {"ok"}
  QueueCap = 1
  EventCap = 1
  InboxCap = 1
  NoOne = NoOne
SPECIFICATION FairSpec
INVARIANTS
  NoticeMeansFlagDown
  ReturnedMeansExited
PROPERTIES
  CallsReturn
  ShutdownCompletes
  ClosedCompletes
  WatchersNotified
CHECK_DEADLOCK FALSE
