CONSTANTS
  r1 = r1  r2 = r2  q1 = q1  u1 = u1  s1 = s1  s2 = s2  c1 = c1  w1 = w1  w2 = w2
  Requests = {r1}
  Readers = {}
  Subscribers = {}
  Stoppers = {}
  Waiters = {}
  Watchers = {w1}
  Cancellable = {}
  InitialSubs = TRUE
  Bodies = {"ok"}
  QueueCap = 1
  EventCap = 1
  InboxCap = 1
  NoOne = NoOne
SPECIFICATION FairSpec
PROPERTIES
  ExitFiresWatchers
CHECK_DEADLOCK FALSE
