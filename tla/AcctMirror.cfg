CONSTANTS
  o1 = o1  o2 = o2  t1 = t1
  Orders = {o1, o2}
  Sells = {o2}
  MaxSize = 2
  MaxChanges = 2
  EventCap = 2
  Readers = {t1}
  BadParts = {"margin", "orders"}
  WorkingUpdate = FALSE
  EndStatuses = {"cancelled", "unknown"}
SPECIFICATION Spec
INVARIANTS
  MirrorsExchange
  PublishedIsCurrent
  EventsAfterPublication
PROPERTIES
  NextIsLater
CHECK_DEADLOCK FALSE
