CONSTANTS
  c1 = c1 c2 = c2 t1 = t1 t2 = t2 None = None
  Clients = {c1, c2}
  Threads = {t1, t2}
  RegQueueSize = 1
  MaxPosts = 3
SPECIFICATION Spec
INVARIANTS TypeOK AllDelivered HandlerOutlives
PROPERTY FeedSpec
CHECK_DEADLOCK FALSE
