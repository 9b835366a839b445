CONSTANTS
  t1 = t1 t2 = t2
  c1 = c1 c2 = c2 c3 = c3
  o1 = o1 o2 = o2 o3 = o3 o4 = o4 o5 = o5 o6 = o6
  Threads = {t1}
  RecoveredPage <- OneRecovered
  HiddenThreads = {}
  Clients = {c1,c2,c3}
  Staff = {}
  Objects = {o1, o2, o3, o4, o5}
  None = None
  Self = Self
  PostsPerThread = 2
  ChannelCap = 1
  MaxRequests = 4
SPECIFICATION Spec
SYMMETRY Symmetric
CHECK_DEADLOCK FALSE
INVARIANTS TypeOK CacheCoherent ServedCurrent
