CONSTANTS
  u1 = u1 v1 = v1 v2 = v2 i1 = i1 page = page None = None
  Addrs = {u1}
  Params = {page}
  PageRequest = page
  Times <- TimesOf
  Duration <- DurationOf
  MaxTime = 1
  Viewers = {v1, v2}
  Issuers = {i1}
  Lengths = {2}
  DosLength = 1
  BanQueueSize = 1
  MaxBans = 1
  MaxRestarts = 1
SPECIFICATION BFairSpec
INVARIANTS TypeOK BanAgrees DosBansBounded
PROPERTY RequestsFinish
