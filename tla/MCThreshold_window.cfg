CONSTANTS
  u1 = u1 page = page post = post
  Addrs = {u1}
  Params = {page, post}
  Times <- TimesOf
  Duration <- DurationOf
  MaxTime = 5
SPECIFICATION Spec
INVARIANTS TypeOK NeverExceeded
PROPERTY WindowSpec
