CONSTANTS
  all = all admin = admin a = a b = b
  All = all
  Admin = admin
  UserTags <- UserLists
  NumQueues = 1
  Limit = 3
  TagsPerThread = 2
  MaxThreads = 3
  Queries <- SomeQueries
  ThreadsPerPage = 1
  PageRange = 4
SPECIFICATION CSpec
INVARIANTS QueryExact QueryOrdered PagesCover
CHECK_DEADLOCK FALSE
