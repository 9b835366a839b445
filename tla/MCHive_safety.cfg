CONSTANTS
  all = all admin = admin a = a b = b
  All = all
  Admin = admin
  UserTags <- ReservedTags
  NumQueues = 1
  Limit = 2
  TagsPerThread = 2
  MaxThreads = 3
SPECIFICATION Spec
INVARIANTS TypeOK IndexAgrees ThreadsBounded QueuesNotPruned
PROPERTIES LabelsKept OnlyRepeatsPanic
CHECK_DEADLOCK FALSE
