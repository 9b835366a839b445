CONSTANTS
  s1 = s1 s2 = s2
  Staff = {s1, s2}
  None = None
  NumQueues = 1
  Limit = 2
  ThreadQueueSize = 1
  PostQueueSize = 1
  MaxThreads = 2
  MaxPosts = 2
  MaxChanges = 2
  MaxRestarts = 1
SPECIFICATION FairSpec
INVARIANTS TypeOK ThreadsAgree PostsAgree LocksAgree
PROPERTIES SequencerReturns NotReplaced
CHECK_DEADLOCK FALSE
