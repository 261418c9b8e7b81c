SPECIFICATION DFairSpec
CONSTANTS
  Items = {a}
  Workers = {w1}
  Drainers = {}
  Stoppers = {s1}
  NoItem = NoItem
  BaseDelay = 1
  MaxDelay = 2
  BucketDelays = {0}
  RequeueDelays = {0, 1}
  ChannelCap = 1
  Horizon = 4
  MaxFailures = 3
INVARIANTS RetryIsSomewhere
PROPERTIES FailedSyncIsRetried AddAfterReturns
CHECK_DEADLOCK FALSE
