SPECIFICATION PollFairSpec
CONSTANTS
  PollInterval = 5
  ReadTimeout = 2
  BaseDelay = 5
  MaxRetries = 2
  RetryBatch = 1
  Skipped = 0
  MaxAhead = 0
  MaxWork = 1
  MaxBacklog = 1
  SinceBound = 10
PROPERTY DueIsRetried
