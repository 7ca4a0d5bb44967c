SPECIFICATION PollSpec
CONSTANTS
  PollInterval = 5
  ReadTimeout = 2
  BaseDelay = 5
  MaxRetries = 4
  RetryBatch = 2
  Skipped = 1
  MaxAhead = 3
  MaxWork = 6
  MaxBacklog = 2
  SinceBound = 40
INVARIANTS
  PollTypeOK
  BackoffHonoured
  EventPrompt
  RetryPrompt
