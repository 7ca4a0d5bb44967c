SPECIFICATION Spec
CONSTANTS
  None = None
  b1 = b1
  b2 = b2
  Event = {e1}
  Sub = {s1}
  Body = {b1}
  Handler = {}
  Worker = {w1}
  MaxEntries = 1
  Faults = {}
  MaxFaults = 0
  MaxRetries = 5
  RetryBatch = 1
  Answers = {"ok", "retry"}
  PostBound = 6
  Matches <- MatchesB1
INVARIANT EveryRetryIsMade
