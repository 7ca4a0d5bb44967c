SPECIFICATION Spec
CONSTANTS
  None = None
  b1 = b1
  b2 = b2
  Event = {e1}
  Sub = {s1}
  Body = {b1}
  Handler = {}
  Worker = {w1}
  MaxEntries = 1
  Faults = {"crash"}
  MaxFaults = 1
  MaxRetries = 2
  RetryBatch = 2
  Answers = {"ok", "client"}
  PostBound = 0
  Matches <- MatchesB1
PROPERTY FailureIsFinal
