SPECIFICATION Spec
CONSTANTS
  None = None
  b1 = b1
  b2 = b2
  Event = {e1}
  Sub = {s1}
  Body = {b1}
  Handler = {}
  Worker = {w1, w2}
  MaxEntries = 1
  Faults = {}
  MaxFaults = 0
  MaxRetries = 2
  RetryBatch = 2
  Answers = {"ok"}
  PostBound = 0
  Matches <- MatchesB1
PROPERTY SuccessIsFinal
