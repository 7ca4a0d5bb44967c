SPECIFICATION FairSpec
CONSTANTS
  None = None
  b1 = b1
  b2 = b2
  Event = {e1}
  Sub = {s1, s2}
  Body = {b1}
  Handler = {h1}
  Worker = {w1}
  MaxEntries = 1
  Faults = {}
  MaxFaults = 0
  MaxRetries = 2
  RetryBatch = 1
  Answers = {"ok", "retry"}
  PostBound = 0
  Matches <- MatchesB1
PROPERTY EveryOwedDeliverySettles
