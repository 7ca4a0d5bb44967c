SPECIFICATION FairSpec
CONSTANTS
  None = None
  b1 = b1
  b2 = b2
  Event = {e1}
  Sub = {s1, s2}
  Body = {b1}
  Handler = {}
  Worker = {w1}
  MaxEntries = 2
  Faults = {"db", "redis", "crash", "loss"}
  MaxFaults = 2
  MaxRetries = 2
  RetryBatch = 1
  Answers = {"ok", "client", "lost"}
  PostBound = 0
  Matches <- MatchesB1
PROPERTIES
  OwedSettlesUnlessLost
  ImplementsLifecycle
CHECK_DEADLOCK FALSE
