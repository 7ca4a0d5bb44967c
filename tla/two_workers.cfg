SPECIFICATION Spec
CONSTANTS
  None = None
  b1 = b1
  b2 = b2
  Event = {e1}
  Sub = {s1, s2}
  Body = {b1}
  Handler = {}
  Worker = {w1, w2}
  MaxEntries = 1
  Faults = {"db"}
  MaxFaults = 1
  MaxRetries = 2
  RetryBatch = 1
  Answers = {"ok", "client", "retry"}
  PostBound = 0
  Matches <- MatchesB1
INVARIANTS
  NoDeliveryForgotten
  SuccessIsEarned
  AttemptNumberBounded
SYMMETRY PeerSymmetry
