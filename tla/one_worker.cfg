SPECIFICATION Spec
CONSTANTS
  None = None
  b1 = b1
  b2 = b2
  Event = {e1}
  Sub = {s1}
  Body = {b1, b2}
  Handler = {h1}
  Worker = {w1}
  MaxEntries = 2
  Faults = {"db", "redis", "crash", "loss"}
  MaxFaults = 2
  MaxRetries = 2
  RetryBatch = 1
  Answers = {"ok", "client", "retry", "lost"}
  PostBound = 3
  Matches <- MatchesB1
INVARIANTS
  Inv
  OneWorkerInv
  GivesUpOnlyWhenExhausted
  PostsWithinRetries
  AcceptedIsQueued
  QueuedIsStored
PROPERTIES
  SuccessIsFinal
  NumberNeverDecreases
  NoNewPostAfterDelete
  DeletedFallsSilent
  ImplementsLifecycle
CHECK_DEADLOCK FALSE
