SPECIFICATION AuditSpec
CONSTANTS
  None = None
  Event = {e1}
  Sub = {s1, s2, s3}
  Body = {b1}
  Handler = {h1}
  Faults = {"db"}
  MaxFaults = 1
  AskedLimits = {0, 1, 2}
  MaxTime = 3
  MaxUpserts = 2
INVARIANTS
  PagesMissNothing
  RepeatsAreInserts
  UrlsAreFound
CHECK_DEADLOCK FALSE
SYMMETRY SubSymmetry
