SPECIFICATION SubsSpec
CONSTANTS
  None = None
  Event = {e1}
  Sub = {s1}
  Body = {b1}
  Handler = {h1, h2}
PROPERTY DeletedStaysInactive
