SPECIFICATION PacedSpec
CONSTANTS
  PC <- Addresses
  Succ <- Ring
  Reset = 0
  Vector = 2
  Kind = {"load", "ret"}
  Stale = {"load"}
  Exposed = {"ret"}
  None = None
PROPERTY PreciseTraps
