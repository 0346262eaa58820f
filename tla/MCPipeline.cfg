SPECIFICATION PacedSpec
CONSTANTS
  PC <- Addresses
  Succ <- Ring
  Reset = 0
  Vector = 2
  Kind = {"load", "amo", "branch", "serial", "fence", "fence_i", "trigger", "exc", "ret", "wfi"}
  Stale = {"load", "amo", "branch", "serial", "fence_i", "trigger", "exc"}
  Exposed = {}
  None = None
INVARIANTS InOrder AmoIsWhole SleepsAfterWfi
PROPERTY PreciseTraps Progress
