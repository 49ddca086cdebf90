SPECIFICATION Spec
CONSTANTS
  Procs = {p1, p2}
  Ops = {"scan", "sweep", "indeterminate", "block"}
  Policies <- EveryPolicy
  Changes = {}
  Cap = 7
  Horizon = 1
  Oversized = FALSE
INVARIANTS TypeOK TimerReleasesJustified
PROPERTIES FrozenPastCap
SYMMETRY Symmetry
