SPECIFICATION Spec
CONSTANTS
  Procs = {p1, p2}
  Ops = {"scan", "indeterminate", "sweep", "waive", "reevaluate", "verify", "scrub", "cascade"}
  Policies <- OnlyLenientRequired
  Changes = {"bitrot"}
  Cap = 4
  Horizon = 1
  Oversized = TRUE
PROPERTIES ImplementsMachine
SYMMETRY Symmetry
