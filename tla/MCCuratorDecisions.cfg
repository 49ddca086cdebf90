SPECIFICATION Spec
CONSTANTS
  Procs = {p1, p2}
  Ops = {"scan", "waive", "reevaluate", "verify", "scrub"}
  Policies <- RequiredPolicies
  Changes = {"policy", "curation", "bitrot"}
  Cap = 5
  Horizon = 1
  Oversized = FALSE
INVARIANTS LoadedRowIsCurrent ReEvaluationReleasesJustified CorruptionIsFinal
PROPERTIES CommitsFollowTable
SYMMETRY Symmetry
