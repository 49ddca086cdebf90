SPECIFICATION Spec
CONSTANTS
  Procs = {p1, p2}
  Ops = {"scan", "verify", "loosen", "tighten", "retroCuration", "cascade"}
  Policies <- RequiredPolicies
  Changes = {"policy", "curation"}
  Cap = 5
  Horizon = 1
  Oversized = TRUE
INVARIANTS StatusIsProjection AuditErrsOnHoldsOnly ClearedOnce
SYMMETRY Symmetry
