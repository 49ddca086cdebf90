------------------------ MODULE MCArtifactLifecycle ------------------------
(* Model-checking instance of ArtifactLifecycle.  Processes that run the   *)
(* same operations are interchangeable.                                    *)
EXTENDS ArtifactLifecycle, MCPolicies, TLC

Symmetry == Permutations(Procs)

=============================================================================
