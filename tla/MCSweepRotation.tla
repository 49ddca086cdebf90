-------------------------- MODULE MCSweepRotation --------------------------
(* Model-checking instance of SweepRotation: all windows began at the same *)
(* instant, so every order among equally stamped candidates happens.       *)
EXTENDS SweepRotation

SameWindow == [a \in Artifacts |-> 1]

=============================================================================
