------------------------ MODULE MCPolicyProjection ------------------------
(***************************************************************************)
(* PolicyProjection for TLC.                                               *)
(***************************************************************************)
EXTENDS PolicyProjection, TLC

Sym == Permutations(Writers)

=============================================================================
