---------------------------- MODULE MCPullDedup ----------------------------
(* Model-checking instance of PullDedup: two calls meet on one replica,    *)
(* one comes in on another.                                                *)
EXTENDS PullDedup

CONSTANTS c1, c2, c3, r1, r2

TwoAndOne == [c \in Calls |-> IF c = c3 THEN r2 ELSE r1]

=============================================================================
