---------------------------- MODULE MCEventChain ----------------------------
(* Small instances of EventChain: appenders are interchangeable, and since  *)
(* nothing reads what a verification found, a behaviour is followed only    *)
(* up to its end.                                                           *)
EXTENDS EventChain, TLC

Sym == Permutations(Appenders)

Verifying == verify.stage # "done"

=============================================================================
