----------------------------- MODULE MCPolicies -----------------------------
(* The scan policies the model-checking instances choose from. *)
EXTENDS QuarantineRules

Pol(blocks, raw, enforcement, waived, provenance, duration) ==
    [blocks |-> blocks, raw |-> raw, enforcement |-> enforcement,
     waived |-> waived, provenance |-> provenance, duration |-> duration]

(* Required provenance and a verdict against any finding; a policy whose   *)
(* exclusions cover the low findings; one that only records; one that      *)
(* waives scanning.                                                        *)
Strict == Pol({"low", "high"}, {"low", "high"}, "Reject", FALSE, "Required", 1)
Lenient == Pol({"high"}, {"low", "high"}, "Reject", FALSE, "VerifyIfPresent", 1)
Recording == Pol({"low", "high"}, {"low", "high"}, "Record", FALSE, "Required", 0)
Waiving == Pol({}, {"high"}, "Reject", TRUE, "Off", 1)
LenientRequired == [Lenient EXCEPT !.provenance = "Required"]

EveryPolicy == {Strict, Lenient, Recording, Waiving}
StrictOrLenient == {Strict, Lenient}
RequiredPolicies == {Strict, LenientRequired}
OnlyStrict == {Strict}
OnlyLenient == {Lenient}
OnlyLenientRequired == {LenientRequired}

=============================================================================
