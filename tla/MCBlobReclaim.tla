--------------------------- MODULE MCBlobReclaim ---------------------------
(* Two artifacts that share their content; one has a metadata blob too.    *)
EXTENDS BlobReclaim, TLC

CONSTANTS rich, plain, content, meta

SharedContent == [a \in Artifacts |-> IF a = rich THEN {content, meta} ELSE {content}]

TheContent == [a \in Artifacts |-> content]

Sym == Permutations(Workers)
=============================================================================
