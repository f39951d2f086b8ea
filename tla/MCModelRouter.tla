--------------------------- MODULE MCModelRouter ---------------------------
(* Small instances of ModelRouter. *)
EXTENDS ModelRouter, TLC

CONSTANTS A, B, r1, r2, r3

MCWants == r1 :> A @@ r2 :> B @@ r3 :> B

=============================================================================
