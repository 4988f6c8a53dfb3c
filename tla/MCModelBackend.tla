--------------------------- MODULE MCModelBackend ---------------------------
(* Owners are interchangeable. *)
EXTENDS ModelBackend

OwnerSymmetry == Permutations(Owners)
=============================================================================
