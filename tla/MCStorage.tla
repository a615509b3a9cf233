----------------------------- MODULE MCStorage -----------------------------
(* Instances of Storage for TLC. *)
EXTENDS Storage, TLC

CONSTANTS s1, s2
Perms == Permutations(Sessions)
=============================================================================
