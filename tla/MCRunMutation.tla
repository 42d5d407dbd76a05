--------------------------- MODULE MCRunMutation ---------------------------
(* Small instances of RunMutation for TLC. *)
EXTENDS RunMutation, TLC

Symmetry == Permutations(Requests) \cup Permutations(Hashes) \cup Permutations(Scopes)
=============================================================================
