--------------------------- MODULE MCVoiceControl ---------------------------
(* Small instances of VoiceControl for TLC. *)
EXTENDS VoiceControl, TLC

Symmetry == Permutations(Calls)
=============================================================================
