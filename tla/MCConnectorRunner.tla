------------------------- MODULE MCConnectorRunner -------------------------
(* Small instances of ConnectorRunner for TLC. *)
EXTENDS ConnectorRunner, TLC

Symmetry == Permutations(Requests) \cup Permutations(Hashes)
=============================================================================
