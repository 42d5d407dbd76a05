----------------------- MODULE MCWebhookSubscriptions -----------------------
(* Small instances of WebhookSubscriptions for TLC. *)
EXTENDS WebhookSubscriptions, TLC

Symmetry == Permutations(Requests) \cup Permutations(Keys)
=============================================================================
