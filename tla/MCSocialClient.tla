--------------------------- MODULE MCSocialClient ---------------------------
(* Small instances of SocialClient for TLC. *)
EXTENDS SocialClient, TLC

CONSTANTS t1, t2, p1, p2, k1, k2

Create(t, k) ==
  [operation |-> "create", of |-> None, key |-> k, tenant |-> t, token |-> t]
Cancel(t, k, p, token) ==
  [operation |-> "cancel", of |-> p, key |-> k, tenant |-> t, token |-> token]

(* One tenant creates, and cancels under two keys; or another tenant tries *)
(* to cancel its post, with its own token and with the first one's; or a   *)
(* key is used for two posts.                                              *)
TwoKeys == {Create(t1, k1), Cancel(t1, k1, p1, t1), Cancel(t1, k2, p1, t1)}
TwoTenants == {Create(t1, k1), Cancel(t1, k1, p1, t1),
               Cancel(t2, k1, p1, t2), Cancel(t2, k1, p1, t1)}
TwoPosts == {Create(t1, k1), Cancel(t1, k1, p1, t1), Cancel(t1, k1, p2, t1)}
SomeMenus == {TwoKeys, TwoTenants, TwoPosts}

Symmetry == Permutations(Requests)
=============================================================================
