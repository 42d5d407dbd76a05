------------------------------ MODULE OnceOnly ------------------------------
(***************************************************************************)
(* What a client of a keyed mutation may rely on, without leases, tokens,  *)
(* processes or failures.  For each scope (tenant, operation and           *)
(* Idempotency-Key) there is at most one undertaking at a time; it belongs *)
(* to one request fingerprint, has at most one effect, and is settled as   *)
(* done only when it had its effect and as refused only when it had none.  *)
(* An undertaking that was started is never restarted: it is settled, or   *)
(* stays unsettled.  A settled one may be forgotten, which begins a new    *)
(* generation of the scope.                                                *)
(***************************************************************************)
EXTENDS Naturals

CONSTANTS Scopes, Hashes, None

VARIABLES
  stage,       \* of the current undertaking: "open", "started", "done", "refused"
  owner,       \* its fingerprint from the start on, None while open
  generation,  \* how many settled undertakings of the scope were forgotten
  effects      \* every effect: its scope, generation and fingerprint

vars == <<stage, owner, generation, effects>>

Init ==
  /\ stage = [s \in Scopes |-> "open"]
  /\ owner = [s \in Scopes |-> None]
  /\ generation = [s \in Scopes |-> 0]
  /\ effects = {}

EffectOf(s) == [scope |-> s, generation |-> generation[s], hash |-> owner[s]]

Start(s, h) ==
  /\ stage[s] = "open"
  /\ stage' = [stage EXCEPT ![s] = "started"]
  /\ owner' = [owner EXCEPT ![s] = h]
  /\ UNCHANGED <<generation, effects>>

Effect(s) ==
  /\ stage[s] = "started"
  /\ \A e \in effects : e.scope = s => e.generation # generation[s]
  /\ effects' = effects \cup {EffectOf(s)}
  /\ UNCHANGED <<stage, owner, generation>>

Settle(s) ==
  /\ stage[s] = "started"
  /\ stage' = [stage EXCEPT ![s] = IF EffectOf(s) \in effects THEN "done" ELSE "refused"]
  /\ UNCHANGED <<owner, generation, effects>>

Forget(s) ==
  /\ stage[s] \in {"done", "refused"}
  /\ stage' = [stage EXCEPT ![s] = "open"]
  /\ owner' = [owner EXCEPT ![s] = None]
  /\ generation' = [generation EXCEPT ![s] = @ + 1]
  /\ UNCHANGED effects

Next == \E s \in Scopes :
          Effect(s) \/ Settle(s) \/ Forget(s) \/ \E h \in Hashes : Start(s, h)

Spec == Init /\ [][Next]_vars
=============================================================================
