--------------------------- MODULE SignedMessages ---------------------------
(***************************************************************************)
(* Signed webhook messages on their way: what signWebhook() made of an     *)
(* event, a timestamp and a secret, and when verifyWebhook() accepts it    *)
(* (packages/webhook-sdk; the n8n package has the same code, and the       *)
(* verifier of the Moneybee connectors the same rule).  The network loses, *)
(* duplicates and delays: every message ever sent may arrive at any time,  *)
(* any number of times.  A sender may sign an event again, with a new      *)
(* timestamp.  A rotation makes the current secret the previous one; both  *)
(* are active.                                                             *)
(*                                                                         *)
(* A signature is the secret it was made with, so nothing is accepted that *)
(* was not sent; the HMAC, the encodings and the checks of their form are  *)
(* left out.                                                               *)
(***************************************************************************)
EXTENDS Integers, FiniteSets

CONSTANTS
  Events,
  Workers,    \* of the receivers
  None,
  Tolerance,  \* seconds
  Skew,       \* seconds the sender's clock is ahead at most
  MaxClock,   \* bound on the time that passes
  MaxSecret,  \* bound on the rotations
  MaxSent     \* bound on the messages signed

ASSUME ToleranceAssumption == Tolerance \in Nat
ASSUME SkewAssumption == Skew \in Nat
ASSUME MaxClockAssumption == MaxClock \in Nat \ {0}
ASSUME MaxSecretAssumption == MaxSecret \in Nat \ {0}

VARIABLES
  clock,   \* epoch seconds
  secret,  \* the current secret; the one before it is the previous one
  sent     \* messages on the network

environment == <<clock, secret, sent>>

Clock == 1..MaxClock
Secrets == 1..MaxSecret
Message == [id : Events, at : 1..(MaxClock + Skew), key : Secrets]

EnvironmentTypeOK ==
  /\ clock \in Clock
  /\ secret \in Secrets
  /\ sent \subseteq Message

EnvironmentInit == clock = 1 /\ secret = 1 /\ sent = {}

-----------------------------------------------------------------------------
ActiveSecrets == {secret, secret - 1}

Distance(a, b) == IF a > b THEN a - b ELSE b - a

(* verifyWebhook() with the active secrets, at the time it reads first. *)
Verifies(m) == Distance(clock, m.at) <= Tolerance /\ m.key \in ActiveSecrets

(* signWebhook(), at the time of the sender's clock. *)
Sign(e, at) ==
  /\ Cardinality(sent) < MaxSent
  /\ sent' = sent \cup {[id |-> e, at |-> at, key |-> secret]}
  /\ sent' # sent
  /\ UNCHANGED <<clock, secret>>

Rotate ==
  /\ secret < MaxSecret
  /\ secret' = secret + 1
  /\ UNCHANGED <<clock, sent>>

Tick ==
  /\ clock < MaxClock
  /\ clock' = clock + 1
  /\ UNCHANGED <<secret, sent>>

EnvironmentStep ==
  \/ Rotate
  \/ Tick
  \/ \E e \in Events, at \in clock..(clock + Skew) : Sign(e, at)
=============================================================================
