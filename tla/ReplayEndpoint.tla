--------------------------- MODULE ReplayEndpoint ---------------------------
(***************************************************************************)
(* An endpoint that lets an event through once: verifyAndClaimWebhook() of *)
(* packages/webhook-sdk with a ReplayStore, whose claims expire, and       *)
(* verify_hmac_sha256() of the Moneybee connectors, whose claims do not.   *)
(* Deliveries overlap and the clock runs between the check of the          *)
(* timestamp and the claim.  The store is shared and outlives the workers, *)
(* which may stop anywhere.                                                *)
(***************************************************************************)
EXTENDS SignedMessages

VARIABLES
  expiring,  \* whether claims expire; never changed
  claims,    \* of each event, when its claim expires; 0 for none
  claiming,  \* the message a worker has verified, and when
  accepted   \* ghost: the last acceptance of an event

endpoint == <<expiring, claims, claiming, accepted>>

Never == MaxClock + Skew + Tolerance + 2
Times == 0..Never
Verified == [message : Message, verified : Clock]
Acceptance == [message : Message, verified : Clock, at : Clock]

ASSUME NoneAssumption == None \notin Verified \cup Acceptance

EndpointTypeOK ==
  /\ expiring \in BOOLEAN
  /\ claims \in [Events -> Times]
  /\ claiming \in [Workers -> Verified \cup {None}]
  /\ accepted \in [Events -> Acceptance \cup {None}]

EndpointInit ==
  /\ expiring \in BOOLEAN
  /\ claims = [e \in Events |-> 0]
  /\ claiming = [w \in Workers |-> None]
  /\ accepted = [e \in Events |-> None]

-----------------------------------------------------------------------------
VerifyForClaim(w, m) ==
  /\ claiming[w] = None
  /\ m \in sent
  /\ Verifies(m)
  /\ claiming' = [claiming EXCEPT ![w] = [message |-> m, verified |-> clock]]
  /\ UNCHANGED <<environment, expiring, claims, accepted>>

(* Mutant: the claim ends with the last second its message verifies. *)
ExpiryAtWindow(m) == IF expiring THEN m.at + Tolerance ELSE Never

(* The claim outlives that second. *)
Expiry(m) == IF expiring THEN m.at + Tolerance + 1 ELSE Never

(* InMemoryReplayStore.claim() first forgets what has expired, of any      *)
(* event.                                                                  *)
Live(e) == claims[e] > clock
Purged == [e \in Events |-> IF Live(e) THEN claims[e] ELSE 0]

Stop(w) == claiming' = [claiming EXCEPT ![w] = None]

(* The claim succeeds and the event goes to its handler, or it is a        *)
(* replay.                                                                 *)
Claim(w) ==
  /\ claiming[w] # None
  /\ LET m == claiming[w].message IN
       \/ Live(m.id) /\ claims' = Purged /\ UNCHANGED accepted
       \/ /\ ~Live(m.id)
          /\ claims' = [Purged EXCEPT ![m.id] = Expiry(m)]
          /\ accepted' = [accepted EXCEPT ![m.id] =
               [message |-> m, verified |-> claiming[w].verified, at |-> clock]]
  /\ Stop(w)
  /\ UNCHANGED <<environment, expiring>>

(* The worker crashes, with its claim made or not. *)
StopBeforeClaim(w) ==
  /\ claiming[w] # None
  /\ Stop(w)
  /\ UNCHANGED <<environment, expiring, claims, accepted>>

EndpointStep ==
  \E w \in Workers :
    \/ \E m \in sent : VerifyForClaim(w, m)
    \/ Claim(w)
    \/ StopBeforeClaim(w)

EndpointNext == EndpointStep \/ (EnvironmentStep /\ UNCHANGED endpoint)

EndpointSpec ==
  /\ EnvironmentInit /\ EndpointInit
  /\ [][EndpointNext]_<<environment, endpoint>>

-----------------------------------------------------------------------------
(* A store keeps a claim exactly as long as its message could be verified: *)
(* an event is let through again only after the window of the message let  *)
(* through before, and then by a message signed later or by one that was   *)
(* verified in time and claimed out of it.  A store whose claims do not    *)
(* expire lets an event through once.                                      *)
AcceptedOncePerWindow ==
  [][\A e \in Events : accepted'[e] # accepted[e] /\ accepted[e] # None =>
       LET a == accepted[e]
           b == accepted'[e]
       IN /\ expiring
          /\ b.at > a.message.at + Tolerance
          /\ b.message = a.message => b.verified < b.at]_<<environment, endpoint>>

(* A claim is of a message that was sent, verified under a secret active   *)
(* then, and an event let through within its window is still claimed: the  *)
(* store never forgets early.                                              *)
AcceptedIsClaimed ==
  \A e \in Events : accepted[e] # None =>
    LET m == accepted[e].message IN
      /\ m \in sent /\ m.id = e
      /\ Distance(accepted[e].verified, m.at) <= Tolerance
      /\ Distance(clock, m.at) <= Tolerance => Live(e)
=============================================================================
