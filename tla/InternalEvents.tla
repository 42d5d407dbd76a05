--------------------------- MODULE InternalEvents ---------------------------
(***************************************************************************)
(* The internal trigger of the n8n package                                 *)
(* (integrations/n8n-nodes/src/internal-event-boundary.ts and              *)
(* nodes/CodestraInternalTrigger): a signed event is verified, validated   *)
(* and claimed at the replay guard of the Middleware before its workflow   *)
(* starts.  The guard is external: it grants a claim of an event once.     *)
(* Its answer may be lost, late, malformed or a failure; a claim the       *)
(* trigger gave up on may still reach it.  n8n may crash anywhere.         *)
(***************************************************************************)
EXTENDS SignedMessages, CanonicalEvent

CONSTANTS
  Contents,  \* what the events may say: functions on Events
  MaxRuns    \* bound on the runs counted of an event

ASSUME MaxRunsAssumption == MaxRuns \in Nat \ {0}
ASSUME NoneIsNoEvent == None \notin Events

VARIABLES
  content,     \* what each event says; never changed
  guard,       \* ids claimed at the guard
  late,        \* ids whose claim is under way though nobody waits for it
  asking,      \* the event a worker has a claim under way for
  dispatched,  \* workflow runs of each event
  told,        \* answers given about what an event says, with the event
  abandoned    \* ghost: events whose worker crashed while asking

trigger == <<content, guard, late, asking, dispatched, told, abandoned>>

(* The credentials of the trigger. *)
ExpectedTenant == "tenant"
AllowedTypes == {SocialType, WebhookType}
AllowedSources == {"urn:codestra:x"}

Answers == {"accepted", "refused", "replayed", "rejected", "retry"}

TriggerTypeOK ==
  /\ content \in Contents
  /\ guard \subseteq Events
  /\ late \subseteq Events
  /\ asking \in [Workers -> Events \cup {None}]
  /\ dispatched \in [Events -> 0..MaxRuns]
  /\ told \subseteq Events \X Answers
  /\ abandoned \subseteq Events

TriggerInit ==
  /\ content \in Contents
  /\ guard = {} /\ late = {}
  /\ asking = [w \in Workers |-> None]
  /\ dispatched = [e \in Events |-> 0]
  /\ told = {} /\ abandoned = {}

-----------------------------------------------------------------------------
Ask(w, e) == asking' = [asking EXCEPT ![w] = e]
Tell(e, answer) == told' = told \cup {<<e, answer>>}

Valid(e) ==
  /\ EventFailure(content[e], AllowedTypes, AllowedSources, ExpectedTenant) = "ok"
  /\ content[e].event.id = e

(* acceptSignedInternalEvent() up to the claim.  The tenant header is not  *)
(* signed: anybody on the way may set it.  401 and 403 leave no trace.      *)
Receive(w, m, header) ==
  /\ asking[w] = None
  /\ m \in sent
  /\ LET authentic == header = ExpectedTenant /\ Verifies(m) IN
       \/ ~authentic /\ UNCHANGED <<asking, told>>
       \/ authentic /\ ~Valid(m.id) /\ Tell(m.id, "refused") /\ UNCHANGED asking
       \/ authentic /\ Valid(m.id) /\ Ask(w, m.id) /\ UNCHANGED told
  /\ UNCHANGED <<environment, content, guard, late, dispatched, abandoned>>

(* The guard grants the claim, and the trigger reads the receipt.          *)
Dispatch(w) ==
  /\ asking[w] # None
  /\ LET e == asking[w] IN
       /\ e \notin guard
       /\ guard' = guard \cup {e}
       /\ dispatched[e] < MaxRuns
       /\ dispatched' = [dispatched EXCEPT ![e] = @ + 1]
       /\ Tell(e, "accepted")
  /\ Ask(w, None)
  /\ UNCHANGED <<environment, content, late, abandoned>>

(* Mutant: a receipt nobody can read is as good as one. *)
ReceiptUnreadDispatches(w) ==
  /\ asking[w] # None
  /\ guard' = guard \cup {asking[w]}
  /\ dispatched[asking[w]] < MaxRuns
  /\ dispatched' = [dispatched EXCEPT ![asking[w]] = @ + 1]
  /\ Tell(asking[w], "accepted")
  /\ Ask(w, None)
  /\ UNCHANGED <<environment, content, late, abandoned>>

(* The guard decides, granting the claim or not, and its answer is lost or *)
(* no receipt: 502 or 503, retryable.                                      *)
ReceiptUnread(w) ==
  /\ asking[w] # None
  /\ guard' = guard \cup {asking[w]}
  /\ Tell(asking[w], "retry")
  /\ Ask(w, None)
  /\ UNCHANGED <<environment, content, late, dispatched, abandoned>>

(* 409. *)
ReplayDetected(w) ==
  /\ asking[w] \in guard
  /\ Tell(asking[w], "replayed")
  /\ Ask(w, None)
  /\ UNCHANGED <<environment, content, guard, late, dispatched, abandoned>>

(* The guard fails without a claim: its status is passed on, retryable     *)
(* from 500.                                                               *)
GuardFails(w) ==
  /\ asking[w] # None
  /\ Tell(asking[w], "retry") \/ Tell(asking[w], "rejected")
  /\ Ask(w, None)
  /\ UNCHANGED <<environment, content, guard, late, dispatched, abandoned>>

(* The timer of the claim aborts it; the guard may take it all the same.   *)
ClaimTimesOut(w) ==
  /\ asking[w] # None
  /\ late' = late \cup {asking[w]}
  /\ Tell(asking[w], "retry")
  /\ Ask(w, None)
  /\ UNCHANGED <<environment, content, guard, dispatched, abandoned>>

LateClaim(e) ==
  /\ e \in late
  /\ late' = late \ {e}
  /\ guard' = guard \cup {e}
  /\ UNCHANGED <<environment, content, asking, dispatched, told, abandoned>>

TriggerCrashes(w) ==
  /\ asking[w] # None
  /\ late' = late \cup {asking[w]}
  /\ abandoned' = abandoned \cup {asking[w]}
  /\ Ask(w, None)
  /\ UNCHANGED <<environment, content, guard, dispatched, told>>

TriggerStep ==
  \/ \E w \in Workers :
       \/ \E m \in sent, header \in {"tenant", "stranger"} : Receive(w, m, header)
       \/ Dispatch(w) \/ ReceiptUnread(w) \/ ReplayDetected(w) \/ GuardFails(w)
       \/ ClaimTimesOut(w) \/ TriggerCrashes(w)
  \/ \E e \in Events : LateClaim(e)

TriggerNext == TriggerStep \/ (EnvironmentStep /\ UNCHANGED trigger)

TriggerSpec ==
  /\ EnvironmentInit /\ TriggerInit
  /\ [][TriggerNext]_<<environment, trigger>>

-----------------------------------------------------------------------------
(* A workflow runs at most once for an event, whatever is redelivered,     *)
(* retried or claimed late, and 202 is told exactly of those that ran.     *)
DispatchedOnce ==
  \A e \in Events :
    /\ dispatched[e] <= 1
    /\ dispatched[e] = 1 <=> <<e, "accepted">> \in told
    /\ dispatched[e] = 1 => e \in guard

(* A claim is only spent on an event that was signed for this trigger: one *)
(* the Middleware sent, of its tenant in the header, the event and the     *)
(* data, of a type and a source it allows, under the id that was signed.   *)
(* No event that is refused is claimed or runs.                            *)
ClaimsAreDue ==
  \A e \in Events :
    e \in guard \cup late \/ dispatched[e] > 0 =>
      /\ \E m \in sent : m.id = e
      /\ content[e].event.id = e
      /\ content[e].event.tenantid = ExpectedTenant
      /\ content[e].event.type \in AllowedTypes
      /\ content[e].event.source \in AllowedSources
      /\ content[e].event.type = SocialType => content[e].data.tenantId = ExpectedTenant
      /\ <<e, "refused">> \notin told

(* An event that is claimed and did not run, so that no redelivery ever    *)
(* runs it, was reported as retryable or its worker crashed.               *)
LostIsReported ==
  \A e \in guard :
    dispatched[e] = 0 => <<e, "retry">> \in told \/ e \in abandoned

(* The trigger spends its claims well, whatever is redelivered, delayed or *)
(* interrupted: on events it was due, once each, and a loss is never       *)
(* reported as an acceptance.                                              *)
ClaimsSpentWell == TriggerTypeOK /\ DispatchedOnce /\ ClaimsAreDue /\ LostIsReported
=============================================================================
