------------------------- MODULE ProcessingEndpoint -------------------------
(***************************************************************************)
(* An endpoint that processes an event under a lease:                      *)
(* verifyAndClaimWebhookProcessing() of packages/webhook-sdk, a            *)
(* WebhookProcessingStore and the handler of the package's README, which   *)
(* marks the event processed, or failed when anything throws.  Workers     *)
(* overlap and may crash anywhere; the store outlives them and its answers *)
(* may get lost.                                                           *)
(*                                                                         *)
(* split says how a consumer names the signer of a scope: FALSE as in the  *)
(* README, always "current"; TRUE by the secret's own role.                *)
(***************************************************************************)
EXTENDS SignedMessages

CONSTANTS
  ProcessingTtl,  \* seconds
  MaxLeases       \* bound on the leases of a scope

ASSUME ProcessingTtlAssumption == ProcessingTtl \in Nat \ {0}
ASSUME MaxLeasesAssumption == MaxLeases \in Nat

VARIABLES
  split,    \* never changed
  record,   \* the WebhookProcessingStore
  drawn,    \* lease tokens drawn, of each scope
  pc,
  task,     \* the message a worker verified, then the lease it holds
  handled   \* ghost: the leases under which the handler came to its end

processing == <<split, record, drawn, pc, task, handled>>

Scopes == {"current", "previous"} \X Events
LeaseTimes == 0..(MaxClock + ProcessingTtl)
Tokens == 0..MaxLeases  \* 0 is no token

NoRecord == [state |-> "none", token |-> 0, expires |-> 0]
Record == {NoRecord}
            \cup [state : {"processing"}, token : Tokens \ {0}, expires : LeaseTimes]
            \cup [state : {"processed", "failed"}, token : {0}, expires : {0}]
Lease == [scope : Scopes, token : Tokens \ {0}, expires : LeaseTimes]

ProcessingTypeOK ==
  /\ split \in BOOLEAN
  /\ record \in [Scopes -> Record]
  /\ drawn \in [Scopes -> Tokens]
  /\ pc \in [Workers -> {"idle", "reserving", "handling", "succeeding", "failing"}]
  /\ task \in [Workers -> {None} \cup Message \cup Lease]
  /\ \A w \in Workers :
       task[w] \in CASE pc[w] = "idle" -> {None}
                     [] pc[w] = "reserving" -> Message
                     [] OTHER -> Lease
  /\ handled \subseteq Lease

ProcessingInit ==
  /\ split \in BOOLEAN
  /\ record = [s \in Scopes |-> NoRecord]
  /\ drawn = [s \in Scopes |-> 0]
  /\ pc = [w \in Workers |-> "idle"]
  /\ task = [w \in Workers |-> None]
  /\ handled = {}

-----------------------------------------------------------------------------
Goto(w, label) == pc' = [pc EXCEPT ![w] = label]
Drop(w) == Goto(w, "idle") /\ task' = [task EXCEPT ![w] = None]

VerifyForLease(w, m) ==
  /\ pc[w] = "idle"
  /\ m \in sent
  /\ Verifies(m)
  /\ Goto(w, "reserving")
  /\ task' = [task EXCEPT ![w] = m]
  /\ UNCHANGED <<environment, split, record, drawn, handled>>

(* buildWebhookProcessingScope(). *)
ScopeOf(m) == <<IF split /\ m.key # secret THEN "previous" ELSE "current", m.id>>

(* Mutant: a failed event is up for another try. *)
ClaimableWhenFailed(s) ==
  \/ record[s].state \in {"none", "failed"}
  \/ record[s].state = "processing" /\ record[s].expires <= clock

Claimable(s) ==
  \/ record[s].state = "none"
  \/ record[s].state = "processing" /\ record[s].expires <= clock

(* claimProcessing() refuses: processed, failed or being processed. *)
RefuseLease(w) ==
  /\ pc[w] = "reserving"
  /\ ~Claimable(ScopeOf(task[w]))
  /\ Drop(w)
  /\ UNCHANGED <<environment, split, record, drawn, handled>>

(* claimProcessing() grants a lease until now + ttl, which the worker may  *)
(* never hear of.                                                          *)
GrantLease(w) ==
  /\ pc[w] = "reserving"
  /\ LET s == ScopeOf(task[w])
         token == drawn[s] + 1
         expires == clock + ProcessingTtl
     IN /\ Claimable(s)
        /\ token <= MaxLeases
        /\ drawn' = [drawn EXCEPT ![s] = token]
        /\ record' = [record EXCEPT ![s] =
             [state |-> "processing", token |-> token, expires |-> expires]]
        /\ \/ Drop(w)
           \/ /\ Goto(w, "handling")
              /\ task' = [task EXCEPT ![w] =
                   [scope |-> s, token |-> token, expires |-> expires]]
  /\ UNCHANGED <<environment, split, handled>>

(* The handler of the consumer comes to its end, or throws. *)
HandlerEnds(w) ==
  /\ pc[w] = "handling"
  /\ \/ Goto(w, "succeeding") /\ handled' = handled \cup {task[w]}
     \/ Goto(w, "failing") /\ UNCHANGED handled
  /\ UNCHANGED <<environment, split, record, drawn, task>>

(* Mutant: the token is not compared. *)
HoldsByScope(l) == record[l.scope].state = "processing"

(* requireLease(), which does not look at the clock. *)
Holds(l) ==
  /\ record[l.scope].state = "processing"
  /\ record[l.scope].token = l.token
  /\ record[l.scope].expires = l.expires

Verdict(s, state) ==
  record' = [record EXCEPT ![s] = [state |-> state, token |-> 0, expires |-> 0]]

MarkProcessed(w) ==
  /\ pc[w] = "succeeding"
  /\ Holds(task[w])
  /\ Verdict(task[w].scope, "processed")
  /\ Drop(w)
  /\ UNCHANGED <<environment, split, drawn, handled>>

(* markProcessed() throws because the lease is lost or the store failed,   *)
(* before or after its write: the README's catch then marks the event      *)
(* failed.                                                                 *)
MarkProcessedThrows(w) ==
  /\ pc[w] = "succeeding"
  /\ \/ Holds(task[w]) /\ Verdict(task[w].scope, "processed")
     \/ UNCHANGED record
  /\ Goto(w, "failing")
  /\ UNCHANGED <<environment, split, drawn, task, handled>>

MarkFailed(w) ==
  /\ pc[w] = "failing"
  /\ \/ Holds(task[w]) /\ Verdict(task[w].scope, "failed")
     \/ UNCHANGED record
  /\ Drop(w)
  /\ UNCHANGED <<environment, split, drawn, handled>>

WorkerCrashes(w) ==
  /\ pc[w] # "idle"
  /\ Drop(w)
  /\ UNCHANGED <<environment, split, record, drawn, handled>>

ProcessingStep ==
  \E w \in Workers :
    \/ \E m \in sent : VerifyForLease(w, m)
    \/ RefuseLease(w) \/ GrantLease(w) \/ HandlerEnds(w)
    \/ MarkProcessed(w) \/ MarkProcessedThrows(w) \/ MarkFailed(w)
    \/ WorkerCrashes(w)

ProcessingNext == ProcessingStep \/ (EnvironmentStep /\ UNCHANGED processing)

ProcessingSpec ==
  /\ EnvironmentInit /\ ProcessingInit
  /\ [][ProcessingNext]_<<environment, processing>>

-----------------------------------------------------------------------------
Working(w) == pc[w] \in {"handling", "succeeding", "failing"}

(* Of two workers on one scope, one has outlived its lease, and the store  *)
(* will take the verdict of at most one.                                   *)
OverlapOnlyAfterExpiry ==
  \A v, w \in Workers :
    v # w /\ Working(v) /\ Working(w) /\ task[v].scope = task[w].scope =>
      /\ task[v].expires <= clock \/ task[w].expires <= clock
      /\ ~(Holds(task[v]) /\ Holds(task[w]))

(* Processed means handled, and under the last lease drawn: a worker that  *)
(* outlived its lease decides nothing.                                     *)
ProcessedWasHandled ==
  \A s \in Scopes :
    record[s].state = "processed" =>
      \E l \in handled : l.scope = s /\ l.token = drawn[s]

(* A verdict is final: it never changes, and no lease of the scope is      *)
(* drawn after it.  With the signer always "current" that holds of the     *)
(* event, across rotations and repeated deliveries.                        *)
VerdictIsFinal ==
  [][\A s \in Scopes : record[s].state \in {"processed", "failed"} =>
       /\ record'[s] = record[s]
       /\ drawn'[s] = drawn[s]
       /\ ~split => \A t \in Scopes : t[2] = s[2] => drawn'[t] = drawn[t]
     ]_<<environment, processing>>
=============================================================================
