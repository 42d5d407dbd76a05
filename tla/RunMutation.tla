---------------------------- MODULE RunMutation ----------------------------
(***************************************************************************)
(* runIdempotentMutation over PrismaIdempotencyStore: what the Middleware  *)
(* does with one mutating public-API request                               *)
(* (services/middleware/src/idempotency/run-mutation.ts).                  *)
(*                                                                         *)
(* Requests are concurrent calls of the function, in one process or in     *)
(* several: they meet only in the ledger rows.  Each store call is one     *)
(* transaction.  It may commit and be acknowledged, commit and lose the    *)
(* acknowledgement (the caller sees an exception), or not commit.  A       *)
(* process may crash between any two steps, which ends the requests it     *)
(* serves; their rows stay.                                                *)
(*                                                                         *)
(* work() is the route's own mutation.  It either applies its effect, once *)
(* and atomically, or is refused with a 4xx CodestraError before any       *)
(* effect; it may throw anything else before or after the effect.          *)
(*                                                                         *)
(* Ghosts, read by no action: generation counts the expired results of a   *)
(* scope that were discarded, effects records every effect of work().      *)
(***************************************************************************)
EXTENDS LedgerRow

CONSTANTS
  Scopes,     \* tenant:namespace:operation:Idempotency-Key
  Requests,   \* concurrent calls of runIdempotentMutation
  MaxLeases   \* bound on the lease tokens handed out

ASSUME MaxLeasesAssumption == MaxLeases \in Nat

VARIABLES
  row,         \* the ledger: one row per scope
  issued,      \* the last lease token handed out
  pc,          \* where each request is in the function
  call,        \* its scope and fingerprint
  held,        \* the token of the lease it holds, 0 when none
  answer,      \* what its caller was last told
  generation,
  effects

vars == <<row, issued, pc, call, held, answer, generation, effects>>

Pcs == {"idle", "begin", "acquired", "releasing", "working", "applied",
        "rejecting", "retaining"}

(* After markDispatched() succeeded and until the outcome is recorded. *)
InWork == {"working", "applied", "rejecting", "retaining"}

Kinds == {"none", "ok", "replay", "rejected", "request_mismatch",
          "in_progress", "indeterminate", "dispatch_failed", "error", "lost"}

NoAnswer == [kind |-> "none", token |-> 0]

TypeOK ==
  /\ row \in [Scopes -> Row \cup {NoRow}]
  /\ issued \in Nat
  /\ pc \in [Requests -> Pcs]
  /\ call \in [Requests -> [scope : Scopes, hash : Hashes]]
  /\ held \in [Requests -> Nat]
  /\ answer \in [Requests -> [kind : Kinds, token : Nat]]
  /\ generation \in [Scopes -> Nat]
  /\ effects \subseteq [scope : Scopes, generation : Nat, hash : Hashes, token : Nat]

Init ==
  /\ row = [s \in Scopes |-> NoRow]
  /\ issued = 0
  /\ pc = [r \in Requests |-> "idle"]
  /\ call \in [Requests -> [scope : Scopes, hash : Hashes]]
  /\ held = [r \in Requests |-> 0]
  /\ answer = [r \in Requests |-> NoAnswer]
  /\ generation = [s \in Scopes |-> 0]
  /\ effects = {}

-----------------------------------------------------------------------------
ScopeOf(r) == call[r].scope
RowOf(r) == row[ScopeOf(r)]
LeaseOf(r) == [hash |-> call[r].hash, token |-> held[r]]

WriteRow(r, newRow) == row' = [row EXCEPT ![ScopeOf(r)] = newRow]

Goto(r, label) == pc' = [pc EXCEPT ![r] = label]

(* The function returns or throws; the request holds nothing any more. *)
Answer(r, kind, token) ==
  /\ Goto(r, "idle")
  /\ held' = [held EXCEPT ![r] = 0]
  /\ answer' = [answer EXCEPT ![r] = [kind |-> kind, token |-> token]]

(* A client sends a request, or sends an earlier one again. *)
Send(r, scope, hash) ==
  /\ pc[r] = "idle"
  /\ Goto(r, "begin")
  /\ call' = [call EXCEPT ![r] = [scope |-> scope, hash |-> hash]]
  /\ answer' = [answer EXCEPT ![r] = NoAnswer]
  /\ UNCHANGED <<row, issued, held, generation, effects>>

-----------------------------------------------------------------------------
(* begin() commits a row that this request may work under. *)
Acquire(r) ==
  /\ pc[r] = "begin"
  /\ issued < MaxLeases
  /\ Acquirable(RowOf(r), call[r].hash)
  /\ issued' = issued + 1
  /\ WriteRow(r, Acquired(RowOf(r), call[r].hash, issued + 1))
  /\ generation' = [generation EXCEPT ![ScopeOf(r)] =
       IF RowOf(r).state \in {"succeeded", "failed"} THEN @ + 1 ELSE @]
  /\ \/ /\ Goto(r, "acquired")
        /\ held' = [held EXCEPT ![r] = issued + 1]
        /\ UNCHANGED answer
     \/ Answer(r, "error", 0)
  /\ UNCHANGED <<call, effects>>

(* begin() finds a row it cannot take; a cached result is replayed. *)
Refuse(r) ==
  /\ pc[r] = "begin"
  /\ ~Acquirable(RowOf(r), call[r].hash)
  /\ LET refusal == Refusal(RowOf(r), call[r].hash)
         cached == RowOf(r).result
     IN  IF refusal # "completed"
           THEN Answer(r, refusal, 0)
           ELSE IF cached.status = "rejected"
             THEN Answer(r, "rejected", cached.token)
             ELSE Answer(r, "replay", cached.token)
  /\ UNCHANGED <<row, issued, call, generation, effects>>

BeginFails(r) ==
  /\ pc[r] = "begin"
  /\ Answer(r, "error", 0)
  /\ UNCHANGED <<row, issued, call, generation, effects>>

-----------------------------------------------------------------------------
(* markDispatched() commits; the acknowledgement may be lost. *)
MarkDispatched(r) ==
  /\ pc[r] = "acquired"
  /\ CanMarkDispatched(RowOf(r), LeaseOf(r))
  /\ WriteRow(r, MarkedDispatched(RowOf(r)))
  /\ Goto(r, "working") \/ Goto(r, "releasing")
  /\ UNCHANGED <<issued, call, held, answer, generation, effects>>

(* It does not commit: the lease was lost or the database failed. *)
MarkDispatchedFails(r) ==
  /\ pc[r] = "acquired"
  /\ Goto(r, "releasing")
  /\ UNCHANGED <<row, issued, call, held, answer, generation, effects>>

(* releaseBeforeDispatch(), its own failure swallowed; then the 500. *)
Release(r) ==
  /\ pc[r] = "releasing"
  /\ WriteRow(r, Released(RowOf(r), LeaseOf(r))) \/ UNCHANGED row
  /\ Answer(r, "dispatch_failed", held[r])
  /\ UNCHANGED <<issued, call, generation, effects>>

-----------------------------------------------------------------------------
WorkApplies(r) ==
  /\ pc[r] = "working"
  /\ effects' = effects \cup {[scope |-> ScopeOf(r), generation |-> generation[ScopeOf(r)],
                               hash |-> call[r].hash, token |-> held[r]]}
  /\ Goto(r, "applied")
  /\ UNCHANGED <<row, issued, call, held, answer, generation>>

(* A 4xx CodestraError. *)
WorkRejects(r) ==
  /\ pc[r] = "working"
  /\ Goto(r, "rejecting")
  /\ UNCHANGED <<row, issued, call, held, answer, generation, effects>>

(* Mutant: every exception is cached as a definite rejection. *)
WorkThrowsRejection(r) ==
  /\ pc[r] \in {"working", "applied"}
  /\ Goto(r, "rejecting")
  /\ UNCHANGED <<row, issued, call, held, answer, generation, effects>>

(* Any other exception, before or after the effect. *)
WorkThrows(r) ==
  /\ pc[r] \in {"working", "applied"}
  /\ Goto(r, "retaining")
  /\ UNCHANGED <<row, issued, call, held, answer, generation, effects>>

-----------------------------------------------------------------------------
(* complete() after work() returned: a failure reaches the caller. *)
Complete(r) ==
  /\ pc[r] = "applied"
  /\ \/ /\ CanSettle(RowOf(r), LeaseOf(r))
        /\ WriteRow(r, Completed(RowOf(r), [status |-> "completed", token |-> held[r]]))
        /\ Answer(r, "ok", held[r]) \/ Answer(r, "error", 0)
     \/ /\ UNCHANGED row
        /\ Answer(r, "error", 0)
  /\ UNCHANGED <<issued, call, generation, effects>>

(* Mutant: the rejection is recorded as a completed result. *)
CompleteRejectionAsResult(r) ==
  /\ pc[r] = "rejecting"
  /\ \/ /\ CanSettle(RowOf(r), LeaseOf(r))
        /\ WriteRow(r, Completed(RowOf(r), [status |-> "completed", token |-> held[r]]))
     \/ UNCHANGED row
  /\ Answer(r, "rejected", held[r])
  /\ UNCHANGED <<issued, call, generation, effects>>

(* complete() of a rejection: its failure is swallowed. *)
CompleteRejection(r) ==
  /\ pc[r] = "rejecting"
  /\ \/ /\ CanSettle(RowOf(r), LeaseOf(r))
        /\ WriteRow(r, Completed(RowOf(r), [status |-> "rejected", token |-> held[r]]))
     \/ UNCHANGED row
  /\ Answer(r, "rejected", held[r])
  /\ UNCHANGED <<issued, call, generation, effects>>

(* markIndeterminate(): its failure is swallowed. *)
Retain(r) ==
  /\ pc[r] = "retaining"
  /\ \/ /\ CanSettle(RowOf(r), LeaseOf(r))
        /\ WriteRow(r, MarkedIndeterminate(RowOf(r)))
     \/ UNCHANGED row
  /\ Answer(r, "error", 0)
  /\ UNCHANGED <<issued, call, generation, effects>>

-----------------------------------------------------------------------------
Crash(r) ==
  /\ pc[r] # "idle"
  /\ Answer(r, "lost", 0)
  /\ UNCHANGED <<row, issued, call, generation, effects>>

Lapse(s) ==
  /\ row[s].live
  /\ row' = [row EXCEPT ![s] = Lapsed(@)]
  /\ UNCHANGED <<issued, pc, call, held, answer, generation, effects>>

(* One step of the function for request r. *)
Step(r) ==
  \/ Acquire(r) \/ Refuse(r) \/ BeginFails(r)
  \/ MarkDispatched(r) \/ MarkDispatchedFails(r) \/ Release(r)
  \/ WorkApplies(r) \/ WorkRejects(r) \/ WorkThrows(r)
  \/ Complete(r) \/ CompleteRejection(r) \/ Retain(r)

Next ==
  \/ \E r \in Requests : Step(r) \/ Crash(r)
  \/ \E r \in Requests, s \in Scopes, h \in Hashes : Send(r, s, h)
  \/ \E s \in Scopes : Lapse(s)

Spec == Init /\ [][Next]_vars

-----------------------------------------------------------------------------
(* Two requests never work under the same Idempotency-Key at the same      *)
(* time, although a lease may lapse while its holder still runs and the    *)
(* store never looks at the expiry when the holder comes back.             *)
SoleWorker ==
  \A q, r \in Requests :
    pc[q] \in InWork /\ pc[r] \in InWork /\ ScopeOf(q) = ScopeOf(r) => q = r

(* However requests race, crash or lose an acknowledgement, work() has at  *)
(* most one effect until an expired result of the scope is discarded.      *)
AtMostOncePerGeneration ==
  \A e, f \in effects :
    e.scope = f.scope /\ e.generation = f.generation => e = f

(* Once work() had its effect, the row never looks free, pending or        *)
(* rejected again before the result expires: no failure between the effect *)
(* and its record makes the mutation look as if it had not happened.       *)
EffectIsRecorded ==
  \A e \in effects :
    e.generation = generation[e.scope]
      => row[e.scope].state \in {"dispatched", "indeterminate", "succeeded"}

(* A caller told of success, first-hand or by replay, is told of an effect *)
(* of exactly this request under this key; a caller told of a rejection,   *)
(* first-hand or by replay, is told of a call of work() without effect.    *)
AnswersAreTrue ==
  \A r \in Requests :
    /\ answer[r].kind \in {"ok", "replay"} =>
         \E e \in effects : /\ e.scope = ScopeOf(r)
                            /\ e.hash = call[r].hash
                            /\ e.token = answer[r].token
    /\ answer[r].kind = "rejected" =>
         \A e \in effects : e.token # answer[r].token

(* A row whose outcome may be unknown never ages out, is never released    *)
(* and never changes hands: it stays so under its lease, or is settled.    *)
UnknownOutcomeSticks ==
  [][\A s \in Scopes :
       row[s].state \in {"dispatched", "indeterminate"} =>
         /\ row'[s].hash = row[s].hash
         /\ \/ /\ row'[s].state \in {"dispatched", "indeterminate"}
               /\ row'[s].token = row[s].token
            \/ row'[s].state \in {"succeeded", "failed"}]_vars

(***************************************************************************)
(* The inductive invariant behind these properties.                        *)
(***************************************************************************)
(* No token was ever seen before it was handed out. *)
TokensIssued ==
  /\ \A r \in Requests : held[r] <= issued /\ answer[r].token <= issued
  /\ \A s \in Scopes : row[s].token <= issued /\ row[s].result.token <= issued
  /\ \A e \in effects : e.token <= issued

(* A request holds a lease exactly from begin() to its answer; no two      *)
(* requests hold the same one.                                             *)
HoldersDiffer ==
  /\ \A r \in Requests : held[r] # 0 <=> pc[r] \notin {"idle", "begin"}
  /\ \A q, r \in Requests : held[q] = held[r] /\ held[q] # 0 => q = r

(* The row of a request that works is dispatched under its lease. *)
WorkerOwnsRow ==
  \A r \in Requests :
    pc[r] \in InWork =>
      /\ RowOf(r).state = "dispatched"
      /\ RowOf(r).token = held[r]
      /\ RowOf(r).hash = call[r].hash

OwnEffect(r) ==
  [scope |-> ScopeOf(r), generation |-> generation[ScopeOf(r)],
   hash |-> call[r].hash, token |-> held[r]]

(* A lease still held has produced no result and no rejection... *)
HeldLeasesUnseen ==
  \A r \in Requests :
    held[r] # 0 =>
      /\ \A s \in Scopes : row[s].result.token # held[r]
      /\ \A q \in Requests : answer[q].kind = "rejected" => answer[q].token # held[r]

(* ... nor an effect, unless its work was applied... *)
UnusedLeases ==
  \A r \in Requests :
    pc[r] \in {"acquired", "releasing", "working", "rejecting"} =>
      \A e \in effects : e.token # held[r]

(* ... in the current generation of its scope. *)
AppliedLeases ==
  \A r \in Requests : pc[r] = "applied" => OwnEffect(r) \in effects

(* An effect of the current generation is owned by the row as it stands. *)
CurrentEffectInRow ==
  \A e \in effects :
    /\ e.generation <= generation[e.scope]
    /\ e.generation = generation[e.scope] =>
         \/ /\ row[e.scope].state \in {"dispatched", "indeterminate"}
            /\ row[e.scope].token = e.token
         \/ /\ row[e.scope].state = "succeeded"
            /\ row[e.scope].result.token = e.token

(* A settled row tells the truth about its effect. *)
SettledRows ==
  \A s \in Scopes :
    /\ row[s].state = "succeeded" =>
         /\ row[s].result.status = "completed"
         /\ [scope |-> s, generation |-> generation[s], hash |-> row[s].hash,
             token |-> row[s].result.token] \in effects
    /\ row[s].state = "failed" =>
         /\ row[s].result.status = "rejected"
         /\ \A e \in effects : e.token # row[s].result.token

IInv ==
  /\ TypeOK
  /\ TokensIssued
  /\ HoldersDiffer
  /\ WorkerOwnsRow
  /\ HeldLeasesUnseen
  /\ UnusedLeases
  /\ AppliedLeases
  /\ CurrentEffectInRow
  /\ SettledRows
  /\ AtMostOncePerGeneration
  /\ AnswersAreTrue

(***************************************************************************)
(* The abstract contract.  A pending row is still open: nothing has been   *)
(* undertaken and the key may change hands.                                *)
(***************************************************************************)
StageOf(state) ==
  CASE state \in {"absent", "pending"}           -> "open"
    [] state \in {"dispatched", "indeterminate"} -> "started"
    [] state = "succeeded"                       -> "done"
    [] state = "failed"                          -> "refused"

Contract == INSTANCE OnceOnly WITH
  stage   <- [s \in Scopes |-> StageOf(row[s].state)],
  owner   <- [s \in Scopes |-> IF StageOf(row[s].state) = "open" THEN None
                                                               ELSE row[s].hash],
  effects <- {[scope |-> e.scope, generation |-> e.generation, hash |-> e.hash] :
                e \in effects}

(* The ledger and the function together keep the contract of OnceOnly.     *)
KeepsContract == Contract!Spec

(***************************************************************************)
(* What the code says and does not do.                                     *)
(***************************************************************************)
(* run-mutation.ts answers "The idempotency ledger could not be updated;   *)
(* the request was not processed", retryable: so the ledger does not hold  *)
(* the request's own lease as dispatched, which would refuse every retry.  *)
DispatchFailureIsRetryable ==
  \A r \in Requests :
    answer[r].kind = "dispatch_failed" =>
      ~(RowOf(r).state = "dispatched" /\ RowOf(r).token = answer[r].token)
=============================================================================
