--------------------------- MODULE ConnectorRunner ---------------------------
(***************************************************************************)
(* ConnectorRunner of packages/connector-kit/src/index.ts as the           *)
(* Middleware runs it: over PrismaIdempotencyStore, with one in-memory     *)
(* circuit breaker per process.  execute() sends a command to a provider   *)
(* through a connector; reconcileIndeterminate() asks the provider about a *)
(* command whose outcome is unknown; read-only operations share the        *)
(* breaker but not the ledger.                                             *)
(*                                                                         *)
(* Requests are the concurrent calls of one process: code between two      *)
(* awaits is one step.  A store call may commit, commit without the caller *)
(* learning of it, or fail.  A crash ends all calls and loses the breaker; *)
(* the ledger stays.                                                       *)
(*                                                                         *)
(* The provider is external.  It takes up or rejects a command at most     *)
(* once, at any time after it was called, also after the runner stopped    *)
(* waiting; asked about the command it tells the recorded verdict or none. *)
(* "completed" stands for the statuses "completed" and "accepted", which   *)
(* the runner and the store treat alike.                                   *)
(*                                                                         *)
(* Ghosts, read by no action: generation, and the lease token in calls and *)
(* answers.                                                                *)
(***************************************************************************)
EXTENDS LedgerRow

CONSTANTS
  Scopes,     \* tenant:connector:operation:Idempotency-Key, of one connector
  Requests,   \* concurrent calls of the runner
  Threshold,  \* failureThreshold
  MaxLeases   \* bound on the lease tokens handed out

ASSUME ThresholdAssumption == Threshold \in Nat \ {0} /\ MaxLeases \in Nat

VARIABLES
  row,         \* the ledger
  issued,      \* the last lease token handed out
  breaker,     \* CircuitState of this tenant and connector
  pc, call, held, answer,
  calls,       \* the calls that reached the provider
  verdict,     \* what the provider made of each command
  generation

vars == <<row, issued, breaker, pc, call, held, answer, calls, verdict, generation>>
ledger == <<row, issued, generation>>
provider == <<calls, verdict>>

Pcs == {"idle", "begin", "acquired", "dispatching", "blocked", "undispatched",
        "dispatched", "calling", "completing", "retaining",
        "admission", "reading", "getting", "asking", "resolving"}

Operations == {"execute", "read", "reconcile"}

Kinds == Statuses \cup {"none", "request_mismatch", "in_progress", "indeterminate",
                        "not_called", "circuit", "undetermined", "error", "lost"}

NoAnswer == [kind |-> "none", token |-> 0]

(* The lease a call holds and, as a ghost, the generation it was taken in. *)
Lease == [token : 0..MaxLeases, generation : Nat]
NoLease == [token |-> 0, generation |-> 0]

(* CircuitState; openedAt is absent, younger than resetAfterMs ("cooling") *)
(* or older ("due").  Failures above the threshold are not distinguished.  *)
Circuit == [failures : 0..Threshold, opened : {"no", "cooling", "due"}, probeInFlight : BOOLEAN]
ClosedCircuit == [failures |-> 0, opened |-> "no", probeInFlight |-> FALSE]

TypeOK ==
  /\ row \in [Scopes -> Row \cup {NoRow}]
  /\ issued \in 0..MaxLeases
  /\ breaker \in Circuit
  /\ pc \in [Requests -> Pcs]
  /\ call \in [Requests -> [operation : Operations, scope : Scopes, hash : Hashes]]
  /\ held \in [Requests -> Lease]
  /\ answer \in [Requests -> [kind : Kinds, token : 0..MaxLeases]]
  /\ calls \subseteq [scope : Scopes, hash : Hashes, generation : Nat, token : Nat]
  /\ verdict \in [Scopes \X Hashes -> Statuses \cup {None}]
  /\ generation \in [Scopes -> Nat]

Init ==
  /\ row = [s \in Scopes |-> NoRow]
  /\ issued = 0
  /\ breaker = ClosedCircuit
  /\ pc = [r \in Requests |-> "idle"]
  /\ call \in [Requests -> {[operation |-> "read", scope |-> s, hash |-> h] :
                              s \in Scopes, h \in Hashes}]
  /\ held = [r \in Requests |-> NoLease]
  /\ answer = [r \in Requests |-> NoAnswer]
  /\ calls = {}
  /\ verdict = [c \in Scopes \X Hashes |-> None]
  /\ generation = [s \in Scopes |-> 0]

-----------------------------------------------------------------------------
(* ConnectorCircuitBreaker. *)
Refuses(circuit) ==
  circuit.opened = "cooling" \/ (circuit.opened = "due" /\ circuit.probeInFlight)

Admitted(circuit) == [circuit EXCEPT !.probeInFlight = @ \/ circuit.opened = "due"]

FailureRecorded(circuit) ==
  [failures |-> IF circuit.failures < Threshold THEN circuit.failures + 1 ELSE Threshold,
   opened |-> IF circuit.failures + 1 >= Threshold THEN "cooling" ELSE circuit.opened,
   probeInFlight |-> FALSE]

(* resetAfterMs passes. *)
Cool ==
  /\ breaker.opened = "cooling"
  /\ breaker' = [breaker EXCEPT !.opened = "due"]
  /\ UNCHANGED <<ledger, pc, call, held, answer, provider>>

-----------------------------------------------------------------------------
ScopeOf(r) == call[r].scope
RowOf(r) == row[ScopeOf(r)]
LeaseOf(r) == [hash |-> call[r].hash, token |-> held[r].token]
CommandOf(r) == <<ScopeOf(r), call[r].hash>>

WriteRow(r, newRow) == row' = [row EXCEPT ![ScopeOf(r)] = newRow]
Goto(r, label) == pc' = [pc EXCEPT ![r] = label]

(* The call returns or throws. *)
Answer(r, kind, token) ==
  /\ Goto(r, "idle")
  /\ held' = [held EXCEPT ![r] = NoLease]
  /\ answer' = [answer EXCEPT ![r] = [kind |-> kind, token |-> token]]

Send(r, operation, scope, hash) ==
  /\ pc[r] = "idle"
  /\ Goto(r, CASE operation = "execute"   -> "begin"
               [] operation = "read"      -> "admission"
               [] operation = "reconcile" -> "getting")
  /\ call' = [call EXCEPT ![r] = [operation |-> operation, scope |-> scope, hash |-> hash]]
  /\ answer' = [answer EXCEPT ![r] = NoAnswer]
  /\ UNCHANGED <<ledger, breaker, held, provider>>

-----------------------------------------------------------------------------
(* execute() of a mutating operation. *)
Acquire(r) ==
  /\ pc[r] = "begin"
  /\ issued < MaxLeases
  /\ Acquirable(RowOf(r), call[r].hash)
  /\ issued' = issued + 1
  /\ WriteRow(r, Acquired(RowOf(r), call[r].hash, issued + 1))
  /\ generation' = [generation EXCEPT ![ScopeOf(r)] =
       IF RowOf(r).state \in {"succeeded", "failed"} THEN @ + 1 ELSE @]
  /\ \/ /\ Goto(r, "acquired")
        /\ held' = [held EXCEPT ![r] = [token |-> issued + 1,
                                        generation |-> generation'[ScopeOf(r)]]]
        /\ UNCHANGED answer
     \/ Answer(r, "error", 0)
  /\ UNCHANGED <<breaker, call, provider>>

Refuse(r) ==
  /\ pc[r] = "begin"
  /\ ~Acquirable(RowOf(r), call[r].hash)
  /\ LET refusal == Refusal(RowOf(r), call[r].hash)
     IN  Answer(r, IF refusal = "completed" THEN RowOf(r).result.status ELSE refusal, 0)
  /\ UNCHANGED <<ledger, breaker, call, provider>>

BeginFails(r) ==
  /\ pc[r] = "begin"
  /\ Answer(r, "error", 0)
  /\ UNCHANGED <<ledger, breaker, call, provider>>

(* The abort signal, then beforeRequest(). *)
Admit(r) ==
  /\ pc[r] = "acquired"
  /\ \/ /\ ~Refuses(breaker)
        /\ breaker' = Admitted(breaker)
        /\ Goto(r, "dispatching")
     \/ /\ Goto(r, "blocked")  \* aborted, or refused by the breaker
        /\ UNCHANGED breaker
  /\ UNCHANGED <<ledger, call, held, answer, provider>>

MarkDispatched(r) ==
  /\ pc[r] = "dispatching"
  /\ CanMarkDispatched(RowOf(r), LeaseOf(r))
  /\ WriteRow(r, MarkedDispatched(RowOf(r)))
  /\ Goto(r, "dispatched") \/ Goto(r, "undispatched")
  /\ UNCHANGED <<issued, generation, breaker, call, held, answer, provider>>

(* Mutant: the failure is ignored and the provider called. *)
MarkDispatchedFailsOpen(r) ==
  /\ pc[r] = "dispatching"
  /\ Goto(r, "dispatched")
  /\ UNCHANGED <<ledger, breaker, call, held, answer, provider>>

MarkDispatchedFails(r) ==
  /\ pc[r] = "dispatching"
  /\ Goto(r, "undispatched")
  /\ UNCHANGED <<ledger, breaker, call, held, answer, provider>>

(* releaseBeforeDispatchOrThrow(): either error says "not called". *)
Release(r) ==
  /\ pc[r] \in {"blocked", "undispatched"}
  /\ WriteRow(r, Released(RowOf(r), LeaseOf(r))) \/ UNCHANGED row
  /\ Answer(r, "not_called", held[r].token)
  /\ UNCHANGED <<issued, generation, breaker, call, provider>>

CallProvider(r) ==
  /\ pc[r] = "dispatched"
  /\ calls' = calls \cup {[scope |-> ScopeOf(r), hash |-> call[r].hash,
                           generation |-> held[r].generation, token |-> held[r].token]}
  /\ Goto(r, "calling")
  /\ UNCHANGED <<ledger, breaker, call, held, answer, verdict>>

ProviderAnswers(r) ==
  /\ pc[r] = "calling"
  /\ verdict[CommandOf(r)] # None
  /\ breaker' = ClosedCircuit
  /\ Goto(r, "completing")
  /\ UNCHANGED <<ledger, call, held, answer, provider>>

(* Mutant: nothing bounds the wait for the provider. *)
CallFailsOnAnswer(r) ==
  /\ pc[r] = "calling"
  /\ verdict[CommandOf(r)] # None
  /\ breaker' = FailureRecorded(breaker)
  /\ Goto(r, "retaining")
  /\ UNCHANGED <<ledger, call, held, answer, provider>>

(* The timeout wins the race, the call throws, or the result is invalid. *)
CallFails(r) ==
  /\ pc[r] = "calling"
  /\ breaker' = FailureRecorded(breaker)
  /\ Goto(r, "retaining")
  /\ UNCHANGED <<ledger, call, held, answer, provider>>

Complete(r) ==
  /\ pc[r] = "completing"
  /\ LET result == [status |-> verdict[CommandOf(r)], token |-> held[r].token]
     IN  \/ /\ CanSettle(RowOf(r), LeaseOf(r))
            /\ WriteRow(r, Completed(RowOf(r), result))
            /\ \/ Answer(r, result.status, held[r].token)
               \/ Goto(r, "retaining") /\ UNCHANGED <<held, answer>>
         \/ /\ Goto(r, "retaining")
            /\ UNCHANGED <<row, held, answer>>
  /\ UNCHANGED <<issued, generation, breaker, call, provider>>

(* retainIndeterminate(): its failures are swallowed. *)
Retain(r) ==
  /\ pc[r] = "retaining"
  /\ \/ /\ CanSettle(RowOf(r), LeaseOf(r))
        /\ WriteRow(r, MarkedIndeterminate(RowOf(r)))
     \/ UNCHANGED row
  /\ Answer(r, "indeterminate", held[r].token)
  /\ UNCHANGED <<issued, generation, breaker, call, provider>>

-----------------------------------------------------------------------------
(* executeReadOnly(). *)
AdmitRead(r) ==
  /\ pc[r] = "admission"
  /\ \/ /\ Refuses(breaker)
        /\ Answer(r, "circuit", 0)
        /\ UNCHANGED breaker
     \/ /\ ~Refuses(breaker)
        /\ breaker' = Admitted(breaker)
        /\ Goto(r, "reading")
        /\ UNCHANGED <<held, answer>>
  /\ UNCHANGED <<ledger, call, provider>>

Read(r) ==
  /\ pc[r] = "reading"
  /\ \/ /\ breaker' = ClosedCircuit
        /\ Answer(r, "completed", 0)
     \/ /\ breaker' = FailureRecorded(breaker)
        /\ Answer(r, "error", 0)
  /\ UNCHANGED <<ledger, call, provider>>

-----------------------------------------------------------------------------
(* reconcileIndeterminate().  get() does not look at the expiry. *)
(* Mutant: the snapshot's fingerprint is not compared. *)
GetUnchecked(r) ==
  /\ pc[r] = "getting"
  /\ LET state == RowOf(r).state
     IN  \/ Answer(r, "error", 0)
         \/ state \in {"succeeded", "failed"} /\ Answer(r, RowOf(r).result.status, 0)
         \/ state = "pending" /\ Answer(r, "in_progress", 0)
         \/ /\ state \in {"dispatched", "indeterminate"}
            /\ Goto(r, "asking")
            /\ UNCHANGED <<held, answer>>
  /\ UNCHANGED <<ledger, breaker, call, provider>>

Get(r) ==
  /\ pc[r] = "getting"
  /\ LET state == RowOf(r).state
         same == RowOf(r).hash = call[r].hash
     IN  \/ Answer(r, "error", 0)  \* no record, or the store fails
         \/ state # "absent" /\ ~same /\ Answer(r, "request_mismatch", 0)
         \/ same /\ state \in {"succeeded", "failed"} /\ Answer(r, RowOf(r).result.status, 0)
         \/ same /\ state = "pending" /\ Answer(r, "in_progress", 0)
         \/ /\ same /\ state \in {"dispatched", "indeterminate"}
            /\ Goto(r, "asking")
            /\ UNCHANGED <<held, answer>>
  /\ UNCHANGED <<ledger, breaker, call, provider>>

(* reconcileCommand(): a verdict; or none, "accepted", an error, a timeout. *)
Ask(r) ==
  /\ pc[r] = "asking"
  /\ \/ /\ verdict[CommandOf(r)] # None
        /\ Goto(r, "resolving")
        /\ UNCHANGED <<held, answer>>
     \/ Answer(r, "undetermined", 0)
  /\ UNCHANGED <<ledger, breaker, call, provider>>

Resolve(r) ==
  /\ pc[r] = "resolving"
  /\ LET result == [status |-> verdict[CommandOf(r)], token |-> 0]
     IN  \/ /\ CanResolve(RowOf(r), call[r].hash)
            /\ WriteRow(r, Completed(RowOf(r), result))
            /\ Answer(r, result.status, 0) \/ Answer(r, "indeterminate", 0)
         \/ UNCHANGED row /\ Answer(r, "indeterminate", 0)
  /\ UNCHANGED <<issued, generation, breaker, call, provider>>

-----------------------------------------------------------------------------
(* The provider takes up or rejects a command it was called with. *)
Decide(c, status) ==
  /\ verdict[<<c.scope, c.hash>>] = None
  /\ verdict' = [verdict EXCEPT ![<<c.scope, c.hash>>] = status]
  /\ UNCHANGED <<ledger, breaker, pc, call, held, answer, calls>>

Crash ==
  /\ \E r \in Requests : pc[r] # "idle"
  /\ pc' = [r \in Requests |-> "idle"]
  /\ held' = [r \in Requests |-> NoLease]
  /\ answer' = [r \in Requests |->
       IF pc[r] = "idle" THEN answer[r] ELSE [kind |-> "lost", token |-> 0]]
  /\ breaker' = ClosedCircuit
  /\ UNCHANGED <<ledger, call, provider>>

Lapse(s) ==
  /\ row[s].live
  /\ row' = [row EXCEPT ![s] = Lapsed(@)]
  /\ UNCHANGED <<issued, generation, breaker, pc, call, held, answer, provider>>

Step(r) ==
  \/ Acquire(r) \/ Refuse(r) \/ BeginFails(r) \/ Admit(r)
  \/ MarkDispatched(r) \/ MarkDispatchedFails(r) \/ Release(r)
  \/ CallProvider(r) \/ ProviderAnswers(r) \/ CallFails(r)
  \/ Complete(r) \/ Retain(r)
  \/ AdmitRead(r) \/ Read(r)
  \/ Get(r) \/ Ask(r) \/ Resolve(r)

Next ==
  \/ \E r \in Requests : Step(r)
  \/ \E r \in Requests, o \in Operations, s \in Scopes, h \in Hashes : Send(r, o, s, h)
  \/ \E c \in calls, status \in Statuses : Decide(c, status)
  \/ \E s \in Scopes : Lapse(s)
  \/ Cool
  \/ Crash

Spec == Init /\ [][Next]_vars

(* Every await of the runner settles: a store promise is answered or       *)
(* rejected, and the timer of createExecutionTimeout() ends every wait for *)
(* a provider.  The provider itself is not fair.                           *)
FairSpec == Spec /\ \A r \in Requests : WF_vars(Step(r))

-----------------------------------------------------------------------------
(* Whatever fails, crashes or is reconciled, the provider is called under  *)
(* at most one of the leases handed out for a scope between two expiries   *)
(* of its result.                                                          *)
AtMostOneCall ==
  \A c, d \in calls : c.scope = d.scope /\ c.generation = d.generation => c = d

(* What execute() or reconcileIndeterminate() reports, at once or from the *)
(* ledger, is the provider's verdict on exactly this command; "the         *)
(* provider was not called" is said only of a lease never used.            *)
AnswersAreTrue ==
  \A r \in Requests :
    /\ answer[r].kind \in Statuses /\ call[r].operation # "read"
         => verdict[CommandOf(r)] = answer[r].kind
    /\ answer[r].kind = "not_called" => \A c \in calls : c.token # answer[r].token

(* A settled row is final until it expires, although the caller that       *)
(* dispatched the command and any number of reconciliations may all try to *)
(* settle it.                                                              *)
SettledIsFinal ==
  [][\A s \in Scopes :
       row[s].state \in {"succeeded", "failed"} =>
         \/ row'[s] = [row[s] EXCEPT !.live = row'[s].live]
         \/ ~row[s].live /\ row'[s].state = "pending"]_vars

(* Every call of the runner ends, also when the provider never answers.    *)
EveryCallEnds == \A r \in Requests : pc[r] # "idle" ~> pc[r] = "idle"

(* beforeRequest() refuses with "Connector recovery probe is already in    *)
(* progress": so while the flag is set some call is on its way to the      *)
(* provider or waits for it.                                               *)
ProbeInProgress ==
  breaker.probeInFlight =>
    \E r \in Requests :
      pc[r] \in {"dispatching", "dispatched", "calling", "reading"}
=============================================================================
