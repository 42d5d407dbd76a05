----------------------- MODULE ConnectorRunner_proofs -----------------------
(***************************************************************************)
(* Theorems about ConnectorRunner, for every set of scopes, fingerprints   *)
(* and calls, every threshold of the breaker and every number of leases.   *)
(*                                                                         *)
(* The invariant has two parts.  TruthInv is about what is known of the    *)
(* provider's verdicts: a settled row, a call about to settle one and an   *)
(* answer agree with them.  LeaseInv is about the leases under which the   *)
(* provider is or may be called: a dispatch is a call made or a row that   *)
(* was marked dispatched for one, and a scope has at most one of them      *)
(* between two expiries of its result.                                     *)
(***************************************************************************)
EXTENDS ConnectorRunner, LedgerRow_proofs, TLAPS

Sent == {"dispatched", "calling", "completing", "retaining"}
Unsent == {"acquired", "dispatching", "blocked", "undispatched"}
Leased == Sent \cup Unsent

DispatchOf(r) == [scope |-> ScopeOf(r), hash |-> call[r].hash,
                  generation |-> held[r].generation, token |-> held[r].token]
Dispatches == calls \cup {DispatchOf(r) : r \in {q \in Requests : pc[q] \in Sent}}

(* What is settled is settled as the provider decided. *)
SettledRows ==
  \A s \in Scopes : row[s].state \in {"succeeded", "failed"} =>
    /\ row[s].result.status # None
    /\ verdict[<<s, row[s].hash>>] = row[s].result.status

(* Who is about to settle a row knows the verdict. *)
VerdictKnown ==
  \A r \in Requests : pc[r] \in {"completing", "resolving"} => verdict[CommandOf(r)] # None

ReadersRead ==
  \A r \in Requests : pc[r] \in {"admission", "reading"} => call[r].operation = "read"

ToldTheVerdict ==
  \A r \in Requests : answer[r].kind \in Statuses /\ call[r].operation # "read" =>
    answer[r].kind # None /\ verdict[CommandOf(r)] = answer[r].kind

TruthInv == SettledRows /\ VerdictKnown /\ ReadersRead /\ ToldTheVerdict

(* A lease is held exactly while a call of execute() is past begin(). *)
LeasesHeld ==
  \A r \in Requests :
    /\ pc[r] \in Leased => held[r].token \in 1..issued
    /\ pc[r] \notin Leased => held[r] = NoLease

HoldersDiffer ==
  \A q, r \in Requests :
    pc[q] \in Leased /\ pc[r] \in Leased /\ held[q].token = held[r].token => q = r

(* A row still pending under a held lease has not expired since. *)
OwnGeneration ==
  \A r \in Requests :
    (pc[r] \in {"acquired", "dispatching"} /\ RowOf(r).state = "pending"
       /\ RowOf(r).token = held[r].token)
      => held[r].generation = generation[ScopeOf(r)]

(* Nothing was dispatched in a generation whose row is absent or pending. *)
DispatchesPast ==
  \A d \in Dispatches :
    /\ d.token \in 1..issued
    /\ d.generation <= generation[d.scope]
    /\ row[d.scope].state \in {"absent", "pending"} => d.generation < generation[d.scope]

OneDispatch ==
  \A d, e \in Dispatches : d.scope = e.scope /\ d.generation = e.generation => d = e

UnsentUnused ==
  \A r \in Requests : pc[r] \in Unsent => \A d \in Dispatches : d.token # held[r].token

NotCalledUnused ==
  \A r \in Requests : answer[r].kind = "not_called" =>
    /\ answer[r].token \in 1..issued
    /\ \A q \in Requests : held[q].token # answer[r].token
    /\ \A d \in Dispatches : d.token # answer[r].token

LeaseInv ==
  /\ LeasesHeld /\ HoldersDiffer /\ OwnGeneration
  /\ DispatchesPast /\ OneDispatch /\ UnsentUnused /\ NotCalledUnused

IInv == TypeOK /\ TruthInv /\ LeaseInv
-----------------------------------------------------------------------------
(***************************************************************************)
(* What a step changes, function application by function application.      *)
(***************************************************************************)
LEMMA Typed ==
  ASSUME TypeOK
  PROVE  \A r \in Requests :
           /\ ScopeOf(r) \in Scopes
           /\ RowOf(r) \in Row \cup {NoRow}
           /\ call[r].hash \in Hashes
           /\ CommandOf(r) \in Scopes \X Hashes
           /\ verdict[CommandOf(r)] \in Statuses \cup {None}
           /\ held[r] \in Lease /\ held[r].token \in 0..MaxLeases
  BY DEF TypeOK, ScopeOf, RowOf, CommandOf, Lease

(* Only the call that steps goes anywhere. *)
Alone(r) ==
  /\ UNCHANGED <<call, verdict>>
  /\ \A q \in Requests : q # r => pc'[q] = pc[q] /\ held'[q] = held[q] /\ answer'[q] = answer[q]

Answered(r, kind, token) ==
  /\ pc'[r] = "idle" /\ held'[r] = NoLease
  /\ answer'[r] = [kind |-> kind, token |-> token]

LEMMA AnswerStep ==
  ASSUME TypeOK, NEW r \in Requests, NEW k, NEW t, Answer(r, k, t), UNCHANGED <<call, verdict>>
  PROVE  Alone(r) /\ Answered(r, k, t)
  BY DEF TypeOK, Answer, Goto, Alone, Answered

LEMMA AnswerType ==
  ASSUME TypeOK, NEW r \in Requests, NEW k \in Kinds, NEW t \in 0..MaxLeases, Answer(r, k, t)
  PROVE  /\ pc' \in [Requests -> Pcs]
         /\ held' \in [Requests -> Lease]
         /\ answer' \in [Requests -> [kind : Kinds, token : 0..MaxLeases]]
  <1>1. MaxLeases \in Nat /\ NoLease \in Lease
    BY ThresholdAssumption DEF NoLease, Lease
  <1> QED BY <1>1 DEF TypeOK, Answer, Goto, Pcs

LEMMA GotoStep ==
  ASSUME TypeOK, NEW r \in Requests, NEW l \in Pcs, Goto(r, l)
  PROVE  /\ pc'[r] = l /\ pc' \in [Requests -> Pcs]
         /\ UNCHANGED <<call, verdict, held, answer>> => Alone(r) /\ held'[r] = held[r] /\ answer'[r] = answer[r]
  BY DEF TypeOK, Goto, Alone

LEMMA WriteStep ==
  ASSUME TypeOK, NEW r \in Requests, NEW x \in Row \cup {NoRow}, WriteRow(r, x)
  PROVE  /\ row' \in [Scopes -> Row \cup {NoRow}]
         /\ row'[ScopeOf(r)] = x
         /\ \A s \in Scopes : s # ScopeOf(r) => row'[s] = row[s]
  BY Typed DEF TypeOK, WriteRow

-----------------------------------------------------------------------------
(***************************************************************************)
(* What may become of a call's row: it is left, taken, marked dispatched,  *)
(* deleted, marked indeterminate or settled as the provider decided.       *)
(***************************************************************************)
Taken(r) ==
  /\ Acquirable(RowOf(r), call[r].hash)
  /\ row'[ScopeOf(r)].state = "pending" /\ row'[ScopeOf(r)].token = issued + 1

Marked(r) ==
  /\ pc[r] = "dispatching"
  /\ RowOf(r).state = "pending" /\ RowOf(r).token = held[r].token
  /\ row'[ScopeOf(r)].state = "dispatched"

Deleted(r) == RowOf(r).state = "pending" /\ row'[ScopeOf(r)] = NoRow

Kept(r) ==
  RowOf(r).state \in {"dispatched", "indeterminate"} /\ row'[ScopeOf(r)].state = "indeterminate"

SettledAs(r) ==
  /\ RowOf(r).state \in {"dispatched", "indeterminate"}
  /\ row'[ScopeOf(r)].state \in {"succeeded", "failed"}
  /\ row'[ScopeOf(r)].hash = call[r].hash
  /\ row'[ScopeOf(r)].result.status = verdict[CommandOf(r)]

OnlyIn(r) == \A s \in Scopes : s # ScopeOf(r) => row'[s] = row[s]

RowType == row' \in [Scopes -> Row \cup {NoRow}]

LEMMA AcquireRow ==
  ASSUME TypeOK, NEW r \in Requests, Acquire(r)
  PROVE  RowType /\ OnlyIn(r) /\ Taken(r)
  <1> DEFINE new == Acquired(RowOf(r), call[r].hash, issued + 1)
  <1>1. Acquirable(RowOf(r), call[r].hash) /\ WriteRow(r, new) /\ issued + 1 \in Nat
    BY DEF Acquire, TypeOK
  <1>2. new \in Row /\ new.state = "pending" /\ new.token = issued + 1
    BY <1>1, Typed, AcquiredRow
  <1> HIDE DEF new
  <1>3. RowType /\ row'[ScopeOf(r)] = new /\ OnlyIn(r)
    BY <1>1, <1>2, WriteStep DEF RowType, OnlyIn, new
  <1> QED BY <1>1, <1>2, <1>3 DEF Taken

LEMMA MarkRow ==
  ASSUME TypeOK, NEW r \in Requests, MarkDispatched(r)
  PROVE  RowType /\ OnlyIn(r) /\ Marked(r)
  <1>1. CanMarkDispatched(RowOf(r), LeaseOf(r)) /\ WriteRow(r, MarkedDispatched(RowOf(r)))
    BY DEF MarkDispatched
  <1>2. /\ MarkedDispatched(RowOf(r)) \in Row
        /\ MarkedDispatched(RowOf(r)).state = "dispatched"
    BY <1>1, Typed, MarkedDispatchedRow
  <1>3. RowOf(r).state = "pending" /\ RowOf(r).token = held[r].token
    BY <1>1 DEF CanMarkDispatched, HoldsLease, LeaseOf
  <1>4. RowType /\ row'[ScopeOf(r)] = MarkedDispatched(RowOf(r)) /\ OnlyIn(r)
    BY <1>1, <1>2, WriteStep DEF RowType, OnlyIn
  <1> QED BY <1>2, <1>3, <1>4 DEF Marked, MarkDispatched

LEMMA ReleaseRow ==
  ASSUME TypeOK, NEW r \in Requests, Release(r)
  PROVE  RowType /\ OnlyIn(r) /\ (row' = row \/ Deleted(r))
  <1>1. CASE UNCHANGED row
    BY <1>1 DEF RowType, OnlyIn, TypeOK
  <1>2. CASE WriteRow(r, Released(RowOf(r), LeaseOf(r)))
    <2>1. CASE Released(RowOf(r), LeaseOf(r)) = RowOf(r)
      <3>1. row' = [row EXCEPT ![ScopeOf(r)] = row[ScopeOf(r)]]
        BY <1>2, <2>1 DEF WriteRow, RowOf
      <3> QED BY <3>1, Typed DEF TypeOK, RowType, OnlyIn
    <2>2. CASE Released(RowOf(r), LeaseOf(r)) = NoRow /\ RowOf(r).state = "pending"
      BY <1>2, <2>2, WriteStep DEF RowType, OnlyIn, Deleted
    <2> QED BY <2>1, <2>2, Typed, ReleasedRow
  <1> QED BY <1>1, <1>2 DEF Release

LEMMA RetainRow ==
  ASSUME TypeOK, NEW r \in Requests, Retain(r)
  PROVE  RowType /\ OnlyIn(r) /\ (row' = row \/ Kept(r))
  <1>1. CASE UNCHANGED row
    BY <1>1 DEF RowType, OnlyIn, TypeOK
  <1>2. CASE CanSettle(RowOf(r), LeaseOf(r)) /\ WriteRow(r, MarkedIndeterminate(RowOf(r)))
    <2>1. RowOf(r) \in Row /\ RowOf(r).state \in {"dispatched", "indeterminate"}
      BY <1>2, Typed, SettlingRow
    <2>2. /\ MarkedIndeterminate(RowOf(r)) \in Row
          /\ MarkedIndeterminate(RowOf(r)).state = "indeterminate"
      BY <2>1, MarkedIndeterminateRow
    <2> QED BY <1>2, <2>1, <2>2, WriteStep DEF RowType, OnlyIn, Kept
  <1> QED BY <1>1, <1>2 DEF Retain

LEMMA SettleRow ==
  ASSUME TypeOK, NEW r \in Requests, NEW t \in Nat,
         verdict[CommandOf(r)] # None,
         RowOf(r) \in Row, RowOf(r).hash = call[r].hash,
         RowOf(r).state \in {"dispatched", "indeterminate"},
         WriteRow(r, Completed(RowOf(r), [status |-> verdict[CommandOf(r)], token |-> t]))
  PROVE  RowType /\ OnlyIn(r) /\ SettledAs(r)
  <1> DEFINE res == [status |-> verdict[CommandOf(r)], token |-> t]
  <1>1. res \in Result /\ Settled(res.status) \in {"succeeded", "failed"}
    BY Typed DEF Result, Settled
  <1>2. /\ Completed(RowOf(r), res) \in Row
        /\ Completed(RowOf(r), res).state = Settled(res.status)
        /\ Completed(RowOf(r), res).hash = call[r].hash
        /\ Completed(RowOf(r), res).result = res
    BY <1>1, CompletedRow
  <1>3. RowType /\ row'[ScopeOf(r)] = Completed(RowOf(r), res) /\ OnlyIn(r)
    BY <1>2, WriteStep DEF RowType, OnlyIn
  <1> QED BY <1>1, <1>2, <1>3 DEF SettledAs

LEMMA CompleteRow ==
  ASSUME TypeOK, VerdictKnown, NEW r \in Requests, Complete(r)
  PROVE  RowType /\ OnlyIn(r) /\ (row' = row \/ SettledAs(r))
  <1>1. CASE row' = row
    BY <1>1 DEF RowType, OnlyIn, TypeOK
  <1>2. CASE /\ CanSettle(RowOf(r), LeaseOf(r))
             /\ WriteRow(r, Completed(RowOf(r), [status |-> verdict[CommandOf(r)], token |-> held[r].token]))
    <2>1. verdict[CommandOf(r)] # None
      BY DEF Complete, VerdictKnown
    <2>2. /\ RowOf(r) \in Row /\ RowOf(r).hash = call[r].hash
          /\ RowOf(r).state \in {"dispatched", "indeterminate"}
      BY <1>2, Typed, SettlingRow DEF LeaseOf
    <2>3. held[r].token \in Nat
      BY Typed
    <2> QED BY <1>2, <2>1, <2>2, <2>3, SettleRow
  <1> QED BY <1>1, <1>2 DEF Complete

LEMMA ResolveRow ==
  ASSUME TypeOK, VerdictKnown, NEW r \in Requests, Resolve(r)
  PROVE  RowType /\ OnlyIn(r) /\ (row' = row \/ SettledAs(r))
  <1>1. CASE row' = row
    BY <1>1 DEF RowType, OnlyIn, TypeOK
  <1>2. CASE /\ CanResolve(RowOf(r), call[r].hash)
             /\ WriteRow(r, Completed(RowOf(r), [status |-> verdict[CommandOf(r)], token |-> 0]))
    <2>1. verdict[CommandOf(r)] # None
      BY DEF Resolve, VerdictKnown
    <2>2. RowOf(r).hash = call[r].hash /\ RowOf(r).state \in {"dispatched", "indeterminate"}
      BY <1>2 DEF CanResolve
    <2>3. RowOf(r) \in Row
      BY <2>2, Typed, PresentRow
    <2> QED BY <1>2, <2>1, <2>2, <2>3, SettleRow
  <1> QED BY <1>1, <1>2 DEF Resolve

-----------------------------------------------------------------------------
(***************************************************************************)
(* Type correctness.  A row is only settled with a status because whoever  *)
(* settles it knows the verdict, so the types rest on VerdictKnown.        *)
(***************************************************************************)
LEMMA BreakerTypes ==
  ASSUME TypeOK
  PROVE  /\ ClosedCircuit \in Circuit
         /\ Admitted(breaker) \in Circuit
         /\ FailureRecorded(breaker) \in Circuit
  <1>1. ClosedCircuit \in Circuit
    BY ThresholdAssumption DEF Circuit, ClosedCircuit
  <1>2. Admitted(breaker) \in Circuit
    <2>1. (breaker.probeInFlight \/ breaker.opened = "due") \in BOOLEAN
      OBVIOUS
    <2> QED BY <2>1 DEF TypeOK, Circuit, Admitted
  <1>3. FailureRecorded(breaker) \in Circuit
    <2>1. breaker.failures \in 0..Threshold /\ breaker.opened \in {"no", "cooling", "due"}
      BY DEF TypeOK, Circuit
    <2>2. (IF breaker.failures < Threshold THEN breaker.failures + 1 ELSE Threshold) \in 0..Threshold
      BY <2>1, ThresholdAssumption
    <2> QED BY <2>1, <2>2 DEF Circuit, FailureRecorded
  <1> QED BY <1>1, <1>2, <1>3

LEMMA TypeInit == Init => TypeOK
  <1>1. MaxLeases \in Nat /\ ClosedCircuit \in Circuit /\ NoLease \in Lease
    BY ThresholdAssumption DEF Circuit, ClosedCircuit, Lease, NoLease
  <1> QED BY <1>1 DEF Init, TypeOK, Pcs, Operations, Kinds, NoAnswer

CallTypes ==
  /\ pc' \in [Requests -> Pcs]
  /\ held' \in [Requests -> Lease]
  /\ answer' \in [Requests -> [kind : Kinds, token : 0..MaxLeases]]

LEMMA StillTypes ==
  ASSUME TypeOK, UNCHANGED <<pc, held, answer>>
  PROVE  CallTypes
  BY DEF TypeOK, CallTypes

LEMMA GotoTypes ==
  ASSUME TypeOK, NEW r \in Requests, NEW l \in Pcs, Goto(r, l), UNCHANGED <<held, answer>>
  PROVE  CallTypes
  BY DEF TypeOK, Goto, CallTypes

LEMMA AnswerTypes ==
  ASSUME TypeOK, NEW r \in Requests, NEW k \in Kinds, NEW t \in 0..MaxLeases, Answer(r, k, t)
  PROVE  CallTypes
  BY AnswerType DEF CallTypes

LEMMA AcquireTypes ==
  ASSUME TypeOK, NEW r \in Requests, Acquire(r)
  PROVE  TypeOK'
  <1>1. /\ issued + 1 \in 0..MaxLeases
        /\ issued' = issued + 1
        /\ generation' \in [Scopes -> Nat]
        /\ generation'[ScopeOf(r)] \in Nat
        /\ UNCHANGED <<breaker, call, calls, verdict>>
    BY ThresholdAssumption, Typed DEF Acquire, TypeOK, provider
  <1>2. CallTypes
    <2>1. CASE Answer(r, "error", 0)
      BY <2>1, AnswerTypes, ThresholdAssumption DEF Kinds
    <2>2. CASE /\ Goto(r, "acquired")
               /\ held' = [held EXCEPT ![r] = [token |-> issued + 1, generation |-> generation'[ScopeOf(r)]]]
               /\ UNCHANGED answer
      BY <1>1, <2>2 DEF TypeOK, Goto, Pcs, Lease, CallTypes
    <2> QED BY <2>1, <2>2 DEF Acquire
  <1>3. RowType
    BY AcquireRow
  <1> QED BY <1>1, <1>2, <1>3 DEF TypeOK, CallTypes, RowType

(* The answers that Refuse and Get read off a settled row.                 *)
LEMMA SettledKinds ==
  ASSUME TypeOK, SettledRows, NEW r \in Requests, RowOf(r).state \in {"succeeded", "failed"}
  PROVE  RowOf(r).result.status \in Kinds
  <1>1. RowOf(r).result.status # None
    BY Typed DEF SettledRows, RowOf
  <1>2. RowOf(r).result \in Result \cup {NoResult}
    BY Typed DEF Row, NoRow
  <1> QED BY <1>1, <1>2 DEF Result, NoResult, Kinds

LEMMA RefuseTypes ==
  ASSUME TypeOK, SettledRows, NEW r \in Requests, Refuse(r)
  PROVE  CallTypes
  <1> DEFINE refusal == Refusal(RowOf(r), call[r].hash)
  <1>1. refusal \in {"request_mismatch", "completed", "in_progress", "indeterminate"}
    BY DEF Refusal
  <1>2. refusal = "completed" => RowOf(r).state \in {"succeeded", "failed"}
    BY DEF Refusal
  <1> HIDE DEF refusal
  <1> DEFINE kind == IF refusal = "completed" THEN RowOf(r).result.status ELSE refusal
  <1>3. kind \in Kinds
    BY <1>1, <1>2, SettledKinds DEF Kinds
  <1>4. Answer(r, kind, 0) /\ 0 \in 0..MaxLeases
    BY ThresholdAssumption DEF Refuse, refusal
  <1> QED BY <1>3, <1>4, AnswerTypes

LEMMA GetTypes ==
  ASSUME TypeOK, SettledRows, NEW r \in Requests, Get(r)
  PROVE  CallTypes
  <1>0. 0 \in 0..MaxLeases /\ {"error", "request_mismatch", "in_progress"} \subseteq Kinds
    BY ThresholdAssumption DEF Kinds
  <1>1. CASE Answer(r, "error", 0) \/ Answer(r, "request_mismatch", 0) \/ Answer(r, "in_progress", 0)
    BY <1>0, <1>1, AnswerTypes
  <1>2. CASE RowOf(r).state \in {"succeeded", "failed"} /\ Answer(r, RowOf(r).result.status, 0)
    BY <1>0, <1>2, AnswerTypes, SettledKinds
  <1>3. CASE Goto(r, "asking") /\ UNCHANGED <<held, answer>>
    BY <1>3, GotoTypes DEF Pcs
  <1> QED BY <1>1, <1>2, <1>3 DEF Get

LEMMA CompleteTypes ==
  ASSUME TypeOK, VerdictKnown, NEW r \in Requests, Complete(r)
  PROVE  CallTypes
  <1>1. verdict[CommandOf(r)] \in Kinds /\ held[r].token \in 0..MaxLeases
    BY Typed DEF Complete, VerdictKnown, Kinds
  <1>2. CASE Answer(r, verdict[CommandOf(r)], held[r].token)
    BY <1>1, <1>2, AnswerTypes
  <1>3. CASE Goto(r, "retaining") /\ UNCHANGED <<held, answer>>
    BY <1>3, GotoTypes DEF Pcs
  <1> QED BY <1>2, <1>3 DEF Complete

LEMMA ResolveTypes ==
  ASSUME TypeOK, VerdictKnown, NEW r \in Requests, Resolve(r)
  PROVE  CallTypes
  <1>1. verdict[CommandOf(r)] \in Kinds /\ "indeterminate" \in Kinds /\ 0 \in 0..MaxLeases
    BY Typed, ThresholdAssumption DEF Resolve, VerdictKnown, Kinds
  <1>2. Answer(r, verdict[CommandOf(r)], 0) \/ Answer(r, "indeterminate", 0)
    BY DEF Resolve
  <1> QED BY <1>1, <1>2, AnswerTypes

LEMMA StepTypes ==
  ASSUME TypeOK, SettledRows, VerdictKnown, NEW r \in Requests, Step(r)
  PROVE  TypeOK'
  <1> DEFINE Rest == /\ UNCHANGED <<issued, generation, call, verdict>>
                     /\ breaker' \in Circuit
                     /\ calls' \subseteq [scope : Scopes, hash : Hashes, generation : Nat, token : Nat]
  <1>t. RowType /\ CallTypes /\ Rest => TypeOK'
    BY DEF TypeOK, RowType, CallTypes
  <1>s. UNCHANGED row => RowType
    BY DEF TypeOK, RowType
  <1>r. /\ UNCHANGED <<issued, generation, breaker, call, provider>> => Rest
        /\ UNCHANGED <<ledger, call, provider>> /\ breaker' \in Circuit => Rest
    BY DEF TypeOK, ledger, provider
  <1>0. 0 \in 0..MaxLeases /\ held[r].token \in 0..MaxLeases
    BY Typed, ThresholdAssumption
  <1>1. CASE Acquire(r)
    BY <1>1, AcquireTypes
  <1>2. CASE Refuse(r)
    <2>1. UNCHANGED row /\ Rest
      BY <1>2, <1>r DEF Refuse, ledger
    <2> QED BY <2>1, <1>2, <1>s, <1>t, RefuseTypes
  <1>3. CASE BeginFails(r)
    <2>1. UNCHANGED row /\ Rest
      BY <1>3, <1>r DEF BeginFails, ledger
    <2>2. CallTypes
      BY <1>0, <1>3, AnswerTypes DEF BeginFails, Kinds
    <2> QED BY <2>1, <2>2, <1>s, <1>t
  <1>4. CASE Admit(r)
    <2>1. breaker' \in Circuit
      BY <1>4, BreakerTypes DEF Admit, TypeOK
    <2>2. UNCHANGED row /\ Rest
      BY <1>4, <2>1, <1>r DEF Admit, ledger
    <2>3. CallTypes
      BY <1>4, GotoTypes DEF Admit, Pcs
    <2> QED BY <2>2, <2>3, <1>s, <1>t
  <1>5. CASE MarkDispatched(r)
    <2>1. Rest
      BY <1>5, <1>r DEF MarkDispatched
    <2>2. CallTypes
      BY <1>5, GotoTypes DEF MarkDispatched, Pcs
    <2> QED BY <2>1, <2>2, <1>5, <1>t, MarkRow
  <1>6. CASE MarkDispatchedFails(r)
    <2>1. UNCHANGED row /\ Rest
      BY <1>6, <1>r DEF MarkDispatchedFails, ledger
    <2>2. CallTypes
      BY <1>6, GotoTypes DEF MarkDispatchedFails, Pcs
    <2> QED BY <2>1, <2>2, <1>s, <1>t
  <1>7. CASE Release(r)
    <2>1. Rest
      BY <1>7, <1>r DEF Release
    <2>2. CallTypes
      BY <1>0, <1>7, AnswerTypes DEF Release, Kinds
    <2> QED BY <2>1, <2>2, <1>7, <1>t, ReleaseRow
  <1>8. CASE CallProvider(r)
    <2>1. DispatchOf(r) \in [scope : Scopes, hash : Hashes, generation : Nat, token : Nat]
      BY Typed DEF DispatchOf, Lease
    <2>2. UNCHANGED row /\ Rest
      BY <1>8, <2>1 DEF CallProvider, ledger, TypeOK, DispatchOf
    <2>3. CallTypes
      BY <1>8, GotoTypes DEF CallProvider, Pcs
    <2> QED BY <2>2, <2>3, <1>s, <1>t
  <1>9. CASE ProviderAnswers(r)
    <2>1. UNCHANGED row /\ Rest
      BY <1>9, <1>r, BreakerTypes DEF ProviderAnswers, ledger
    <2>2. CallTypes
      BY <1>9, GotoTypes DEF ProviderAnswers, Pcs
    <2> QED BY <2>1, <2>2, <1>s, <1>t
  <1>10. CASE CallFails(r)
    <2>1. UNCHANGED row /\ Rest
      BY <1>10, <1>r, BreakerTypes DEF CallFails, ledger
    <2>2. CallTypes
      BY <1>10, GotoTypes DEF CallFails, Pcs
    <2> QED BY <2>1, <2>2, <1>s, <1>t
  <1>11. CASE Complete(r)
    <2>1. Rest
      BY <1>11, <1>r DEF Complete
    <2> QED BY <2>1, <1>11, <1>t, CompleteRow, CompleteTypes
  <1>12. CASE Retain(r)
    <2>1. Rest
      BY <1>12, <1>r DEF Retain
    <2>2. CallTypes
      BY <1>0, <1>12, AnswerTypes DEF Retain, Kinds
    <2> QED BY <2>1, <2>2, <1>12, <1>t, RetainRow
  <1>13. CASE AdmitRead(r)
    <2>1. breaker' \in Circuit
      BY <1>13, BreakerTypes DEF AdmitRead, TypeOK
    <2>2. UNCHANGED row /\ Rest
      BY <1>13, <2>1, <1>r DEF AdmitRead, ledger
    <2>3. CallTypes
      <3>1. CASE Answer(r, "circuit", 0)
        BY <1>0, <3>1, AnswerTypes DEF Kinds
      <3>2. CASE Goto(r, "reading") /\ UNCHANGED <<held, answer>>
        BY <3>2, GotoTypes DEF Pcs
      <3> QED BY <1>13, <3>1, <3>2 DEF AdmitRead
    <2> QED BY <2>2, <2>3, <1>s, <1>t
  <1>14. CASE Read(r)
    <2>1. UNCHANGED row /\ Rest
      BY <1>14, <1>r, BreakerTypes DEF Read, ledger
    <2>2. CallTypes
      <3>1. {"completed", "error"} \subseteq Kinds
        BY DEF Kinds, Statuses
      <3> QED BY <1>0, <1>14, <3>1, AnswerTypes DEF Read
    <2> QED BY <2>1, <2>2, <1>s, <1>t
  <1>15. CASE Get(r)
    <2>1. UNCHANGED row /\ Rest
      BY <1>15, <1>r DEF Get, ledger
    <2> QED BY <2>1, <1>15, <1>s, <1>t, GetTypes
  <1>16. CASE Ask(r)
    <2>1. UNCHANGED row /\ Rest
      BY <1>16, <1>r DEF Ask, ledger
    <2>2. CallTypes
      <3>1. CASE Answer(r, "undetermined", 0)
        BY <1>0, <3>1, AnswerTypes DEF Kinds
      <3>2. CASE Goto(r, "resolving") /\ UNCHANGED <<held, answer>>
        BY <3>2, GotoTypes DEF Pcs
      <3> QED BY <1>16, <3>1, <3>2 DEF Ask
    <2> QED BY <2>1, <2>2, <1>s, <1>t
  <1>17. CASE Resolve(r)
    <2>1. Rest
      BY <1>17, <1>r DEF Resolve
    <2> QED BY <2>1, <1>17, <1>t, ResolveRow, ResolveTypes
  <1> QED
    BY <1>1, <1>2, <1>3, <1>4, <1>5, <1>6, <1>7, <1>8, <1>9, <1>10, <1>11, <1>12,
       <1>13, <1>14, <1>15, <1>16, <1>17 DEF Step

LEMMA TypeNext == TypeOK /\ SettledRows /\ VerdictKnown /\ [Next]_vars => TypeOK'
  <1> SUFFICES ASSUME TypeOK, SettledRows, VerdictKnown, [Next]_vars PROVE TypeOK'
    OBVIOUS
  <1>1. ASSUME NEW r \in Requests, Step(r) PROVE TypeOK'
    BY <1>1, StepTypes
  <1>2. ASSUME NEW r \in Requests, NEW o \in Operations, NEW s \in Scopes, NEW h \in Hashes,
               Send(r, o, s, h)
        PROVE  TypeOK'
    <2>1. NoAnswer \in [kind : Kinds, token : 0..MaxLeases]
      BY ThresholdAssumption DEF NoAnswer, Kinds
    <2>2. pc' \in [Requests -> Pcs]
      BY <1>2 DEF Send, Goto, TypeOK, Operations, Pcs
    <2> QED BY <1>2, <2>1, <2>2 DEF Send, TypeOK, ledger, provider
  <1>3. ASSUME NEW c \in calls, NEW st \in Statuses, Decide(c, st) PROVE TypeOK'
    BY <1>3 DEF Decide, TypeOK, ledger
  <1>4. ASSUME NEW s \in Scopes, Lapse(s) PROVE TypeOK'
    <2>1. Lapsed(row[s]) \in Row
      BY <1>4, LapsedRow, PresentRow DEF Lapse, TypeOK
    <2> QED BY <1>4, <2>1 DEF Lapse, TypeOK, provider
  <1>5. CASE Cool
    BY <1>5 DEF Cool, TypeOK, Circuit, ledger, provider
  <1>6. CASE Crash
    <2>1. NoLease \in Lease /\ [kind |-> "lost", token |-> 0] \in [kind : Kinds, token : 0..MaxLeases]
      BY ThresholdAssumption DEF NoLease, Lease, Kinds
    <2>2. ClosedCircuit \in Circuit
      BY BreakerTypes
    <2> QED BY <1>6, <2>1, <2>2 DEF Crash, TypeOK, Pcs, ledger, provider
  <1>7. CASE UNCHANGED vars
    BY <1>7 DEF vars, TypeOK
  <1> QED BY <1>1, <1>2, <1>3, <1>4, <1>5, <1>6, <1>7 DEF Next

-----------------------------------------------------------------------------
(***************************************************************************)
(* What is told of the verdicts.  A step tells the truth if what it newly  *)
(* settles, is about to settle or answers agrees with a verdict already    *)
(* given, and no verdict is taken back.                                    *)
(***************************************************************************)
RowTold(s) ==
  row'[s].state \in {"succeeded", "failed"} =>
    \/ /\ row[s].state \in {"succeeded", "failed"}
       /\ row'[s].hash = row[s].hash /\ row'[s].result = row[s].result
    \/ /\ row'[s].result.status # None
       /\ verdict[<<s, row'[s].hash>>] = row'[s].result.status

CallTold(r) ==
  /\ pc'[r] \in {"completing", "resolving"} =>
       call'[r] = call[r] /\ (pc'[r] = pc[r] \/ verdict[CommandOf(r)] # None)
  /\ pc'[r] \in {"admission", "reading"} =>
       \/ pc[r] \in {"admission", "reading"} /\ call'[r] = call[r]
       \/ call'[r].operation = "read"
  /\ answer'[r].kind \in Statuses /\ call'[r].operation # "read" =>
       /\ call'[r] = call[r]
       /\ answer'[r] = answer[r] \/ (answer'[r].kind # None /\ verdict[CommandOf(r)] = answer'[r].kind)

VerdictsKept == \A c \in Scopes \X Hashes : verdict[c] # None => verdict'[c] = verdict[c]

Tells == VerdictsKept /\ (\A s \in Scopes : RowTold(s)) /\ \A r \in Requests : CallTold(r)

LEMMA TruthKept ==
  ASSUME TypeOK, TypeOK', TruthInv, Tells
  PROVE  TruthInv'
  <1>1. SettledRows'
    <2> SUFFICES ASSUME NEW s \in Scopes, row'[s].state \in {"succeeded", "failed"}
                 PROVE  row'[s].result.status # None /\ verdict'[<<s, row'[s].hash>>] = row'[s].result.status
      BY DEF SettledRows
    <2>1. <<s, row'[s].hash>> \in Scopes \X Hashes
      BY DEF TypeOK, Row, NoRow
    <2> QED BY <2>1 DEF TruthInv, SettledRows, Tells, RowTold, VerdictsKept
  <1>2. VerdictKnown'
    <2> SUFFICES ASSUME NEW r \in Requests, pc'[r] \in {"completing", "resolving"}
                 PROVE  verdict'[CommandOf(r)'] # None
      BY DEF VerdictKnown
    <2>1. call'[r] = call[r] /\ verdict[CommandOf(r)] # None
      BY DEF TruthInv, VerdictKnown, Tells, CallTold
    <2> QED BY <2>1, Typed DEF Tells, VerdictsKept, CommandOf, ScopeOf
  <1>3. ReadersRead'
    BY DEF TruthInv, ReadersRead, Tells, CallTold
  <1>4. ToldTheVerdict'
    <2> SUFFICES ASSUME NEW r \in Requests, answer'[r].kind \in Statuses, call'[r].operation # "read"
                 PROVE  answer'[r].kind # None /\ verdict'[CommandOf(r)'] = answer'[r].kind
      BY DEF ToldTheVerdict
    <2>1. call'[r] = call[r] /\ answer'[r].kind # None /\ verdict[CommandOf(r)] = answer'[r].kind
      BY DEF TruthInv, ToldTheVerdict, Tells, CallTold
    <2> QED BY <2>1, Typed DEF Tells, VerdictsKept, CommandOf, ScopeOf
  <1> QED BY <1>1, <1>2, <1>3, <1>4 DEF TruthInv

(* A step of one call tells the truth if it does so of its own row and of  *)
(* its own answer.                                                         *)
LEMMA ToldAlone ==
  ASSUME TypeOK, NEW r \in Requests, Alone(r), OnlyIn(r), RowTold(ScopeOf(r)), CallTold(r)
  PROVE  Tells
  <1>1. VerdictsKept
    BY DEF Alone, VerdictsKept
  <1>2. ASSUME NEW s \in Scopes PROVE RowTold(s)
    <2>1. CASE s = ScopeOf(r)
      BY <2>1
    <2>2. CASE s # ScopeOf(r)
      BY <2>2 DEF OnlyIn, RowTold
    <2> QED BY <2>1, <2>2
  <1>3. ASSUME NEW q \in Requests PROVE CallTold(q)
    <2>1. CASE q = r
      BY <2>1
    <2>2. CASE q # r
      BY <2>2 DEF Alone, CallTold
    <2> QED BY <2>1, <2>2
  <1> QED BY <1>1, <1>2, <1>3 DEF Tells

LEMMA ToldRows ==
  ASSUME TypeOK, NEW r \in Requests
  PROVE  /\ row' = row => OnlyIn(r) /\ RowTold(ScopeOf(r))
         /\ Taken(r) \/ Marked(r) \/ Deleted(r) \/ Kept(r) => RowTold(ScopeOf(r))
         /\ SettledAs(r) /\ verdict[CommandOf(r)] # None => RowTold(ScopeOf(r))
  BY Typed DEF OnlyIn, RowTold, Taken, Marked, Deleted, Kept, SettledAs, NoRow, CommandOf

(* Answers that say nothing of a verdict. *)
Silent == Kinds \ Statuses

LEMMA ToldAnswers ==
  ASSUME TypeOK, NEW r \in Requests, NEW k, NEW t, Alone(r), Answered(r, k, t),
         \/ k \in Silent
         \/ call[r].operation = "read"
         \/ k # None /\ verdict[CommandOf(r)] = k
  PROVE  CallTold(r)
  <1>1. pc'[r] = "idle" /\ answer'[r].kind = k /\ call' = call
    BY DEF Answered, Alone
  <1> QED BY <1>1 DEF CallTold, Silent

LEMMA ToldMoves ==
  ASSUME TypeOK, NEW r \in Requests, NEW l \in Pcs, Goto(r, l), UNCHANGED <<call, verdict, held, answer>>,
         l \in {"completing", "resolving"} => verdict[CommandOf(r)] # None,
         l \in {"admission", "reading"} => pc[r] \in {"admission", "reading"}
  PROVE  Alone(r) /\ CallTold(r)
  BY GotoStep DEF CallTold

LEMMA RefuseTells ==
  ASSUME TypeOK, TruthInv, NEW r \in Requests, Refuse(r)
  PROVE  Alone(r) /\ CallTold(r)
  <1> DEFINE refusal == Refusal(RowOf(r), call[r].hash)
  <1>1. refusal \in {"request_mismatch", "completed", "in_progress", "indeterminate"}
    BY DEF Refusal
  <1>2. refusal = "completed" => RowOf(r).state \in {"succeeded", "failed"} /\ RowOf(r).hash = call[r].hash
    <2>1. CASE RowOf(r).state = "absent"
      BY <2>1 DEF Refusal, Refuse, Acquirable
    <2>2. CASE RowOf(r).state # "absent"
      BY <2>2 DEF Refusal, Mismatch
    <2> QED BY <2>1, <2>2
  <1> HIDE DEF refusal
  <1> DEFINE kind == IF refusal = "completed" THEN RowOf(r).result.status ELSE refusal
  <1>3. kind \in Silent \/ (kind # None /\ verdict[CommandOf(r)] = kind)
    <2>1. CASE refusal = "completed"
      BY <2>1, <1>2, Typed DEF TruthInv, SettledRows, RowOf, CommandOf
    <2>2. CASE refusal # "completed"
      BY <2>2, <1>1 DEF Silent, Kinds, Statuses
    <2> QED BY <2>1, <2>2
  <1>4. Alone(r) /\ Answered(r, kind, 0)
    BY AnswerStep DEF Refuse, refusal, provider
  <1> QED BY <1>3, <1>4, ToldAnswers

LEMMA GetTells ==
  ASSUME TypeOK, TruthInv, NEW r \in Requests, Get(r)
  PROVE  Alone(r) /\ CallTold(r)
  <1>0. UNCHANGED <<call, verdict>>
    BY DEF Get, provider
  <1>1. ASSUME NEW k \in {"error", "request_mismatch", "in_progress"}, Answer(r, k, 0)
        PROVE  Alone(r) /\ CallTold(r)
    <2>1. k \in Silent
      BY DEF Silent, Kinds, Statuses
    <2>2. Alone(r) /\ Answered(r, k, 0)
      BY <1>0, <1>1, AnswerStep
    <2> QED BY <2>1, <2>2, ToldAnswers
  <1>2. CASE /\ RowOf(r).hash = call[r].hash /\ RowOf(r).state \in {"succeeded", "failed"}
             /\ Answer(r, RowOf(r).result.status, 0)
    <2>1. RowOf(r).result.status # None /\ verdict[CommandOf(r)] = RowOf(r).result.status
      BY <1>2, Typed DEF TruthInv, SettledRows, RowOf, CommandOf
    <2>2. Alone(r) /\ Answered(r, RowOf(r).result.status, 0)
      BY <1>0, <1>2, AnswerStep
    <2> QED BY <2>1, <2>2, ToldAnswers
  <1>3. CASE Goto(r, "asking") /\ UNCHANGED <<held, answer>>
    BY <1>0, <1>3, ToldMoves DEF Pcs
  <1> QED BY <1>1, <1>2, <1>3 DEF Get

LEMMA StepTells ==
  ASSUME TypeOK, TruthInv, NEW r \in Requests, Step(r)
  PROVE  Tells
  <1>v. VerdictKnown /\ ReadersRead
    BY DEF TruthInv
  <1>s. {"error", "not_called", "indeterminate", "circuit", "undetermined"} \subseteq Silent
    BY DEF Silent, Kinds, Statuses
  <1>p. {"acquired", "dispatching", "blocked", "undispatched", "dispatched", "calling", "completing",
         "retaining", "reading", "resolving"} \subseteq Pcs
    BY DEF Pcs
  <1>a. ASSUME NEW k \in Silent, NEW t, Answer(r, k, t), UNCHANGED <<call, verdict>>
        PROVE  Alone(r) /\ CallTold(r)
    BY <1>a, AnswerStep, ToldAnswers
  <1>g. ASSUME NEW l \in Pcs \ {"completing", "resolving", "admission", "reading"},
               Goto(r, l), UNCHANGED <<call, verdict, held, answer>>
        PROVE  Alone(r) /\ CallTold(r)
    BY <1>g, ToldMoves
  <1>f. ASSUME row' = row, Alone(r), CallTold(r) PROVE Tells
    BY <1>f, ToldAlone, ToldRows
  <1>1. CASE Acquire(r)
    <2>1. RowTold(ScopeOf(r)) /\ OnlyIn(r)
      BY <1>1, AcquireRow, ToldRows
    <2>2. Alone(r) /\ CallTold(r)
      <3>1. CASE Answer(r, "error", 0)
        BY <1>1, <3>1, <1>a, <1>s DEF Acquire, provider
      <3>2. CASE /\ Goto(r, "acquired")
                 /\ held' = [held EXCEPT ![r] = [token |-> issued + 1, generation |-> generation'[ScopeOf(r)]]]
                 /\ UNCHANGED answer
        BY <1>1, <3>2 DEF Acquire, provider, Goto, TypeOK, Alone, CallTold
      <3> QED BY <1>1, <3>1, <3>2 DEF Acquire
    <2> QED BY <2>1, <2>2, ToldAlone
  <1>2. CASE Refuse(r)
    BY <1>2, <1>f, RefuseTells DEF Refuse, ledger
  <1>3. CASE BeginFails(r)
    BY <1>3, <1>a, <1>s, <1>f DEF BeginFails, ledger, provider
  <1>4. CASE Admit(r)
    BY <1>4, <1>g, <1>p, <1>f DEF Admit, ledger, provider
  <1>5. CASE MarkDispatched(r)
    <2>1. Alone(r) /\ CallTold(r)
      BY <1>5, <1>g, <1>p DEF MarkDispatched, provider
    <2> QED BY <1>5, <2>1, MarkRow, ToldRows, ToldAlone
  <1>6. CASE MarkDispatchedFails(r)
    BY <1>6, <1>g, <1>p, <1>f DEF MarkDispatchedFails, ledger, provider
  <1>7. CASE Release(r)
    <2>1. Alone(r) /\ CallTold(r)
      BY <1>7, <1>a, <1>s DEF Release, provider
    <2> QED BY <1>7, <2>1, ReleaseRow, ToldRows, ToldAlone
  <1>8. CASE CallProvider(r)
    BY <1>8, <1>g, <1>p, <1>f DEF CallProvider, ledger
  <1>9. CASE ProviderAnswers(r)
    <2>1. Alone(r) /\ CallTold(r)
      BY <1>9, <1>p, ToldMoves DEF ProviderAnswers, provider
    <2> QED BY <1>9, <2>1, <1>f DEF ProviderAnswers, ledger
  <1>10. CASE CallFails(r)
    BY <1>10, <1>g, <1>p, <1>f DEF CallFails, ledger, provider
  <1>11. CASE Complete(r)
    <2>1. verdict[CommandOf(r)] # None /\ UNCHANGED <<call, verdict>>
      BY <1>11, <1>v DEF Complete, VerdictKnown, provider
    <2>2. Alone(r) /\ CallTold(r)
      <3>1. CASE Answer(r, verdict[CommandOf(r)], held[r].token)
        BY <2>1, <3>1, AnswerStep, ToldAnswers
      <3>2. CASE Goto(r, "retaining") /\ UNCHANGED <<held, answer>>
        BY <2>1, <3>2, <1>g, <1>p
      <3> QED BY <1>11, <3>1, <3>2 DEF Complete
    <2> QED BY <1>11, <1>v, <2>1, <2>2, CompleteRow, ToldRows, ToldAlone
  <1>12. CASE Retain(r)
    <2>1. Alone(r) /\ CallTold(r)
      BY <1>12, <1>a, <1>s DEF Retain, provider
    <2> QED BY <1>12, <2>1, RetainRow, ToldRows, ToldAlone
  <1>13. CASE AdmitRead(r)
    <2>1. Alone(r) /\ CallTold(r)
      <3>1. CASE Answer(r, "circuit", 0)
        BY <1>13, <3>1, <1>a, <1>s DEF AdmitRead, provider
      <3>2. CASE Goto(r, "reading") /\ UNCHANGED <<held, answer>>
        BY <1>13, <3>2, <1>p, ToldMoves DEF AdmitRead, provider
      <3> QED BY <1>13, <3>1, <3>2 DEF AdmitRead
    <2> QED BY <1>13, <2>1, <1>f DEF AdmitRead, ledger
  <1>14. CASE Read(r)
    <2>1. call[r].operation = "read" /\ UNCHANGED <<call, verdict>>
      BY <1>14, <1>v DEF Read, ReadersRead, provider
    <2>2. \E k \in {"completed", "error"} : Answer(r, k, 0)
      BY <1>14 DEF Read
    <2>3. Alone(r) /\ CallTold(r)
      BY <2>1, <2>2, AnswerStep, ToldAnswers
    <2> QED BY <1>14, <2>3, <1>f DEF Read, ledger
  <1>15. CASE Get(r)
    BY <1>15, <1>f, GetTells DEF Get, ledger
  <1>16. CASE Ask(r)
    <2>1. Alone(r) /\ CallTold(r)
      <3>1. CASE Answer(r, "undetermined", 0)
        BY <1>16, <3>1, <1>a, <1>s DEF Ask, provider
      <3>2. CASE verdict[CommandOf(r)] # None /\ Goto(r, "resolving") /\ UNCHANGED <<held, answer>>
        BY <1>16, <3>2, <1>p, ToldMoves DEF Ask, provider
      <3> QED BY <1>16, <3>1, <3>2 DEF Ask
    <2> QED BY <1>16, <2>1, <1>f DEF Ask, ledger
  <1>17. CASE Resolve(r)
    <2>1. verdict[CommandOf(r)] # None /\ UNCHANGED <<call, verdict>>
      BY <1>17, <1>v DEF Resolve, VerdictKnown, provider
    <2>2. Alone(r) /\ CallTold(r)
      <3>1. CASE Answer(r, verdict[CommandOf(r)], 0)
        BY <2>1, <3>1, AnswerStep, ToldAnswers
      <3>2. CASE Answer(r, "indeterminate", 0)
        BY <2>1, <3>2, <1>a, <1>s
      <3> QED BY <1>17, <3>1, <3>2 DEF Resolve
    <2> QED BY <1>17, <1>v, <2>1, <2>2, ResolveRow, ToldRows, ToldAlone
  <1> QED
    BY <1>1, <1>2, <1>3, <1>4, <1>5, <1>6, <1>7, <1>8, <1>9, <1>10, <1>11, <1>12,
       <1>13, <1>14, <1>15, <1>16, <1>17 DEF Step

LEMMA NextTells == TypeOK /\ TruthInv /\ [Next]_vars => Tells
  <1> SUFFICES ASSUME TypeOK, TruthInv, [Next]_vars PROVE Tells
    OBVIOUS
  <1> USE DEF Tells, VerdictsKept, RowTold, CallTold
  <1>1. ASSUME NEW r \in Requests, Step(r) PROVE Tells
    BY <1>1, StepTells
  <1>2. ASSUME NEW r \in Requests, NEW o \in Operations, NEW s \in Scopes, NEW h \in Hashes,
               Send(r, o, s, h)
        PROVE  Tells
    <2>1. UNCHANGED <<row, verdict>>
      BY <1>2 DEF Send, ledger, provider
    <2>2. ASSUME NEW q \in Requests PROVE CallTold(q)
      <3>1. CASE q = r
        BY <1>2, <3>1 DEF Send, Goto, TypeOK, NoAnswer, Statuses, Operations
      <3>2. CASE q # r
        BY <1>2, <3>2 DEF Send, Goto, TypeOK
      <3> QED BY <3>1, <3>2
    <2> QED BY <2>1, <2>2
  <1>3. ASSUME NEW c \in calls, NEW st \in Statuses, Decide(c, st) PROVE Tells
    <2>1. VerdictsKept
      BY <1>3 DEF Decide, TypeOK
    <2> QED BY <1>3, <2>1 DEF Decide, ledger
  <1>4. ASSUME NEW s \in Scopes, Lapse(s) PROVE Tells
    <2>1. row[s] \in Row
      BY <1>4, PresentRow DEF Lapse, TypeOK
    <2>2. /\ row'[s] = Lapsed(row[s])
          /\ \A o \in Scopes : o # s => row'[o] = row[o]
      BY <1>4 DEF Lapse, TypeOK
    <2>3. \A o \in Scopes : RowTold(o)
      BY <2>1, <2>2, LapsedRow
    <2> QED BY <1>4, <2>3 DEF Lapse, provider
  <1>5. CASE Cool
    BY <1>5 DEF Cool, ledger, provider
  <1>6. CASE Crash
    <2>1. ASSUME NEW q \in Requests PROVE CallTold(q)
      <3>1. pc'[q] = "idle" /\ call'[q] = call[q]
        BY <1>6 DEF Crash
      <3>2. answer'[q] = answer[q] \/ answer'[q].kind = "lost"
        BY <1>6 DEF Crash
      <3> QED BY <3>1, <3>2 DEF Statuses
    <2> QED BY <1>6, <2>1 DEF Crash, ledger, provider
  <1>7. CASE UNCHANGED vars
    BY <1>7 DEF vars
  <1> QED BY <1>1, <1>2, <1>3, <1>4, <1>5, <1>6, <1>7 DEF Next

-----------------------------------------------------------------------------
(***************************************************************************)
(* Leases.  A quiet step hands out no lease and dispatches nothing: what   *)
(* it calls was dispatched, no row becomes absent or pending that was not, *)
(* and a call only moves on or gives its lease up.                         *)
(***************************************************************************)
RowQuiet(s) ==
  /\ row'[s].state = "absent" => row[s].state \in {"absent", "pending"}
  /\ row'[s].state = "pending" => row[s].state = "pending" /\ row'[s].token = row[s].token

CallQuiet(r) ==
  /\ pc'[r] \in Leased => pc[r] \in Leased /\ held'[r] = held[r] /\ call'[r] = call[r]
  /\ pc'[r] \notin Leased => held'[r] = NoLease
  /\ pc'[r] \in Sent => pc[r] \in Sent
  /\ pc'[r] \in Unsent => pc[r] \in Unsent
  /\ pc'[r] \in {"acquired", "dispatching"} => pc[r] \in {"acquired", "dispatching"}
  /\ answer'[r].kind = "not_called" =>
       \/ answer'[r] = answer[r]
       \/ pc[r] \in Unsent /\ pc'[r] = "idle" /\ answer'[r].token = held[r].token

Quiet ==
  /\ UNCHANGED <<issued, generation>>
  /\ calls' \subseteq Dispatches
  /\ \A s \in Scopes : RowQuiet(s)
  /\ \A r \in Requests : CallQuiet(r)

LEMMA QuietDispatches ==
  ASSUME TypeOK, Quiet
  PROVE  Dispatches' \subseteq Dispatches
  <1> SUFFICES ASSUME NEW r \in Requests, pc'[r] \in Sent PROVE DispatchOf(r)' \in Dispatches
    BY DEF Quiet, Dispatches
  <1>1. pc[r] \in Sent /\ held'[r] = held[r] /\ call'[r] = call[r]
    BY DEF Quiet, CallQuiet, Leased
  <1> QED BY <1>1 DEF Dispatches, DispatchOf, ScopeOf

LEMMA QuietKeeps ==
  ASSUME TypeOK, TypeOK', LeaseInv, Quiet
  PROVE  LeaseInv'
  <1>d. Dispatches' \subseteq Dispatches
    BY QuietDispatches
  <1>n. NoLease.token = 0 /\ issued \in Nat
    BY DEF NoLease, TypeOK
  <1>1. LeasesHeld'
    BY DEF LeaseInv, LeasesHeld, Quiet, CallQuiet
  <1>2. HoldersDiffer'
    BY DEF LeaseInv, HoldersDiffer, Quiet, CallQuiet
  <1>3. OwnGeneration'
    <2> SUFFICES ASSUME NEW r \in Requests, pc'[r] \in {"acquired", "dispatching"},
                        row'[call'[r].scope].state = "pending",
                        row'[call'[r].scope].token = held'[r].token
                 PROVE  held'[r].generation = generation'[call'[r].scope]
      BY DEF OwnGeneration, RowOf, ScopeOf
    <2>1. pc[r] \in {"acquired", "dispatching"} /\ held'[r] = held[r] /\ call'[r] = call[r]
      BY DEF Quiet, CallQuiet, Leased, Unsent
    <2>2. RowOf(r).state = "pending" /\ RowOf(r).token = held[r].token
      BY <2>1, Typed DEF Quiet, RowQuiet, RowOf, ScopeOf
    <2> QED BY <2>1, <2>2 DEF LeaseInv, OwnGeneration, Quiet, ScopeOf
  <1>4. DispatchesPast'
    <2> SUFFICES ASSUME NEW d \in Dispatches'
                 PROVE  /\ d.token \in 1..issued'
                        /\ d.generation <= generation'[d.scope]
                        /\ row'[d.scope].state \in {"absent", "pending"} => d.generation < generation'[d.scope]
      BY DEF DispatchesPast
    <2>0. d \in Dispatches
      BY <1>d
    <2>1. d.scope \in Scopes
      BY <2>0, Typed DEF Dispatches, DispatchOf, TypeOK
    <2> QED BY <2>0, <2>1 DEF LeaseInv, DispatchesPast, Quiet, RowQuiet
  <1>5. OneDispatch'
    BY <1>d DEF LeaseInv, OneDispatch
  <1>6. UnsentUnused'
    BY <1>d DEF LeaseInv, UnsentUnused, Quiet, CallQuiet, Leased
  <1>7. NotCalledUnused'
    <2> SUFFICES ASSUME NEW r \in Requests, answer'[r].kind = "not_called"
                 PROVE  /\ answer'[r].token \in 1..issued'
                        /\ \A q \in Requests : held'[q].token # answer'[r].token
                        /\ \A d \in Dispatches' : d.token # answer'[r].token
      BY DEF NotCalledUnused
    <2>h. ASSUME NEW q \in Requests
          PROVE  held'[q] = NoLease \/ (pc[q] \in Leased /\ pc'[q] \in Leased /\ held'[q] = held[q])
      BY DEF Quiet, CallQuiet
    <2>1. CASE answer'[r] = answer[r]
      BY <2>1, <2>h, <1>d, <1>n DEF LeaseInv, NotCalledUnused, Quiet
    <2>2. CASE pc[r] \in Unsent /\ pc'[r] = "idle" /\ answer'[r].token = held[r].token
      <3>1. held[r].token \in 1..issued /\ \A d \in Dispatches : d.token # held[r].token
        BY <2>2 DEF LeaseInv, LeasesHeld, UnsentUnused, Leased
      <3>2. ASSUME NEW q \in Requests PROVE held'[q].token # held[r].token
        <4>1. CASE held'[q] = NoLease
          BY <4>1, <3>1, <1>n
        <4>2. CASE pc[q] \in Leased /\ pc'[q] \in Leased /\ held'[q] = held[q]
          <5>1. q # r
            BY <2>2, <4>2 DEF Leased, Sent, Unsent
          <5> QED BY <2>2, <4>2, <5>1 DEF LeaseInv, HoldersDiffer, Leased
        <4> QED BY <2>h, <4>1, <4>2
      <3> QED BY <2>2, <3>1, <3>2, <1>d DEF Quiet
    <2> QED BY <2>1, <2>2 DEF Quiet, CallQuiet
  <1> QED BY <1>1, <1>2, <1>3, <1>4, <1>5, <1>6, <1>7 DEF LeaseInv

LEMMA AcquireKeeps ==
  ASSUME TypeOK, TypeOK', LeaseInv, NEW r \in Requests, Acquire(r)
  PROVE  LeaseInv'
  <1> DEFINE s == ScopeOf(r)
  <1>0. /\ s \in Scopes /\ issued \in Nat /\ generation \in [Scopes -> Nat]
        /\ NoLease.token = 0
    BY Typed DEF TypeOK, NoLease
  <1>1. /\ issued' = issued + 1
        /\ pc[r] = "begin"
        /\ UNCHANGED <<call, calls>>
        /\ generation' = [generation EXCEPT ![s] = IF RowOf(r).state \in {"succeeded", "failed"} THEN @ + 1 ELSE @]
    BY DEF Acquire, provider
  <1>2. /\ row'[s].state = "pending" /\ row'[s].token = issued + 1
        /\ \A o \in Scopes : o # s => row'[o] = row[o]
        /\ RowOf(r).state \in {"absent", "pending", "succeeded", "failed"}
    BY AcquireRow DEF Taken, OnlyIn, Acquirable
  <1>3. /\ \A o \in Scopes : o # s => generation'[o] = generation[o]
        /\ generation'[s] = IF RowOf(r).state \in {"succeeded", "failed"} THEN generation[s] + 1 ELSE generation[s]
    BY <1>0, <1>1
  <1>4. \A q \in Requests : q # r => pc'[q] = pc[q] /\ held'[q] = held[q] /\ answer'[q] = answer[q]
    BY DEF Acquire, Answer, Goto, TypeOK
  <1>5. \/ pc'[r] = "acquired" /\ held'[r] = [token |-> issued + 1, generation |-> generation'[s]] /\ answer'[r] = answer[r]
        \/ pc'[r] = "idle" /\ held'[r] = NoLease /\ answer'[r].kind = "error"
    BY DEF Acquire, Answer, Goto, TypeOK
  <1>6. pc[r] \notin Leased /\ pc'[r] \notin Sent /\ held[r] = NoLease
    BY <1>1, <1>5 DEF LeaseInv, LeasesHeld, Leased, Sent, Unsent
  <1>7. pc'[r] \in Leased => pc'[r] = "acquired" /\ held'[r].token = issued + 1 /\ held'[r].generation = generation'[s]
    BY <1>5 DEF Leased, Sent, Unsent
  <1> HIDE DEF s
  <1>d. Dispatches' = Dispatches
    <2>1. \A q \in Requests : pc'[q] \in Sent <=> pc[q] \in Sent
      BY <1>4, <1>6 DEF Leased
    <2>2. \A q \in Requests : pc[q] \in Sent => q # r
      BY <1>6 DEF Leased
    <2>3. \A q \in Requests : pc[q] \in Sent => DispatchOf(q)' = DispatchOf(q)
      BY <1>1, <1>4, <2>2 DEF DispatchOf, ScopeOf
    <2> QED BY <1>1, <2>1, <2>3 DEF Dispatches
  <1>t. \A d \in Dispatches : d.token \in 1..issued /\ d.scope \in Scopes /\ d.generation \in Nat
    BY Typed DEF LeaseInv, DispatchesPast, Dispatches, DispatchOf, TypeOK, Lease
  <1>8. LeasesHeld'
    BY <1>0, <1>1, <1>4, <1>5, <1>7 DEF LeaseInv, LeasesHeld, Leased, Sent, Unsent
  <1>9. HoldersDiffer'
    <2> SUFFICES ASSUME NEW q \in Requests, NEW p \in Requests, pc'[q] \in Leased, pc'[p] \in Leased,
                        held'[q].token = held'[p].token
                 PROVE  q = p
      BY DEF HoldersDiffer
    <2>1. \A o \in Requests : o # r /\ pc'[o] \in Leased => pc[o] \in Leased /\ held'[o] = held[o] /\ held[o].token # issued + 1
      BY <1>0, <1>4 DEF LeaseInv, LeasesHeld
    <2> QED BY <2>1, <1>7 DEF LeaseInv, HoldersDiffer
  <1>10. OwnGeneration'
    <2> SUFFICES ASSUME NEW q \in Requests, pc'[q] \in {"acquired", "dispatching"},
                        row'[call'[q].scope].state = "pending",
                        row'[call'[q].scope].token = held'[q].token
                 PROVE  held'[q].generation = generation'[call'[q].scope]
      BY DEF OwnGeneration, RowOf, ScopeOf
    <2>1. CASE q = r
      BY <2>1, <1>1, <1>7 DEF Leased, Unsent, ScopeOf, s
    <2>2. CASE q # r
      <3>1. pc[q] \in {"acquired", "dispatching"} /\ held'[q] = held[q] /\ ScopeOf(q) = call'[q].scope /\ ScopeOf(q) \in Scopes
        BY <2>2, <1>1, <1>4, Typed DEF ScopeOf
      <3>2. held[q].token # issued + 1
        BY <3>1, <1>0 DEF LeaseInv, LeasesHeld, Leased, Unsent
      <3>3. ScopeOf(q) # s
        BY <3>1, <3>2, <1>2
      <3> QED BY <3>1, <3>3, <1>2, <1>3 DEF LeaseInv, OwnGeneration, RowOf
    <2> QED BY <2>1, <2>2
  <1>11. DispatchesPast'
    <2> SUFFICES ASSUME NEW d \in Dispatches
                 PROVE  /\ d.token \in 1..issued'
                        /\ d.generation <= generation'[d.scope]
                        /\ row'[d.scope].state \in {"absent", "pending"} => d.generation < generation'[d.scope]
      BY <1>d DEF DispatchesPast
    <2>0. /\ d.generation <= generation[d.scope]
          /\ row[d.scope].state \in {"absent", "pending"} => d.generation < generation[d.scope]
      BY DEF LeaseInv, DispatchesPast
    <2>1. CASE d.scope = s
      BY <2>0, <2>1, <1>0, <1>1, <1>2, <1>3, <1>t DEF RowOf, s
    <2>2. CASE d.scope # s
      BY <2>0, <2>2, <1>0, <1>1, <1>2, <1>3, <1>t
    <2> QED BY <2>1, <2>2
  <1>12. OneDispatch'
    BY <1>d DEF LeaseInv, OneDispatch
  <1>13. UnsentUnused'
    <2> SUFFICES ASSUME NEW q \in Requests, pc'[q] \in Unsent, NEW d \in Dispatches
                 PROVE  d.token # held'[q].token
      BY <1>d DEF UnsentUnused
    <2>1. CASE q = r
      BY <2>1, <1>0, <1>7, <1>t DEF Leased
    <2>2. CASE q # r
      BY <2>2, <1>4 DEF LeaseInv, UnsentUnused
    <2> QED BY <2>1, <2>2
  <1>14. NotCalledUnused'
    <2> SUFFICES ASSUME NEW q \in Requests, answer'[q].kind = "not_called"
                 PROVE  /\ answer'[q].token \in 1..issued'
                        /\ \A p \in Requests : held'[p].token # answer'[q].token
                        /\ \A d \in Dispatches : d.token # answer'[q].token
      BY <1>d DEF NotCalledUnused
    <2>1. answer'[q] = answer[q]
      BY <1>4, <1>5
    <2>2. /\ answer[q].token \in 1..issued
          /\ \A p \in Requests : held[p].token # answer[q].token
          /\ \A d \in Dispatches : d.token # answer[q].token
      BY <2>1 DEF LeaseInv, NotCalledUnused
    <2>3. held'[r].token # answer[q].token
      BY <1>0, <1>5, <2>2
    <2> QED BY <1>0, <1>1, <1>4, <2>1, <2>2, <2>3
  <1> QED BY <1>8, <1>9, <1>10, <1>11, <1>12, <1>13, <1>14 DEF LeaseInv

LEMMA DispatchKeeps ==
  ASSUME TypeOK, TypeOK', LeaseInv, NEW r \in Requests, MarkDispatched(r), Goto(r, "dispatched")
  PROVE  LeaseInv'
  <1> DEFINE s == ScopeOf(r)
  <1>0. /\ s \in Scopes /\ generation \in [Scopes -> Nat]
        /\ held[r].token \in 1..issued
        /\ RowOf(r).state = "pending" /\ RowOf(r).token = held[r].token
        /\ pc[r] = "dispatching"
        /\ held[r].generation = generation[s]
    <2>1. pc[r] = "dispatching" /\ RowOf(r).state = "pending" /\ RowOf(r).token = held[r].token
      BY MarkRow DEF Marked
    <2> QED BY <2>1, Typed DEF LeaseInv, LeasesHeld, OwnGeneration, Leased, Unsent, TypeOK
  <1>1. /\ UNCHANGED <<issued, generation, call, held, answer, calls>>
        /\ pc'[r] = "dispatched"
        /\ \A q \in Requests : q # r => pc'[q] = pc[q]
    BY DEF MarkDispatched, provider, Goto, TypeOK
  <1>2. /\ row'[s].state = "dispatched"
        /\ \A o \in Scopes : o # s => row'[o] = row[o]
    BY MarkRow DEF Marked, OnlyIn
  <1>l. \A q \in Requests : pc'[q] \in Leased <=> pc[q] \in Leased
    BY <1>0, <1>1 DEF Leased, Sent, Unsent
  <1>u. \A q \in Requests : pc'[q] \in Unsent => pc[q] \in Unsent /\ q # r
    BY <1>1 DEF Unsent
  <1>d. Dispatches' = Dispatches \cup {DispatchOf(r)}
    <2>1. \A q \in Requests : DispatchOf(q)' = DispatchOf(q)
      BY <1>1 DEF DispatchOf, ScopeOf
    <2>2. \A q \in Requests : pc'[q] \in Sent <=> pc[q] \in Sent \/ q = r
      BY <1>1 DEF Sent
    <2> QED BY <1>1, <2>1, <2>2 DEF Dispatches
  <1>e. /\ DispatchOf(r).scope = s /\ DispatchOf(r).generation = generation[s]
        /\ DispatchOf(r).token = held[r].token
    BY <1>0 DEF DispatchOf
  <1>p. \A d \in Dispatches : d.scope = s => d.generation < generation[s]
    BY <1>0 DEF LeaseInv, DispatchesPast, RowOf
  <1>t. \A d \in Dispatches : d.scope \in Scopes /\ d.generation \in Nat
    BY Typed DEF Dispatches, DispatchOf, TypeOK, Lease
  <1> HIDE DEF s
  <1>3. LeasesHeld'
    BY <1>1, <1>l DEF LeaseInv, LeasesHeld
  <1>4. HoldersDiffer'
    BY <1>1, <1>l DEF LeaseInv, HoldersDiffer
  <1>5. OwnGeneration'
    <2> SUFFICES ASSUME NEW q \in Requests, pc'[q] \in {"acquired", "dispatching"},
                        row'[ScopeOf(q)].state = "pending", row'[ScopeOf(q)].token = held[q].token
                 PROVE  held[q].generation = generation[ScopeOf(q)]
      BY <1>1 DEF OwnGeneration, RowOf, ScopeOf
    <2>1. q # r /\ pc[q] \in {"acquired", "dispatching"} /\ ScopeOf(q) # s
      BY <1>1, <1>2
    <2> QED BY <2>1, <1>2, Typed DEF LeaseInv, OwnGeneration, RowOf
  <1>6. DispatchesPast'
    <2> SUFFICES ASSUME NEW d \in Dispatches \cup {DispatchOf(r)}
                 PROVE  /\ d.token \in 1..issued
                        /\ d.generation <= generation[d.scope]
                        /\ row'[d.scope].state \in {"absent", "pending"} => d.generation < generation[d.scope]
      BY <1>d, <1>1 DEF DispatchesPast
    <2>1. CASE d = DispatchOf(r)
      BY <2>1, <1>0, <1>2, <1>e
    <2>2. CASE d \in Dispatches /\ d.scope # s
      BY <2>2, <1>2, <1>t DEF LeaseInv, DispatchesPast
    <2>3. CASE d \in Dispatches /\ d.scope = s
      BY <2>3, <1>2, <1>p DEF LeaseInv, DispatchesPast
    <2> QED BY <2>1, <2>2, <2>3
  <1>7. OneDispatch'
    <2> SUFFICES ASSUME NEW d \in Dispatches \cup {DispatchOf(r)}, NEW e \in Dispatches \cup {DispatchOf(r)},
                        d.scope = e.scope, d.generation = e.generation
                 PROVE  d = e
      BY <1>d DEF OneDispatch
    <2>1. \A f \in Dispatches : f.scope = s => f.generation # generation[s]
      BY <1>0, <1>p, <1>t
    <2>2. CASE d \in Dispatches /\ e \in Dispatches
      BY <2>2 DEF LeaseInv, OneDispatch
    <2> QED BY <2>1, <2>2, <1>e
  <1>8. UnsentUnused'
    <2> SUFFICES ASSUME NEW q \in Requests, pc'[q] \in Unsent, NEW d \in Dispatches \cup {DispatchOf(r)}
                 PROVE  d.token # held[q].token
      BY <1>d, <1>1 DEF UnsentUnused
    <2>1. pc[q] \in Leased /\ pc[r] \in Leased /\ q # r
      BY <1>0, <1>u DEF Leased, Unsent
    <2>2. held[q].token # held[r].token
      BY <2>1 DEF LeaseInv, HoldersDiffer
    <2> QED BY <2>2, <1>e, <1>u DEF LeaseInv, UnsentUnused
  <1>9. NotCalledUnused'
    BY <1>d, <1>e, <1>1 DEF LeaseInv, NotCalledUnused
  <1> QED BY <1>3, <1>4, <1>5, <1>6, <1>7, <1>8, <1>9 DEF LeaseInv

(* A step of one call is quiet if it is so of its own row and itself.      *)
LEMMA QuietAlone ==
  ASSUME TypeOK, LeasesHeld, NEW r \in Requests, Alone(r), OnlyIn(r), RowQuiet(ScopeOf(r)), CallQuiet(r),
         UNCHANGED <<issued, generation>>, calls' \subseteq Dispatches
  PROVE  Quiet
  <1>1. ASSUME NEW s \in Scopes PROVE RowQuiet(s)
    <2>1. CASE s # ScopeOf(r)
      BY <2>1 DEF OnlyIn, RowQuiet
    <2> QED BY <2>1
  <1>2. ASSUME NEW q \in Requests PROVE CallQuiet(q)
    <2>1. CASE q # r
      BY <2>1 DEF Alone, CallQuiet, LeasesHeld
    <2> QED BY <2>1
  <1> QED BY <1>1, <1>2 DEF Quiet

LEMMA QuietRows ==
  ASSUME TypeOK, NEW r \in Requests
  PROVE  /\ row' = row => OnlyIn(r) /\ RowQuiet(ScopeOf(r))
         /\ Marked(r) \/ Deleted(r) \/ Kept(r) \/ SettledAs(r) => RowQuiet(ScopeOf(r))
  BY Typed DEF OnlyIn, RowQuiet, Marked, Deleted, Kept, SettledAs, NoRow, RowOf

LEMMA QuietAnswers ==
  ASSUME NEW r \in Requests, NEW k, NEW t, Answered(r, k, t),
         k # "not_called" \/ (pc[r] \in Unsent /\ t = held[r].token)
  PROVE  CallQuiet(r)
  BY DEF Answered, CallQuiet, Leased, Sent, Unsent

LEMMA QuietMoves ==
  ASSUME TypeOK, LeasesHeld, NEW r \in Requests, NEW l \in Pcs, Goto(r, l), UNCHANGED <<call, verdict, held, answer>>,
         l \in Sent => pc[r] \in Sent,
         l \in Unsent => pc[r] \in Unsent,
         l \in {"acquired", "dispatching"} => pc[r] \in {"acquired", "dispatching"},
         l \notin Leased => pc[r] \notin Leased
  PROVE  Alone(r) /\ CallQuiet(r)
  BY GotoStep DEF CallQuiet, Leased, LeasesHeld

LEMMA SettledStatus ==
  ASSUME TypeOK, SettledRows, NEW r \in Requests, RowOf(r).state \in {"succeeded", "failed"}
  PROVE  RowOf(r).result.status \in Statuses
  <1>1. RowOf(r).result.status # None
    BY Typed DEF SettledRows, RowOf
  <1>2. RowOf(r).result \in Result \cup {NoResult}
    BY Typed DEF Row, NoRow
  <1> QED BY <1>1, <1>2 DEF Result, NoResult

LEMMA RefuseQuiet ==
  ASSUME TypeOK, SettledRows, NEW r \in Requests, Refuse(r)
  PROVE  Alone(r) /\ CallQuiet(r)
  <1> DEFINE refusal == Refusal(RowOf(r), call[r].hash)
  <1>1. refusal \in {"request_mismatch", "completed", "in_progress", "indeterminate"}
    BY DEF Refusal
  <1>2. refusal = "completed" => RowOf(r).state \in {"succeeded", "failed"}
    BY DEF Refusal
  <1> HIDE DEF refusal
  <1> DEFINE kind == IF refusal = "completed" THEN RowOf(r).result.status ELSE refusal
  <1>3. kind # "not_called"
    BY <1>1, <1>2, SettledStatus DEF Statuses
  <1>4. Alone(r) /\ Answered(r, kind, 0)
    BY AnswerStep DEF Refuse, refusal, provider
  <1> QED BY <1>3, <1>4, QuietAnswers

LEMMA GetQuiet ==
  ASSUME TypeOK, SettledRows, NEW r \in Requests, Get(r)
  PROVE  Alone(r) /\ (LeasesHeld => CallQuiet(r))
  <1>0. UNCHANGED <<call, verdict>> /\ pc[r] = "getting"
    BY DEF Get, provider
  <1>1. ASSUME NEW k, k # "not_called", Answer(r, k, 0) PROVE Alone(r) /\ CallQuiet(r)
    BY <1>0, <1>1, AnswerStep, QuietAnswers
  <1>2. CASE RowOf(r).state \in {"succeeded", "failed"} /\ Answer(r, RowOf(r).result.status, 0)
    BY <1>2, <1>1, SettledStatus DEF Statuses
  <1>3. CASE Goto(r, "asking") /\ UNCHANGED <<held, answer>>
    <2>1. Alone(r)
      BY <1>0, <1>3, GotoStep DEF Pcs
    <2>2. ASSUME LeasesHeld PROVE CallQuiet(r)
      BY <1>0, <1>3, <2>2, QuietMoves DEF Pcs, Leased, Sent, Unsent
    <2> QED BY <2>1, <2>2
  <1> QED BY <1>1, <1>2, <1>3 DEF Get

LEMMA StepKeepsLeases ==
  ASSUME TypeOK, TypeOK', TruthInv, LeaseInv, NEW r \in Requests, Step(r)
  PROVE  LeaseInv'
  <1>v. VerdictKnown /\ SettledRows /\ LeasesHeld
    BY DEF TruthInv, LeaseInv
  <1>p. {"acquired", "dispatching", "blocked", "undispatched", "dispatched", "calling", "completing",
         "retaining", "reading", "resolving"} \subseteq Pcs
    BY DEF Pcs
  <1>c. calls \subseteq Dispatches
    BY DEF Dispatches
  <1>a. ASSUME NEW k, k # "not_called", NEW t, Answer(r, k, t), UNCHANGED <<call, verdict>>
        PROVE  Alone(r) /\ CallQuiet(r)
    BY <1>a, AnswerStep, QuietAnswers
  <1>f. ASSUME row' = row, UNCHANGED <<issued, generation, calls>>, Alone(r), CallQuiet(r) PROVE LeaseInv'
    BY <1>c, <1>f, <1>v, QuietAlone, QuietRows, QuietKeeps
  <1>w. ASSUME OnlyIn(r), Marked(r) \/ Deleted(r) \/ Kept(r) \/ SettledAs(r),
               UNCHANGED <<issued, generation, calls>>, Alone(r), CallQuiet(r)
        PROVE  LeaseInv'
    BY <1>c, <1>v, <1>w, QuietAlone, QuietRows, QuietKeeps
  <1>1. CASE Acquire(r)
    BY <1>1, AcquireKeeps
  <1>2. CASE Refuse(r)
    BY <1>2, <1>f, <1>v, RefuseQuiet DEF Refuse, ledger, provider
  <1>3. CASE BeginFails(r)
    BY <1>3, <1>a, <1>f DEF BeginFails, ledger, provider
  <1>4. CASE Admit(r)
    <2>1. Alone(r) /\ CallQuiet(r)
      BY <1>4, <1>p, <1>v, QuietMoves DEF Admit, provider, Leased, Sent, Unsent
    <2> QED BY <1>4, <2>1, <1>f DEF Admit, ledger, provider
  <1>5. CASE MarkDispatched(r)
    <2>1. CASE Goto(r, "dispatched")
      BY <1>5, <2>1, DispatchKeeps
    <2>2. CASE Goto(r, "undispatched")
      <3>1. Alone(r) /\ CallQuiet(r)
        BY <1>5, <2>2, <1>p, <1>v, QuietMoves DEF MarkDispatched, provider, Leased, Sent, Unsent
      <3>2. OnlyIn(r) /\ Marked(r)
        BY <1>5, MarkRow
      <3> QED BY <1>5, <3>1, <3>2, <1>w DEF MarkDispatched, provider
    <2> QED BY <1>5, <2>1, <2>2 DEF MarkDispatched
  <1>6. CASE MarkDispatchedFails(r)
    <2>1. Alone(r) /\ CallQuiet(r)
      BY <1>6, <1>p, <1>v, QuietMoves DEF MarkDispatchedFails, provider, Leased, Sent, Unsent
    <2> QED BY <1>6, <2>1, <1>f DEF MarkDispatchedFails, ledger, provider
  <1>7. CASE Release(r)
    <2>1. Alone(r) /\ CallQuiet(r)
      <3>1. pc[r] \in Unsent /\ Answer(r, "not_called", held[r].token) /\ UNCHANGED <<call, verdict>>
        BY <1>7 DEF Release, provider, Unsent
      <3> QED BY <3>1, AnswerStep, QuietAnswers
    <2> QED BY <1>7, <2>1, <1>f, <1>w, ReleaseRow DEF Release, provider
  <1>8. CASE CallProvider(r)
    <2>1. Alone(r) /\ CallQuiet(r)
      BY <1>8, <1>p, <1>v, QuietMoves DEF CallProvider, Leased, Sent, Unsent
    <2>2. calls' \subseteq Dispatches
      BY <1>8 DEF CallProvider, Dispatches, DispatchOf, Sent
    <2>3. OnlyIn(r) /\ RowQuiet(ScopeOf(r)) /\ UNCHANGED <<issued, generation>>
      BY <1>8, QuietRows DEF CallProvider, ledger
    <2> QED BY <2>1, <2>2, <2>3, <1>v, QuietAlone, QuietKeeps
  <1>9. CASE ProviderAnswers(r)
    <2>1. Alone(r) /\ CallQuiet(r)
      BY <1>9, <1>p, <1>v, QuietMoves DEF ProviderAnswers, provider, Leased, Sent, Unsent
    <2> QED BY <1>9, <2>1, <1>f DEF ProviderAnswers, ledger, provider
  <1>10. CASE CallFails(r)
    <2>1. Alone(r) /\ CallQuiet(r)
      BY <1>10, <1>p, <1>v, QuietMoves DEF CallFails, provider, Leased, Sent, Unsent
    <2> QED BY <1>10, <2>1, <1>f DEF CallFails, ledger, provider
  <1>11. CASE Complete(r)
    <2>1. verdict[CommandOf(r)] # "not_called" /\ UNCHANGED <<call, verdict>> /\ pc[r] = "completing"
      BY <1>11, <1>v, Typed DEF Complete, VerdictKnown, provider, Statuses
    <2>2. Alone(r) /\ CallQuiet(r)
      <3>1. CASE Answer(r, verdict[CommandOf(r)], held[r].token)
        BY <2>1, <3>1, <1>a
      <3>2. CASE Goto(r, "retaining") /\ UNCHANGED <<held, answer>>
        BY <2>1, <3>2, <1>p, <1>v, QuietMoves DEF Leased, Sent, Unsent
      <3> QED BY <1>11, <3>1, <3>2 DEF Complete
    <2> QED BY <1>11, <2>2, <1>f, <1>v, <1>w, CompleteRow DEF Complete, provider
  <1>12. CASE Retain(r)
    <2>1. Alone(r) /\ CallQuiet(r)
      BY <1>12, <1>a DEF Retain, provider
    <2> QED BY <1>12, <2>1, <1>f, <1>w, RetainRow DEF Retain, provider
  <1>13. CASE AdmitRead(r)
    <2>1. Alone(r) /\ CallQuiet(r)
      <3>1. CASE Answer(r, "circuit", 0)
        BY <1>13, <3>1, <1>a DEF AdmitRead, provider
      <3>2. CASE Goto(r, "reading") /\ UNCHANGED <<held, answer>>
        BY <1>13, <3>2, <1>p, <1>v, QuietMoves DEF AdmitRead, provider, Leased, Sent, Unsent
      <3> QED BY <1>13, <3>1, <3>2 DEF AdmitRead
    <2> QED BY <1>13, <2>1, <1>f DEF AdmitRead, ledger, provider
  <1>14. CASE Read(r)
    <2>1. Alone(r) /\ CallQuiet(r)
      BY <1>14, <1>a DEF Read, provider
    <2> QED BY <1>14, <2>1, <1>f DEF Read, ledger, provider
  <1>15. CASE Get(r)
    BY <1>15, <1>f, <1>v, GetQuiet DEF Get, ledger, provider
  <1>16. CASE Ask(r)
    <2>1. Alone(r) /\ CallQuiet(r)
      <3>1. CASE Answer(r, "undetermined", 0)
        BY <1>16, <3>1, <1>a DEF Ask, provider
      <3>2. CASE Goto(r, "resolving") /\ UNCHANGED <<held, answer>>
        BY <1>16, <3>2, <1>p, <1>v, QuietMoves DEF Ask, provider, Leased, Sent, Unsent
      <3> QED BY <1>16, <3>1, <3>2 DEF Ask
    <2> QED BY <1>16, <2>1, <1>f DEF Ask, ledger, provider
  <1>17. CASE Resolve(r)
    <2>1. verdict[CommandOf(r)] # "not_called" /\ UNCHANGED <<call, verdict>>
      BY <1>17, <1>v, Typed DEF Resolve, VerdictKnown, provider, Statuses
    <2>2. Answer(r, verdict[CommandOf(r)], 0) \/ Answer(r, "indeterminate", 0)
      BY <1>17 DEF Resolve
    <2>3. Alone(r) /\ CallQuiet(r)
      BY <2>1, <2>2, <1>a
    <2> QED BY <1>17, <2>3, <1>f, <1>v, <1>w, ResolveRow DEF Resolve, provider
  <1> QED
    BY <1>1, <1>2, <1>3, <1>4, <1>5, <1>6, <1>7, <1>8, <1>9, <1>10, <1>11, <1>12,
       <1>13, <1>14, <1>15, <1>16, <1>17 DEF Step

LEMMA NextKeepsLeases == TypeOK /\ TypeOK' /\ TruthInv /\ LeaseInv /\ [Next]_vars => LeaseInv'
  <1> SUFFICES ASSUME TypeOK, TypeOK', TruthInv, LeaseInv, [Next]_vars PROVE LeaseInv'
    OBVIOUS
  <1>l. LeasesHeld /\ calls \subseteq Dispatches
    BY DEF LeaseInv, Dispatches
  <1>1. ASSUME NEW r \in Requests, Step(r) PROVE LeaseInv'
    BY <1>1, StepKeepsLeases
  <1>2. ASSUME NEW r \in Requests, NEW o \in Operations, NEW s \in Scopes, NEW h \in Hashes,
               Send(r, o, s, h)
        PROVE  LeaseInv'
    <2>1. ASSUME NEW q \in Requests PROVE CallQuiet(q)
      <3>1. CASE q = r
        BY <1>2, <3>1, <1>l DEF Send, Goto, TypeOK, NoAnswer, Operations, CallQuiet, LeasesHeld, Leased, Sent, Unsent
      <3>2. CASE q # r
        BY <1>2, <3>2, <1>l DEF Send, Goto, TypeOK, CallQuiet, LeasesHeld
      <3> QED BY <3>1, <3>2
    <2>2. Quiet
      BY <1>2, <1>l, <2>1 DEF Send, ledger, provider, Quiet, RowQuiet
    <2> QED BY <2>2, QuietKeeps
  <1>3. ASSUME NEW c \in calls, NEW st \in Statuses, Decide(c, st) PROVE LeaseInv'
    <2>1. Quiet
      BY <1>3, <1>l DEF Decide, ledger, Quiet, RowQuiet, CallQuiet, LeasesHeld
    <2> QED BY <2>1, QuietKeeps
  <1>4. ASSUME NEW s \in Scopes, Lapse(s) PROVE LeaseInv'
    <2>1. row[s] \in Row
      BY <1>4, PresentRow DEF Lapse, TypeOK
    <2>2. /\ row'[s] = Lapsed(row[s])
          /\ \A o \in Scopes : o # s => row'[o] = row[o]
      BY <1>4 DEF Lapse, TypeOK
    <2>3. \A o \in Scopes : RowQuiet(o)
      BY <2>1, <2>2, LapsedRow DEF RowQuiet
    <2>4. Quiet
      BY <1>4, <1>l, <2>3 DEF Lapse, provider, Quiet, CallQuiet, LeasesHeld
    <2> QED BY <2>4, QuietKeeps
  <1>5. CASE Cool
    <2>1. Quiet
      BY <1>5, <1>l DEF Cool, ledger, provider, Quiet, RowQuiet, CallQuiet, LeasesHeld
    <2> QED BY <2>1, QuietKeeps
  <1>6. CASE Crash
    <2>1. ASSUME NEW q \in Requests PROVE CallQuiet(q)
      BY <1>6 DEF Crash, CallQuiet, Leased, Sent, Unsent
    <2>2. Quiet
      BY <1>6, <1>l, <2>1 DEF Crash, ledger, provider, Quiet, RowQuiet
    <2> QED BY <2>2, QuietKeeps
  <1>7. CASE UNCHANGED vars
    <2>1. Quiet
      BY <1>7, <1>l DEF vars, Quiet, RowQuiet, CallQuiet, LeasesHeld
    <2> QED BY <2>1, QuietKeeps
  <1> QED BY <1>1, <1>2, <1>3, <1>4, <1>5, <1>6, <1>7 DEF Next

LEMMA InvInit == Init => IInv
  <1> SUFFICES ASSUME Init PROVE IInv
    OBVIOUS
  <1>1. TypeOK
    BY TypeInit
  <1>2. /\ \A s \in Scopes : row[s] = NoRow
        /\ \A r \in Requests : pc[r] = "idle" /\ held[r] = NoLease /\ answer[r] = NoAnswer
        /\ calls = {}
    BY DEF Init
  <1>3. TruthInv
    BY <1>2 DEF TruthInv, SettledRows, VerdictKnown, ReadersRead, ToldTheVerdict, NoRow, NoAnswer, Statuses
  <1>4. Dispatches = {}
    BY <1>2 DEF Dispatches, Sent
  <1>5. LeaseInv
    BY <1>2, <1>4 DEF LeaseInv, LeasesHeld, HoldersDiffer, OwnGeneration, DispatchesPast, OneDispatch,
      UnsentUnused, NotCalledUnused, Leased, Sent, Unsent, NoAnswer
  <1> QED BY <1>1, <1>3, <1>5 DEF IInv

LEMMA InvNext == IInv /\ [Next]_vars => IInv'
  <1> SUFFICES ASSUME IInv, [Next]_vars PROVE IInv'
    OBVIOUS
  <1>1. TypeOK /\ TruthInv /\ LeaseInv /\ SettledRows /\ VerdictKnown
    BY DEF IInv, TruthInv
  <1>2. TypeOK'
    BY <1>1, TypeNext
  <1>3. TruthInv'
    BY <1>1, <1>2, NextTells, TruthKept
  <1>4. LeaseInv'
    BY <1>1, <1>2, NextKeepsLeases
  <1> QED BY <1>2, <1>3, <1>4 DEF IInv

LEMMA Safety == Spec => []IInv
  BY InvInit, InvNext, PTL DEF Spec

-----------------------------------------------------------------------------
(* Type correctness: whatever calls, crashes, failures of the store and    *)
(* late answers of the provider do, rows, breaker, calls and answers keep  *)
(* the shape the code gives them.                                          *)
THEOREM TypeCorrect == Spec => []TypeOK
  <1>1. IInv => TypeOK
    BY DEF IInv
  <1> QED BY <1>1, Safety, PTL

(* The provider is called under at most one lease of a scope between two   *)
(* expiries of its result, whatever fails, crashes or is reconciled.       *)
THEOREM OneCall == Spec => []AtMostOneCall
  <1>1. IInv => AtMostOneCall
    BY DEF IInv, LeaseInv, OneDispatch, Dispatches, AtMostOneCall
  <1> QED BY <1>1, Safety, PTL

(* A status that a call reports is the provider's verdict on its command,  *)
(* and "not called" is said of a lease under which it never was.           *)
THEOREM TruthfulAnswers == Spec => []AnswersAreTrue
  <1>1. IInv => AnswersAreTrue
    BY DEF IInv, LeaseInv, TruthInv, ToldTheVerdict, NotCalledUnused, Dispatches, AnswersAreTrue
  <1> QED BY <1>1, Safety, PTL

(* What a settled row becomes in a step of the runner.                     *)
LEMMA SettledNext ==
  IInv /\ [Next]_vars =>
    [\A s \in Scopes :
       row[s].state \in {"succeeded", "failed"} =>
         \/ row'[s] = [row[s] EXCEPT !.live = row'[s].live]
         \/ ~row[s].live /\ row'[s].state = "pending"]_vars
  <1> SUFFICES ASSUME IInv, Next, NEW s \in Scopes, row[s].state \in {"succeeded", "failed"}
               PROVE  \/ row'[s] = [row[s] EXCEPT !.live = row'[s].live]
                      \/ ~row[s].live /\ row'[s].state = "pending"
    OBVIOUS
  <1> DEFINE Final == \/ row'[s] = [row[s] EXCEPT !.live = row'[s].live]
                      \/ ~row[s].live /\ row'[s].state = "pending"
  <1>t. TypeOK /\ VerdictKnown /\ row[s] \in Row
    BY PresentRow DEF IInv, TruthInv, TypeOK
  <1>f. row'[s] = row[s] => Final
    BY <1>t DEF Row
  <1>w. ASSUME NEW r \in Requests, OnlyIn(r), Marked(r) \/ Deleted(r) \/ Kept(r) \/ SettledAs(r) PROVE Final
    BY <1>w, <1>f DEF OnlyIn, Marked, Deleted, Kept, SettledAs, RowOf
  <1>1. ASSUME NEW r \in Requests, Acquire(r) PROVE Final
    <2>1. OnlyIn(r) /\ Taken(r)
      BY <1>t, <1>1, AcquireRow
    <2>2. CASE s = ScopeOf(r)
      BY <2>1, <2>2 DEF Taken, Acquirable, RowOf
    <2>3. CASE s # ScopeOf(r)
      BY <2>1, <2>3, <1>f DEF OnlyIn
    <2> QED BY <2>2, <2>3
  <1>2. ASSUME NEW r \in Requests, MarkDispatched(r) \/ Release(r) \/ Complete(r) \/ Retain(r) \/ Resolve(r)
        PROVE  Final
    BY <1>2, <1>f, <1>t, <1>w, MarkRow, ReleaseRow, CompleteRow, RetainRow, ResolveRow
  <1>3. ASSUME NEW o \in Scopes, Lapse(o) PROVE Final
    <2>1. CASE o = s
      <3>1. row'[s] = Lapsed(row[s])
        BY <1>3, <1>t, <2>1 DEF Lapse, TypeOK
      <3> QED BY <3>1, <1>t DEF Lapsed, Row
    <2>2. CASE o # s
      BY <1>3, <1>f, <1>t, <2>2 DEF Lapse, TypeOK
    <2> QED BY <2>1, <2>2
  <1>4. CASE UNCHANGED row
    BY <1>4, <1>f
  <1> QED
    BY <1>1, <1>2, <1>3, <1>4
    DEF Next, Step, Send, Refuse, BeginFails, Admit, MarkDispatchedFails, CallProvider, ProviderAnswers,
        CallFails, AdmitRead, Read, Get, Ask, Decide, Cool, Crash, ledger

(* The first recorded outcome of a command stays until it expires, although *)
(* its caller and any number of reconciliations may try to settle it.      *)
THEOREM FirstOutcomeStays == Spec => SettledIsFinal
  BY Safety, SettledNext, PTL DEF Spec, SettledIsFinal
=============================================================================
