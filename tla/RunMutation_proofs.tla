------------------------- MODULE RunMutation_proofs -------------------------
(***************************************************************************)
(* Theorems about RunMutation, for every set of scopes, fingerprints and   *)
(* requests and every number of leases; last, that it implements OnceOnly. *)
(***************************************************************************)
EXTENDS RunMutation, LedgerRow_proofs, TLAPS

(* The variables keep their types. *)
LEMMA TypeInit == Init => TypeOK
  BY DEF Init, TypeOK, NoAnswer, Kinds, Pcs

LEMMA TypeNext == TypeOK /\ [Next]_vars => TypeOK'
  <1> SUFFICES ASSUME TypeOK, [Next]_vars PROVE TypeOK'
    OBVIOUS
  <1> USE DEF TypeOK
  <1>a. ASSUME NEW r \in Requests
        PROVE  /\ ScopeOf(r) \in Scopes
               /\ RowOf(r) \in Row \cup {NoRow}
               /\ call[r].hash \in Hashes
    BY DEF ScopeOf, RowOf
  <1>b. ASSUME NEW r \in Requests, NEW k \in Kinds, NEW t \in Nat, Answer(r, k, t)
        PROVE  /\ pc' \in [Requests -> Pcs]
               /\ held' \in [Requests -> Nat]
               /\ answer' \in [Requests -> [kind : Kinds, token : Nat]]
    BY <1>b DEF Answer, Goto, Pcs
  <1>1. ASSUME NEW r \in Requests, NEW s \in Scopes, NEW h \in Hashes, Send(r, s, h)
        PROVE  TypeOK'
    BY <1>1 DEF Send, Goto, Pcs, NoAnswer, Kinds
  <1>2. ASSUME NEW r \in Requests, Acquire(r) PROVE TypeOK'
    <2>1. Acquired(RowOf(r), call[r].hash, issued + 1) \in Row
      BY <1>a, <1>2, AcquiredRow DEF Acquire
    <2>2. row' \in [Scopes -> Row \cup {NoRow}]
      BY <1>a, <1>2, <2>1 DEF Acquire, WriteRow
    <2>3. /\ pc' \in [Requests -> Pcs]
          /\ held' \in [Requests -> Nat]
          /\ answer' \in [Requests -> [kind : Kinds, token : Nat]]
      <3>1. CASE Answer(r, "error", 0)
        BY <1>b, <3>1 DEF Kinds
      <3>2. CASE /\ Goto(r, "acquired")
                 /\ held' = [held EXCEPT ![r] = issued + 1]
                 /\ UNCHANGED answer
        BY <3>2 DEF Goto, Pcs
      <3> QED BY <1>2, <3>1, <3>2 DEF Acquire
    <2>4. issued' \in Nat /\ generation' \in [Scopes -> Nat]
      BY <1>a, <1>2 DEF Acquire
    <2> QED BY <1>2, <2>2, <2>3, <2>4 DEF Acquire
  <1>3. ASSUME NEW r \in Requests, Refuse(r) PROVE TypeOK'
    <2>1. RowOf(r).result.token \in Nat
      BY <1>a DEF Row, NoRow, Result, NoResult
    <2>2. Refusal(RowOf(r), call[r].hash) \in Kinds \cup {"completed"}
      BY DEF Refusal, Kinds
    <2>3. \E k \in Kinds, t \in Nat : Answer(r, k, t)
      BY <1>3, <2>1, <2>2 DEF Refuse, Kinds
    <2> QED BY <1>3, <2>3, <1>b DEF Refuse
  <1>4. ASSUME NEW r \in Requests, BeginFails(r) PROVE TypeOK'
    BY <1>4, <1>b DEF BeginFails, Kinds
  <1>5. ASSUME NEW r \in Requests, MarkDispatched(r) PROVE TypeOK'
    <2>1. MarkedDispatched(RowOf(r)) \in Row
      BY <1>a, <1>5, MarkedDispatchedRow DEF MarkDispatched
    <2> QED BY <1>a, <1>5, <2>1 DEF MarkDispatched, WriteRow, Goto, Pcs
  <1>6. ASSUME NEW r \in Requests, MarkDispatchedFails(r) PROVE TypeOK'
    BY <1>6 DEF MarkDispatchedFails, Goto, Pcs
  <1>7. ASSUME NEW r \in Requests, Release(r) PROVE TypeOK'
    <2>1. Released(RowOf(r), LeaseOf(r)) \in Row \cup {NoRow}
      BY <1>a, ReleasedRow
    <2>2. row' \in [Scopes -> Row \cup {NoRow}]
      BY <1>a, <1>7, <2>1 DEF Release, WriteRow
    <2> QED BY <1>7, <1>b, <2>2 DEF Release, Kinds
  <1>8. ASSUME NEW r \in Requests, WorkApplies(r) PROVE TypeOK'
    BY <1>a, <1>8 DEF WorkApplies, Goto, Pcs
  <1>9. ASSUME NEW r \in Requests, WorkRejects(r) \/ WorkThrows(r) PROVE TypeOK'
    BY <1>9 DEF WorkRejects, WorkThrows, Goto, Pcs
  <1>c. ASSUME NEW r \in Requests, NEW st \in Statuses,
               CanSettle(RowOf(r), LeaseOf(r)),
               WriteRow(r, Completed(RowOf(r), [status |-> st, token |-> held[r]]))
        PROVE  row' \in [Scopes -> Row \cup {NoRow}]
    <2>1. [status |-> st, token |-> held[r]] \in Result
      BY DEF Result
    <2>2. Completed(RowOf(r), [status |-> st, token |-> held[r]]) \in Row
      BY <1>a, <1>c, <2>1, CompletedRow, SettlingRow
    <2> QED BY <1>a, <1>c, <2>2 DEF WriteRow
  <1>10. ASSUME NEW r \in Requests, Complete(r) PROVE TypeOK'
    <2>1. row' \in [Scopes -> Row \cup {NoRow}]
      BY <1>10, <1>c DEF Complete, Statuses
    <2>2. \E k \in Kinds, t \in Nat : Answer(r, k, t)
      BY <1>10 DEF Complete, Kinds
    <2> QED BY <1>10, <1>b, <2>1, <2>2 DEF Complete
  <1>11. ASSUME NEW r \in Requests, CompleteRejection(r) PROVE TypeOK'
    <2>1. row' \in [Scopes -> Row \cup {NoRow}]
      BY <1>11, <1>c DEF CompleteRejection, Statuses
    <2> QED BY <1>11, <1>b, <2>1 DEF CompleteRejection, Kinds
  <1>12. ASSUME NEW r \in Requests, Retain(r) PROVE TypeOK'
    <2>1. CanSettle(RowOf(r), LeaseOf(r)) => MarkedIndeterminate(RowOf(r)) \in Row
      BY <1>a, MarkedIndeterminateRow, SettlingRow
    <2>2. row' \in [Scopes -> Row \cup {NoRow}]
      BY <1>a, <1>12, <2>1 DEF Retain, WriteRow
    <2> QED BY <1>12, <1>b, <2>2 DEF Retain, Kinds
  <1>13. ASSUME NEW r \in Requests, Crash(r) PROVE TypeOK'
    BY <1>13, <1>b DEF Crash, Kinds
  <1>14. ASSUME NEW s \in Scopes, Lapse(s) PROVE TypeOK'
    <2>1. Lapsed(row[s]) \in Row
      BY <1>14, LapsedRow, PresentRow DEF Lapse
    <2> QED BY <1>14, <2>1 DEF Lapse
  <1>15. CASE UNCHANGED vars
    BY <1>15 DEF vars
  <1> QED
    BY <1>1, <1>2, <1>3, <1>4, <1>5, <1>6, <1>7, <1>8, <1>9, <1>10, <1>11, <1>12,
       <1>13, <1>14, <1>15 DEF Next, Step

(* Type correctness: whatever the requests, crashes and failures do, every *)
(* row, program counter, answer and effect keeps the shape the code gives  *)
(* it.                                                                     *)
THEOREM TypeCorrect == Spec => []TypeOK
  BY TypeInit, TypeNext, PTL DEF Spec

-----------------------------------------------------------------------------
(***************************************************************************)
(* What each step that touches a row changes, function application by      *)
(* function application.                                                   *)
(***************************************************************************)
LEMMA RequestTypes ==
  ASSUME TypeOK
  PROVE  \A r \in Requests : /\ ScopeOf(r) \in Scopes
                             /\ RowOf(r) \in Row \cup {NoRow}
                             /\ call[r].hash \in Hashes
                             /\ held[r] \in Nat
  BY DEF TypeOK, ScopeOf, RowOf

LEMMA AcquireStep ==
  ASSUME TypeOK, NEW r \in Requests, Acquire(r)
  PROVE  /\ row'[ScopeOf(r)].state = "pending"
         /\ row'[ScopeOf(r)].token = issued + 1
         /\ row'[ScopeOf(r)].result \in {RowOf(r).result, NoResult}
         /\ \A s \in Scopes : s # ScopeOf(r) => row'[s] = row[s]
         /\ RowOf(r).state \notin {"dispatched", "indeterminate"}
         /\ generation'[ScopeOf(r)] = IF RowOf(r).state \in {"succeeded", "failed"}
                                      THEN generation[ScopeOf(r)] + 1 ELSE generation[ScopeOf(r)]
         /\ \A s \in Scopes : s # ScopeOf(r) => generation'[s] = generation[s]
         /\ pc[r] = "begin"
         /\ \/ pc'[r] = "acquired" /\ held'[r] = issued + 1 /\ answer'[r] = answer[r]
            \/ pc'[r] = "idle" /\ held'[r] = 0 /\ answer'[r] = [kind |-> "error", token |-> 0]
         /\ \A q \in Requests : q # r => pc'[q] = pc[q] /\ held'[q] = held[q] /\ answer'[q] = answer[q]
         /\ issued' = issued + 1
         /\ UNCHANGED <<call, effects>>
  <1> USE DEF ScopeOf, RowOf
  <1>1. /\ row'[ScopeOf(r)] = Acquired(RowOf(r), call[r].hash, issued + 1)
        /\ Acquirable(RowOf(r), call[r].hash)
        /\ \A s \in Scopes : s # ScopeOf(r) => row'[s] = row[s]
    BY RequestTypes DEF Acquire, WriteRow, TypeOK
  <1>2. issued + 1 \in Nat
    BY DEF TypeOK
  <1>3. RowOf(r).state \notin {"dispatched", "indeterminate"}
    BY <1>1 DEF Acquirable
  <1>4. /\ row'[ScopeOf(r)].state = "pending"
        /\ row'[ScopeOf(r)].token = issued + 1
        /\ row'[ScopeOf(r)].result \in {RowOf(r).result, NoResult}
    BY RequestTypes, <1>1, <1>2, AcquiredRow
  <1>5. /\ pc[r] = "begin"
        /\ issued' = issued + 1
        /\ UNCHANGED <<call, effects>>
        /\ generation' = [generation EXCEPT ![ScopeOf(r)] =
             IF RowOf(r).state \in {"succeeded", "failed"} THEN @ + 1 ELSE @]
    BY DEF Acquire
  <1>6. /\ generation'[ScopeOf(r)] = IF RowOf(r).state \in {"succeeded", "failed"}
                                   THEN generation[ScopeOf(r)] + 1 ELSE generation[ScopeOf(r)]
        /\ \A s \in Scopes : s # ScopeOf(r) => generation'[s] = generation[s]
    BY RequestTypes, <1>5 DEF TypeOK
  <1>7. CASE Goto(r, "acquired") /\ held' = [held EXCEPT ![r] = issued + 1] /\ UNCHANGED answer
    BY <1>1, <1>3, <1>4, <1>5, <1>6, <1>7 DEF TypeOK, Goto
  <1>8. CASE Answer(r, "error", 0)
    BY <1>1, <1>3, <1>4, <1>5, <1>6, <1>8 DEF TypeOK, Goto, Answer
  <1>9. \/ Goto(r, "acquired") /\ held' = [held EXCEPT ![r] = issued + 1] /\ UNCHANGED answer
        \/ Answer(r, "error", 0)
    BY DEF Acquire
  <1> QED BY <1>7, <1>8, <1>9

LEMMA RefuseStep ==
  ASSUME TypeOK, NEW r \in Requests, Refuse(r)
  PROVE  /\ pc[r] = "begin"
         /\ pc'[r] = "idle" /\ held'[r] = 0
         /\ \A q \in Requests : q # r => pc'[q] = pc[q] /\ held'[q] = held[q] /\ answer'[q] = answer[q]
         /\ \/ answer'[r].token = 0 /\ answer'[r].kind \notin {"ok", "replay", "rejected"}
            \/ /\ answer'[r].token = RowOf(r).result.token
               /\ RowOf(r).state \in {"succeeded", "failed"}
               /\ RowOf(r).hash = call[r].hash
               /\ answer'[r].kind = IF RowOf(r).result.status = "rejected" THEN "rejected" ELSE "replay"
         /\ UNCHANGED <<row, issued, call, generation, effects>>
  <1> USE DEF ScopeOf, RowOf
  <1>1. Refusal(RowOf(r), call[r].hash) \in {"request_mismatch", "completed", "in_progress", "indeterminate"}
    BY DEF Refusal
  <1>2. Refusal(RowOf(r), call[r].hash) = "completed" =>
          RowOf(r).state \in {"succeeded", "failed"} /\ RowOf(r).hash = call[r].hash
    BY DEF Refusal, Mismatch
  <1> QED BY <1>1, <1>2 DEF Refuse, Answer, Goto, TypeOK

LEMMA MarkDispatchedStep ==
  ASSUME TypeOK, NEW r \in Requests, MarkDispatched(r)
  PROVE  /\ row'[ScopeOf(r)].state = "dispatched"
         /\ row'[ScopeOf(r)].token = held[r]
         /\ row'[ScopeOf(r)].hash = call[r].hash
         /\ row'[ScopeOf(r)].result = RowOf(r).result
         /\ \A s \in Scopes : s # ScopeOf(r) => row'[s] = row[s]
         /\ RowOf(r).state = "pending"
         /\ RowOf(r).token = held[r]
         /\ pc[r] = "acquired" /\ pc'[r] \in {"working", "releasing"}
         /\ \A q \in Requests : q # r => pc'[q] = pc[q]
         /\ UNCHANGED <<issued, call, held, answer, generation, effects>>
  <1> USE DEF ScopeOf, RowOf
  <1>1. /\ row'[ScopeOf(r)] = MarkedDispatched(RowOf(r))
        /\ CanMarkDispatched(RowOf(r), LeaseOf(r))
        /\ \A s \in Scopes : s # ScopeOf(r) => row'[s] = row[s]
    BY RequestTypes DEF MarkDispatched, WriteRow, TypeOK
  <1>2. /\ pc[r] = "acquired" /\ pc'[r] \in {"working", "releasing"}
        /\ \A q \in Requests : q # r => pc'[q] = pc[q]
        /\ UNCHANGED <<issued, call, held, answer, generation, effects>>
    BY DEF MarkDispatched, Goto, TypeOK
  <1>3. RowOf(r).token = held[r]
    BY <1>1 DEF CanMarkDispatched, HoldsLease, LeaseOf
  <1> QED BY RequestTypes, <1>1, <1>2, <1>3, MarkedDispatchedRow DEF LeaseOf

LEMMA ReleaseStep ==
  ASSUME TypeOK, NEW r \in Requests, Release(r)
  PROVE  /\ \/ row' = row
            \/ /\ row'[ScopeOf(r)] = NoRow
               /\ RowOf(r).state = "pending"
               /\ \A s \in Scopes : s # ScopeOf(r) => row'[s] = row[s]
         /\ pc[r] = "releasing"
         /\ pc'[r] = "idle" /\ held'[r] = 0
         /\ answer'[r] = [kind |-> "dispatch_failed", token |-> held[r]]
         /\ \A q \in Requests : q # r => pc'[q] = pc[q] /\ held'[q] = held[q] /\ answer'[q] = answer[q]
         /\ UNCHANGED <<issued, call, generation, effects>>
  <1> USE DEF ScopeOf, RowOf
  <1>1. \/ row' = row
        \/ /\ row'[ScopeOf(r)] = NoRow
           /\ RowOf(r).state = "pending"
           /\ \A s \in Scopes : s # ScopeOf(r) => row'[s] = row[s]
    <2>1. CASE UNCHANGED row
      BY <2>1
    <2>2. CASE WriteRow(r, Released(RowOf(r), LeaseOf(r)))
      <3>1. CASE Released(RowOf(r), LeaseOf(r)) = RowOf(r)
        <4>1. row' = [row EXCEPT ![ScopeOf(r)] = row[ScopeOf(r)]]
          BY <2>2, <3>1 DEF WriteRow, RowOf
        <4> QED BY RequestTypes, <4>1 DEF TypeOK
      <3>2. CASE Released(RowOf(r), LeaseOf(r)) = NoRow /\ RowOf(r).state = "pending"
        BY RequestTypes, <2>2, <3>2 DEF WriteRow, TypeOK
      <3> QED BY RequestTypes, <3>1, <3>2, ReleasedRow
    <2> QED BY <2>1, <2>2 DEF Release
  <1> QED BY <1>1 DEF Release, Answer, Goto, TypeOK

LEMMA CompleteStep ==
  ASSUME TypeOK, NEW r \in Requests, Complete(r)
  PROVE  /\ \/ /\ row' = row
               /\ answer'[r] = [kind |-> "error", token |-> 0]
            \/ /\ row'[ScopeOf(r)].state = "succeeded"
               /\ row'[ScopeOf(r)].token = 0
               /\ row'[ScopeOf(r)].hash = call[r].hash
               /\ row'[ScopeOf(r)].result = [status |-> "completed", token |-> held[r]]
               /\ \A s \in Scopes : s # ScopeOf(r) => row'[s] = row[s]
               /\ answer'[r] \in {[kind |-> "ok", token |-> held[r]],
                                   [kind |-> "error", token |-> 0]}
         /\ pc[r] = "applied"
         /\ pc'[r] = "idle" /\ held'[r] = 0
         /\ \A q \in Requests : q # r => pc'[q] = pc[q] /\ held'[q] = held[q] /\ answer'[q] = answer[q]
         /\ UNCHANGED <<issued, call, generation, effects>>
  <1> USE DEF ScopeOf, RowOf
  <1> DEFINE res == [status |-> "completed", token |-> held[r]]
  <1>1. /\ pc[r] = "applied" /\ pc'[r] = "idle" /\ held'[r] = 0
        /\ \A q \in Requests : q # r => pc'[q] = pc[q] /\ held'[q] = held[q] /\ answer'[q] = answer[q]
        /\ UNCHANGED <<issued, call, generation, effects>>
    BY DEF Complete, Answer, Goto, TypeOK
  <1>2. CASE UNCHANGED row /\ answer'[r] = [kind |-> "error", token |-> 0]
    BY <1>1, <1>2
  <1>3. CASE /\ CanSettle(RowOf(r), LeaseOf(r))
             /\ WriteRow(r, Completed(RowOf(r), res))
             /\ answer'[r] \in {[kind |-> "ok", token |-> held[r]],
                                [kind |-> "error", token |-> 0]}
    <2>1. res \in Result /\ Settled(res.status) = "succeeded"
      BY RequestTypes DEF Result, Statuses, Settled
    <2>2. RowOf(r) \in Row /\ RowOf(r).hash = call[r].hash
      BY RequestTypes, <1>3, SettlingRow DEF LeaseOf
    <2>3. /\ row'[ScopeOf(r)] = Completed(RowOf(r), res)
          /\ \A s \in Scopes : s # ScopeOf(r) => row'[s] = row[s]
      BY RequestTypes, <1>3 DEF WriteRow, TypeOK
    <2>4. /\ row'[ScopeOf(r)].state = "succeeded"
          /\ row'[ScopeOf(r)].token = 0
          /\ row'[ScopeOf(r)].hash = call[r].hash
          /\ row'[ScopeOf(r)].result = res
      BY <2>1, <2>2, <2>3, CompletedRow
    <2> QED BY <1>1, <1>3, <2>3, <2>4
  <1> QED BY <1>2, <1>3 DEF Complete, Answer, TypeOK

LEMMA CompleteRejectionStep ==
  ASSUME TypeOK, NEW r \in Requests, CompleteRejection(r)
  PROVE  /\ \/ /\ row' = row
               /\ answer'[r] = [kind |-> "rejected", token |-> held[r]]
            \/ /\ row'[ScopeOf(r)].state = "failed"
               /\ row'[ScopeOf(r)].token = 0
               /\ row'[ScopeOf(r)].hash = call[r].hash
               /\ row'[ScopeOf(r)].result = [status |-> "rejected", token |-> held[r]]
               /\ \A s \in Scopes : s # ScopeOf(r) => row'[s] = row[s]
               /\ answer'[r] = [kind |-> "rejected", token |-> held[r]]
         /\ pc[r] = "rejecting"
         /\ pc'[r] = "idle" /\ held'[r] = 0
         /\ \A q \in Requests : q # r => pc'[q] = pc[q] /\ held'[q] = held[q] /\ answer'[q] = answer[q]
         /\ UNCHANGED <<issued, call, generation, effects>>
  <1> USE DEF ScopeOf, RowOf
  <1> DEFINE res == [status |-> "rejected", token |-> held[r]]
  <1>1. /\ pc[r] = "rejecting" /\ pc'[r] = "idle" /\ held'[r] = 0
        /\ \A q \in Requests : q # r => pc'[q] = pc[q] /\ held'[q] = held[q] /\ answer'[q] = answer[q]
        /\ UNCHANGED <<issued, call, generation, effects>>
    BY DEF CompleteRejection, Answer, Goto, TypeOK
  <1>2. CASE UNCHANGED row /\ answer'[r] = [kind |-> "rejected", token |-> held[r]]
    BY <1>1, <1>2
  <1>3. CASE /\ CanSettle(RowOf(r), LeaseOf(r))
             /\ WriteRow(r, Completed(RowOf(r), res))
             /\ answer'[r] = [kind |-> "rejected", token |-> held[r]]
    <2>1. res \in Result /\ Settled(res.status) = "failed"
      BY RequestTypes DEF Result, Statuses, Settled
    <2>2. RowOf(r) \in Row /\ RowOf(r).hash = call[r].hash
      BY RequestTypes, <1>3, SettlingRow DEF LeaseOf
    <2>3. /\ row'[ScopeOf(r)] = Completed(RowOf(r), res)
          /\ \A s \in Scopes : s # ScopeOf(r) => row'[s] = row[s]
      BY RequestTypes, <1>3 DEF WriteRow, TypeOK
    <2>4. /\ row'[ScopeOf(r)].state = "failed"
          /\ row'[ScopeOf(r)].token = 0
          /\ row'[ScopeOf(r)].hash = call[r].hash
          /\ row'[ScopeOf(r)].result = res
      BY <2>1, <2>2, <2>3, CompletedRow
    <2> QED BY <1>1, <1>3, <2>3, <2>4
  <1> QED BY <1>2, <1>3 DEF CompleteRejection, Answer, TypeOK

LEMMA RetainStep ==
  ASSUME TypeOK, NEW r \in Requests, Retain(r)
  PROVE  /\ \A s \in Scopes : /\ row'[s].token = row[s].token
                             /\ row'[s].hash = row[s].hash
                             /\ row'[s].result = row[s].result
         /\ \A s \in Scopes : \/ row'[s].state = row[s].state
                             \/ /\ s = ScopeOf(r)
                                /\ row[s].state \in {"dispatched", "indeterminate"}
                                /\ row'[s].state = "indeterminate"
         /\ pc[r] = "retaining"
         /\ pc'[r] = "idle" /\ held'[r] = 0
         /\ answer'[r] = [kind |-> "error", token |-> 0]
         /\ \A q \in Requests : q # r => pc'[q] = pc[q] /\ held'[q] = held[q] /\ answer'[q] = answer[q]
         /\ UNCHANGED <<issued, call, generation, effects>>
  <1> USE DEF ScopeOf, RowOf
  <1>1. /\ pc[r] = "retaining" /\ pc'[r] = "idle" /\ held'[r] = 0
        /\ answer'[r] = [kind |-> "error", token |-> 0]
        /\ \A q \in Requests : q # r => pc'[q] = pc[q] /\ held'[q] = held[q] /\ answer'[q] = answer[q]
        /\ UNCHANGED <<issued, call, generation, effects>>
    BY DEF Retain, Answer, Goto, TypeOK
  <1>2. CASE UNCHANGED row
    BY <1>1, <1>2
  <1>3. CASE /\ CanSettle(RowOf(r), LeaseOf(r))
             /\ WriteRow(r, MarkedIndeterminate(RowOf(r)))
    <2>1. RowOf(r) \in Row /\ RowOf(r).state \in {"dispatched", "indeterminate"}
      BY RequestTypes, <1>3, SettlingRow
    <2>2. /\ row'[ScopeOf(r)] = MarkedIndeterminate(RowOf(r))
          /\ \A s \in Scopes : s # ScopeOf(r) => row'[s] = row[s]
      BY RequestTypes, <1>3 DEF WriteRow, TypeOK
    <2>3. /\ row'[ScopeOf(r)].state = "indeterminate"
          /\ row'[ScopeOf(r)].token = RowOf(r).token
          /\ row'[ScopeOf(r)].hash = RowOf(r).hash
          /\ row'[ScopeOf(r)].result = RowOf(r).result
      BY <2>1, <2>2, MarkedIndeterminateRow
    <2> QED BY <1>1, <2>1, <2>2, <2>3 DEF RowOf
  <1> QED BY <1>2, <1>3 DEF Retain

LEMMA LapseStep ==
  ASSUME TypeOK, NEW s \in Scopes, Lapse(s)
  PROVE  /\ \A q \in Scopes : /\ row'[q].state = row[q].state
                             /\ row'[q].token = row[q].token
                             /\ row'[q].hash = row[q].hash
                             /\ row'[q].result = row[q].result
         /\ UNCHANGED <<issued, pc, call, held, answer, generation, effects>>
  <1> USE DEF ScopeOf, RowOf
  <1>1. row[s] \in Row
    BY PresentRow DEF Lapse, TypeOK
  <1> QED BY <1>1, LapsedRow DEF Lapse, TypeOK

-----------------------------------------------------------------------------
(* Safety: the inductive invariant. *)
LEMMA SafetyInit == Init => IInv
  BY TypeInit DEF Init, IInv, TokensIssued, HoldersDiffer, WorkerOwnsRow,
     HeldLeasesUnseen, UnusedLeases, AppliedLeases, CurrentEffectInRow, SettledRows,
     AtMostOncePerGeneration, AnswersAreTrue, NoAnswer, NoRow, NoResult, InWork, RowOf

LEMMA SafetyNext == IInv /\ [Next]_vars => IInv'
  <1> SUFFICES ASSUME IInv, [Next]_vars PROVE IInv'
    OBVIOUS
  <1>t. TypeOK /\ TypeOK'
    BY TypeNext DEF IInv
  <1>a. \A r \in Requests : /\ ScopeOf(r) \in Scopes
                            /\ RowOf(r) \in Row \cup {NoRow}
                            /\ call[r].hash \in Hashes
                            /\ held[r] \in Nat
    BY <1>t, RequestTypes
  <1>b. /\ issued \in Nat
        /\ \A s \in Scopes : generation[s] \in Nat
        /\ \A e \in effects : e.scope \in Scopes /\ e.generation \in Nat /\ e.token \in Nat
        /\ \A r \in Requests : answer[r].token \in Nat
        /\ \A s \in Scopes : row[s].token \in Nat /\ row[s].result.token \in Nat
    BY <1>t DEF TypeOK, Row, NoRow, Result, NoResult
  <1> USE DEF ScopeOf, RowOf
  <1>1. ASSUME NEW r \in Requests, NEW s \in Scopes, NEW h \in Hashes, Send(r, s, h)
         PROVE  IInv'
    <2>a. /\ pc[r] = "idle"
          /\ pc'[r] = "begin"
          /\ answer'[r] = NoAnswer
          /\ \A q \in Requests : q # r => pc'[q] = pc[q] /\ call'[q] = call[q] /\ answer'[q] = answer[q]
          /\ UNCHANGED <<row, issued, held, generation, effects>>
      BY <1>1, <1>t DEF Send, Goto, TypeOK
    <2>1. /\ CurrentEffectInRow'
          /\ SettledRows'
          /\ AtMostOncePerGeneration'
      BY <2>a, <1>a DEF IInv, CurrentEffectInRow, SettledRows,
         AtMostOncePerGeneration
    <2>2. TokensIssued'
      BY <2>a, <1>a, <1>b DEF IInv, TokensIssued, NoAnswer
    <2>3. HoldersDiffer'
      BY <2>a, <1>a, <1>b DEF IInv, HoldersDiffer, TokensIssued, InWork
    <2>4. WorkerOwnsRow'
      BY <2>a, <1>a, <1>b DEF IInv, WorkerOwnsRow, HoldersDiffer, InWork
    <2>5. HeldLeasesUnseen'
      BY <2>a, <1>a, <1>b DEF IInv, HeldLeasesUnseen, TokensIssued,
         HoldersDiffer, NoAnswer
    <2>6. UnusedLeases'
      BY <2>a, <1>a, <1>b DEF IInv, UnusedLeases, TokensIssued, HoldersDiffer
    <2>7. AppliedLeases'
      BY <2>a, <1>a, <1>b DEF IInv, AppliedLeases, WorkerOwnsRow, InWork,
         OwnEffect
    <2>8. AnswersAreTrue'
      BY <2>a, <1>a, <1>b DEF IInv, AnswersAreTrue, HeldLeasesUnseen,
         UnusedLeases, AppliedLeases, SettledRows, OwnEffect, NoAnswer
    <2> QED BY <1>t, <2>1, <2>2, <2>3, <2>4, <2>5, <2>6, <2>7, <2>8 DEF IInv
  <1>2. ASSUME NEW r \in Requests, Acquire(r)
         PROVE  IInv'
    <2>a. /\ row'[ScopeOf(r)].state = "pending"
          /\ row'[ScopeOf(r)].token = issued + 1
          /\ row'[ScopeOf(r)].result \in {RowOf(r).result, NoResult}
          /\ \A s \in Scopes : s # ScopeOf(r) => row'[s] = row[s]
          /\ RowOf(r).state \notin {"dispatched", "indeterminate"}
          /\ generation'[ScopeOf(r)] = IF RowOf(r).state \in {"succeeded", "failed"}
                                       THEN generation[ScopeOf(r)] + 1 ELSE generation[ScopeOf(r)]
          /\ \A s \in Scopes : s # ScopeOf(r) => generation'[s] = generation[s]
          /\ pc[r] = "begin"
          /\ \/ pc'[r] = "acquired" /\ held'[r] = issued + 1 /\ answer'[r] = answer[r]
             \/ pc'[r] = "idle" /\ held'[r] = 0 /\ answer'[r] = [kind |-> "error", token |-> 0]
          /\ \A q \in Requests : q # r => pc'[q] = pc[q] /\ held'[q] = held[q] /\ answer'[q] = answer[q]
          /\ issued' = issued + 1
          /\ UNCHANGED <<call, effects>>
      BY <1>2, <1>t, AcquireStep
    <2>1. TokensIssued'
      <3>1. \A q \in Requests : held'[q] <= issued' /\ answer'[q].token <= issued'
        BY <2>a, <1>b, <1>a DEF IInv, TokensIssued
      <3>2. \A s \in Scopes : row'[s].token <= issued' /\ row'[s].result.token <= issued'
        BY <2>a, <1>b, <1>a DEF IInv, TokensIssued, NoResult
      <3>3. \A e \in effects' : e.token <= issued'
        BY <2>a, <1>b DEF IInv, TokensIssued
      <3> QED BY <3>1, <3>2, <3>3 DEF TokensIssued
    <2>2. HoldersDiffer'
      BY <2>a, <1>a, <1>b DEF IInv, HoldersDiffer, TokensIssued, InWork, NoRow,
         NoResult
    <2>3. WorkerOwnsRow'
      BY <2>a, <1>a, <1>b DEF IInv, WorkerOwnsRow, HoldersDiffer, InWork,
         NoRow, NoResult
    <2>4. HeldLeasesUnseen'
      BY <2>a, <1>a, <1>b DEF IInv, HeldLeasesUnseen, TokensIssued,
         HoldersDiffer, NoRow, NoResult
    <2>5. UnusedLeases'
      BY <2>a, <1>a, <1>b DEF IInv, UnusedLeases, TokensIssued, HoldersDiffer,
         NoRow, NoResult
    <2>6. AppliedLeases'
      BY <2>a, <1>a, <1>b DEF IInv, AppliedLeases, WorkerOwnsRow, InWork,
         OwnEffect, NoRow, NoResult, HoldersDiffer
    <2>7. CurrentEffectInRow'
      BY <2>a, <1>a, <1>b DEF IInv, CurrentEffectInRow, UnusedLeases,
         AppliedLeases, WorkerOwnsRow, InWork, OwnEffect, NoRow, NoResult,
         HoldersDiffer
    <2>8. SettledRows'
      BY <2>a, <1>a, <1>b DEF IInv, SettledRows, HeldLeasesUnseen,
         UnusedLeases, AppliedLeases, WorkerOwnsRow, CurrentEffectInRow,
         InWork, OwnEffect, NoRow, NoResult, HoldersDiffer
    <2>9. AtMostOncePerGeneration'
      BY <2>a, <1>a, <1>b DEF IInv, AtMostOncePerGeneration,
         CurrentEffectInRow, UnusedLeases, WorkerOwnsRow, InWork, NoRow,
         NoResult
    <2>10. AnswersAreTrue'
      BY <2>a, <1>a, <1>b DEF IInv, AnswersAreTrue, HeldLeasesUnseen,
         UnusedLeases, AppliedLeases, SettledRows, OwnEffect, NoRow, NoResult
    <2> QED BY <1>t, <2>1, <2>2, <2>3, <2>4, <2>5, <2>6, <2>7, <2>8, <2>9,
         <2>10 DEF IInv
  <1>3. ASSUME NEW r \in Requests, Refuse(r)
         PROVE  IInv'
    <2>a. /\ pc[r] = "begin"
          /\ pc'[r] = "idle" /\ held'[r] = 0
          /\ \A q \in Requests : q # r => pc'[q] = pc[q] /\ held'[q] = held[q] /\ answer'[q] = answer[q]
          /\ \/ answer'[r].token = 0 /\ answer'[r].kind \notin {"ok", "replay", "rejected"}
             \/ /\ answer'[r].token = RowOf(r).result.token
                /\ RowOf(r).state \in {"succeeded", "failed"}
                /\ RowOf(r).hash = call[r].hash
                /\ answer'[r].kind = IF RowOf(r).result.status = "rejected" THEN "rejected" ELSE "replay"
          /\ UNCHANGED <<row, issued, call, generation, effects>>
      BY <1>3, <1>t, RefuseStep
    <2>1. /\ CurrentEffectInRow'
          /\ SettledRows'
          /\ AtMostOncePerGeneration'
      BY <2>a, <1>a DEF IInv, CurrentEffectInRow, SettledRows,
         AtMostOncePerGeneration
    <2>2. TokensIssued'
      BY <2>a, <1>a, <1>b DEF IInv, TokensIssued
    <2>3. HoldersDiffer'
      BY <2>a, <1>a, <1>b DEF IInv, HoldersDiffer, TokensIssued, InWork
    <2>4. WorkerOwnsRow'
      BY <2>a, <1>a, <1>b DEF IInv, WorkerOwnsRow, HoldersDiffer, InWork
    <2>5. HeldLeasesUnseen'
      BY <2>a, <1>a, <1>b DEF IInv, HeldLeasesUnseen, TokensIssued,
         HoldersDiffer
    <2>6. UnusedLeases'
      BY <2>a, <1>a, <1>b DEF IInv, UnusedLeases, TokensIssued, HoldersDiffer
    <2>7. AppliedLeases'
      BY <2>a, <1>a, <1>b DEF IInv, AppliedLeases, WorkerOwnsRow, InWork,
         OwnEffect
    <2>8. AnswersAreTrue'
      <3>1. ASSUME NEW q \in Requests
            PROVE  /\ answer'[q].kind \in {"ok", "replay"} =>
                        \E e \in effects : /\ e.scope = ScopeOf(q)
                                           /\ e.hash = call[q].hash
                                           /\ e.token = answer'[q].token
                   /\ answer'[q].kind = "rejected" =>
                        \A e \in effects : e.token # answer'[q].token
        <4>1. CASE q # r
          BY <2>a, <4>1 DEF IInv, AnswersAreTrue
        <4>2. CASE q = r /\ RowOf(r).state = "succeeded"
          <5> DEFINE e == [scope |-> ScopeOf(r), generation |-> generation[ScopeOf(r)],
                           hash |-> row[ScopeOf(r)].hash, token |-> row[ScopeOf(r)].result.token]
          <5>1. e \in effects /\ RowOf(r).result.status = "completed"
            BY <1>a, <4>2 DEF IInv, SettledRows
          <5> QED BY <2>a, <4>2, <5>1
        <4>3. CASE q = r /\ RowOf(r).state = "failed"
          <5>1. /\ RowOf(r).result.status = "rejected"
                /\ \A e \in effects : e.token # RowOf(r).result.token
            BY <1>a, <4>3 DEF IInv, SettledRows
          <5> QED BY <2>a, <4>3, <5>1
        <4>4. CASE q = r /\ RowOf(r).state \notin {"succeeded", "failed"}
          BY <2>a, <4>4
        <4> QED BY <4>1, <4>2, <4>3, <4>4
      <3> QED BY <2>a, <3>1 DEF AnswersAreTrue
    <2> QED BY <1>t, <2>1, <2>2, <2>3, <2>4, <2>5, <2>6, <2>7, <2>8 DEF IInv
  <1>4. ASSUME NEW r \in Requests, BeginFails(r)
         PROVE  IInv'
    <2>a. /\ pc[r] = "begin"
          /\ pc'[r] = "idle" /\ held'[r] = 0
          /\ answer'[r] = [kind |-> "error", token |-> 0]
          /\ \A q \in Requests : q # r => pc'[q] = pc[q] /\ held'[q] = held[q] /\ answer'[q] = answer[q]
          /\ UNCHANGED <<row, issued, call, generation, effects>>
      BY <1>4, <1>t DEF BeginFails, Answer, Goto, TypeOK
    <2>1. /\ CurrentEffectInRow'
          /\ SettledRows'
          /\ AtMostOncePerGeneration'
      BY <2>a, <1>a DEF IInv, CurrentEffectInRow, SettledRows,
         AtMostOncePerGeneration
    <2>2. TokensIssued'
      BY <2>a, <1>a, <1>b DEF IInv, TokensIssued
    <2>3. HoldersDiffer'
      BY <2>a, <1>a, <1>b DEF IInv, HoldersDiffer, TokensIssued, InWork
    <2>4. WorkerOwnsRow'
      BY <2>a, <1>a, <1>b DEF IInv, WorkerOwnsRow, HoldersDiffer, InWork
    <2>5. HeldLeasesUnseen'
      BY <2>a, <1>a, <1>b DEF IInv, HeldLeasesUnseen, TokensIssued,
         HoldersDiffer
    <2>6. UnusedLeases'
      BY <2>a, <1>a, <1>b DEF IInv, UnusedLeases, TokensIssued, HoldersDiffer
    <2>7. AppliedLeases'
      BY <2>a, <1>a, <1>b DEF IInv, AppliedLeases, WorkerOwnsRow, InWork,
         OwnEffect
    <2>8. AnswersAreTrue'
      BY <2>a, <1>a, <1>b DEF IInv, AnswersAreTrue, HeldLeasesUnseen,
         UnusedLeases, AppliedLeases, SettledRows, OwnEffect
    <2> QED BY <1>t, <2>1, <2>2, <2>3, <2>4, <2>5, <2>6, <2>7, <2>8 DEF IInv
  <1>5. ASSUME NEW r \in Requests, MarkDispatched(r)
         PROVE  IInv'
    <2>a. /\ row'[ScopeOf(r)].state = "dispatched"
          /\ row'[ScopeOf(r)].token = held[r]
          /\ row'[ScopeOf(r)].hash = call[r].hash
          /\ row'[ScopeOf(r)].result = RowOf(r).result
          /\ \A s \in Scopes : s # ScopeOf(r) => row'[s] = row[s]
          /\ RowOf(r).state = "pending"
          /\ RowOf(r).token = held[r]
          /\ pc[r] = "acquired" /\ pc'[r] \in {"working", "releasing"}
          /\ \A q \in Requests : q # r => pc'[q] = pc[q]
          /\ UNCHANGED <<issued, call, held, answer, generation, effects>>
      BY <1>5, <1>t, MarkDispatchedStep
    <2>1. /\ AtMostOncePerGeneration'
      BY <2>a, <1>a DEF IInv, AtMostOncePerGeneration
    <2>2. TokensIssued'
      BY <2>a, <1>a, <1>b DEF IInv, TokensIssued
    <2>3. HoldersDiffer'
      BY <2>a, <1>a, <1>b DEF IInv, HoldersDiffer, TokensIssued, InWork
    <2>4. WorkerOwnsRow'
      BY <2>a, <1>a, <1>b DEF IInv, WorkerOwnsRow, HoldersDiffer, InWork
    <2>5. HeldLeasesUnseen'
      BY <2>a, <1>a, <1>b DEF IInv, HeldLeasesUnseen, TokensIssued,
         HoldersDiffer
    <2>6. UnusedLeases'
      BY <2>a, <1>a, <1>b DEF IInv, UnusedLeases, TokensIssued, HoldersDiffer
    <2>7. AppliedLeases'
      BY <2>a, <1>a, <1>b DEF IInv, AppliedLeases, WorkerOwnsRow, InWork,
         OwnEffect
    <2>8. CurrentEffectInRow'
      BY <2>a, <1>a, <1>b DEF IInv, CurrentEffectInRow, UnusedLeases,
         AppliedLeases, WorkerOwnsRow, InWork, OwnEffect
    <2>9. SettledRows'
      BY <2>a, <1>a, <1>b DEF IInv, SettledRows, HeldLeasesUnseen,
         UnusedLeases, AppliedLeases, WorkerOwnsRow, CurrentEffectInRow,
         InWork, OwnEffect
    <2>10. AnswersAreTrue'
      BY <2>a, <1>a, <1>b DEF IInv, AnswersAreTrue, HeldLeasesUnseen,
         UnusedLeases, AppliedLeases, SettledRows, OwnEffect
    <2> QED BY <1>t, <2>1, <2>2, <2>3, <2>4, <2>5, <2>6, <2>7, <2>8, <2>9,
         <2>10 DEF IInv
  <1>6. ASSUME NEW r \in Requests, MarkDispatchedFails(r)
         PROVE  IInv'
    <2>a. /\ pc[r] = "acquired" /\ pc'[r] = "releasing"
          /\ \A q \in Requests : q # r => pc'[q] = pc[q]
          /\ UNCHANGED <<row, issued, call, held, answer, generation, effects>>
      BY <1>6, <1>t DEF MarkDispatchedFails, Goto, TypeOK
    <2>1. /\ CurrentEffectInRow'
          /\ SettledRows'
          /\ AtMostOncePerGeneration'
          /\ TokensIssued'
          /\ AnswersAreTrue'
      BY <2>a, <1>a DEF IInv, CurrentEffectInRow, SettledRows,
         AtMostOncePerGeneration, TokensIssued, AnswersAreTrue
    <2>2. HoldersDiffer'
      BY <2>a, <1>a, <1>b DEF IInv, HoldersDiffer, TokensIssued, InWork
    <2>3. WorkerOwnsRow'
      BY <2>a, <1>a, <1>b DEF IInv, WorkerOwnsRow, HoldersDiffer, InWork
    <2>4. HeldLeasesUnseen'
      BY <2>a, <1>a, <1>b DEF IInv, HeldLeasesUnseen, TokensIssued,
         HoldersDiffer
    <2>5. UnusedLeases'
      BY <2>a, <1>a, <1>b DEF IInv, UnusedLeases, TokensIssued, HoldersDiffer
    <2>6. AppliedLeases'
      BY <2>a, <1>a, <1>b DEF IInv, AppliedLeases, WorkerOwnsRow, InWork,
         OwnEffect
    <2> QED BY <1>t, <2>1, <2>2, <2>3, <2>4, <2>5, <2>6 DEF IInv
  <1>7. ASSUME NEW r \in Requests, Release(r)
         PROVE  IInv'
    <2>a. /\ \/ row' = row
             \/ /\ row'[ScopeOf(r)] = NoRow
                /\ RowOf(r).state = "pending"
                /\ \A s \in Scopes : s # ScopeOf(r) => row'[s] = row[s]
          /\ pc[r] = "releasing"
          /\ pc'[r] = "idle" /\ held'[r] = 0
          /\ answer'[r] = [kind |-> "dispatch_failed", token |-> held[r]]
          /\ \A q \in Requests : q # r => pc'[q] = pc[q] /\ held'[q] = held[q] /\ answer'[q] = answer[q]
          /\ UNCHANGED <<issued, call, generation, effects>>
      BY <1>7, <1>t, ReleaseStep
    <2>1. /\ AtMostOncePerGeneration'
      BY <2>a, <1>a DEF IInv, AtMostOncePerGeneration, NoRow, NoResult
    <2>2. TokensIssued'
      BY <2>a, <1>a, <1>b DEF IInv, TokensIssued, NoRow, NoResult
    <2>3. HoldersDiffer'
      BY <2>a, <1>a, <1>b DEF IInv, HoldersDiffer, TokensIssued, InWork, NoRow,
         NoResult
    <2>4. WorkerOwnsRow'
      BY <2>a, <1>a, <1>b DEF IInv, WorkerOwnsRow, HoldersDiffer, InWork,
         NoRow, NoResult
    <2>5. HeldLeasesUnseen'
      BY <2>a, <1>a, <1>b DEF IInv, HeldLeasesUnseen, TokensIssued,
         HoldersDiffer, NoRow, NoResult
    <2>6. UnusedLeases'
      BY <2>a, <1>a, <1>b DEF IInv, UnusedLeases, TokensIssued, HoldersDiffer,
         NoRow, NoResult
    <2>7. AppliedLeases'
      BY <2>a, <1>a, <1>b DEF IInv, AppliedLeases, WorkerOwnsRow, InWork,
         OwnEffect, NoRow, NoResult, HoldersDiffer
    <2>8. CurrentEffectInRow'
      BY <2>a, <1>a, <1>b DEF IInv, CurrentEffectInRow, UnusedLeases,
         AppliedLeases, WorkerOwnsRow, InWork, OwnEffect, NoRow, NoResult,
         HoldersDiffer
    <2>9. SettledRows'
      BY <2>a, <1>a, <1>b DEF IInv, SettledRows, HeldLeasesUnseen,
         UnusedLeases, AppliedLeases, WorkerOwnsRow, CurrentEffectInRow,
         InWork, OwnEffect, NoRow, NoResult, HoldersDiffer
    <2>10. AnswersAreTrue'
      BY <2>a, <1>a, <1>b DEF IInv, AnswersAreTrue, HeldLeasesUnseen,
         UnusedLeases, AppliedLeases, SettledRows, OwnEffect, NoRow, NoResult
    <2> QED BY <1>t, <2>1, <2>2, <2>3, <2>4, <2>5, <2>6, <2>7, <2>8, <2>9,
         <2>10 DEF IInv
  <1>8. ASSUME NEW r \in Requests, WorkApplies(r)
         PROVE  IInv'
    <2>a. /\ effects' = effects \cup {OwnEffect(r)}
          /\ pc[r] = "working" /\ pc'[r] = "applied"
          /\ \A q \in Requests : q # r => pc'[q] = pc[q]
          /\ UNCHANGED <<row, issued, call, held, answer, generation>>
      BY <1>8, <1>t DEF WorkApplies, Goto, TypeOK, OwnEffect
    <2>b. held[r] # 0
      BY <2>a DEF IInv, HoldersDiffer
    <2>1. TokensIssued'
      BY <2>a, <1>a, <1>b DEF IInv, TokensIssued, OwnEffect
    <2>2. HoldersDiffer'
      BY <2>a, <1>a, <1>b DEF IInv, HoldersDiffer, TokensIssued, InWork,
         OwnEffect
    <2>3. WorkerOwnsRow'
      BY <2>a, <1>a, <1>b DEF IInv, WorkerOwnsRow, HoldersDiffer, InWork,
         OwnEffect
    <2>4. HeldLeasesUnseen'
      BY <2>a, <1>a, <1>b DEF IInv, HeldLeasesUnseen, TokensIssued,
         HoldersDiffer, OwnEffect
    <2>5. UnusedLeases'
      BY <2>a, <1>a, <1>b DEF IInv, UnusedLeases, TokensIssued, HoldersDiffer,
         OwnEffect
    <2>6. AppliedLeases'
      BY <2>a, <1>a, <1>b DEF IInv, AppliedLeases, WorkerOwnsRow, InWork,
         OwnEffect
    <2>7. CurrentEffectInRow'
      BY <2>a, <1>a, <1>b DEF IInv, CurrentEffectInRow, UnusedLeases,
         AppliedLeases, WorkerOwnsRow, InWork, OwnEffect
    <2>8. SettledRows'
      <3> DEFINE new == OwnEffect(r)
      <3>1. /\ new.token = held[r]
            /\ effects' = effects \cup {new}
            /\ \A s \in Scopes : row[s].result.token # held[r]
        BY <2>a, <2>b DEF IInv, OwnEffect, HeldLeasesUnseen
      <3> HIDE DEF new
      <3> QED BY <2>a, <3>1 DEF IInv, SettledRows
    <2>9. AtMostOncePerGeneration'
      BY <2>a, <1>a, <1>b DEF IInv, AtMostOncePerGeneration,
         CurrentEffectInRow, UnusedLeases, WorkerOwnsRow, InWork, OwnEffect
    <2>10. AnswersAreTrue'
      <3> DEFINE new == OwnEffect(r)
      <3>1. /\ new.token = held[r]
            /\ effects' = effects \cup {new}
            /\ \A q \in Requests : answer[q].kind = "rejected" => answer[q].token # held[r]
        BY <2>a, <2>b DEF IInv, OwnEffect, HeldLeasesUnseen
      <3> HIDE DEF new
      <3> QED BY <2>a, <3>1 DEF IInv, AnswersAreTrue
    <2> QED BY <1>t, <2>1, <2>2, <2>3, <2>4, <2>5, <2>6, <2>7, <2>8, <2>9,
         <2>10 DEF IInv
  <1>9. ASSUME NEW r \in Requests, WorkRejects(r)
         PROVE  IInv'
    <2>a. /\ pc[r] = "working" /\ pc'[r] = "rejecting"
          /\ \A q \in Requests : q # r => pc'[q] = pc[q]
          /\ UNCHANGED <<row, issued, call, held, answer, generation, effects>>
      BY <1>9, <1>t DEF WorkRejects, Goto, TypeOK
    <2>1. /\ CurrentEffectInRow'
          /\ SettledRows'
          /\ AtMostOncePerGeneration'
          /\ TokensIssued'
          /\ AnswersAreTrue'
      BY <2>a, <1>a DEF IInv, CurrentEffectInRow, SettledRows,
         AtMostOncePerGeneration, TokensIssued, AnswersAreTrue
    <2>2. HoldersDiffer'
      BY <2>a, <1>a, <1>b DEF IInv, HoldersDiffer, TokensIssued, InWork
    <2>3. WorkerOwnsRow'
      BY <2>a, <1>a, <1>b DEF IInv, WorkerOwnsRow, HoldersDiffer, InWork
    <2>4. HeldLeasesUnseen'
      BY <2>a, <1>a, <1>b DEF IInv, HeldLeasesUnseen, TokensIssued,
         HoldersDiffer
    <2>5. UnusedLeases'
      BY <2>a, <1>a, <1>b DEF IInv, UnusedLeases, TokensIssued, HoldersDiffer
    <2>6. AppliedLeases'
      BY <2>a, <1>a, <1>b DEF IInv, AppliedLeases, WorkerOwnsRow, InWork,
         OwnEffect
    <2> QED BY <1>t, <2>1, <2>2, <2>3, <2>4, <2>5, <2>6 DEF IInv
  <1>10. ASSUME NEW r \in Requests, WorkThrows(r)
         PROVE  IInv'
    <2>a. /\ pc[r] \in {"working", "applied"} /\ pc'[r] = "retaining"
          /\ \A q \in Requests : q # r => pc'[q] = pc[q]
          /\ UNCHANGED <<row, issued, call, held, answer, generation, effects>>
      BY <1>10, <1>t DEF WorkThrows, Goto, TypeOK
    <2>1. /\ CurrentEffectInRow'
          /\ SettledRows'
          /\ AtMostOncePerGeneration'
          /\ TokensIssued'
          /\ AnswersAreTrue'
      BY <2>a, <1>a DEF IInv, CurrentEffectInRow, SettledRows,
         AtMostOncePerGeneration, TokensIssued, AnswersAreTrue
    <2>2. HoldersDiffer'
      BY <2>a, <1>a, <1>b DEF IInv, HoldersDiffer, TokensIssued, InWork
    <2>3. WorkerOwnsRow'
      BY <2>a, <1>a, <1>b DEF IInv, WorkerOwnsRow, HoldersDiffer, InWork
    <2>4. HeldLeasesUnseen'
      BY <2>a, <1>a, <1>b DEF IInv, HeldLeasesUnseen, TokensIssued,
         HoldersDiffer
    <2>5. UnusedLeases'
      BY <2>a, <1>a, <1>b DEF IInv, UnusedLeases, TokensIssued, HoldersDiffer
    <2>6. AppliedLeases'
      BY <2>a, <1>a, <1>b DEF IInv, AppliedLeases, WorkerOwnsRow, InWork,
         OwnEffect
    <2> QED BY <1>t, <2>1, <2>2, <2>3, <2>4, <2>5, <2>6 DEF IInv
  <1>11. ASSUME NEW r \in Requests, Complete(r)
         PROVE  IInv'
    <2>a. /\ \/ /\ row' = row
                /\ answer'[r] = [kind |-> "error", token |-> 0]
             \/ /\ row'[ScopeOf(r)].state = "succeeded"
                /\ row'[ScopeOf(r)].token = 0
                /\ row'[ScopeOf(r)].hash = call[r].hash
                /\ row'[ScopeOf(r)].result = [status |-> "completed", token |-> held[r]]
                /\ \A s \in Scopes : s # ScopeOf(r) => row'[s] = row[s]
                /\ answer'[r] \in {[kind |-> "ok", token |-> held[r]],
                                    [kind |-> "error", token |-> 0]}
          /\ pc[r] = "applied"
          /\ pc'[r] = "idle" /\ held'[r] = 0
          /\ \A q \in Requests : q # r => pc'[q] = pc[q] /\ held'[q] = held[q] /\ answer'[q] = answer[q]
          /\ UNCHANGED <<issued, call, generation, effects>>
      BY <1>11, <1>t, CompleteStep
    <2>1. /\ AtMostOncePerGeneration'
      BY <2>a, <1>a DEF IInv, AtMostOncePerGeneration
    <2>2. TokensIssued'
      BY <2>a, <1>a, <1>b DEF IInv, TokensIssued
    <2>3. HoldersDiffer'
      BY <2>a, <1>a, <1>b DEF IInv, HoldersDiffer, TokensIssued, InWork
    <2>4. WorkerOwnsRow'
      BY <2>a, <1>a, <1>b DEF IInv, WorkerOwnsRow, HoldersDiffer, InWork
    <2>5. HeldLeasesUnseen'
      BY <2>a, <1>a, <1>b DEF IInv, HeldLeasesUnseen, TokensIssued,
         HoldersDiffer
    <2>6. UnusedLeases'
      BY <2>a, <1>a, <1>b DEF IInv, UnusedLeases, TokensIssued, HoldersDiffer
    <2>7. AppliedLeases'
      BY <2>a, <1>a, <1>b DEF IInv, AppliedLeases, WorkerOwnsRow, InWork,
         OwnEffect, HoldersDiffer
    <2>8. CurrentEffectInRow'
      BY <2>a, <1>a, <1>b DEF IInv, CurrentEffectInRow, UnusedLeases,
         AppliedLeases, WorkerOwnsRow, InWork, OwnEffect, HoldersDiffer
    <2>9. SettledRows'
      <3>1. /\ [scope |-> ScopeOf(r), generation |-> generation[ScopeOf(r)],
                hash |-> call[r].hash, token |-> held[r]] \in effects
            /\ UNCHANGED <<effects, generation>>
        BY <2>a DEF IInv, AppliedLeases, OwnEffect
      <3>2. ASSUME NEW s \in Scopes, s = ScopeOf(r), row' # row
            PROVE  /\ row'[s].state = "succeeded"
                   /\ row'[s].hash = call[r].hash
                   /\ row'[s].result = [status |-> "completed", token |-> held[r]]
        BY <2>a, <3>2
      <3>3. ASSUME NEW s \in Scopes, s # ScopeOf(r) \/ row' = row
            PROVE  row'[s] = row[s]
        BY <2>a, <3>3
      <3> QED BY <1>a, <3>1, <3>2, <3>3 DEF IInv, SettledRows
    <2>10. AnswersAreTrue'
      <3>1. pc[r] = "applied" /\ OwnEffect(r) \in effects
        BY <2>a DEF IInv, AppliedLeases
      <3>2. \E e \in effects : /\ e.scope = ScopeOf(r)
                              /\ e.hash = call[r].hash
                              /\ e.token = held[r]
        BY <3>1 DEF OwnEffect
      <3> QED BY <2>a, <3>2 DEF IInv, AnswersAreTrue
    <2> QED BY <1>t, <2>1, <2>2, <2>3, <2>4, <2>5, <2>6, <2>7, <2>8, <2>9,
         <2>10 DEF IInv
  <1>12. ASSUME NEW r \in Requests, CompleteRejection(r)
         PROVE  IInv'
    <2>a. /\ \/ /\ row' = row
                /\ answer'[r] = [kind |-> "rejected", token |-> held[r]]
             \/ /\ row'[ScopeOf(r)].state = "failed"
                /\ row'[ScopeOf(r)].token = 0
                /\ row'[ScopeOf(r)].hash = call[r].hash
                /\ row'[ScopeOf(r)].result = [status |-> "rejected", token |-> held[r]]
                /\ \A s \in Scopes : s # ScopeOf(r) => row'[s] = row[s]
                /\ answer'[r] = [kind |-> "rejected", token |-> held[r]]
          /\ pc[r] = "rejecting"
          /\ pc'[r] = "idle" /\ held'[r] = 0
          /\ \A q \in Requests : q # r => pc'[q] = pc[q] /\ held'[q] = held[q] /\ answer'[q] = answer[q]
          /\ UNCHANGED <<issued, call, generation, effects>>
      BY <1>12, <1>t, CompleteRejectionStep
    <2>1. /\ AtMostOncePerGeneration'
      BY <2>a, <1>a DEF IInv, AtMostOncePerGeneration
    <2>2. TokensIssued'
      BY <2>a, <1>a, <1>b DEF IInv, TokensIssued
    <2>3. HoldersDiffer'
      BY <2>a, <1>a, <1>b DEF IInv, HoldersDiffer, TokensIssued, InWork
    <2>4. WorkerOwnsRow'
      BY <2>a, <1>a, <1>b DEF IInv, WorkerOwnsRow, HoldersDiffer, InWork
    <2>5. HeldLeasesUnseen'
      BY <2>a, <1>a, <1>b DEF IInv, HeldLeasesUnseen, TokensIssued,
         HoldersDiffer
    <2>6. UnusedLeases'
      BY <2>a, <1>a, <1>b DEF IInv, UnusedLeases, TokensIssued, HoldersDiffer
    <2>7. AppliedLeases'
      BY <2>a, <1>a, <1>b DEF IInv, AppliedLeases, WorkerOwnsRow, InWork,
         OwnEffect, HoldersDiffer
    <2>8. CurrentEffectInRow'
      BY <2>a, <1>a, <1>b DEF IInv, CurrentEffectInRow, UnusedLeases,
         AppliedLeases, WorkerOwnsRow, InWork, OwnEffect, HoldersDiffer
    <2>9. SettledRows'
      BY <2>a, <1>a, <1>b DEF IInv, SettledRows, HeldLeasesUnseen,
         UnusedLeases, AppliedLeases, WorkerOwnsRow, CurrentEffectInRow,
         InWork, OwnEffect, HoldersDiffer
    <2>10. AnswersAreTrue'
      BY <2>a, <1>a, <1>b DEF IInv, AnswersAreTrue, HeldLeasesUnseen,
         UnusedLeases, AppliedLeases, SettledRows, OwnEffect
    <2> QED BY <1>t, <2>1, <2>2, <2>3, <2>4, <2>5, <2>6, <2>7, <2>8, <2>9,
         <2>10 DEF IInv
  <1>13. ASSUME NEW r \in Requests, Retain(r)
         PROVE  IInv'
    <2>a. /\ \A s \in Scopes : /\ row'[s].token = row[s].token
                              /\ row'[s].hash = row[s].hash
                              /\ row'[s].result = row[s].result
          /\ \A s \in Scopes : \/ row'[s].state = row[s].state
                              \/ /\ s = ScopeOf(r)
                                 /\ row[s].state \in {"dispatched", "indeterminate"}
                                 /\ row'[s].state = "indeterminate"
          /\ pc[r] = "retaining"
          /\ pc'[r] = "idle" /\ held'[r] = 0
          /\ answer'[r] = [kind |-> "error", token |-> 0]
          /\ \A q \in Requests : q # r => pc'[q] = pc[q] /\ held'[q] = held[q] /\ answer'[q] = answer[q]
          /\ UNCHANGED <<issued, call, generation, effects>>
      BY <1>13, <1>t, RetainStep
    <2>1. /\ AtMostOncePerGeneration'
      BY <2>a, <1>a DEF IInv, AtMostOncePerGeneration
    <2>2. TokensIssued'
      BY <2>a, <1>a, <1>b DEF IInv, TokensIssued
    <2>3. HoldersDiffer'
      BY <2>a, <1>a, <1>b DEF IInv, HoldersDiffer, TokensIssued, InWork
    <2>4. WorkerOwnsRow'
      BY <2>a, <1>a, <1>b DEF IInv, WorkerOwnsRow, HoldersDiffer, InWork
    <2>5. HeldLeasesUnseen'
      BY <2>a, <1>a, <1>b DEF IInv, HeldLeasesUnseen, TokensIssued,
         HoldersDiffer
    <2>6. UnusedLeases'
      BY <2>a, <1>a, <1>b DEF IInv, UnusedLeases, TokensIssued, HoldersDiffer
    <2>7. AppliedLeases'
      BY <2>a, <1>a, <1>b DEF IInv, AppliedLeases, WorkerOwnsRow, InWork,
         OwnEffect
    <2>8. CurrentEffectInRow'
      BY <2>a, <1>a, <1>b DEF IInv, CurrentEffectInRow, UnusedLeases,
         AppliedLeases, WorkerOwnsRow, InWork, OwnEffect
    <2>9. SettledRows'
      BY <2>a, <1>a, <1>b DEF IInv, SettledRows, HeldLeasesUnseen,
         UnusedLeases, AppliedLeases, WorkerOwnsRow, CurrentEffectInRow,
         InWork, OwnEffect
    <2>10. AnswersAreTrue'
      BY <2>a, <1>a, <1>b DEF IInv, AnswersAreTrue, HeldLeasesUnseen,
         UnusedLeases, AppliedLeases, SettledRows, OwnEffect
    <2> QED BY <1>t, <2>1, <2>2, <2>3, <2>4, <2>5, <2>6, <2>7, <2>8, <2>9,
         <2>10 DEF IInv
  <1>14. ASSUME NEW r \in Requests, Crash(r)
         PROVE  IInv'
    <2>a. /\ pc'[r] = "idle" /\ held'[r] = 0
          /\ answer'[r] = [kind |-> "lost", token |-> 0]
          /\ \A q \in Requests : q # r => pc'[q] = pc[q] /\ held'[q] = held[q] /\ answer'[q] = answer[q]
          /\ UNCHANGED <<row, issued, call, generation, effects>>
      BY <1>14, <1>t DEF Crash, Answer, Goto, TypeOK
    <2>1. /\ CurrentEffectInRow'
          /\ SettledRows'
          /\ AtMostOncePerGeneration'
      BY <2>a, <1>a DEF IInv, CurrentEffectInRow, SettledRows,
         AtMostOncePerGeneration
    <2>2. TokensIssued'
      BY <2>a, <1>a, <1>b DEF IInv, TokensIssued
    <2>3. HoldersDiffer'
      BY <2>a, <1>a, <1>b DEF IInv, HoldersDiffer, TokensIssued, InWork
    <2>4. WorkerOwnsRow'
      BY <2>a, <1>a, <1>b DEF IInv, WorkerOwnsRow, HoldersDiffer, InWork
    <2>5. HeldLeasesUnseen'
      BY <2>a, <1>a, <1>b DEF IInv, HeldLeasesUnseen, TokensIssued,
         HoldersDiffer
    <2>6. UnusedLeases'
      BY <2>a, <1>a, <1>b DEF IInv, UnusedLeases, TokensIssued, HoldersDiffer
    <2>7. AppliedLeases'
      BY <2>a, <1>a, <1>b DEF IInv, AppliedLeases, WorkerOwnsRow, InWork,
         OwnEffect
    <2>8. AnswersAreTrue'
      BY <2>a, <1>a, <1>b DEF IInv, AnswersAreTrue, HeldLeasesUnseen,
         UnusedLeases, AppliedLeases, SettledRows, OwnEffect
    <2> QED BY <1>t, <2>1, <2>2, <2>3, <2>4, <2>5, <2>6, <2>7, <2>8 DEF IInv
  <1>15. ASSUME NEW s \in Scopes, Lapse(s)
         PROVE  IInv'
    <2>a. /\ \A q \in Scopes : /\ row'[q].state = row[q].state
                              /\ row'[q].token = row[q].token
                              /\ row'[q].hash = row[q].hash
                              /\ row'[q].result = row[q].result
          /\ UNCHANGED <<issued, pc, call, held, answer, generation, effects>>
      BY <1>15, <1>t, LapseStep
    <2>1. /\ TokensIssued'
          /\ HoldersDiffer'
          /\ UnusedLeases'
          /\ AppliedLeases'
          /\ AtMostOncePerGeneration'
          /\ AnswersAreTrue'
      BY <2>a, <1>a DEF IInv, TokensIssued, HoldersDiffer, UnusedLeases,
         AppliedLeases, OwnEffect, AtMostOncePerGeneration, AnswersAreTrue
    <2>2. WorkerOwnsRow'
      BY <2>a, <1>a, <1>b DEF IInv, WorkerOwnsRow, HoldersDiffer, InWork
    <2>3. HeldLeasesUnseen'
      BY <2>a, <1>a, <1>b DEF IInv, HeldLeasesUnseen, TokensIssued,
         HoldersDiffer
    <2>4. CurrentEffectInRow'
      BY <2>a, <1>a, <1>b DEF IInv, CurrentEffectInRow, UnusedLeases,
         AppliedLeases, WorkerOwnsRow, InWork, OwnEffect
    <2>5. SettledRows'
      BY <2>a, <1>a, <1>b DEF IInv, SettledRows, HeldLeasesUnseen,
         UnusedLeases, AppliedLeases, WorkerOwnsRow, CurrentEffectInRow,
         InWork, OwnEffect
    <2> QED BY <1>t, <2>1, <2>2, <2>3, <2>4, <2>5 DEF IInv
  <1>16. CASE UNCHANGED vars
    BY <1>t, <1>16 DEF IInv, vars, TokensIssued, HoldersDiffer, WorkerOwnsRow,
       HeldLeasesUnseen, UnusedLeases, AppliedLeases, CurrentEffectInRow, SettledRows,
       AtMostOncePerGeneration, AnswersAreTrue, OwnEffect, InWork
  <1> QED
    BY <1>1, <1>2, <1>3, <1>4, <1>5, <1>6, <1>7, <1>8,
       <1>9, <1>10, <1>11, <1>12, <1>13, <1>14, <1>15, <1>16 DEF Next, Step

LEMMA Safety == Spec => []IInv
  BY SafetyInit, SafetyNext, PTL DEF Spec

(* However requests race, crash, outlive their lease or lose an            *)
(* acknowledgement, no two of them are between markDispatched() and the    *)
(* record of the outcome under one Idempotency-Key.                        *)
THEOREM OneWorker == Spec => []SoleWorker
  <1>1. IInv => SoleWorker
    <2> SUFFICES ASSUME IInv, NEW q \in Requests, NEW r \in Requests,
                        pc[q] \in InWork, pc[r] \in InWork, ScopeOf(q) = ScopeOf(r)
                 PROVE  q = r
      BY DEF SoleWorker
    <2>1. held[q] = held[r]
      BY DEF IInv, WorkerOwnsRow, RowOf
    <2>2. held[q] # 0
      BY DEF IInv, HoldersDiffer, InWork
    <2> QED BY <2>1, <2>2 DEF IInv, HoldersDiffer
  <1> QED BY <1>1, Safety, PTL

(* work() has at most one effect per Idempotency-Key and generation.       *)
THEOREM AtMostOnce == Spec => []AtMostOncePerGeneration
  <1>1. IInv => AtMostOncePerGeneration
    BY DEF IInv
  <1> QED BY <1>1, Safety, PTL

(* Between the effect of work() and its record no failure makes the row    *)
(* look free, pending or rejected.                                         *)
THEOREM EffectStaysRecorded == Spec => []EffectIsRecorded
  <1>1. IInv => EffectIsRecorded
    BY DEF IInv, CurrentEffectInRow, EffectIsRecorded
  <1> QED BY <1>1, Safety, PTL

(* What runIdempotentMutation() tells a caller, at once or by replay, is   *)
(* true of the request the caller made.                                    *)
THEOREM TruthfulAnswers == Spec => []AnswersAreTrue
  <1>1. IInv => AnswersAreTrue
    BY DEF IInv
  <1> QED BY <1>1, Safety, PTL

-----------------------------------------------------------------------------
LEMMA StickyNext ==
  IInv /\ [Next]_vars =>
    [\A s \in Scopes :
       row[s].state \in {"dispatched", "indeterminate"} =>
         /\ row'[s].hash = row[s].hash
         /\ \/ /\ row'[s].state \in {"dispatched", "indeterminate"}
               /\ row'[s].token = row[s].token
            \/ row'[s].state \in {"succeeded", "failed"}]_vars
  <1> SUFFICES ASSUME IInv, Next, NEW s \in Scopes,
                      row[s].state \in {"dispatched", "indeterminate"}
               PROVE  /\ row'[s].hash = row[s].hash
                      /\ \/ /\ row'[s].state \in {"dispatched", "indeterminate"}
                            /\ row'[s].token = row[s].token
                         \/ row'[s].state \in {"succeeded", "failed"}
    OBVIOUS
  <1> DEFINE Goal == /\ row'[s].hash = row[s].hash
                     /\ \/ /\ row'[s].state \in {"dispatched", "indeterminate"}
                           /\ row'[s].token = row[s].token
                        \/ row'[s].state \in {"succeeded", "failed"}
  <1>t. TypeOK
    BY DEF IInv
  <1>w. \A r \in Requests : pc[r] \in InWork => RowOf(r).hash = call[r].hash
    BY DEF IInv, WorkerOwnsRow
  <1>1. ASSUME NEW r \in Requests, Acquire(r) PROVE Goal
    BY <1>t, <1>1, AcquireStep DEF RowOf
  <1>2. ASSUME NEW r \in Requests, MarkDispatched(r) PROVE Goal
    BY <1>t, <1>2, MarkDispatchedStep DEF RowOf
  <1>3. ASSUME NEW r \in Requests, Release(r) PROVE Goal
    BY <1>t, <1>3, ReleaseStep DEF RowOf
  <1>4. ASSUME NEW r \in Requests, Complete(r) PROVE Goal
    BY <1>t, <1>w, <1>4, CompleteStep DEF RowOf, InWork
  <1>5. ASSUME NEW r \in Requests, CompleteRejection(r) PROVE Goal
    BY <1>t, <1>w, <1>5, CompleteRejectionStep DEF RowOf, InWork
  <1>6. ASSUME NEW r \in Requests, Retain(r) PROVE Goal
    BY <1>t, <1>6, RetainStep
  <1>7. ASSUME NEW q \in Scopes, Lapse(q) PROVE Goal
    BY <1>t, <1>7, LapseStep
  <1>8. CASE UNCHANGED row
    BY <1>8
  <1> QED
    BY <1>1, <1>2, <1>3, <1>4, <1>5, <1>6, <1>7, <1>8
    DEF Next, Step, Send, Refuse, BeginFails, MarkDispatchedFails, WorkApplies,
        WorkRejects, WorkThrows, Crash

(* A dispatched or indeterminate row never ages out, is never released and *)
(* never changes hands.                                                    *)
THEOREM UnknownOutcomeStays == Spec => UnknownOutcomeSticks
  BY Safety, StickyNext, PTL DEF Spec, UnknownOutcomeSticks

-----------------------------------------------------------------------------
(* RunMutation implements OnceOnly: each step of the ledger and of the     *)
(* function is a step of the contract, or leaves the contract's variables  *)
(* alone.                                                                  *)

Stage == [s \in Scopes |-> StageOf(row[s].state)]
Owner == [s \in Scopes |-> IF StageOf(row[s].state) = "open" THEN None ELSE row[s].hash]
Seen == {[scope |-> e.scope, generation |-> e.generation, hash |-> e.hash] : e \in effects}

LEMMA Stages ==
  /\ StageOf("absent") = "open" /\ StageOf("pending") = "open"
  /\ StageOf("dispatched") = "started" /\ StageOf("indeterminate") = "started"
  /\ StageOf("succeeded") = "done"
  /\ StageOf("failed") = "refused"
  BY DEF StageOf

(* A step that leaves the stage, the owner, the generation and the effects *)
(* of each scope alone is invisible.                                       *)
LEMMA Invisible ==
  ASSUME \A s \in Scopes : \/ row'[s] = row[s]
                           \/ /\ row'[s].hash = row[s].hash
                              /\ StageOf(row'[s].state) = StageOf(row[s].state)
                           \/ /\ StageOf(row[s].state) = "open"
                              /\ StageOf(row'[s].state) = "open",
         UNCHANGED <<generation, effects>>
  PROVE  UNCHANGED Contract!vars
  <1>1. \A s \in Scopes :
          /\ StageOf(row'[s].state) = StageOf(row[s].state)
          /\ (IF StageOf(row'[s].state) = "open" THEN None ELSE row'[s].hash)
               = (IF StageOf(row[s].state) = "open" THEN None ELSE row[s].hash)
    OBVIOUS
  <1>2. Stage' = Stage /\ Owner' = Owner /\ Seen' = Seen
    BY <1>1 DEF Stage, Owner, Seen
  <1> QED BY <1>2 DEF Contract!vars, Stage, Owner, Seen

(* A request that works may still have its effect exactly while it has not *)
(* had it.                                                                 *)
LEMMA NoEffectYet ==
  ASSUME IInv, NEW r \in Requests, pc[r] \in {"working", "rejecting"},
         NEW e \in effects, e.scope = ScopeOf(r)
  PROVE  e.generation # generation[ScopeOf(r)]
  <1>1. RowOf(r).state = "dispatched" /\ RowOf(r).token = held[r]
    BY DEF IInv, WorkerOwnsRow, InWork
  <1>2. e.token # held[r]
    BY DEF IInv, UnusedLeases
  <1> QED BY <1>1, <1>2 DEF IInv, CurrentEffectInRow, RowOf

LEMMA ImplementsInit == Init => Contract!Init
  <1> SUFFICES ASSUME Init PROVE Contract!Init
    OBVIOUS
  <1>1. Stage = [s \in Scopes |-> "open"] /\ Owner = [s \in Scopes |-> None]
    BY Stages DEF Init, Stage, Owner, NoRow
  <1>2. Seen = {} /\ generation = [s \in Scopes |-> 0]
    BY DEF Init, Seen
  <1> QED BY <1>1, <1>2 DEF Contract!Init, Stage, Owner, Seen

LEMMA StageChange ==
  ASSUME NEW k \in Scopes, \A s \in Scopes : s # k => row'[s] = row[s],
         NEW st, st = StageOf(row'[k].state)
  PROVE  /\ Stage' = [Stage EXCEPT ![k] = st]
         /\ Owner' = [Owner EXCEPT ![k] = IF st = "open" THEN None ELSE row'[k].hash]
  BY DEF Stage, Owner

LEMMA AcquireImplements ==
  ASSUME IInv, NEW r \in Requests, NEW k \in Scopes, k = ScopeOf(r), Acquire(r)
  PROVE  Contract!Next \/ UNCHANGED Contract!vars
  <1>t. TypeOK /\ k \in Scopes /\ RowOf(r) = row[k] /\ row[k] \in Row \cup {NoRow}
    BY RequestTypes DEF IInv, RowOf
  <1>a. /\ row'[k].state = "pending"
        /\ \A s \in Scopes : s # k => row'[s] = row[s]
        /\ row[k].state \notin {"dispatched", "indeterminate"}
        /\ generation'[k] = IF row[k].state \in {"succeeded", "failed"}
                              THEN generation[k] + 1 ELSE generation[k]
        /\ \A s \in Scopes : s # k => generation'[s] = generation[s]
        /\ UNCHANGED effects
    BY <1>t, AcquireStep
  <1>g. generation \in [Scopes -> Nat] /\ generation' \in [Scopes -> Nat]
    <2>1. generation' = [generation EXCEPT ![k] =
            IF row[k].state \in {"succeeded", "failed"} THEN generation[k] + 1 ELSE generation[k]]
      BY <1>t DEF Acquire
    <2> QED BY <1>t, <2>1 DEF TypeOK
  <1>1. CASE row[k].state \in {"succeeded", "failed"}
    <2>1. Stage[k] \in {"done", "refused"}
      BY <1>t, <1>1, Stages DEF Stage
    <2>2. Stage' = [Stage EXCEPT ![k] = "open"] /\ Owner' = [Owner EXCEPT ![k] = None]
      BY <1>t, <1>a, Stages, StageChange
    <2>3. generation' = [generation EXCEPT ![k] = generation[k] + 1]
      BY <1>t, <1>a, <1>g, <1>1
    <2>4. Seen' = Seen
      BY <1>a DEF Seen
    <2>5. Contract!Forget(k)
      BY <2>1, <2>2, <2>3, <2>4 DEF Contract!Forget, Stage, Owner, Seen
    <2>6. \E s \in Scopes : Contract!Forget(s)
      BY <1>t, <2>5
    <2> QED BY <2>6 DEF Contract!Next
  <1>2. CASE row[k].state \in {"absent", "pending"}
    <2>1. generation' = generation
      BY <1>t, <1>a, <1>g, <1>2
    <2> QED BY <1>a, <1>2, <2>1, Stages, Invisible
  <1> QED BY <1>t, <1>a, <1>1, <1>2 DEF Row, States, NoRow

LEMMA MarkDispatchedImplements ==
  ASSUME IInv, NEW r \in Requests, MarkDispatched(r),
         NEW k \in Scopes, k = ScopeOf(r), NEW h \in Hashes, h = call[r].hash
  PROVE  Contract!Next
  <1>t. TypeOK /\ k \in Scopes /\ RowOf(r) = row[k]
    BY RequestTypes DEF IInv, RowOf
  <1>a. /\ row[k].state = "pending"
        /\ row'[k].state = "dispatched"
        /\ row'[k].hash = h
        /\ \A s \in Scopes : s # k => row'[s] = row[s]
        /\ UNCHANGED <<generation, effects>>
    BY <1>t, MarkDispatchedStep
  <1>1. Stage[k] = "open"
    BY <1>t, <1>a, Stages DEF Stage
  <1>2. Stage' = [Stage EXCEPT ![k] = "started"] /\ Owner' = [Owner EXCEPT ![k] = h]
    BY <1>t, <1>a, Stages, StageChange
  <1>3. Seen' = Seen
    BY <1>a DEF Seen
  <1>4. Contract!Start(k, h)
    BY <1>a, <1>1, <1>2, <1>3 DEF Contract!Start, Stage, Owner, Seen
  <1>5. \E s \in Scopes, g \in Hashes : Contract!Start(s, g)
    BY <1>t, <1>4
  <1> QED BY <1>5 DEF Contract!Next

LEMMA WorkAppliesImplements ==
  ASSUME IInv, NEW r \in Requests, NEW k \in Scopes, k = ScopeOf(r), WorkApplies(r)
  PROVE  Contract!Next
  <1> DEFINE new == [scope |-> k, generation |-> generation[k], hash |-> call[r].hash]
  <1>t. TypeOK /\ k \in Scopes /\ RowOf(r) = row[k]
    BY RequestTypes DEF IInv, RowOf
  <1>a. /\ effects' = effects \cup {OwnEffect(r)}
        /\ pc[r] = "working"
        /\ UNCHANGED <<row, generation>>
    BY DEF WorkApplies, OwnEffect
  <1>1. row[k].state = "dispatched" /\ row[k].hash = call[r].hash
    BY <1>t, <1>a DEF IInv, WorkerOwnsRow, InWork
  <1>2. Stage[k] = "started" /\ Owner[k] = call[r].hash
    BY <1>t, <1>1, Stages DEF Stage, Owner
  <1>3. \A e \in Seen : e.scope = k => e.generation # generation[k]
    BY <1>a, NoEffectYet DEF Seen
  <1>4. Seen' = Seen \cup {new}
    <2> DEFINE e0 == OwnEffect(r)
    <2>1. new = [scope |-> e0.scope, generation |-> e0.generation, hash |-> e0.hash]
      BY DEF OwnEffect
    <2>2. effects' = effects \cup {e0}
      BY <1>a
    <2> HIDE DEF e0, new
    <2> QED BY <2>1, <2>2 DEF Seen
  <1>5. Stage' = Stage /\ Owner' = Owner
    BY <1>a DEF Stage, Owner
  <1>6. Contract!Effect(k)
    BY <1>a, <1>2, <1>3, <1>4, <1>5 DEF Contract!Effect, Contract!EffectOf, Stage, Owner, Seen
  <1>7. \E s \in Scopes : Contract!Effect(s)
    BY <1>t, <1>6
  <1> QED BY <1>7 DEF Contract!Next

LEMMA SettleImplements ==
  ASSUME IInv, NEW r \in Requests, Complete(r) \/ CompleteRejection(r)
  PROVE  Contract!Next \/ UNCHANGED Contract!vars
  <1> DEFINE k == ScopeOf(r)
             mine == [scope |-> k, generation |-> generation[k], hash |-> call[r].hash]
  <1>t. TypeOK /\ k \in Scopes /\ RowOf(r) = row[k]
    BY RequestTypes DEF IInv, RowOf
  <1>g. UNCHANGED <<generation, effects>>
    BY <1>t, CompleteStep, CompleteRejectionStep
  <1>w. pc[r] \in {"applied", "rejecting"}
    BY <1>t, CompleteStep, CompleteRejectionStep
  <1>1. row[k].state = "dispatched" /\ row[k].hash = call[r].hash
    BY <1>t, <1>w DEF IInv, WorkerOwnsRow, InWork
  <1>2. Stage[k] = "started" /\ Owner[k] = call[r].hash
    BY <1>t, <1>1, Stages DEF Stage, Owner
  <1>3. CASE row' = row
    BY <1>3, <1>g, Invisible
  <1>4. ASSUME NEW st \in {"done", "refused"}, StageOf(row'[k].state) = st,
               st = (IF mine \in Seen THEN "done" ELSE "refused"),
               row'[k].hash = call[r].hash, \A s \in Scopes : s # k => row'[s] = row[s]
        PROVE  Contract!Next
    <2>1. Stage' = [Stage EXCEPT ![k] = st] /\ Owner' = [Owner EXCEPT ![k] = call[r].hash]
      BY <1>t, <1>4, StageChange
    <2>2. Owner' = Owner
      BY <1>2, <2>1 DEF Owner
    <2>3. Seen' = Seen
      BY <1>g DEF Seen
    <2>4. Contract!Settle(k)
      BY <1>2, <1>4, <1>g, <2>1, <2>2, <2>3
      DEF Contract!Settle, Contract!EffectOf, Stage, Owner, Seen
    <2> QED BY <1>t, <2>4 DEF Contract!Next
  <1>5. ASSUME Complete(r), row' # row PROVE Contract!Next
    <2>1. OwnEffect(r) \in effects
      BY <1>t, <1>5, CompleteStep DEF IInv, AppliedLeases
    <2>2. mine \in Seen
      BY <2>1 DEF Seen, OwnEffect
    <2>3. /\ StageOf(row'[k].state) = "done"
          /\ row'[k].hash = call[r].hash
          /\ \A s \in Scopes : s # k => row'[s] = row[s]
      BY <1>t, <1>5, CompleteStep, Stages
    <2> HIDE DEF k, mine
    <2> QED BY <1>4, <2>2, <2>3
  <1>6. ASSUME CompleteRejection(r), row' # row PROVE Contract!Next
    <2>1. pc[r] = "rejecting"
      BY <1>t, <1>6, CompleteRejectionStep
    <2>2. mine \notin Seen
      BY <2>1, NoEffectYet DEF Seen
    <2>3. /\ StageOf(row'[k].state) = "refused"
          /\ row'[k].hash = call[r].hash
          /\ \A s \in Scopes : s # k => row'[s] = row[s]
      BY <1>t, <1>6, CompleteRejectionStep, Stages
    <2> HIDE DEF k, mine
    <2> QED BY <1>4, <2>2, <2>3
  <1> QED BY <1>3, <1>5, <1>6

LEMMA ImplementsNext == IInv /\ [Next]_vars => [Contract!Next]_(Contract!vars)
  <1> SUFFICES ASSUME IInv, [Next]_vars
               PROVE  Contract!Next \/ UNCHANGED Contract!vars
    OBVIOUS
  <1>t. TypeOK
    BY DEF IInv
  <1>1. ASSUME NEW r \in Requests, Release(r) PROVE UNCHANGED Contract!vars
    <2>1. UNCHANGED <<generation, effects>>
      BY <1>t, <1>1, ReleaseStep
    <2>2. CASE row' = row
      BY <2>1, <2>2, Invisible
    <2>3. CASE /\ row'[ScopeOf(r)] = NoRow
               /\ row[ScopeOf(r)].state = "pending"
               /\ \A s \in Scopes : s # ScopeOf(r) => row'[s] = row[s]
      <3>1. row'[ScopeOf(r)].state = "absent"
        BY <2>3 DEF NoRow
      <3>2. \A s \in Scopes : \/ row'[s] = row[s]
                             \/ /\ StageOf(row[s].state) = "open"
                                /\ StageOf(row'[s].state) = "open"
        BY <2>3, <3>1, Stages
      <3> QED BY <2>1, <3>2, Invisible
    <2> QED BY <1>t, <1>1, <2>2, <2>3, ReleaseStep DEF RowOf
  <1>2. ASSUME NEW r \in Requests, Retain(r) PROVE UNCHANGED Contract!vars
    BY <1>t, <1>2, RetainStep, Stages, Invisible
  <1>3. ASSUME NEW s \in Scopes, Lapse(s) PROVE UNCHANGED Contract!vars
    BY <1>t, <1>3, LapseStep, Invisible
  <1>4. CASE UNCHANGED <<row, generation, effects>>
    BY <1>4, Invisible
  <1>5. ASSUME NEW r \in Requests, Acquire(r) \/ MarkDispatched(r) \/ WorkApplies(r)
        PROVE  Contract!Next \/ UNCHANGED Contract!vars
    <2>1. ScopeOf(r) \in Scopes /\ call[r].hash \in Hashes
      BY <1>t, RequestTypes
    <2>2. PICK k \in Scopes, h \in Hashes : k = ScopeOf(r) /\ h = call[r].hash
      BY <2>1
    <2> QED BY <1>5, <2>2, AcquireImplements, MarkDispatchedImplements, WorkAppliesImplements
  <1> QED
    BY <1>1, <1>2, <1>3, <1>4, <1>5, SettleImplements
    DEF Next, Step, Send, Refuse, BeginFails, MarkDispatchedFails,
        WorkRejects, WorkThrows, Crash, vars

(* The durable ledger and runIdempotentMutation(), with all their leases,  *)
(* races, crashes and lost acknowledgements, implement the contract of     *)
(* OnceOnly.                                                               *)
THEOREM Implements == Spec => KeepsContract
  <1>1. Spec => []IInv
    BY Safety
  <1>2. Init => Contract!Init
    BY ImplementsInit
  <1>3. IInv /\ [Next]_vars => [Contract!Next]_(Contract!vars)
    BY ImplementsNext
  <1> QED BY <1>1, <1>2, <1>3, PTL DEF Spec, KeepsContract, Contract!Spec
=============================================================================
