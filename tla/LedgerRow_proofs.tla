-------------------------- MODULE LedgerRow_proofs --------------------------
(***************************************************************************)
(* What each transition of a ledger row yields, and that it stays a row.   *)
(***************************************************************************)
EXTENDS LedgerRow, TLAPS

LEMMA AcquiredRow ==
  ASSUME NEW x \in Row \cup {NoRow}, NEW h \in Hashes, NEW t \in Nat,
         Acquirable(x, h)
  PROVE  /\ Acquired(x, h, t) \in Row
         /\ Acquired(x, h, t).state = "pending"
         /\ Acquired(x, h, t).token = t
         /\ Acquired(x, h, t).result \in {x.result, NoResult}
  <1>1. CASE x.state = "pending"
    <2>1. x \in Row
      BY <1>1 DEF NoRow
    <2>2. Acquired(x, h, t) = [x EXCEPT !.token = t, !.live = TRUE]
      BY <1>1 DEF Acquired
    <2> QED BY <1>1, <2>1, <2>2 DEF Row
  <1>2. CASE x.state # "pending"
    <2>1. Acquired(x, h, t) = [state |-> "pending", hash |-> h, token |-> t,
                               live |-> TRUE, result |-> NoResult]
      BY <1>2 DEF Acquired
    <2> QED BY <2>1 DEF Row, States
  <1> QED BY <1>1, <1>2

LEMMA PresentRow ==
  ASSUME NEW x \in Row \cup {NoRow}, x.state # "absent" \/ x.live
  PROVE  x \in Row
  BY DEF NoRow

LEMMA MarkedDispatchedRow ==
  ASSUME NEW x \in Row \cup {NoRow}, NEW l, CanMarkDispatched(x, l)
  PROVE  /\ MarkedDispatched(x) \in Row
         /\ MarkedDispatched(x).state = "dispatched"
         /\ MarkedDispatched(x).token = l.token
         /\ MarkedDispatched(x).hash = l.hash
         /\ MarkedDispatched(x).result = x.result
         /\ x.state = "pending"
  <1>1. x.state = "pending" /\ x.token = l.token /\ x.hash = l.hash
    BY DEF CanMarkDispatched, HoldsLease
  <1>2. x \in Row
    BY <1>1, PresentRow
  <1> QED BY <1>1, <1>2 DEF MarkedDispatched, Row, States

LEMMA SettlingRow ==
  ASSUME NEW x \in Row \cup {NoRow}, NEW l, CanSettle(x, l)
  PROVE  /\ x \in Row
         /\ x.state \in {"dispatched", "indeterminate"}
         /\ x.token = l.token
         /\ x.hash = l.hash
  <1>1. /\ x.state \in {"dispatched", "indeterminate"}
        /\ x.token = l.token
        /\ x.hash = l.hash
    BY DEF CanSettle, HoldsLease
  <1> QED BY <1>1, PresentRow

LEMMA CompletedRow ==
  ASSUME NEW x \in Row, NEW res \in Result
  PROVE  /\ Completed(x, res) \in Row
         /\ Completed(x, res).state = Settled(res.status)
         /\ Completed(x, res).token = 0
         /\ Completed(x, res).hash = x.hash
         /\ Completed(x, res).result = res
  <1>1. Settled(res.status) \in States
    BY DEF Settled, States
  <1> QED BY <1>1 DEF Completed, Row

LEMMA MarkedIndeterminateRow ==
  ASSUME NEW x \in Row
  PROVE  /\ MarkedIndeterminate(x) \in Row
         /\ MarkedIndeterminate(x).state = "indeterminate"
         /\ MarkedIndeterminate(x).token = x.token
         /\ MarkedIndeterminate(x).hash = x.hash
         /\ MarkedIndeterminate(x).result = x.result
  BY DEF MarkedIndeterminate, Row, States

LEMMA LapsedRow ==
  ASSUME NEW x \in Row
  PROVE  /\ Lapsed(x) \in Row
         /\ Lapsed(x).state = x.state
         /\ Lapsed(x).token = x.token
         /\ Lapsed(x).hash = x.hash
         /\ Lapsed(x).result = x.result
  BY DEF Lapsed, Row

LEMMA ReleasedRow ==
  ASSUME NEW x \in Row \cup {NoRow}, NEW l
  PROVE  \/ Released(x, l) = x
         \/ Released(x, l) = NoRow /\ x.state = "pending"
  BY DEF Released, HoldsLease
=============================================================================
