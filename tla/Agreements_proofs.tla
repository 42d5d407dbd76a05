------------------------- MODULE Agreements_proofs --------------------------
(***************************************************************************)
(* Theorems about parties that judge the same thing apart from each other  *)
(* and have to agree, each for every value of its constants:               *)
(*                                                                         *)
(* the two stores of the ledger (LedgerParity),                            *)
(* one release of a document and the next (ContractDrift),                 *)
(* who configures or calls a gateway and the gateway (Gateways),           *)
(* a client's schemas and those of the routes (Exchanges),                 *)
(* a list of posts and the walk over its pages (PostPages),                *)
(* a questionnaire and what is stored of its answers (Questionnaires).     *)
(*                                                                         *)
(* The six share no state.                                                 *)
(***************************************************************************)
EXTENDS LedgerParity, LedgerRow_proofs, ContractDrift, Gateways, Exchanges, PostPages, Questionnaires,
        FiniteSetTheorems, SequenceTheorems, WellFoundedInduction

-----------------------------------------------------------------------------
(* The two stores of the ledger, for any fingerprints and any number of    *)
(* leases: until the first expiry the in-memory store is the image of the  *)
(* database row (Twins), so that both answer alike; after it they may part, *)
(* and a lease that both still have on record is in the same state in both *)
(* (SameLeaseSameState), because tokens are never handed out twice         *)
(* (TokensAreIssued).  Neither loses a command that may have run.          *)

MemoryRow == [state : MemoryStates, hash : Hashes, token : Nat, live : BOOLEAN,
              result : Result \cup {NoResult}]

TokensAreIssued == row.token <= issued /\ record.token <= issued

Twins ==
  fresh =>
    /\ record.state = SnapshotState(row.state)
    /\ record.hash = row.hash /\ record.token = row.token
    /\ (record.live <=> row.live) /\ record.result = row.result
    /\ row.live \/ row.state = "absent"

IInv == TypeOK /\ TokensAreIssued /\ Twins /\ SameLeaseSameState /\ AgreeUntilExpiry

(* Initially both stores are empty. *)
THEOREM InitIInv == Init => IInv
<1>. SUFFICES ASSUME Init PROVE IInv
  OBVIOUS
<1>1. TypeOK
  <2>1. Reply("none") \in Replies
    BY DEF Reply, Replies
  <2>. QED
    BY <2>1, MaxLeasesAssumption DEF Init, TypeOK
<1>. QED
  BY <1>1 DEF Init, NoRow, IInv, TokensAreIssued, Twins, SnapshotState, SameLeaseSameState, AgreeUntilExpiry

-----------------------------------------------------------------------------
(* What each transition makes of the record that is kept in memory. *)
LEMMA MemoryRows ==
  ASSUME NEW x \in MemoryRow
  PROVE  /\ MarkedDispatched(x) \in MemoryRow
         /\ MarkedDispatched(x).state = "dispatched" /\ MarkedDispatched(x).token = x.token
         /\ MarkedDispatched(x).hash = x.hash /\ MarkedDispatched(x).result = x.result
         /\ MarkedDispatched(x).live
         /\ MarkedIndeterminate(x) \in MemoryRow
         /\ MarkedIndeterminate(x).state = "indeterminate" /\ MarkedIndeterminate(x).token = x.token
         /\ MarkedIndeterminate(x).hash = x.hash /\ MarkedIndeterminate(x).result = x.result
         /\ MarkedIndeterminate(x).live
         /\ Lapsed(x) \in MemoryRow
         /\ Lapsed(x).state = x.state /\ Lapsed(x).token = x.token
         /\ Lapsed(x).hash = x.hash /\ Lapsed(x).result = x.result
  BY DEF MarkedDispatched, MarkedIndeterminate, Lapsed, MemoryRow, MemoryStates

LEMMA MemoryCompleted ==
  ASSUME NEW x \in MemoryRow, NEW res \in Result
  PROVE  LET y == [Completed(x, res) EXCEPT !.state = "completed"]
         IN  /\ y \in MemoryRow /\ y.state = "completed" /\ y.token = 0
             /\ y.hash = x.hash /\ y.result = res /\ y.live
  BY DEF Completed, MemoryRow, MemoryStates

LEMMA MemoryAcquired ==
  ASSUME NEW h \in Hashes, NEW t \in Nat
  PROVE  LET y == [Acquired(NoRow, h, t) EXCEPT !.state = "acquired"]
         IN  /\ y \in MemoryRow /\ y.state = "acquired" /\ y.token = t
             /\ y.hash = h /\ y.result = NoResult /\ y.live
  BY DEF Acquired, NoRow, MemoryRow, MemoryStates

(* The rows of the database are live again after each. *)
LEMMA RowsLive ==
  ASSUME NEW x \in Row
  PROVE  /\ MarkedDispatched(x).live /\ MarkedIndeterminate(x).live = TRUE
         /\ \A res \in Result : Completed(x, res).live
         /\ \A h \in Hashes, t \in Nat : Acquired(x, h, t).live /\ Acquired(x, h, t).hash \in {x.hash, h}
  BY DEF MarkedDispatched, MarkedIndeterminate, Completed, Acquired, Row

(* The names of the states, and the replies. *)
LEMMA SnapshotStates ==
  /\ SnapshotState("absent") = "absent" /\ SnapshotState("pending") = "acquired"
  /\ SnapshotState("dispatched") = "dispatched" /\ SnapshotState("indeterminate") = "indeterminate"
  /\ SnapshotState("succeeded") = "completed" /\ SnapshotState("failed") = "completed"
  BY DEF SnapshotState

LEMMA ReplyTypes ==
  \A kind \in {"none", "ok", "acquired", "completed", "request_mismatch", "in_progress",
               "indeterminate", "lease_lost", "not_found", "state_conflict", "snapshot"} :
    Reply(kind) \in Replies
  BY DEF Reply, Replies

-----------------------------------------------------------------------------
(* A step that draws no token: what either entry may become, and that the  *)
(* entries move together where they are twins or under one lease, unless   *)
(* the record is dropped.                                                  *)
StepsRow == row' = row \/ row' = NoRow \/ (row' \in Row /\ row'.token \in {row.token, 0} /\ row'.live)
StepsRecord ==
  \/ record' = record \/ record' = NoRow
  \/ record' \in MemoryRow /\ record'.token \in {record.token, 0} /\ record'.live

Alike == fresh \/ (row.token # 0 /\ row.token = record.token)

Together ==
  /\ record'.state = SnapshotState(row'.state)
  /\ record'.hash = row'.hash /\ record'.token = row'.token
  /\ fresh => (record'.live <=> row'.live) /\ record'.result = row'.result

LEMMA AlikeEntries ==
  ASSUME IInv, Alike
  PROVE  /\ record.state = SnapshotState(row.state)
         /\ record.hash = row.hash /\ record.token = row.token
         /\ fresh => (record.live <=> row.live) /\ record.result = row.result
  BY DEF IInv, Alike, Twins, SameLeaseSameState

LEMMA StepKeeps ==
  ASSUME IInv, UNCHANGED <<issued, fresh>>, StepsRow, StepsRecord,
         Alike => Together \/ (~fresh /\ record' = NoRow),
         replies' \in [prisma : Replies, memory : Replies],
         fresh => replies'.prisma = replies'.memory
  PROVE  IInv'
<1>1. TypeOK'
  BY DEF IInv, TypeOK, StepsRow, StepsRecord, MemoryRow
<1>2. TokensAreIssued'
  BY DEF IInv, TypeOK, TokensAreIssued, StepsRow, StepsRecord, NoRow
<1>3. Twins'
  BY DEF IInv, Twins, Alike, Together, StepsRow, NoRow
<1>4. SameLeaseSameState'
  BY DEF IInv, SameLeaseSameState, Alike, Together, StepsRow, StepsRecord, NoRow
<1>5. AgreeUntilExpiry'
  BY DEF AgreeUntilExpiry
<1>. QED
  BY <1>1, <1>2, <1>3, <1>4, <1>5 DEF IInv

(* A lease is held in both stores or in none, while the entries are alike. *)
LEMMA LeaseHolds ==
  ASSUME IInv, NEW h \in Hashes, NEW t \in 1..issued, NEW l, l = [hash |-> h, token |-> t]
  PROVE  /\ CanMarkDispatched(row, l) \/ CanSettle(row, l) => row \in Row /\ row.token = t
         /\ HoldsLease(record, l, {"acquired"}) \/ CanSettle(record, l) => record \in MemoryRow /\ record.token = t
         /\ Alike => /\ CanMarkDispatched(row, l) <=> HoldsLease(record, l, {"acquired"})
                     /\ CanSettle(row, l) <=> CanSettle(record, l)
<1>1. row \in Row \cup {NoRow} /\ record \in MemoryRow \cup {NoRow} /\ row.state \in States \cup {"absent"}
  BY DEF IInv, TypeOK, MemoryRow, Row, NoRow
<1>. QED
  BY <1>1, AlikeEntries DEF CanMarkDispatched, CanSettle, HoldsLease, SnapshotState, States, NoRow

LEMMA MarkDispatchedKeeps ==
  ASSUME IInv, NEW h \in Hashes, NEW t \in 1..issued, MarkDispatched([hash |-> h, token |-> t])
  PROVE  IInv'
<1>. DEFINE l == [hash |-> h, token |-> t]
            holds == CanMarkDispatched(row, l)
            recordHolds == HoldsLease(record, l, {"acquired"})
<1>1. /\ row' = IF holds THEN MarkedDispatched(row) ELSE row
      /\ record' = IF recordHolds THEN MarkedDispatched(record) ELSE record
      /\ replies' = [prisma |-> Reply(IF holds THEN "ok" ELSE "lease_lost"),
                     memory |-> Reply(IF recordHolds THEN "ok" ELSE "lease_lost")]
      /\ UNCHANGED <<issued, fresh>>
  BY DEF MarkDispatched, UnderLease
<1>2. /\ holds => row \in Row /\ row.token = t
      /\ recordHolds => record \in MemoryRow /\ record.token = t
      /\ Alike => (holds <=> recordHolds)
  BY LeaseHolds
<1>3. holds => /\ MarkedDispatched(row) \in Row /\ MarkedDispatched(row).live
               /\ MarkedDispatched(row).state = "dispatched" /\ MarkedDispatched(row).token = row.token
               /\ MarkedDispatched(row).hash = row.hash /\ MarkedDispatched(row).result = row.result
  <2>. SUFFICES ASSUME holds
                PROVE  /\ MarkedDispatched(row) \in Row /\ MarkedDispatched(row).live
                       /\ MarkedDispatched(row).state = "dispatched" /\ MarkedDispatched(row).token = row.token
                       /\ MarkedDispatched(row).hash = row.hash /\ MarkedDispatched(row).result = row.result
    OBVIOUS
  <2>1. row \in Row /\ CanMarkDispatched(row, l)
    BY <1>2
  <2>2. row.token = l.token /\ row.hash = l.hash
    BY <2>1 DEF CanMarkDispatched, HoldsLease
  <2>3. MarkedDispatched(row).live
    BY <2>1, RowsLive
  <2>. HIDE DEF l, holds
  <2>. QED
    BY <2>1, <2>2, <2>3, MarkedDispatchedRow
<1>. HIDE DEF holds, recordHolds
<1>4. StepsRow /\ StepsRecord
  BY <1>1, <1>2, <1>3, MemoryRows DEF StepsRow, StepsRecord
<1>5. Alike => Together
  <2>. SUFFICES ASSUME Alike PROVE Together
    OBVIOUS
  <2>1. CASE holds /\ recordHolds
    BY <2>1, <1>1, <1>2, <1>3, MemoryRows, SnapshotStates, AlikeEntries DEF Together
  <2>2. CASE ~holds /\ ~recordHolds
    BY <2>2, <1>1, AlikeEntries DEF Together
  <2>. QED
    BY <1>2, <2>1, <2>2
<1>6. replies' \in [prisma : Replies, memory : Replies]
  BY <1>1, ReplyTypes
<1>7. fresh => replies'.prisma = replies'.memory
  BY <1>1, <1>2 DEF Alike
<1>. QED
  BY <1>1, <1>4, <1>5, <1>6, <1>7, StepKeeps

LEMMA CompleteKeeps ==
  ASSUME IInv, NEW h \in Hashes, NEW t \in 1..issued, NEW status \in Statuses,
         Complete([hash |-> h, token |-> t], status)
  PROVE  IInv'
<1>. DEFINE l == [hash |-> h, token |-> t]
            res == [status |-> status, token |-> l.token]
            holds == CanSettle(row, l)
            recordHolds == CanSettle(record, l)
<1>1. /\ row' = IF holds THEN Completed(row, res) ELSE row
      /\ record' = IF recordHolds THEN [Completed(record, res) EXCEPT !.state = "completed"] ELSE record
      /\ replies' = [prisma |-> Reply(IF holds THEN "ok" ELSE "lease_lost"),
                     memory |-> Reply(IF recordHolds THEN "ok" ELSE "lease_lost")]
      /\ UNCHANGED <<issued, fresh>>
  BY DEF Complete, UnderLease
<1>2. /\ holds => row \in Row /\ row.token = t
      /\ recordHolds => record \in MemoryRow /\ record.token = t
      /\ Alike => (holds <=> recordHolds)
  BY LeaseHolds
<1>3. res \in Result
  BY DEF IInv, TypeOK, Result
<1>. HIDE DEF holds, recordHolds, res
<1>4. holds => /\ Completed(row, res) \in Row /\ Completed(row, res).live
               /\ SnapshotState(Completed(row, res).state) = "completed" /\ Completed(row, res).token = 0
               /\ Completed(row, res).hash = row.hash /\ Completed(row, res).result = res
  <2>. SUFFICES ASSUME holds PROVE /\ Completed(row, res) \in Row /\ Completed(row, res).live
                 /\ SnapshotState(Completed(row, res).state) = "completed" /\ Completed(row, res).token = 0
                 /\ Completed(row, res).hash = row.hash /\ Completed(row, res).result = res
    OBVIOUS
  <2>1. Settled(res.status) \in {"succeeded", "failed"}
    BY DEF Settled
  <2>2. Completed(row, res).live
    BY <1>2, <1>3, RowsLive
  <2>. QED
    BY <1>2, <1>3, <2>1, <2>2, CompletedRow, SnapshotStates
<1>5. StepsRow /\ StepsRecord
  BY <1>1, <1>2, <1>3, <1>4, MemoryCompleted DEF StepsRow, StepsRecord
<1>6. Alike => Together
  <2>. SUFFICES ASSUME Alike PROVE Together
    OBVIOUS
  <2>1. CASE holds /\ recordHolds
    BY <2>1, <1>1, <1>2, <1>3, <1>4, MemoryCompleted, AlikeEntries DEF Together
  <2>2. CASE ~holds /\ ~recordHolds
    BY <2>2, <1>1, AlikeEntries DEF Together
  <2>. QED
    BY <1>2, <2>1, <2>2
<1>7. replies' \in [prisma : Replies, memory : Replies]
  BY <1>1, ReplyTypes
<1>8. fresh => replies'.prisma = replies'.memory
  BY <1>1, <1>2 DEF Alike
<1>. QED
  BY <1>1, <1>5, <1>6, <1>7, <1>8, StepKeeps

LEMMA MarkIndeterminateKeeps ==
  ASSUME IInv, NEW h \in Hashes, NEW t \in 1..issued, MarkIndeterminate([hash |-> h, token |-> t])
  PROVE  IInv'
<1>. DEFINE l == [hash |-> h, token |-> t]
            holds == CanSettle(row, l)
            recordHolds == CanSettle(record, l)
<1>1. /\ row' = IF holds THEN MarkedIndeterminate(row) ELSE row
      /\ record' = IF recordHolds THEN MarkedIndeterminate(record) ELSE record
      /\ replies' = [prisma |-> Reply(IF holds THEN "ok" ELSE "lease_lost"),
                     memory |-> Reply(IF recordHolds THEN "ok" ELSE "lease_lost")]
      /\ UNCHANGED <<issued, fresh>>
  BY DEF MarkIndeterminate, UnderLease
<1>2. /\ holds => row \in Row /\ row.token = t
      /\ recordHolds => record \in MemoryRow /\ record.token = t
      /\ Alike => (holds <=> recordHolds)
  BY LeaseHolds
<1>. HIDE DEF holds, recordHolds
<1>3. StepsRow /\ StepsRecord
  BY <1>1, <1>2, MarkedIndeterminateRow, RowsLive, MemoryRows DEF StepsRow, StepsRecord
<1>4. Alike => Together
  <2>. SUFFICES ASSUME Alike PROVE Together
    OBVIOUS
  <2>1. CASE holds /\ recordHolds
    <3>1. /\ MarkedIndeterminate(row).state = "indeterminate" /\ MarkedIndeterminate(row).live
          /\ MarkedIndeterminate(row).token = row.token /\ MarkedIndeterminate(row).hash = row.hash
          /\ MarkedIndeterminate(row).result = row.result
      BY <1>2, <2>1, MarkedIndeterminateRow, RowsLive
    <3>. QED
      BY <2>1, <3>1, <1>1, <1>2, MemoryRows, SnapshotStates, AlikeEntries DEF Together
  <2>2. CASE ~holds /\ ~recordHolds
    BY <2>2, <1>1, AlikeEntries DEF Together
  <2>. QED
    BY <1>2, <2>1, <2>2
<1>5. replies' \in [prisma : Replies, memory : Replies]
  BY <1>1, ReplyTypes
<1>6. fresh => replies'.prisma = replies'.memory
  BY <1>1, <1>2 DEF Alike
<1>. QED
  BY <1>1, <1>3, <1>4, <1>5, <1>6, StepKeeps

LEMMA ReleaseKeeps ==
  ASSUME IInv, NEW h \in Hashes, NEW t \in 1..issued, ReleaseBeforeDispatch([hash |-> h, token |-> t])
  PROVE  IInv'
<1>. DEFINE l == [hash |-> h, token |-> t]
            holds == CanMarkDispatched(row, l)
            recordHolds == HoldsLease(record, l, {"acquired"})
<1>1. /\ row' = IF holds THEN NoRow ELSE row
      /\ record' = IF recordHolds THEN NoRow ELSE record
      /\ replies' = [prisma |-> Reply("ok"), memory |-> Reply("ok")]
      /\ UNCHANGED <<issued, fresh>>
  BY DEF ReleaseBeforeDispatch, Released, CanMarkDispatched
<1>2. Alike => (holds <=> recordHolds)
  BY LeaseHolds
<1>. HIDE DEF holds, recordHolds
<1>3. StepsRow /\ StepsRecord
  BY <1>1 DEF StepsRow, StepsRecord
<1>4. Alike => Together
  BY <1>1, <1>2, SnapshotStates, AlikeEntries DEF Together, NoRow
<1>5. replies' \in [prisma : Replies, memory : Replies]
  BY <1>1, ReplyTypes
<1>. QED
  BY <1>1, <1>3, <1>4, <1>5, StepKeeps

-----------------------------------------------------------------------------
(* The calls without a lease. *)
LEMMA Entries ==
  ASSUME IInv
  PROVE  /\ row \in Row \cup {NoRow} /\ row.state \in States \cup {"absent"}
         /\ row.state = "absent" <=> row = NoRow
         /\ record \in MemoryRow \cup {NoRow} /\ record.state \in MemoryStates \cup {"absent"}
         /\ record.state = "absent" <=> record = NoRow
  BY DEF IInv, TypeOK, MemoryRow, Row, NoRow, MemoryStates, States

LEMMA ResolveKeeps ==
  ASSUME IInv, NEW h \in Hashes, NEW status \in Statuses, ResolveIndeterminate(h, status)
  PROVE  IInv'
<1>. DEFINE res == [status |-> status, token |-> 0]
            can == CanResolve(row, h)
            recordCan == CanResolve(record, h)
<1>1. /\ row' = IF can THEN Completed(row, res) ELSE row
      /\ record' = IF recordCan THEN [Completed(record, res) EXCEPT !.state = "completed"] ELSE record
      /\ replies' = [prisma |-> ResolveReply(row, h), memory |-> ResolveReply(record, h)]
      /\ UNCHANGED <<issued, fresh>>
  BY DEF ResolveIndeterminate
<1>2. /\ can => row \in Row
      /\ recordCan => record \in MemoryRow
      /\ Alike => (can <=> recordCan)
  BY Entries, AlikeEntries DEF CanResolve, SnapshotState, States
<1>3. res \in Result
  BY DEF Result
<1>4. fresh => ResolveReply(row, h) = ResolveReply(record, h)
  <2>. SUFFICES ASSUME fresh PROVE ResolveReply(row, h) = ResolveReply(record, h)
    OBVIOUS
  <2>1. row.state = "absent" <=> record.state = "absent"
    BY Entries, AlikeEntries DEF Alike, SnapshotState, States
  <2>2. Mismatch(row, h) <=> Mismatch(record, h)
    BY <2>1, AlikeEntries DEF Alike, Mismatch
  <2>3. can <=> recordCan
    BY <1>2 DEF Alike
  <2>. QED
    BY <2>1, <2>2, <2>3 DEF ResolveReply
<1>5. ResolveReply(row, h) \in Replies /\ ResolveReply(record, h) \in Replies
  BY ReplyTypes DEF ResolveReply
<1>. HIDE DEF can, recordCan, res
<1>6. can => /\ Completed(row, res) \in Row /\ Completed(row, res).live
             /\ SnapshotState(Completed(row, res).state) = "completed" /\ Completed(row, res).token = 0
             /\ Completed(row, res).hash = row.hash /\ Completed(row, res).result = res
  <2>1. Settled(res.status) \in {"succeeded", "failed"}
    BY DEF Settled
  <2>2. can => Completed(row, res).live
    BY <1>2, <1>3, RowsLive
  <2>. QED
    BY <1>2, <1>3, <2>1, <2>2, CompletedRow, SnapshotStates
<1>7. StepsRow /\ StepsRecord
  BY <1>1, <1>2, <1>3, <1>6, MemoryCompleted DEF StepsRow, StepsRecord
<1>8. Alike => Together
  <2>1. CASE can /\ recordCan
    BY <2>1, <1>1, <1>2, <1>3, <1>6, MemoryCompleted, AlikeEntries DEF Together
  <2>2. CASE ~can /\ ~recordCan
    BY <2>2, <1>1, AlikeEntries DEF Together
  <2>. QED
    BY <1>2, <2>1, <2>2
<1>. QED
  BY <1>1, <1>4, <1>5, <1>7, <1>8, StepKeeps

(* What cleanup() leaves of the record: all of it before the first expiry. *)
LEMMA CleanedRecord ==
  ASSUME IInv
  PROVE  /\ Cleaned(record) \in {record, NoRow}
         /\ fresh => Cleaned(record) = record
         /\ record.state \in {"dispatched", "indeterminate"} => Cleaned(record) = record
  BY Entries DEF Cleaned, IInv, Twins, NoRow, SnapshotState, States

LEMMA CleanupKeeps ==
  ASSUME IInv, record' = Cleaned(record), UNCHANGED <<row, issued, fresh>>,
         replies' \in [prisma : Replies, memory : Replies],
         fresh => replies'.prisma = replies'.memory
  PROVE  IInv'
<1>1. StepsRow /\ StepsRecord
  BY CleanedRecord DEF StepsRow, StepsRecord
<1>2. Alike => Together \/ (~fresh /\ record' = NoRow)
  BY CleanedRecord, AlikeEntries DEF Together
<1>. QED
  BY <1>1, <1>2, StepKeeps

LEMMA SnapshotTypes ==
  ASSUME IInv, NEW entry \in {row, record, NoRow}
  PROVE  Snapshot(entry) \in Replies
<1>1. CASE entry.state = "absent"
  BY <1>1, ReplyTypes DEF Snapshot
<1>2. CASE entry.state # "absent"
  <2>1. entry \in Row \cup MemoryRow /\ SnapshotState(entry.state) \in MemoryStates
    BY <1>2, Entries DEF NoRow, SnapshotState, States, MemoryStates
  <2>2. entry.hash \in Hashes /\ entry.result \in Result \cup {NoResult}
    BY <2>1 DEF Row, MemoryRow
  <2>. QED
    BY <1>2, <2>1, <2>2 DEF Snapshot, Replies
<1>. QED
  BY <1>1, <1>2

LEMMA GetKeeps ==
  ASSUME IInv, Get
  PROVE  IInv'
<1>1. Snapshot(row) \in Replies /\ Snapshot(Cleaned(record)) \in Replies
  BY SnapshotTypes, CleanedRecord
<1>2. fresh => Snapshot(row) = Snapshot(Cleaned(record))
  <2>. SUFFICES ASSUME fresh PROVE Snapshot(row) = Snapshot(record)
    BY CleanedRecord
  <2>1. row.state = "absent" <=> record.state = "absent"
    BY Entries, AlikeEntries DEF Alike, SnapshotState, States
  <2>2. SnapshotState(record.state) = SnapshotState(row.state)
    BY Entries, AlikeEntries DEF Alike, SnapshotState, States
  <2>. QED
    BY <2>1, <2>2, AlikeEntries DEF Alike, Snapshot
<1>. QED
  BY <1>1, <1>2, CleanupKeeps DEF Get

LEMMA OtherScopeKeeps ==
  ASSUME IInv, OtherScope
  PROVE  IInv'
  BY CleanupKeeps DEF OtherScope, IInv, TypeOK, AgreeUntilExpiry

LEMMA LapseKeeps ==
  ASSUME IInv, Lapse
  PROVE  IInv'
<1>. Lapsed(NoRow) = NoRow
  <2>1. NoRow \in [DOMAIN NoRow -> {NoRow[f] : f \in DOMAIN NoRow}] /\ NoRow.live = FALSE
    BY DEF NoRow
  <2>. HIDE DEF NoRow
  <2>. QED
    BY <2>1 DEF Lapsed
<1>1. /\ row' \in Row \cup {NoRow} /\ row'.state = row.state /\ row'.token = row.token /\ row'.hash = row.hash
  BY Entries, LapsedRow DEF Lapse
<1>2. /\ record' \in MemoryRow \cup {NoRow} /\ record'.state = record.state
      /\ record'.token = record.token /\ record'.hash = record.hash
  BY Entries, MemoryRows DEF Lapse
<1>. QED
  BY <1>1, <1>2 DEF Lapse, IInv, TypeOK, MemoryRow, TokensAreIssued, Twins, SameLeaseSameState, AgreeUntilExpiry

-----------------------------------------------------------------------------
(* begin(): both entries are taken, or one with a token the other never    *)
(* had, or none.                                                           *)
LEMMA AcquiredEntry ==
  ASSUME IInv, NEW h \in Hashes, NEW t \in Nat, Acquirable(row, h)
  PROVE  /\ Acquired(row, h, t) \in Row /\ Acquired(row, h, t).state = "pending"
         /\ Acquired(row, h, t).token = t /\ Acquired(row, h, t).hash = h /\ Acquired(row, h, t).live
         /\ row.state = "absent" => Acquired(row, h, t).result = NoResult
<1>1. CASE row \in Row
  <2>1. row.hash = h
    BY <1>1 DEF Acquirable, Row, States
  <2>2. /\ Acquired(row, h, t) \in Row /\ Acquired(row, h, t).state = "pending"
        /\ Acquired(row, h, t).token = t
    BY <1>1, AcquiredRow
  <2>3. Acquired(row, h, t).live /\ Acquired(row, h, t).hash = h
    BY <1>1, <2>1, RowsLive
  <2>4. row.state # "absent"
    BY <1>1 DEF Row, States
  <2>. QED
    BY <2>2, <2>3, <2>4
<1>2. CASE row = NoRow
  BY <1>2, AcquiredRow DEF Acquired, NoRow
<1>. QED
  BY <1>1, <1>2, Entries

(* The reply to a caller who gets no lease. *)
LEMMA BeginReplies ==
  ASSUME IInv, NEW h \in Hashes, NEW acquirable \in BOOLEAN, NEW entry \in {row, record, NoRow}
  PROVE  BeginReply(entry, h, acquirable) \in Replies
<1>. DEFINE inRowTerms == [entry EXCEPT !.state = CASE @ = "acquired"  -> "pending"
                                                    [] @ = "completed" -> "succeeded"
                                                    [] OTHER           -> @]
            refusal == Refusal(inRowTerms, h)
<1>1. refusal \in {"request_mismatch", "completed", "in_progress", "indeterminate"}
  BY DEF Refusal
<1>2. entry.result \in Result \cup {NoResult}
  BY Entries DEF Row, MemoryRow, NoRow
<1>. HIDE DEF refusal
<1>3. [Reply(refusal) EXCEPT !.result = IF refusal = "completed" THEN entry.result ELSE @] \in Replies
  BY <1>1, <1>2 DEF Reply, Replies
<1>4. BeginReply(entry, h, acquirable) =
        IF acquirable THEN Reply("acquired")
        ELSE [Reply(refusal) EXCEPT !.result = IF refusal = "completed" THEN entry.result ELSE @]
  BY DEF BeginReply, refusal
<1>. QED
  BY <1>3, <1>4, ReplyTypes

LEMMA TwinsAnswerAlike ==
  ASSUME IInv, fresh, NEW h \in Hashes, NEW acquirable \in BOOLEAN
  PROVE  BeginReply(row, h, acquirable) = BeginReply(record, h, acquirable)
<1>. DEFINE inRowTerms(entry) == [entry EXCEPT !.state = CASE @ = "acquired"  -> "pending"
                                                           [] @ = "completed" -> "succeeded"
                                                           [] OTHER           -> @]
<1>1. /\ record.state = SnapshotState(row.state)
      /\ record.hash = row.hash /\ record.result = row.result
  BY AlikeEntries DEF Alike
<1>2. /\ inRowTerms(row).state = row.state /\ inRowTerms(row).hash = row.hash
      /\ inRowTerms(record).hash = record.hash
      /\ inRowTerms(record).state = CASE record.state = "acquired"  -> "pending"
                                      [] record.state = "completed" -> "succeeded"
                                      [] OTHER                      -> record.state
  BY Entries DEF Row, MemoryRow, NoRow, States, MemoryStates
<1>. HIDE DEF inRowTerms
<1>3. Refusal(inRowTerms(row), h) = Refusal(inRowTerms(record), h)
  BY <1>1, <1>2, Entries DEF Refusal, Mismatch, SnapshotState, States
<1>. QED
  BY <1>1, <1>3 DEF BeginReply, inRowTerms

LEMMA BeginKeeps ==
  ASSUME IInv, NEW h \in Hashes, Begin(h)
  PROVE  IInv'
<1>. DEFINE found == Cleaned(record)
            inRow == Acquirable(row, h)
            inMemory == found.state = "absent"
            token == issued + 1
<1>1. /\ replies' = [prisma |-> BeginReply(row, h, inRow), memory |-> BeginReply(found, h, inMemory)]
      /\ row' = IF inRow THEN Acquired(row, h, token) ELSE row
      /\ record' = IF inMemory THEN [Acquired(found, h, token) EXCEPT !.state = "acquired"] ELSE found
      /\ issued' = IF inRow \/ inMemory THEN token ELSE issued
      /\ fresh' = fresh /\ issued < MaxLeases
  BY DEF Begin
<1>2. found \in {record, NoRow} /\ (fresh => found = record) /\ (inMemory => found = NoRow)
  BY CleanedRecord, Entries DEF NoRow
<1>3. token \in Nat /\ issued \in Nat /\ token \in 0..MaxLeases
  BY <1>1, MaxLeasesAssumption DEF IInv, TypeOK
<1>4. fresh => (inRow <=> inMemory) /\ (inRow => row.state = "absent")
  BY <1>2, Entries, AlikeEntries DEF Alike, Acquirable, IInv, Twins, SnapshotState, States
<1>. HIDE DEF found, inRow, inMemory, token
<1>5. inRow => /\ row' \in Row /\ row'.state = "pending" /\ row'.token = token /\ row'.hash = h /\ row'.live
               /\ row.state = "absent" => row'.result = NoResult
  BY <1>1, <1>3, AcquiredEntry DEF inRow
<1>6. inMemory => /\ record' \in MemoryRow /\ record'.state = "acquired" /\ record'.token = token
                  /\ record'.hash = h /\ record'.result = NoResult /\ record'.live
  BY <1>1, <1>2, <1>3, MemoryAcquired
<1>7. TypeOK'
  <2>1. row' \in Row \cup {NoRow}
    BY <1>1, <1>5, Entries
  <2>2. record' \in MemoryRow \cup {NoRow}
    BY <1>1, <1>2, <1>6, Entries
  <2>3. issued' \in 0..MaxLeases /\ fresh' \in BOOLEAN
    BY <1>1, <1>3 DEF IInv, TypeOK
  <2>4. replies' \in [prisma : Replies, memory : Replies]
    BY <1>1, <1>2, BeginReplies DEF inRow, inMemory, Acquirable
  <2>. QED
    BY <2>1, <2>2, <2>3, <2>4 DEF TypeOK, MemoryRow
<1>8. TokensAreIssued'
  BY <1>1, <1>2, <1>3, <1>5, <1>6 DEF IInv, TypeOK, TokensAreIssued, NoRow, Row, MemoryRow, token
<1>9. Twins'
  BY <1>1, <1>2, <1>4, <1>5, <1>6, SnapshotStates DEF IInv, Twins
<1>10. SameLeaseSameState'
  <2>1. row.token < token /\ record.token < token /\ found.token < token
    BY <1>2, <1>3, Entries DEF IInv, TokensAreIssued, token, Row, MemoryRow, NoRow
  <2>. QED
    BY <1>1, <1>2, <1>5, <1>6, <2>1, <1>3, SnapshotStates DEF IInv, SameLeaseSameState, NoRow
<1>11. AgreeUntilExpiry'
  BY <1>1, <1>2, <1>4, TwinsAnswerAlike DEF AgreeUntilExpiry, inRow, inMemory, Acquirable
<1>. QED
  BY <1>7, <1>8, <1>9, <1>10, <1>11 DEF IInv

-----------------------------------------------------------------------------
(* The invariant is inductive. *)
THEOREM NextKeepsIInv == IInv /\ [Next]_vars => IInv'
<1>. SUFFICES ASSUME IInv, [Next]_vars PROVE IInv'
  OBVIOUS
<1>1. CASE UNCHANGED vars
  BY <1>1 DEF IInv, TypeOK, TokensAreIssued, Twins, SameLeaseSameState, AgreeUntilExpiry, vars
<1>2. CASE Next
  BY <1>2, BeginKeeps, MarkDispatchedKeeps, CompleteKeeps, MarkIndeterminateKeeps, ReleaseKeeps, ResolveKeeps,
     GetKeeps, OtherScopeKeeps, LapseKeeps DEF Next
<1>. QED
  BY <1>1, <1>2

THEOREM Invariance == Spec => []IInv
  BY InitIInv, NextKeepsIInv, PTL DEF Spec

(* No sequence of calls, under leases old or new, tells the in-memory      *)
(* store from the database until the first expiry.                         *)
THEOREM TestsSeeTheLedger == Spec => []StoresAgree
<1>1. IInv => StoresAgree
  BY DEF IInv, StoresAgree
<1>. QED
  BY Invariance, <1>1, PTL

(* After it, a lease both stores have on record is in the same state and   *)
(* of the same request in both.                                            *)
THEOREM LeasesAgree == Spec => []SameLeaseSameState
<1>1. IInv => SameLeaseSameState
  BY DEF IInv
<1>. QED
  BY Invariance, <1>1, PTL

-----------------------------------------------------------------------------
(* A command that may have run: what a step leaves of its entry. *)
Unknown(entry) == entry.state \in {"dispatched", "indeterminate"}

Sticks(entry, next) ==
  /\ next.hash = entry.hash
  /\ \/ SnapshotState(next.state) = "completed"
     \/ Unknown(next) /\ next.token = entry.token

LEMMA NextSticks ==
  ASSUME IInv, Next
  PROVE  (Unknown(row) => Sticks(row, row')) /\ (Unknown(record) => Sticks(record, record'))
<1>1. /\ Unknown(row) => row \in Row
      /\ Unknown(record) => record \in MemoryRow /\ Cleaned(record) = record /\ record.state # "absent"
      /\ row' = row => (Unknown(row) => Sticks(row, row'))
      /\ record' = record => (Unknown(record) => Sticks(record, record'))
  BY Entries, CleanedRecord DEF Unknown, Sticks, NoRow
<1>2. \A h \in Hashes, t \in 1..issued, status \in Statuses :
        [status |-> status, token |-> [hash |-> h, token |-> t].token] \in Result
        /\ [status |-> status, token |-> 0] \in Result
  BY DEF IInv, TypeOK, Result
<1>3. \A x \in Row, res \in Result : Unknown(x) => Sticks(x, Completed(x, res))
  BY CompletedRow, SnapshotStates DEF Sticks, Settled
<1>4. \A x \in MemoryRow, res \in Result : Unknown(x) => Sticks(x, [Completed(x, res) EXCEPT !.state = "completed"])
  <2>. SUFFICES ASSUME NEW x \in MemoryRow, NEW res \in Result
               PROVE  Sticks(x, [Completed(x, res) EXCEPT !.state = "completed"])
    OBVIOUS
  <2>. DEFINE y == [Completed(x, res) EXCEPT !.state = "completed"]
  <2>1. y.state = "completed" /\ y.hash = x.hash
    BY MemoryCompleted
  <2>2. SnapshotState("completed") = "completed"
    BY DEF SnapshotState
  <2>. QED
    BY <2>1, <2>2 DEF Sticks
<1>5. ASSUME NEW h \in Hashes, Begin(h)
      PROVE  row' = row \/ ~Unknown(row)
  BY <1>5 DEF Begin, Acquirable, Unknown
<1>6. ASSUME NEW h \in Hashes, Begin(h)
      PROVE  record' = record \/ ~Unknown(record)
  BY <1>1, <1>6 DEF Begin
<1>7. ASSUME NEW h \in Hashes, NEW t \in 1..issued, MarkDispatched([hash |-> h, token |-> t])
      PROVE  (row' = row \/ ~Unknown(row)) /\ (record' = record \/ ~Unknown(record))
  BY <1>7 DEF MarkDispatched, UnderLease, CanMarkDispatched, HoldsLease, Unknown
<1>8. ASSUME NEW h \in Hashes, NEW t \in 1..issued, NEW status \in Statuses,
             Complete([hash |-> h, token |-> t], status)
      PROVE  (Unknown(row) => Sticks(row, row')) /\ (Unknown(record) => Sticks(record, record'))
  BY <1>1, <1>2, <1>3, <1>4, <1>8 DEF Complete, UnderLease
<1>9. ASSUME NEW h \in Hashes, NEW t \in 1..issued, MarkIndeterminate([hash |-> h, token |-> t])
      PROVE  (Unknown(row) => Sticks(row, row')) /\ (Unknown(record) => Sticks(record, record'))
  <2>1. Unknown(row) => Sticks(row, MarkedIndeterminate(row))
    BY <1>1, MarkedIndeterminateRow DEF Sticks, Unknown
  <2>2. Unknown(record) => Sticks(record, MarkedIndeterminate(record))
    BY <1>1, MemoryRows DEF Sticks, Unknown
  <2>. QED
    BY <1>1, <1>9, <2>1, <2>2 DEF MarkIndeterminate, UnderLease
<1>10. ASSUME NEW h \in Hashes, NEW t \in 1..issued, ReleaseBeforeDispatch([hash |-> h, token |-> t])
       PROVE  (row' = row \/ ~Unknown(row)) /\ (record' = record \/ ~Unknown(record))
  BY <1>10 DEF ReleaseBeforeDispatch, Released, HoldsLease, Unknown
<1>11. ASSUME NEW h \in Hashes, NEW status \in Statuses, ResolveIndeterminate(h, status)
       PROVE  (Unknown(row) => Sticks(row, row')) /\ (Unknown(record) => Sticks(record, record'))
  <2>. [status |-> status, token |-> 0] \in Result
    BY DEF Result
  <2>. QED
    BY <1>1, <1>3, <1>4, <1>11 DEF ResolveIndeterminate
<1>12. CASE Get \/ OtherScope
  BY <1>1, <1>12 DEF Get, OtherScope
<1>13. CASE Lapse
  BY <1>1, <1>13, LapsedRow, MemoryRows DEF Lapse, Sticks, Unknown
<1>. QED
  BY <1>1, <1>5, <1>6, <1>7, <1>8, <1>9, <1>10, <1>11, <1>12, <1>13 DEF Next

(* Whatever its deadline, an entry of a command that may have run stays    *)
(* under its lease and fingerprint until it is settled, in either store.   *)
THEOREM UnknownStaysUnknown == Spec => UnknownOutcomeSticks
<1>1. IInv /\ [Next]_vars =>
        [\A entries \in {<<row, row'>>, <<record, record'>>} :
           entries[1].state \in {"dispatched", "indeterminate"} =>
             /\ entries[2].hash = entries[1].hash
             /\ \/ SnapshotState(entries[2].state) = "completed"
                \/ /\ entries[2].state \in {"dispatched", "indeterminate"}
                   /\ entries[2].token = entries[1].token]_vars
  BY NextSticks DEF Unknown, Sticks
<1>. QED
  BY Invariance, <1>1, PTL DEF Spec, UnknownOutcomeSticks

-----------------------------------------------------------------------------
(* One release of a document and the next, for any families of documents:  *)
(* each step of the gate keeps what fits (ScalarStillFits,                 *)
(* BodyStillTaken), hence so does any chain of releases.                   *)

(* Whatever fits a schema fits one the gate lets follow, unless the release *)
(* introduced what the gate does not look at.                              *)
LEMMA ScalarStillFits ==
  ASSUME NEW before, NEW after, NEW v \in Scalars,
         {before.min, before.max, after.min, after.max} \subseteq Nat \cup {Absent},
         ScalarKept(before, after), ~ Introduces(before, after), ScalarFits(v, before)
  PROVE  ScalarFits(v, after)
<1>1. after.types = {} \/ TypeOf(v) \in after.types
  <2>1. CASE after.types = {}
    BY <2>1
  <2>2. CASE after.types # {}
    <3>1. before.types # {} /\ TypeOf(v) \in before.types
      BY <2>2 DEF ScalarFits, Introduces
    <3>2. before.types \subseteq after.types
      BY <2>2, <3>1 DEF ScalarKept, TypesKept, NullabilityCorrected
    <3> QED BY <3>1, <3>2
  <2> QED BY <2>1, <2>2
<1>2. after.anyOf = {} \/ TypeOf(v) \in after.anyOf
  BY DEF ScalarFits, Introduces, ScalarKept, AlternativesKept
<1>3. after.enum = {} \/ v \in after.enum
  BY DEF ScalarFits, Introduces, ScalarKept, EnumKept
<1>4. ASSUME v \in Texts
      PROVE  /\ after.min = Absent \/ SizeOf(v) >= after.min
             /\ after.max = Absent \/ SizeOf(v) <= after.max
             /\ after.pattern = Absent \/ v = "a"
  <2>1. SizeOf(v) \in Nat
    BY DEF SizeOf
  <2>2. /\ before.min = Absent \/ SizeOf(v) >= before.min
        /\ before.max = Absent \/ SizeOf(v) <= before.max
        /\ before.pattern = Absent \/ v = "a"
    BY <1>4 DEF ScalarFits
  <2>3. BoundsKept(before, after)
    BY DEF ScalarKept
  <2>4. after.min = Absent \/ SizeOf(v) >= after.min
    BY <2>1, <2>2, <2>3 DEF BoundsKept
  <2>5. after.max = Absent \/ SizeOf(v) <= after.max
    BY <2>1, <2>2, <2>3 DEF BoundsKept
  <2>6. after.pattern = Absent \/ v = "a"
    BY <2>2, <2>3 DEF BoundsKept
  <2> QED BY <2>4, <2>5, <2>6
<1> QED BY <1>1, <1>2, <1>3, <1>4 DEF ScalarFits

(* The same of an object. *)
LEMMA ObjectStillFits ==
  ASSUME NEW before, NEW after, NEW o \in Objects,
         \A f \in DOMAIN before.fields \cap DOMAIN after.fields :
           {before.fields[f].min, before.fields[f].max, after.fields[f].min, after.fields[f].max} \subseteq Nat \cup {Absent},
         \A f \in DOMAIN before.fields \cap DOMAIN after.fields : ~ Introduces(before.fields[f], after.fields[f]),
         before.closed \/ DOMAIN after.fields = DOMAIN before.fields,
         ObjectKept(before, after), ObjectFits(o, before)
  PROVE  ObjectFits(o, after)
<1>1. after.required \subseteq DOMAIN o
  BY DEF ObjectKept, ObjectFits
<1>2. ASSUME NEW f \in DOMAIN o
      PROVE  IF f \in DOMAIN after.fields THEN ScalarFits(o[f], after.fields[f]) ELSE ~ after.closed
  <2>1. o[f] \in Scalars
    <3>1. PICK names \in SUBSET {"p", "q", "undeclared"} : o \in [names -> Scalars]
      BY DEF Objects
    <3> QED BY <1>2, <3>1
  <2>2. CASE f \in DOMAIN before.fields
    <3>1. f \in DOMAIN after.fields /\ ScalarKept(before.fields[f], after.fields[f])
      BY <2>2 DEF ObjectKept
    <3>2. ScalarFits(o[f], before.fields[f])
      BY <1>2, <2>2 DEF ObjectFits
    <3>3. ScalarFits(o[f], after.fields[f])
      BY <2>1, <2>2, <3>1, <3>2, ScalarStillFits
    <3> QED BY <3>1, <3>3
  <2>3. CASE f \notin DOMAIN before.fields
    <3>1. ~ before.closed
      BY <1>2, <2>3 DEF ObjectFits
    <3> QED BY <2>3, <3>1 DEF ObjectKept
  <2> QED BY <2>2, <2>3
<1> QED BY <1>1, <1>2 DEF ObjectFits

(* A contract of the history, with lengths for bounds. *)
Fine(d) == \A s \in ScalarsOf(d) : {s.min, s.max} \subseteq Nat \cup {Absent}

LEMMA BodyStillTaken ==
  ASSUME NEW before, NEW after, Fine(before), Fine(after), before.present, after.present,
         BodyKept(before.body, after.body), ~ IntroducesUnseen(before, after)
  PROVE  TakesBody(before, after)
<1>1. CASE before.body = Absent
  BY <1>1 DEF BodyKept, TakesBody
<1>2. CASE before.body # Absent
  <2>1. after.body # Absent /\ (after.body.required => before.body.required) /\ ObjectKept(before.body.schema, after.body.schema)
    BY <1>2 DEF BodyKept
  <2>2. /\ \A f \in DOMAIN before.body.schema.fields \cap DOMAIN after.body.schema.fields :
             ~ Introduces(before.body.schema.fields[f], after.body.schema.fields[f])
        /\ before.body.schema.closed \/ DOMAIN after.body.schema.fields = DOMAIN before.body.schema.fields
    BY <1>2, <2>1 DEF IntroducesUnseen
  <2>3. ASSUME NEW f \in DOMAIN before.body.schema.fields \cap DOMAIN after.body.schema.fields
        PROVE  {before.body.schema.fields[f].min, before.body.schema.fields[f].max,
                after.body.schema.fields[f].min, after.body.schema.fields[f].max} \subseteq Nat \cup {Absent}
    <3>1. before.body.schema.fields[f] \in ScalarsOf(before) /\ after.body.schema.fields[f] \in ScalarsOf(after)
      BY <1>2, <2>1, <2>3 DEF ScalarsOf
    <3> QED BY <3>1 DEF Fine
  <2>4. \A o \in Objects : ObjectFits(o, before.body.schema) => ObjectFits(o, after.body.schema)
    BY <2>1, <2>2, <2>3, ObjectStillFits
  <2> QED BY <1>2, <2>1, <2>4 DEF TakesBody
<1> QED BY <1>1, <1>2

LEMMA ParametersStillTaken ==
  ASSUME NEW before, NEW after, Fine(before), Fine(after), before.present, after.present,
         ParametersKept(before.parameters, after.parameters), ~ IntroducesUnseen(before, after)
  PROVE  TakesParameters(before, after)
<1>1. ASSUME NEW p \in DOMAIN before.parameters
      PROVE  /\ p \in DOMAIN after.parameters
             /\ ~ before.parameters[p].required => ~ after.parameters[p].required
             /\ \A v \in Scalars : ScalarFits(v, before.parameters[p].schema) => ScalarFits(v, after.parameters[p].schema)
  <2>1. /\ p \in DOMAIN after.parameters
        /\ after.parameters[p].required => before.parameters[p].required
        /\ ScalarKept(before.parameters[p].schema, after.parameters[p].schema)
    BY <1>1 DEF ParametersKept
  <2>2. ~ Introduces(before.parameters[p].schema, after.parameters[p].schema)
    BY <1>1, <2>1 DEF IntroducesUnseen
  <2>3. before.parameters[p].schema \in ScalarsOf(before) /\ after.parameters[p].schema \in ScalarsOf(after)
    BY <1>1, <2>1 DEF ScalarsOf
  <2>4. {before.parameters[p].schema.min, before.parameters[p].schema.max,
         after.parameters[p].schema.min, after.parameters[p].schema.max} \subseteq Nat \cup {Absent}
    BY <2>3 DEF Fine
  <2> QED BY <2>1, <2>2, <2>4, ScalarStillFits
<1>2. \A p \in DOMAIN after.parameters \ DOMAIN before.parameters : after.parameters[p].required => p = "X-Tenant-ID"
  BY DEF ParametersKept, TransportInjected
<1> QED BY <1>1, <1>2 DEF TakesParameters

(* The gate does for neighbours what the property asks of any two. *)
LEMMA NeighboursWork ==
  ASSUME NEW before, NEW after, Fine(before), Fine(after), PassesGate(before, after), after.corrects = Absent,
         ~ IntroducesUnseen(before, after)
  PROVE  WorksAgainst(before, after)
<1>. SUFFICES ASSUME before.present
              PROVE  WorksAgainst(before, after)
  BY DEF WorksAgainst
<1>1. /\ after.present
      /\ ResponsesKept(before.responses, after.responses)
      /\ ParametersKept(before.parameters, after.parameters)
      /\ BodyKept(before.body, after.body)
      /\ SecurityKept(before.security, after.security)
  BY DEF PassesGate, OperationKept
<1>2. TakesBody(before, after)
  BY <1>1, BodyStillTaken
<1>3. TakesParameters(before, after)
  BY <1>1, ParametersStillTaken
<1>4. AdmitsCredentials(before, after)
  BY <1>1 DEF SecurityKept, AdmitsCredentials, Alternatives
<1>5. StillDeclares(before, after)
  BY <1>1 DEF ResponsesKept, ObjectKept, StillDeclares
<1> QED BY <1>1, <1>2, <1>3, <1>4, <1>5 DEF WorksAgainst

(* What a client may rely on, it may rely on through any number of releases. *)
LEMMA WorkingIsTransitive ==
  ASSUME NEW old, NEW between, NEW new, WorksAgainst(old, between), WorksAgainst(between, new)
  PROVE  WorksAgainst(old, new)
<1>. SUFFICES ASSUME old.present
              PROVE  WorksAgainst(old, new)
  BY DEF WorksAgainst
<1>1. /\ between.present /\ new.present
      /\ TakesBody(old, between) /\ TakesParameters(old, between)
      /\ AdmitsCredentials(old, between) /\ StillDeclares(old, between)
      /\ TakesBody(between, new) /\ TakesParameters(between, new)
      /\ AdmitsCredentials(between, new) /\ StillDeclares(between, new)
  BY DEF WorksAgainst
<1>2. TakesBody(old, new)
  BY <1>1 DEF TakesBody
<1>3. TakesParameters(old, new)
  <2>1. ASSUME NEW p \in DOMAIN old.parameters
        PROVE  /\ p \in DOMAIN new.parameters
               /\ ~ old.parameters[p].required /\ p # "X-Tenant-ID" => ~ new.parameters[p].required
               /\ \A v \in Scalars : ScalarFits(v, old.parameters[p].schema) => ScalarFits(v, new.parameters[p].schema)
    BY <1>1, <2>1 DEF TakesParameters
  <2>2. ASSUME NEW p \in DOMAIN new.parameters \ DOMAIN old.parameters, new.parameters[p].required
        PROVE  p = "X-Tenant-ID"
    <3>1. CASE p \in DOMAIN between.parameters
      BY <1>1, <2>2, <3>1 DEF TakesParameters
    <3>2. CASE p \notin DOMAIN between.parameters
      BY <1>1, <2>2, <3>2 DEF TakesParameters
    <3> QED BY <3>1, <3>2
  <2> QED BY <2>1, <2>2 DEF TakesParameters
<1>4. AdmitsCredentials(old, new)
  <2>. SUFFICES ASSUME NEW held \in Alternatives(old.security), new.security # {}
                PROVE  \E demanded \in new.security : demanded \subseteq held
    BY DEF AdmitsCredentials
  <2>1. PICK base \in Alternatives(between.security) : base \subseteq held
    BY <1>1 DEF AdmitsCredentials, Alternatives
  <2>2. PICK demanded \in new.security : demanded \subseteq base
    BY <1>1, <2>1 DEF AdmitsCredentials
  <2> QED BY <2>1, <2>2
<1>5. StillDeclares(old, new)
  BY <1>1 DEF StillDeclares
<1> QED BY <1>1, <1>2, <1>3, <1>4, <1>5 DEF WorksAgainst

DriftInv ==
  /\ family \in DOMAIN Families /\ contract \in Families[family]
  /\ clients \subseteq [of : Families[family], unseen : BOOLEAN]
  /\ OldClientsStillWork
  /\ CorrectionIsTrue

LEMMA HistoryIsFine ==
  ASSUME family \in DOMAIN Families
  PROVE  \A d \in Families[family] : Fine(d)
BY LengthsAssumption DEF Fine

LEMMA DriftStarts == DriftInit => DriftInv
  BY DEF DriftInit, DriftInv, OldClientsStillWork, CorrectionIsTrue

LEMMA NextReleaseKeeps ==
  ASSUME DriftInv, NEW next \in Families[family], PassesGate(contract, next), Release(next)
  PROVE  DriftInv'
<1>. family \in DOMAIN Families
  BY DEF DriftInv
<1>1. family' = family /\ contract' = next /\ pin' = pin /\ snapshot' = snapshot /\ compared' = contract.present
  BY DEF Release
<1>2. ASSUME next.corrects # Absent
      PROVE  DriftInv'
  <2>1. clients' = {[of |-> next, unseen |-> FALSE]}
    BY <1>2 DEF Release
  <2>2. OldClientsStillWork'
    BY <1>1, <2>1 DEF OldClientsStillWork
  <2>3. CorrectionIsTrue'
    BY <1>1, <1>2 DEF CorrectionIsTrue, PassesGate, OperationKept, AuthorityLoads
  <2> QED BY <1>1, <2>1, <2>2, <2>3 DEF DriftInv
<1>3. ASSUME next.corrects = Absent
      PROVE  DriftInv'
  <2>1. clients' = {[of |-> next, unseen |-> FALSE]} \cup
                     {[c EXCEPT !.unseen = @ \/ IntroducesUnseen(contract, next)] : c \in clients}
    BY <1>3 DEF Release
  <2>2. ASSUME NEW c \in clients', c.of # next
        PROVE  \E b \in clients : c.of = b.of /\ (~ c.unseen => ~ b.unseen /\ ~ IntroducesUnseen(contract, next))
    <3>1. PICK b \in clients : c = [b EXCEPT !.unseen = @ \/ IntroducesUnseen(contract, next)]
      BY <2>1, <2>2
    <3>2. b \in [of : Families[family], unseen : BOOLEAN]
      BY DEF DriftInv
    <3>3. c.of = b.of /\ c.unseen = (b.unseen \/ IntroducesUnseen(contract, next))
      BY <3>1, <3>2
    <3> QED BY <3>3
  <2>3. OldClientsStillWork'
    <3>. SUFFICES ASSUME NEW c \in clients', c.of # next, ~ c.unseen
                  PROVE  WorksAgainst(c.of, next)
      BY <1>1 DEF OldClientsStillWork
    <3>1. PICK b \in clients : c.of = b.of /\ ~ b.unseen /\ ~ IntroducesUnseen(contract, next)
      BY <2>2
    <3>2. WorksAgainst(contract, next)
      BY <1>3, <3>1, HistoryIsFine, NeighboursWork DEF DriftInv
    <3>3. CASE b.of = contract
      BY <3>1, <3>2, <3>3
    <3>4. CASE b.of # contract
      <4>1. WorksAgainst(b.of, contract)
        BY <3>1, <3>4 DEF DriftInv, OldClientsStillWork
      <4> QED BY <3>1, <3>2, <4>1, WorkingIsTransitive
    <3> QED BY <3>3, <3>4
  <2>4. clients' \subseteq [of : Families[family], unseen : BOOLEAN]
    <3>1. \A b \in clients : [b EXCEPT !.unseen = @ \/ IntroducesUnseen(contract, next)] \in [of : Families[family], unseen : BOOLEAN]
      BY DEF DriftInv, IntroducesUnseen
    <3>2. [of |-> next, unseen |-> FALSE] \in [of : Families[family], unseen : BOOLEAN]
      OBVIOUS
    <3>3. ASSUME NEW c \in clients'
          PROVE  c \in [of : Families[family], unseen : BOOLEAN]
      <4>1. CASE c = [of |-> next, unseen |-> FALSE]
        BY <3>2, <4>1
      <4>2. ASSUME NEW b \in clients, c = [b EXCEPT !.unseen = @ \/ IntroducesUnseen(contract, next)]
            PROVE  c \in [of : Families[family], unseen : BOOLEAN]
        BY <3>1, <4>2
      <4> QED BY <2>1, <4>1, <4>2
    <3> QED BY <3>3
  <2>5. CorrectionIsTrue'
    BY <1>1, <1>3 DEF CorrectionIsTrue
  <2> QED BY <1>1, <2>3, <2>4, <2>5 DEF DriftInv
<1> QED BY <1>2, <1>3

LEMMA DriftSteps == DriftInv /\ [DriftNext]_driftVars => DriftInv'
<1>. SUFFICES ASSUME DriftInv, [DriftNext]_driftVars
              PROVE  DriftInv'
  OBVIOUS
<1>1. CASE \E next \in {d \in Families[family] : PassesGate(contract, d)} : Release(next)
  BY <1>1, NextReleaseKeeps
<1>2. ASSUME UNCHANGED <<family, contract, clients, compared>>
      PROVE  DriftInv'
  BY <1>2 DEF DriftInv, OldClientsStillWork, CorrectionIsTrue
<1>3. CASE \E sha \in Shas : Repin(sha)
  BY <1>2, <1>3 DEF Repin
<1>4. CASE Import
  BY <1>2, <1>4 DEF Import
<1>5. CASE UNCHANGED driftVars
  BY <1>2, <1>5 DEF driftVars
<1> QED BY <1>1, <1>3, <1>4, <1>5 DEF DriftNext

LEMMA DriftInvariance == DriftSpec => []DriftInv
  BY DriftStarts, DriftSteps, PTL DEF DriftSpec

(* Whatever a client of an earlier release may send, the latest release      *)
(* takes with the credentials it has, and it declares all that client       *)
(* reads, however many releases lie between: but for what the drift gate    *)
(* does not look at.                                                       *)
THEOREM OldClientsKeepWorking == DriftSpec => []OldClientsStillWork
  BY DriftInvariance, PTL DEF DriftInv

(* A released correction that the gate compared is the authority it cites,  *)
(* whatever happened to the pin and the snapshot before or since.          *)
THEOREM CorrectionsAreTrue == DriftSpec => []CorrectionIsTrue
  BY DriftInvariance, PTL DEF DriftInv

-----------------------------------------------------------------------------
(* The policy of the protocol gateway, for any environments and commands:  *)
(* what its two lists hold after reading (ListsAreRead) decides, and the   *)
(* no header is complained of exactly when all are in order                *)
(* (HeadersInOrder).                                                       *)

(* The first word of a sequence joined to a word. *)
LEMMA WithinOneWord ==
  ASSUME NEW words \in Seq(STRING), NEW protocol \in Seq(STRING), NEW operation \in Seq(STRING), operation # << >>
  PROVE  /\ Len(words) > 1 /\ <<Head(words)>> = protocol /\ Tail(words) = operation => words = protocol \o operation
         /\ words = protocol \o operation /\ Len(protocol) = 1 =>
              Len(words) > 1 /\ <<Head(words)>> = protocol /\ Tail(words) = operation
<1>1. /\ Len(operation) \in Nat \ {0} /\ Len(words) \in Nat /\ Len(protocol) \in Nat
      /\ words # << >> => Len(words) # 0
  BY EmptySeq
<1>2. /\ protocol \o operation \in Seq(STRING) /\ Len(protocol \o operation) = Len(protocol) + Len(operation)
      /\ \A i \in 1 .. Len(protocol) + Len(operation) :
           (protocol \o operation)[i] = IF i <= Len(protocol) THEN protocol[i] ELSE operation[i - Len(protocol)]
  BY ConcatProperties
<1>3. words # << >> => /\ Head(words) = words[1] /\ Tail(words) \in Seq(STRING) /\ Len(Tail(words)) = Len(words) - 1
                       /\ \A i \in 1 .. Len(Tail(words)) : Tail(words)[i] = words[i + 1]
  BY HeadTailProperties
<1>4. ASSUME Len(words) > 1, <<Head(words)>> = protocol, Tail(words) = operation
      PROVE  words = protocol \o operation
  <2>1. words # << >> /\ Len(protocol) = 1 /\ protocol[1] = words[1] /\ Len(words) = 1 + Len(operation)
    BY <1>1, <1>3, <1>4
  <2>2. \A i \in 1 .. Len(words) : words[i] = (protocol \o operation)[i]
    <3>. TAKE i \in 1 .. Len(words)
    <3>1. CASE i = 1
      BY <1>1, <1>2, <2>1, <3>1
    <3>2. CASE i # 1
      <4>1. i - 1 \in 1 .. Len(Tail(words)) /\ (i - 1) + 1 = i
        BY <1>1, <1>3, <2>1, <3>2
      <4>2. words[i] = operation[i - 1]
        BY <1>3, <1>4, <2>1, <4>1
      <4> QED BY <1>1, <1>2, <2>1, <3>2, <4>2
    <3> QED BY <3>1, <3>2
  <2> QED BY <1>2, <2>1, <2>2, SeqEqual
<1>5. ASSUME words = protocol \o operation, Len(protocol) = 1
      PROVE  Len(words) > 1 /\ <<Head(words)>> = protocol /\ Tail(words) = operation
  <2>1. Len(words) = 1 + Len(operation) /\ Len(words) > 1 /\ words # << >>
    BY <1>1, <1>2, <1>5
  <2>2. words[1] = protocol[1]
    BY <1>1, <1>2, <1>5
  <2>3. <<Head(words)>> = protocol
    <3>1. <<words[1]>> \in Seq(STRING) /\ Len(<<words[1]>>) = 1 /\ <<words[1]>>[1] = words[1]
      BY <1>1, <2>1
    <3>2. <<words[1]>> = protocol
      BY <1>5, <2>2, <3>1, SeqEqual
    <3> QED BY <1>3, <2>1, <3>2
  <2>4. \A i \in 1 .. Len(operation) : Tail(words)[i] = operation[i]
    <3>. TAKE i \in 1 .. Len(operation)
    <3>1. Tail(words)[i] = words[i + 1] /\ i + 1 \in 1 .. Len(protocol) + Len(operation) /\ ~ (i + 1 <= Len(protocol))
      BY <1>1, <1>3, <1>5, <2>1
    <3> QED BY <1>1, <1>2, <1>5, <3>1
  <2>5. Tail(words) = operation
    BY <1>1, <1>3, <2>1, <2>4, SeqEqual
  <2> QED BY <2>1, <2>3, <2>5
<1> QED BY <1>4, <1>5

LEMMA ListsAreRead ==
  ASSUME NEW texts \in Seq(Spellings), NEW words
  PROVE  words \in ReadList(texts) <=> Names(texts, words)
BY DEF ReadList, Names

(* assertAllowed() reports nothing exactly when the lists and the headers   *)
(* are in order.                                                           *)
LEMMA NothingIsRefused ==
  ASSUME NEW c \in ProtocolCommands
  PROVE  WhyRefused(c) = "none" <=>
           /\ Refused(c) = {}
           /\ c.protocol.words \in gate.policy.protocols
           /\ c.protocol.words \o c.operation.words \in gate.policy.operations
<1>1. ASSUME Refused(c) # {}
      PROVE  WhyRefused(c) # "none"
  <2>1. Len(Required) = 5 /\ \A i \in 1 .. 5 : Required[i] # "none"
    BY DEF Required
  <2>2. Refused(c) \subseteq 1 .. 5
    BY <2>1 DEF Refused
  <2>3. \E i \in Refused(c) : \A j \in Refused(c) : i <= j
    <3>1. \A i \in Refused(c) : i \in {1, 2, 3, 4, 5}
      BY <2>2
    <3>2. CASE 1 \in Refused(c)
      BY <2>2, <3>2
    <3>3. CASE 1 \notin Refused(c) /\ 2 \in Refused(c)
      BY <3>1, <3>3
    <3>4. CASE 1 \notin Refused(c) /\ 2 \notin Refused(c) /\ 3 \in Refused(c)
      BY <3>1, <3>4
    <3>5. CASE 1 \notin Refused(c) /\ 2 \notin Refused(c) /\ 3 \notin Refused(c) /\ 4 \in Refused(c)
      BY <3>1, <3>5
    <3>6. CASE 1 \notin Refused(c) /\ 2 \notin Refused(c) /\ 3 \notin Refused(c) /\ 4 \notin Refused(c)
      BY <1>1, <3>1, <3>6
    <3> QED BY <3>2, <3>3, <3>4, <3>5, <3>6
  <2>4. (CHOOSE i \in Refused(c) : \A j \in Refused(c) : i <= j) \in 1 .. 5
    BY <2>2, <2>3
  <2> QED BY <1>1, <2>1, <2>4 DEF WhyRefused
<1>2. ASSUME Refused(c) = {}
      PROVE  WhyRefused(c) = "none" <=> c.protocol.words \in gate.policy.protocols
                                        /\ c.protocol.words \o c.operation.words \in gate.policy.operations
  BY <1>2 DEF WhyRefused
<1> QED BY <1>1, <1>2

LEMMA HeadersInOrder ==
  ASSUME NEW c \in ProtocolCommands
  PROVE  Refused(c) = {} <=> Traceable(c) /\ c.protocol.words # << >> /\ c.operation.words # << >>
<1>1. Len(Required) = 5 /\ Required[1] = "tenant" /\ Required[2] = "correlation" /\ Required[3] = "idempotency"
      /\ Required[4] = "protocol" /\ Required[5] = "operation"
  BY DEF Required
<1>2. Refused(c) = {} <=> \A i \in {1, 2, 3, 4, 5} : ~ Missing(c[Required[i]]) /\ ~ Unfit(c[Required[i]])
  <2>1. \A i : i \in 1 .. Len(Required) <=> i \in {1, 2, 3, 4, 5}
    BY <1>1
  <2> QED BY <2>1 DEF Refused
<1>3. Refused(c) = {} <=> \A h \in {"tenant", "correlation", "idempotency", "protocol", "operation"} :
                            ~ Missing(c[h]) /\ ~ Unfit(c[h])
  BY <1>1, <1>2
<1> QED BY <1>3 DEF Traceable, Missing, Unfit

ProtocolInv ==
  /\ gate = Down \/ /\ gate.environment \in Environments /\ gate.environment.flag = "true"
                    /\ gate.policy = PolicyOf(gate.environment)
  /\ letBy # NoCommand => gate # Down /\ letBy.command \in ProtocolCommands
  /\ ProtocolsAreTrue

LEMMA CommandIsJudged ==
  ASSUME ProtocolInv, NEW c \in ProtocolCommands, ProtocolCommand(c)
  PROVE  ProtocolInv'
<1>1. gate' = gate /\ gate # Down /\ gate.up
  BY DEF ProtocolCommand, Down
<1>2. /\ gate.environment \in Environments /\ gate.environment.flag = "true"
      /\ gate.policy = PolicyOf(gate.environment)
  BY <1>1 DEF ProtocolInv
<1>. DEFINE e == gate.environment
            protocol == c.protocol.words
            operation == c.operation.words
            meant == NamesWithin(e.operations, protocol, operation)
            proper == Names(e.protocols, protocol) /\ Traceable(c)
<1>3. e.protocols \in Seq(Spellings) /\ e.operations \in Seq(Spellings)
  BY <1>2, SpellingsAssumption
<1>4. protocol \in Seq(STRING) /\ operation \in Seq(STRING)
  <2>1. c["protocol"] \in Spellings /\ c["operation"] \in Spellings
    BY SpellingsAssumption
  <2> QED BY <2>1 DEF Spellings
<1>5. letBy'.command = c /\ letBy'.through = (WhyRefused(c) = "none")
  BY DEF ProtocolCommand
<1>6. WhyRefused(c) = "none" <=>
        /\ Traceable(c) /\ protocol # << >> /\ operation # << >>
        /\ Names(e.protocols, protocol) /\ Names(e.operations, protocol \o operation)
  <2>1. protocol \in gate.policy.protocols <=> Names(e.protocols, protocol)
    BY <1>2, <1>3, ListsAreRead DEF PolicyOf
  <2>2. protocol \o operation \in gate.policy.operations <=> Names(e.operations, protocol \o operation)
    BY <1>2, <1>3, ListsAreRead DEF PolicyOf
  <2> QED BY <2>1, <2>2, NothingIsRefused, HeadersInOrder
<1>7. \A i \in 1 .. Len(e.operations) : e.operations[i].words \in Seq(STRING)
  <2>. TAKE i \in 1 .. Len(e.operations)
  <2>1. e.operations[i] \in Spellings
    BY <1>3, ElementOfSeq
  <2> QED BY <2>1 DEF Spellings
<1>8. ASSUME WhyRefused(c) = "none", Len(protocol) = 1
      PROVE  meant
  <2>1. PICK i \in 1 .. Len(e.operations) : e.operations[i].words = protocol \o operation
    BY <1>6, <1>8 DEF Names
  <2>2. operation # << >>
    BY <1>6, <1>8
  <2>3. /\ Len(e.operations[i].words) > 1 /\ <<Head(e.operations[i].words)>> = protocol
        /\ Tail(e.operations[i].words) = operation
    <3> DEFINE words == e.operations[i].words
    <3>1. words \in Seq(STRING)
      BY <1>7, <2>1
    <3>2. words = protocol \o operation
      BY <2>1
    <3>3. Len(protocol) = 1
      BY <1>8
    <3> HIDE DEF words, protocol, operation
    <3> QED BY <1>4, <2>2, <3>1, <3>2, <3>3, WithinOneWord DEF words
  <2> QED BY <2>3 DEF NamesWithin
<1>9. ASSUME meant, proper
      PROVE  WhyRefused(c) = "none"
  <2>1. PICK i \in 1 .. Len(e.operations) :
               /\ Len(e.operations[i].words) > 1 /\ <<Head(e.operations[i].words)>> = protocol
               /\ Tail(e.operations[i].words) = operation
    BY <1>9 DEF NamesWithin
  <2>2. e.operations[i].words \in Seq(STRING) /\ Len(e.operations[i].words) \in Nat /\ e.operations[i].words # << >>
    BY <1>7, <2>1, EmptySeq
  <2>3. operation # << >>
    <3>1. Len(operation) = Len(e.operations[i].words) - 1
      BY <2>1, <2>2, HeadTailProperties
    <3>2. Len(operation) > 0
      BY <2>1, <2>2, <3>1
    <3> QED BY <3>2, EmptySeq
  <2>4. e.operations[i].words = protocol \o operation
    BY <1>4, <2>1, <2>2, <2>3, WithinOneWord
  <2>5. Names(e.operations, protocol \o operation)
    BY <2>2, <2>4 DEF Names
  <2>6. protocol # << >> /\ Traceable(c) /\ Names(e.protocols, protocol)
    BY <1>9 DEF Names
  <2> QED BY <1>6, <2>3, <2>5, <2>6
<1>10. letBy'.through => proper
  BY <1>5, <1>6
<1>11. /\ gate'.up => gate'.environment.flag = "true"
       /\ letBy'.through => proper /\ (Len(protocol) = 1 => meant)
       /\ meant /\ proper => letBy'.through
  BY <1>1, <1>2, <1>5, <1>8, <1>9, <1>10
<1>12. ProtocolsAreTrue'
  BY <1>1, <1>5, <1>11 DEF ProtocolsAreTrue
<1> QED BY <1>1, <1>2, <1>5, <1>12 DEF ProtocolInv

LEMMA ProtocolStarts == ProtocolInit => ProtocolInv
  BY DEF ProtocolInit, ProtocolInv, ProtocolsAreTrue, Down, NoCommand

LEMMA ProtocolSteps == ProtocolInv /\ [ProtocolNext]_protocolVars => ProtocolInv'
<1>. SUFFICES ASSUME ProtocolInv, [ProtocolNext]_protocolVars
              PROVE  ProtocolInv'
  OBVIOUS
<1>1. ASSUME NEW e \in Environments, StartGateway(e)
      PROVE  ProtocolInv'
  <2>1. letBy' = NoCommand
    BY <1>1 DEF StartGateway
  <2>2. CASE e.flag # "true"
    BY <1>1, <2>1, <2>2 DEF StartGateway, ProtocolInv, ProtocolsAreTrue, Down
  <2>3. CASE e.flag = "true"
    BY <1>1, <2>1, <2>3 DEF StartGateway, ProtocolInv, ProtocolsAreTrue, Down
  <2> QED BY <2>2, <2>3
<1>2. CASE StopGateway
  BY <1>2 DEF StopGateway, ProtocolInv, ProtocolsAreTrue, Down
<1>3. CASE \E c \in ProtocolCommands : ProtocolCommand(c)
  BY <1>3, CommandIsJudged
<1>4. CASE UNCHANGED protocolVars
  BY <1>4 DEF protocolVars, ProtocolInv, ProtocolsAreTrue
<1> QED BY <1>1, <1>2, <1>3, <1>4 DEF ProtocolNext

LEMMA ProtocolInvariance == ProtocolSpec => []ProtocolInv
  BY ProtocolStarts, ProtocolSteps, PTL DEF ProtocolSpec

-----------------------------------------------------------------------------
(* The commands of a connector, for any set of commands and setups:        *)
(* whatever was sent holds the claim of its key (SentIsClaimed), a settled *)
(* claim tells the truth of every command it is about (ClaimsAreTrue), and  *)
(* so does the last word any caller heard (WordIsRight).                   *)

ClaimRows ==
  [state : {"completed", "indeterminate"}, hash : {Fingerprint(c) : c \in Commands}, status : ReceiptStatuses \cup {"none"}]

(* What was sent holds the claim of its key, in the name of whoever sent it. *)
SentIsClaimed ==
  \A r \in received : \E d \in Commands :
    r = Request(d) /\ ~ RefusedByRunner(d) /\ ledger[Scope(d)] # NoClaim /\ ledger[Scope(d)].hash = Fingerprint(d)

(* A settled claim tells the truth of every command it is about. *)
ClaimsAreTrue ==
  \A c \in Commands :
    LET claim == ledger[Scope(c)] IN
    claim # NoClaim /\ claim.hash = Fingerprint(c) /\ claim.state = "completed" =>
      /\ claim.status \in ReceiptStatuses
      /\ claim.status # "rejected" <=> Request(c) \in done

LedgerIsRight ==
  /\ setup \in Setups
  /\ ledger \in [CommandScopes -> {NoClaim} \cup ClaimRows]
  /\ done \subseteq received /\ (received # {} => contacted)
  /\ SentIsClaimed /\ ClaimsAreTrue /\ OnlySwitchesStrand /\ OnlyWhatIsEnabledLeaves

WordIsRight == heard.command \in Commands /\ StatusIsOfThisCommand /\ RefusedIsUndone

CommandInv == LedgerIsRight /\ WordIsRight

LEMMA SameClaimSameRequest ==
  ASSUME NEW c \in Commands, NEW d \in Commands, Scope(c) = Scope(d), Fingerprint(c) = Fingerprint(d)
  PROVE  Request(c) = Request(d) /\ c.operation = d.operation
<1>1. c.operation = d.operation /\ c.commandId = d.commandId /\ Canonical(c.payload) = Canonical(d.payload)
  BY DEF Fingerprint
<1>2. c.operation \o c.key = c.operation \o d.key
  BY <1>1 DEF Scope
<1>3. c.key = d.key
  BY <1>2, CommandsAssumption, ConcatSimplifications
<1> QED BY <1>1, <1>3 DEF Request

LEMMA SameRequestSameClaim ==
  ASSUME NEW c \in Commands, NEW d \in Commands, Request(c) = Request(d)
  PROVE  /\ Scope(c) = Scope(d) /\ RefusedByRunner(c) = RefusedByRunner(d)
         /\ Fingerprint(c) = Fingerprint(d) \/ c.actor # d.actor
<1>1. c.operation = d.operation /\ c.key = d.key /\ c.commandId = d.commandId /\ Canonical(c.payload) = Canonical(d.payload)
  BY DEF Request
<1>2. (c.payload = "unprintable") = (d.payload = "unprintable")
  BY <1>1 DEF Canonical
<1>3. RefusedByRunner(c) = RefusedByRunner(d)
  BY <1>1, <1>2 DEF RefusedByRunner, Declared, Granted, RequiredCapabilities
<1> QED BY <1>1, <1>3 DEF Scope, Fingerprint

LEMMA ScopeIsOne == \A c \in Commands : Scope(c) \in CommandScopes
BY DEF CommandScopes

LEMMA ClaimIsARow ==
  ASSUME NEW c \in Commands, NEW state \in {"completed", "indeterminate"}, NEW status \in ReceiptStatuses \cup {"none"}
  PROVE  Claim(c, state, status) \in ClaimRows /\ Claim(c, state, status) # NoClaim
BY DEF Claim, ClaimRows, NoClaim

(* What a claim answers is true of the caller's command. *)
LEMMA ClaimAnswersTruly ==
  ASSUME LedgerIsRight, NEW c \in Commands, ledger[Scope(c)] # NoClaim
  PROVE  /\ ClaimAnswer(c) \in ReceiptStatuses \cup {"mismatch", "indeterminate"}
         /\ ClaimAnswer(c) \in {"accepted", "completed"} => Request(c) \in done
         /\ ClaimAnswer(c) = "rejected" => Request(c) \notin done
         /\ ClaimAnswer(c) = "mismatch" => Request(c) \notin done \/ ledger[Scope(c)].hash.actor # c.actor
         /\ ClaimAnswer(c) = "indeterminate" => ledger[Scope(c)].hash = Fingerprint(c) /\ ledger[Scope(c)].state # "completed"
<1> DEFINE claim == ledger[Scope(c)]
<1>1. claim \in ClaimRows
  BY ScopeIsOne DEF LedgerIsRight
<1>2. CASE claim.hash # Fingerprint(c)
  <2>1. ClaimAnswer(c) = "mismatch"
    BY <1>2 DEF ClaimAnswer
  <2>2. ASSUME Request(c) \in done PROVE claim.hash.actor # c.actor
    <3>1. PICK d \in Commands : Request(c) = Request(d) /\ ledger[Scope(d)].hash = Fingerprint(d)
      BY <2>2 DEF LedgerIsRight, SentIsClaimed
    <3>2. Scope(c) = Scope(d) /\ (Fingerprint(c) = Fingerprint(d) \/ c.actor # d.actor)
      BY <3>1, SameRequestSameClaim
    <3> QED BY <3>1, <3>2, <1>2 DEF Fingerprint
  <2> QED BY <2>1, <2>2 DEF ReceiptStatuses
<1>3. CASE claim.hash = Fingerprint(c) /\ claim.state = "completed"
  <2>1. claim.status \in ReceiptStatuses /\ (claim.status # "rejected" <=> Request(c) \in done)
    BY <1>3 DEF LedgerIsRight, ClaimsAreTrue
  <2>2. ClaimAnswer(c) = claim.status
    BY <1>3 DEF ClaimAnswer
  <2> QED BY <2>1, <2>2 DEF ReceiptStatuses
<1>4. CASE claim.hash = Fingerprint(c) /\ claim.state = "indeterminate"
  BY <1>4 DEF ClaimAnswer, ReceiptStatuses
<1> QED BY <1>1, <1>2, <1>3, <1>4 DEF ClaimRows

(* What has no claim was never sent. *)
LEMMA AbsentIsUndone ==
  ASSUME LedgerIsRight, NEW c \in Commands, ledger[Scope(c)] = NoClaim
  PROVE  Request(c) \notin received /\ Request(c) \notin done
<1> SUFFICES ASSUME Request(c) \in received PROVE FALSE
  BY DEF LedgerIsRight
<1>1. PICK d \in Commands : Request(c) = Request(d) /\ ledger[Scope(d)] # NoClaim
  BY DEF LedgerIsRight, SentIsClaimed
<1> QED BY <1>1, SameRequestSameClaim

LEMMA RefusedWasNeverSent ==
  ASSUME LedgerIsRight, NEW c \in Commands, RefusedByRunner(c)
  PROVE  Request(c) \notin done
<1> SUFFICES ASSUME Request(c) \in received PROVE FALSE
  BY DEF LedgerIsRight
<1>1. PICK d \in Commands : Request(c) = Request(d) /\ ~ RefusedByRunner(d)
  BY DEF LedgerIsRight, SentIsClaimed
<1> QED BY <1>1, SameRequestSameClaim

-----------------------------------------------------------------------------
LEMMA SetupStays ==
  ASSUME UNCHANGED setup
  PROVE  /\ OfAdapter' = OfAdapter /\ SwitchedOff' = SwitchedOff /\ Tokenless' = Tokenless
         /\ \A c \in Commands : RefusedByRunner(c)' = RefusedByRunner(c)
BY DEF OfAdapter, SwitchedOff, Tokenless, RefusedByRunner, Declared, Granted, RequiredCapabilities

(* A call that only asks leaves the ledger right. *)
LEMMA AskingKeeps ==
  ASSUME LedgerIsRight, UNCHANGED <<setup, ledger, received, done>>,
         contacted' = contacted \/ (contacted' = TRUE /\ ~ SwitchedOff)
  PROVE  LedgerIsRight'
<1>1. setup' = setup /\ ledger' = ledger /\ received' = received /\ done' = done
  OBVIOUS
<1>2. SentIsClaimed'
  BY <1>1, SetupStays DEF LedgerIsRight, SentIsClaimed
<1>3. ClaimsAreTrue'
  BY <1>1 DEF LedgerIsRight, ClaimsAreTrue
<1>4. OnlySwitchesStrand'
  BY <1>1, SetupStays DEF LedgerIsRight, OnlySwitchesStrand
<1>5. OnlyWhatIsEnabledLeaves'
  BY <1>1, SetupStays DEF LedgerIsRight, OnlyWhatIsEnabledLeaves, SwitchedOff
<1> QED BY <1>1, <1>2, <1>3, <1>4, <1>5 DEF LedgerIsRight

(* A claim is written on a free key or on the caller's own, for a command   *)
(* the runner lets through.                                                 *)
LEMMA WritingKeeps ==
  ASSUME LedgerIsRight, UNCHANGED setup, NEW c \in Commands, ~ RefusedByRunner(c),
         NEW state \in {"completed", "indeterminate"}, NEW status \in ReceiptStatuses \cup {"none"},
         ledger[Scope(c)] = NoClaim \/ ledger[Scope(c)].hash = Fingerprint(c),
         ledger' = [ledger EXCEPT ![Scope(c)] = Claim(c, state, status)],
         received' \in {received, received \cup {Request(c)}}, done' \in {done, done \cup {Request(c)}},
         done' \subseteq received', received' # {} => contacted',
         ledger[Scope(c)] # NoClaim => done' = done,
         state = "completed" => status \in ReceiptStatuses /\ (status # "rejected" <=> Request(c) \in done'),
         state = "indeterminate" => Request(c) \in received' \/ SwitchedOff \/ Tokenless \/ (OfAdapter /\ c.operation[1] \notin setup.allowed),
         received' # received => ~ RefusedByAdapter(c),
         contacted' = contacted \/ (contacted' = TRUE /\ ~ SwitchedOff)
  PROVE  LedgerIsRight'
<1> DEFINE new == Claim(c, state, status)
<1>t. new \in ClaimRows /\ new # NoClaim
  BY ClaimIsARow
<1>s. /\ ledger' \in [CommandScopes -> {NoClaim} \cup ClaimRows]
      /\ ledger'[Scope(c)] = new
      /\ \A s \in CommandScopes : s # Scope(c) => ledger'[s] = ledger[s]
  BY <1>t, ScopeIsOne DEF LedgerIsRight
<1>n. new.hash = Fingerprint(c) /\ new.state = state /\ new.status = status
  BY DEF Claim
<1>o. ASSUME NEW d \in Commands, Scope(d) = Scope(c), Fingerprint(d) = Fingerprint(c)
      PROVE  Request(d) = Request(c) /\ d.operation = c.operation
  BY <1>o, SameClaimSameRequest
<1>1. SentIsClaimed'
  <2> SUFFICES ASSUME NEW r \in received'
               PROVE  \E d \in Commands : /\ r = Request(d) /\ ~ RefusedByRunner(d)
                                          /\ ledger'[Scope(d)] # NoClaim /\ ledger'[Scope(d)].hash = Fingerprint(d)
    BY SetupStays DEF SentIsClaimed
  <2>1. CASE r = Request(c)
    BY <2>1, <1>t, <1>s, <1>n
  <2>2. CASE r # Request(c)
    <3>1. PICK d \in Commands : r = Request(d) /\ ~ RefusedByRunner(d) /\ ledger[Scope(d)] # NoClaim /\ ledger[Scope(d)].hash = Fingerprint(d)
      BY <2>2 DEF LedgerIsRight, SentIsClaimed
    <3>2. Scope(d) # Scope(c)
      BY <3>1, <2>2, <1>o
    <3> QED BY <3>1, <3>2, <1>s, ScopeIsOne
  <2> QED BY <2>1, <2>2
<1>2. ClaimsAreTrue'
  <2> SUFFICES ASSUME NEW d \in Commands, ledger'[Scope(d)] # NoClaim, ledger'[Scope(d)].hash = Fingerprint(d),
                      ledger'[Scope(d)].state = "completed"
               PROVE  /\ ledger'[Scope(d)].status \in ReceiptStatuses
                      /\ ledger'[Scope(d)].status # "rejected" <=> Request(d) \in done'
    BY DEF ClaimsAreTrue
  <2>1. CASE Scope(d) = Scope(c)
    BY <2>1, <1>s, <1>n, <1>o
  <2>2. CASE Scope(d) # Scope(c)
    <3>1. ledger'[Scope(d)] = ledger[Scope(d)]
      BY <2>2, <1>s, ScopeIsOne
    <3>2. ledger[Scope(d)].status \in ReceiptStatuses /\ (ledger[Scope(d)].status # "rejected" <=> Request(d) \in done)
      BY <3>1 DEF LedgerIsRight, ClaimsAreTrue
    <3>3. Request(d) # Request(c)
      BY <2>2, SameRequestSameClaim
    <3> QED BY <3>1, <3>2, <3>3
  <2> QED BY <2>1, <2>2
<1>3. OnlySwitchesStrand'
  <2> SUFFICES ASSUME NEW d \in Commands, ledger'[Scope(d)] # NoClaim, ledger'[Scope(d)].hash = Fingerprint(d),
                      ledger'[Scope(d)].state = "indeterminate", Request(d) \notin received'
               PROVE  SwitchedOff \/ Tokenless \/ (OfAdapter /\ d.operation[1] \notin setup.allowed)
    BY SetupStays DEF OnlySwitchesStrand
  <2>1. CASE Scope(d) = Scope(c)
    BY <2>1, <1>s, <1>n, <1>o
  <2>2. CASE Scope(d) # Scope(c)
    BY <2>2, <1>s, ScopeIsOne DEF LedgerIsRight, OnlySwitchesStrand
  <2> QED BY <2>1, <2>2
<1>4. OnlyWhatIsEnabledLeaves'
  <2> SUFFICES ASSUME OfAdapter
               PROVE  /\ contacted' => setup.enabled
                      /\ \A r \in received' : r.operation[1] \in setup.allowed /\ Manifests[setup.connector][r.operation[1]] \subseteq setup.granted
    BY SetupStays DEF OnlyWhatIsEnabledLeaves
  <2>1. contacted' => setup.enabled
    BY DEF LedgerIsRight, OnlyWhatIsEnabledLeaves, SwitchedOff
  <2>2. ASSUME NEW r \in received'
        PROVE  r.operation[1] \in setup.allowed /\ Manifests[setup.connector][r.operation[1]] \subseteq setup.granted
    <3>1. CASE r \in received
      BY <3>1 DEF LedgerIsRight, OnlyWhatIsEnabledLeaves
    <3>2. CASE r \notin received
      <4>1. r = Request(c) /\ ~ RefusedByAdapter(c)
        BY <3>2
      <4>2. r.operation = c.operation /\ c.operation[1] \in setup.allowed
        BY <4>1 DEF Request, RefusedByAdapter
      <4>3. Manifests[setup.connector][c.operation[1]] \subseteq setup.granted
        BY DEF RefusedByRunner, Granted, RequiredCapabilities
      <4> QED BY <4>2, <4>3
    <3> QED BY <3>1, <3>2
  <2> QED BY <2>1, <2>2
<1> QED BY <1>s, <1>1, <1>2, <1>3, <1>4 DEF LedgerIsRight

-----------------------------------------------------------------------------
(* What is said next, when it is neither a status nor a refusal. *)
Idle == {"none", "indeterminate", "undetermined", "error", "healthy", "unavailable", "degraded", "disabled", "page", "events"}

LEMMA SayingLittleIsRight ==
  ASSUME NEW c \in Commands, NEW by, NEW kind \in Idle, Hear(c, by, kind)
  PROVE  WordIsRight'
BY DEF Hear, Idle, WordIsRight, StatusIsOfThisCommand, RefusedIsUndone

LEMMA SayingLittleOfIt ==
  ASSUME NEW by, NEW kind \in Idle, HearOfGateway(by, kind)
  PROVE  WordIsRight'
<1>1. AnyCommand \in Commands
  BY CommandsAssumption DEF AnyCommand
<1>2. Hear(AnyCommand, by, kind)
  BY DEF Hear, HearOfGateway
<1> QED BY <1>1, <1>2, SayingLittleIsRight

(* The claim's own answer is right to say. *)
LEMMA SayingWhatIsClaimed ==
  ASSUME LedgerIsRight, NEW c \in Commands, NEW by, ledger[Scope(c)] # NoClaim,
         Hear(c, by, ClaimAnswer(c)), UNCHANGED <<ledger, done>>
  PROVE  WordIsRight'
<1>1. heard'.command = c /\ heard'.kind = ClaimAnswer(c)
  BY DEF Hear
<1>2. StatusIsOfThisCommand'
  BY <1>1, ClaimAnswersTruly DEF StatusIsOfThisCommand
<1>3. ClaimAnswer(c) \in ReceiptStatuses \cup {"mismatch", "indeterminate"}
  BY ClaimAnswersTruly
<1>4. RefusedIsUndone'
  <2> SUFFICES ASSUME heard'.kind \in {"refused", "mismatch", "absent"}
               PROVE  Request(c) \notin done \/ ledger[Scope(c)].hash.actor # c.actor
    BY <1>1 DEF RefusedIsUndone
  <2>1. ClaimAnswer(c) = "mismatch"
    BY <1>1, <1>3 DEF ReceiptStatuses
  <2> QED BY <2>1, ClaimAnswersTruly
<1> QED BY <1>1, <1>2, <1>4 DEF WordIsRight

LEMMA SayingItIsAbsent ==
  ASSUME LedgerIsRight, NEW c \in Commands, NEW by, ledger[Scope(c)] = NoClaim,
         Hear(c, by, "absent"), UNCHANGED <<ledger, done>>
  PROVE  WordIsRight'
<1>1. heard'.command = c /\ heard'.kind = "absent" /\ Request(c) \notin done
  BY AbsentIsUndone DEF Hear
<1> QED BY <1>1 DEF WordIsRight, StatusIsOfThisCommand, RefusedIsUndone

(* A receipt's status is right to say when the gateway did what it says. *)
LEMMA SayingTheStatus ==
  ASSUME NEW c \in Commands, NEW by, NEW status \in ReceiptStatuses, Hear(c, by, status),
         status # "rejected" <=> Request(c) \in done'
  PROVE  WordIsRight'
<1>1. heard'.command = c /\ heard'.kind = status
  BY DEF Hear
<1> QED BY <1>1 DEF WordIsRight, StatusIsOfThisCommand, RefusedIsUndone, ReceiptStatuses

-----------------------------------------------------------------------------
LEMMA RefuseKeeps ==
  ASSUME CommandInv, NEW c \in Commands, RefuseCommand(c)
  PROVE  CommandInv'
<1>1. LedgerIsRight'
  BY AskingKeeps DEF CommandInv, RefuseCommand
<1>2. heard'.command = c /\ heard'.kind = "refused" /\ Request(c) \notin done'
  BY RefusedWasNeverSent DEF CommandInv, RefuseCommand, Hear
<1>3. WordIsRight'
  BY <1>2 DEF WordIsRight, StatusIsOfThisCommand, RefusedIsUndone
<1> QED BY <1>1, <1>3 DEF CommandInv

LEMMA RepeatKeeps ==
  ASSUME CommandInv, NEW c \in Commands, Repeat(c)
  PROVE  CommandInv'
BY AskingKeeps, SayingWhatIsClaimed DEF CommandInv, Repeat

LEMMA StatusKeeps ==
  ASSUME CommandInv, NEW c \in Commands, Status(c)
  PROVE  CommandInv'
<1>1. LedgerIsRight'
  BY AskingKeeps DEF CommandInv, Status
<1>2. CASE ledger[Scope(c)] = NoClaim
  <2>1. Hear(c, "status", "absent") /\ UNCHANGED <<ledger, done>>
    BY <1>2 DEF Status
  <2> QED BY <1>1, <1>2, <2>1, SayingItIsAbsent DEF CommandInv
<1>3. CASE ledger[Scope(c)] # NoClaim
  <2>1. Hear(c, "status", ClaimAnswer(c)) /\ UNCHANGED <<ledger, done>>
    BY <1>3 DEF Status
  <2> QED BY <1>1, <1>3, <2>1, SayingWhatIsClaimed DEF CommandInv
<1> QED BY <1>2, <1>3

LEMMA ReceiptIsTrue ==
  ASSUME NEW reply \in GatewayReplies, Valid(reply), NEW performed \in Performs(reply)
  PROVE  reply.body.status \in ReceiptStatuses /\ performed = (reply.body.status # "rejected")
<1>1. reply.code \in {"200", "202"} /\ reply.body.own /\ reply.body.status \in ReceiptStatuses
  BY DEF Valid, Parsed, ReadByAdapter, ReadByClient
<1>2. reply.code \notin {"4xx", "429"} /\ reply.body.status # "odd"
  BY <1>1 DEF ReceiptStatuses
<1>3. Performs(reply) = {reply.body.status # "rejected"}
  BY <1>1, <1>2 DEF Performs
<1> QED BY <1>1, <1>3

LEMMA DispatchKeeps ==
  ASSUME CommandInv, NEW c \in Commands, NEW reply \in GatewayReplies, Dispatch(c, reply)
  PROVE  CommandInv'
<1>0. PICK performed \in Performs(reply) : done' = IF performed THEN done \cup {Request(c)} ELSE done
  BY DEF Dispatch
<1>1. LedgerIsRight /\ ~ RefusedByRunner(c) /\ ~ RefusedByAdapter(c) /\ ledger[Scope(c)] = NoClaim /\ setup' = setup
  BY DEF CommandInv, Dispatch
<1>2. received' = received \cup {Request(c)} /\ contacted' = TRUE /\ ~ SwitchedOff
  BY <1>1 DEF Dispatch, RefusedByAdapter
<1>3. Request(c) \notin done
  BY <1>1, AbsentIsUndone
<1>4. done' \in {done, done \cup {Request(c)}} /\ done' \subseteq received'
  BY <1>0, <1>1, <1>2 DEF LedgerIsRight
<1>5. CASE Valid(reply)
  <2>1. reply.body.status \in ReceiptStatuses /\ (reply.body.status # "rejected" <=> Request(c) \in done')
    BY <1>0, <1>3, <1>5, ReceiptIsTrue
  <2>2. ledger' = [ledger EXCEPT ![Scope(c)] = Claim(c, "completed", reply.body.status)] /\ Hear(c, "execute", reply.body.status)
    BY <1>5 DEF Dispatch
  <2>3. WordIsRight'
    BY <2>1, <2>2, SayingTheStatus
  <2>4. LedgerIsRight'
    BY <1>1, <1>2, <1>4, <2>1, <2>2, WritingKeeps
  <2> QED BY <2>3, <2>4 DEF CommandInv
<1>6. CASE ~ Valid(reply)
  <2>1. ledger' = [ledger EXCEPT ![Scope(c)] = Claim(c, "indeterminate", "none")] /\ Hear(c, "execute", "indeterminate")
    BY <1>6 DEF Dispatch
  <2>2. WordIsRight'
    BY <2>1, SayingLittleIsRight DEF Idle
  <2>3. LedgerIsRight'
    BY <1>1, <1>2, <1>4, <2>1, WritingKeeps
  <2> QED BY <2>2, <2>3 DEF CommandInv
<1> QED BY <1>5, <1>6

LEMMA DispatchNowhereKeeps ==
  ASSUME CommandInv, NEW c \in Commands, DispatchNowhere(c)
  PROVE  CommandInv'
<1>1. /\ LedgerIsRight /\ ~ RefusedByRunner(c) /\ ledger[Scope(c)] = NoClaim
      /\ UNCHANGED <<setup, received, done, contacted>>
      /\ ledger' = [ledger EXCEPT ![Scope(c)] = Claim(c, "indeterminate", "none")] /\ Hear(c, "execute", "indeterminate")
  BY DEF CommandInv, DispatchNowhere
<1>2. SwitchedOff \/ Tokenless \/ (OfAdapter /\ c.operation[1] \notin setup.allowed)
  BY DEF DispatchNowhere, RefusedByRunner, RefusedByAdapter
<1>3. received' = received /\ done' = done /\ contacted' = contacted
      /\ done' \subseteq received' /\ (received' # {} => contacted')
  BY <1>1 DEF LedgerIsRight
<1>4. LedgerIsRight'
  BY <1>1, <1>2, <1>3, WritingKeeps
<1>5. WordIsRight'
  BY <1>1, SayingLittleIsRight DEF Idle
<1> QED BY <1>4, <1>5 DEF CommandInv

LEMMA ReconcileKeeps ==
  ASSUME CommandInv, NEW c \in Commands, NEW reply \in GatewayReplies, Reconcile(c, reply)
  PROVE  CommandInv'
<1>1. LedgerIsRight /\ ~ RefusedByRunner(c) /\ setup' = setup /\ received' = received /\ done' = done
  BY DEF CommandInv, Reconcile
<1>2. CASE ledger[Scope(c)] = NoClaim
  <2>1. Hear(c, "reconcile", "absent") /\ UNCHANGED <<ledger, contacted>>
    BY <1>2 DEF Reconcile
  <2> QED BY <1>1, <1>2, <2>1, AskingKeeps, SayingItIsAbsent DEF CommandInv
<1>3. CASE ledger[Scope(c)] # NoClaim /\ ClaimAnswer(c) # "indeterminate"
  <2>1. Hear(c, "reconcile", ClaimAnswer(c)) /\ UNCHANGED <<ledger, contacted>>
    BY <1>3 DEF Reconcile
  <2> QED BY <1>1, <1>3, <2>1, AskingKeeps, SayingWhatIsClaimed DEF CommandInv
<1>4. CASE ledger[Scope(c)] # NoClaim /\ ClaimAnswer(c) = "indeterminate"
  <2>1. ReconcileCommand(c, reply) /\ ledger[Scope(c)].hash = Fingerprint(c)
    BY <1>1, <1>4, ClaimAnswersTruly DEF Reconcile
  <2>2. CASE SwitchedOff \/ Tokenless
    <3>1. Hear(c, "reconcile", "error") /\ UNCHANGED <<ledger, contacted>>
      BY <2>1, <2>2 DEF ReconcileCommand
    <3> QED BY <1>1, <3>1, AskingKeeps, SayingLittleIsRight DEF CommandInv, Idle
  <2>3. CASE ~ (SwitchedOff \/ Tokenless)
    <3>1. contacted' = TRUE /\ (Valid(reply) => (Request(c) \in done <=> reply.body.status # "rejected"))
      BY <2>1, <2>3 DEF ReconcileCommand
    <3>2. CASE Valid(reply) /\ reply.body.status # "accepted"
      <4>1. /\ ledger' = [ledger EXCEPT ![Scope(c)] = Claim(c, "completed", reply.body.status)]
            /\ Hear(c, "reconcile", reply.body.status)
        BY <2>1, <2>3, <3>2 DEF ReconcileCommand
      <4>2. reply.body.status \in ReceiptStatuses
        BY <3>2 DEF Valid
      <4>3. WordIsRight'
        BY <1>1, <3>1, <3>2, <4>1, <4>2, SayingTheStatus
      <4>4. done' \subseteq received' /\ (received' # {} => contacted')
        BY <1>1, <3>1 DEF LedgerIsRight
      <4>5. LedgerIsRight'
        BY <1>1, <2>1, <2>3, <3>1, <3>2, <4>1, <4>2, <4>4, WritingKeeps
      <4> QED BY <4>3, <4>5 DEF CommandInv
    <3>3. CASE ~ (Valid(reply) /\ reply.body.status # "accepted")
      <4>1. ledger' = ledger /\ Hear(c, "reconcile", "undetermined")
        BY <2>1, <2>3, <3>3 DEF ReconcileCommand
      <4> QED BY <1>1, <2>3, <3>1, <4>1, AskingKeeps, SayingLittleIsRight DEF CommandInv, Idle
    <3> QED BY <3>2, <3>3
  <2> QED BY <2>2, <2>3
<1> QED BY <1>2, <1>3, <1>4

(* The health of a gateway, a page and a webhook say nothing of a command. *)
LEMMA OtherCallsKeep ==
  ASSUME CommandInv, NEW answer,
         TestConnection(answer) \/ ReadPage(answer) \/ IngestWebhook(answer)
  PROVE  CommandInv'
<1>1. UNCHANGED <<setup, ledger, received, done>> /\ (contacted' = contacted \/ (contacted' = TRUE /\ ~ SwitchedOff))
  BY DEF TestConnection, ReadPage, IngestWebhook
<1>2. LedgerIsRight'
  BY <1>1, AskingKeeps DEF CommandInv
<1>3. \E by, kind : kind \in Idle /\ HearOfGateway(by, kind)
  <2>1. ASSUME TestConnection(answer) PROVE \E kind \in Idle : HearOfGateway("health", kind)
    <3>1. HealthOf(answer) \subseteq Idle
      BY DEF HealthOf, Idle
    <3>2. "disabled" \in Idle /\ "unavailable" \in Idle
      BY DEF Idle
    <3> QED BY <2>1, <3>1, <3>2 DEF TestConnection
  <2>2. ASSUME ReadPage(answer) PROVE HearOfGateway("page", "page") \/ HearOfGateway("page", "error")
    BY <2>2 DEF ReadPage
  <2>3. ASSUME IngestWebhook(answer) PROVE HearOfGateway("webhook", "events") \/ HearOfGateway("webhook", "error")
    BY <2>3 DEF IngestWebhook
  <2> QED BY <2>1, <2>2, <2>3 DEF Idle
<1>4. WordIsRight'
  BY <1>3, SayingLittleOfIt
<1> QED BY <1>2, <1>4 DEF CommandInv

-----------------------------------------------------------------------------
LEMMA CommandsStart == GatewayInit => CommandInv
<1> SUFFICES ASSUME GatewayInit PROVE CommandInv
  OBVIOUS
<1>1. /\ setup \in Setups /\ received = {} /\ done = {} /\ contacted = FALSE
      /\ heard.command \in Commands /\ heard.kind = "none"
      /\ ledger \in [CommandScopes -> {NoClaim} \cup ClaimRows]
      /\ \A c \in Commands : ledger[Scope(c)] = NoClaim
  BY CommandsAssumption, ScopeIsOne DEF GatewayInit, AnyCommand
<1>2. LedgerIsRight
  BY <1>1 DEF LedgerIsRight, SentIsClaimed, ClaimsAreTrue, OnlySwitchesStrand, OnlyWhatIsEnabledLeaves
<1>3. WordIsRight
  BY <1>1 DEF WordIsRight, StatusIsOfThisCommand, RefusedIsUndone
<1> QED BY <1>2, <1>3 DEF CommandInv

LEMMA CommandsStep == CommandInv /\ [GatewayNext]_gatewayVars => CommandInv'
<1> SUFFICES ASSUME CommandInv, [GatewayNext]_gatewayVars PROVE CommandInv'
  OBVIOUS
<1>1. ASSUME NEW c \in Commands, RefuseCommand(c) \/ Repeat(c) \/ DispatchNowhere(c) \/ Status(c)
      PROVE  CommandInv'
  BY <1>1, RefuseKeeps, RepeatKeeps, DispatchNowhereKeeps, StatusKeeps
<1>2. ASSUME NEW c \in Commands, NEW reply \in GatewayReplies, Dispatch(c, reply) \/ Reconcile(c, reply)
      PROVE  CommandInv'
  BY <1>2, DispatchKeeps, ReconcileKeeps
<1>3. CASE UNCHANGED gatewayVars
  <2>1. /\ setup' = setup /\ ledger' = ledger /\ received' = received /\ done' = done /\ contacted' = contacted
        /\ heard' = heard
    BY <1>3 DEF gatewayVars
  <2>2. LedgerIsRight'
    BY <2>1, AskingKeeps DEF CommandInv
  <2>3. WordIsRight'
    BY <2>1 DEF CommandInv, WordIsRight, StatusIsOfThisCommand, RefusedIsUndone
  <2> QED BY <2>2, <2>3 DEF CommandInv
<1> QED BY <1>1, <1>2, <1>3, OtherCallsKeep DEF GatewayNext

LEMMA RightIsTrue == CommandInv => CommandsAreTrue
<1> SUFFICES ASSUME CommandInv PROVE CommandsAreTrue
  OBVIOUS
<1>1. received \subseteq {Request(c) : c \in Commands}
  BY DEF CommandInv, LedgerIsRight, SentIsClaimed
<1>2. \A s \in CommandScopes : ledger[s] = NoClaim \/ ledger[s].state \in {"completed", "indeterminate"}
  BY DEF CommandInv, LedgerIsRight, ClaimRows
<1> QED BY <1>1, <1>2 DEF CommandInv, LedgerIsRight, WordIsRight, CommandsAreTrue, GatewayTypeOK

LEMMA CommandInvariance == GatewaySpec => [](CommandInv /\ CommandsAreTrue)
BY CommandsStart, CommandsStep, RightIsTrue, PTL DEF GatewaySpec

(* Neither gateway lets through what it was not set up for, nor says what   *)
(* is not so, side by side: they share nothing.                            *)
THEOREM GatewaysStayTrue == GatewaySpec /\ ProtocolSpec => []GatewaysAreTrue
<1>1. ProtocolInv /\ CommandInv /\ CommandsAreTrue => GatewaysAreTrue
  BY DEF ProtocolInv, GatewaysAreTrue
<1> QED BY <1>1, ProtocolInvariance, CommandInvariance, PTL

-----------------------------------------------------------------------------
(* Clients and routes, for any tenants, inputs and numbers of retries and  *)
(* rows: an operation of any client is one of a few kinds (OperationIsFit), *)
(* a row is as the schemas let it be (RowIsFit), and one the Middleware     *)
(* makes of what a client takes parses (OwnRowParses).                      *)

(* What the five clients' tables of operations have in common. *)
OperationIsFit(op) ==
  /\ op.key \in {"none", "route", "canonical", "default"}
  /\ op.answer = "post" => op.body \in {"post", "none"}
  /\ op.answer \in {"subscription", "created"} => op.body \in {"subscription", "none"}
  /\ op.answer = "posts" => op.body = "query"
  /\ op.answer = "subscriptions" => op.body = "none"

LEMMA SocialOperationsFit == \A n \in DOMAIN SocialOperations : OperationIsFit(SocialOperations[n])
BY DEF SocialOperations, OperationIsFit, Mutation, Read, Query, Operation

LEMMA ResourceOperationsFit == \A n \in DOMAIN ResourceOperations : OperationIsFit(ResourceOperations[n])
BY DEF ResourceOperations, OperationIsFit, Mutation, Read, Query, Operation

LEMMA CommandOperationsFit == \A n \in DOMAIN CommandOperations : OperationIsFit(CommandOperations[n])
BY DEF CommandOperations, OperationIsFit, Mutation, Read, Query, Operation

LEMMA FacadeOperationsFit == \A n \in DOMAIN FacadeOperations : OperationIsFit(FacadeOperations[n])
BY DEF FacadeOperations, OperationIsFit, Mutation, Read, Query, Operation

LEMMA DomainOperationsFit == \A n \in DOMAIN DomainOperations : OperationIsFit(DomainOperations[n])
BY DEF DomainOperations, OperationIsFit, Mutation, Read, Query, Operation

LEMMA OperationsFit ==
  ASSUME NEW c \in DOMAIN Clients, NEW n \in DOMAIN Clients[c]
  PROVE  OperationIsFit(Clients[c][n])
<1>1. \/ c = "social" /\ Clients[c] = SocialOperations
      \/ c = "resources" /\ Clients[c] = ResourceOperations
      \/ c = "commands" /\ Clients[c] = CommandOperations
      \/ c = "facade" /\ Clients[c] = FacadeOperations
      \/ c = "domain" /\ Clients[c] = DomainOperations
  BY DEF Clients
<1> QED BY <1>1, SocialOperationsFit, ResourceOperationsFit, CommandOperationsFit, FacadeOperationsFit, DomainOperationsFit

(* What a client takes and its route does not is among what is named. *)
LEMMA RouteTakesIt ==
  ASSUME NEW op, NEW id, NEW key, NEW input, OperationIsFit(op),
         KeyTaken(op, key), IdTaken(op, id), BodyTaken(op.body, input), ~ TakenThere(op, id, KeySent(op, key), input)
  PROVE  OnlyTakenHere(op, id, input)
<1>1. op.key = "route" => KeySent(op, key) = "fits"
  BY DEF KeyTaken, KeySent
<1>2. CASE op.id \in {"row", "header"} /\ id \notin AnyUuid
  <2>1. id \in AnyUuid \cup {"name"}
    BY <1>2 DEF IdTaken
  <2> QED BY <1>2, <2>1 DEF OnlyTakenHere
<1>3. CASE ~ InputTakenThere(op.body, input)
  <2>1. CASE op.body = "post"
    <3>1. Conforms(input, PostHere)
      BY <2>1 DEF BodyTaken
    <3>2. /\ input.workspaceId \in AnyUuid /\ input.channels \in {"some"} /\ input.text \in {"plain", "lines"}
          /\ input.media \in {"absent", "few", "many"} /\ input.link \in Optional(Uri \cup {"longUrl"})
          /\ input.publishAt \in {"absent", "rfc3339", "loose"}
          /\ input.metadata \in {"absent", "record", "other"} /\ input.others \in {"none", "some"}
      BY <3>1 DEF Conforms, PostHere, Uuid, AnyUuid, Bounded, Optional, DateTime
    <3>3. ~ Conforms(input, CreateSocialPostRequest)
      BY <1>3, <2>1 DEF InputTakenThere
    <3>4. input.publishAt = "loose" \/ input.media = "many" \/ input.metadata = "other" \/ input.others = "some"
      BY <3>2, <3>3 DEF Conforms, CreateSocialPostRequest, Json
    <3> QED BY <2>1, <3>4 DEF OnlyTakenHere
  <2>2. CASE op.body = "query"
    <3>1. Conforms(input, QueryHere)
      BY <2>2 DEF BodyTaken
    <3>2. /\ input.cursor \in {"absent", "token", "plain"} /\ input.limit \in {"absent", "within"}
          /\ input.workspaceId \in Optional(AnyUuid) /\ input.status \in {"absent", "known"}
      BY <3>1 DEF Conforms, QueryHere, Uuid, AnyUuid, Optional
    <3>3. ~ Conforms(input, ListQuery)
      BY <1>3, <2>2 DEF InputTakenThere
    <3>4. input.cursor = "plain"
      BY <3>2, <3>3 DEF Conforms, ListQuery
    <3> QED BY <2>2, <3>4 DEF OnlyTakenHere
  <2>3. CASE op.body = "subscription"
    <3>1. Conforms(input, SubscriptionHere)
      BY <2>3 DEF BodyTaken
    <3>2. /\ input.endpointUrl \in {"https", "HTTPS", "private"} /\ input.eventTypes \in {"plain"}
          /\ input.description \in {"absent", "empty", "plain"} /\ input.others \in {"none", "some"}
      BY <3>1 DEF Conforms, SubscriptionHere, HttpsUrl, Bounded, Optional
    <3>3. ~ Conforms(input, CreateWebhookSubscriptionRequest)
      BY <1>3, <2>3 DEF InputTakenThere
    <3>4. input.endpointUrl \in {"HTTPS", "private"} \/ input.others = "some"
      BY <3>2, <3>3 DEF Conforms, CreateWebhookSubscriptionRequest
    <3> QED BY <2>3, <3>4 DEF OnlyTakenHere
  <2>4. CASE op.body = "command"
    <3>1. Conforms(input, CommandHere)
      BY <2>4 DEF BodyTaken
    <3>2. ~ Conforms(input, CommandEnvelope)
      BY <1>3, <2>4 DEF InputTakenThere
    <3>3. input.payload = "other"
      BY <3>1, <3>2 DEF Conforms, CommandHere, CommandEnvelope
    <3> QED BY <2>4, <3>3 DEF OnlyTakenHere
  <2>5. CASE op.body = "decision"
    <3>1. Conforms(input, DecisionHere)
      BY <2>5 DEF BodyTaken
    <3>2. ~ Conforms(input, OperationMutationRequest)
      BY <1>3, <2>5 DEF InputTakenThere
    <3>3. input.reason \in {"free", "long"}
      BY <3>1, <3>2 DEF Conforms, DecisionHere, OperationMutationRequest
    <3> QED BY <2>5, <3>3 DEF OnlyTakenHere
  <2>6. CASE op.body = "any"
    <3>1. input \in {"fit", "unfit"}
      BY <2>6 DEF BodyTaken
    <3>2. input # "fit"
      BY <1>3, <2>6 DEF InputTakenThere
    <3> QED BY <2>6, <3>1, <3>2 DEF OnlyTakenHere
  <2>7. CASE op.body \notin {"post", "query", "subscription", "command", "decision", "any"}
    BY <1>3, <2>7 DEF InputTakenThere
  <2> QED BY <2>1, <2>2, <2>3, <2>4, <2>5, <2>6, <2>7
<1> QED BY <1>1, <1>2, <1>3 DEF TakenThere

(* What is named is refused. *)
LEMMA RouteRefusesIt ==
  ASSUME NEW op, NEW id, NEW key, NEW input, TakenThere(op, id, key, input)
  PROVE  ~ OnlyTakenHere(op, id, input)
<1>1. (op.id \in {"row", "header"} => id \in AnyUuid) /\ InputTakenThere(op.body, input)
  BY DEF TakenThere
<1>2. ~ (op.id \in {"row", "header"} /\ id = "name")
  BY <1>1 DEF AnyUuid
<1>3. ~ (op.body = "any" /\ input = "unfit")
  BY <1>1 DEF InputTakenThere
<1>4. op.body = "command" => input.payload # "other"
  BY <1>1 DEF InputTakenThere, Conforms, CommandEnvelope
<1>5. op.body = "query" => input.cursor # "plain"
  BY <1>1 DEF InputTakenThere, Conforms, ListQuery
<1>6. op.body = "post" => input.publishAt # "loose" /\ input.media # "many" /\ input.metadata # "other" /\ input.others # "some"
  BY <1>1 DEF InputTakenThere, Conforms, CreateSocialPostRequest, Json
<1>7. op.body = "subscription" => input.endpointUrl \notin {"HTTPS", "private"} /\ input.others # "some"
  BY <1>1 DEF InputTakenThere, Conforms, CreateWebhookSubscriptionRequest
<1>8. op.body = "decision" => input.reason \notin {"free", "long"}
  BY <1>1 DEF InputTakenThere, Conforms, OperationMutationRequest
<1> QED BY <1>2, <1>3, <1>4, <1>5, <1>6, <1>7, <1>8 DEF OnlyTakenHere

(* A batch of one is taken exactly when its message is. *)
LEMMA EmailInBatchAsAlone == ASSUME NEW m PROVE EmailTaken(m) <=> BatchTaken({m})
<1>1. Conforms(m, EmailHere) <=> Conforms(m, EmailInBatch) /\ m.content \in Content /\ m.template \in {"absent", "known"}
  BY DEF Conforms, EmailHere, EmailInBatch
<1>2. {m.content, m.template} # {"absent"} <=> m.content # "absent" \/ m.template # "absent"
  OBVIOUS
<1> QED BY <1>1, <1>2 DEF EmailTaken, BatchTaken, ContentOrTemplate

LEMMA SmsInBatchAsAlone == ASSUME NEW m PROVE Conforms(m, SmsHere) <=> SmsBatchTaken({m})
BY DEF Conforms, SmsHere, SmsInBatch, SmsBatchTaken

(* What a call makes of its own can be read back. *)
LEMMA OwnRowParses ==
  ASSUME NEW input
  PROVE  /\ Conforms(input, PostHere) /\ tenant = "v4" => PostParses(PostRow(input))
         /\ Conforms(input, SubscriptionHere) => SubscriptionParses(SubscriptionRow(input))
<1>1. ASSUME Conforms(input, PostHere), tenant = "v4" PROVE PostParses(PostRow(input))
  <2>1. input.workspaceId \in Uuid
    BY <1>1 DEF Conforms, PostHere
  <2>2. PostRow(input).workspaceId = input.workspaceId /\ PostRow(input).publishAt \in {"absent", "rfc3339"}
    BY DEF PostRow
  <2> QED BY <1>1, <2>1, <2>2 DEF PostParses, Conforms, Uuid, Optional, DateTime
<1>2. ASSUME Conforms(input, SubscriptionHere) PROVE SubscriptionParses(SubscriptionRow(input))
  <2>1. input.endpointUrl \in HttpsUrl /\ input.eventTypes \in Bounded(1)
    BY <1>2 DEF Conforms, SubscriptionHere
  <2> QED BY <2>1 DEF SubscriptionParses, Conforms, SubscriptionRow
<1> QED BY <1>1, <1>2

(* A row that is not understood is odd in one of the two named ways. *)
RowIsFit(saved) ==
  \/ saved.kind = "post" /\ saved.workspaceId \in AnyUuid /\ saved.publishAt \in {"absent", "rfc3339"}
  \/ /\ saved.kind = "subscription"
     /\ saved.endpointUrl \in {"https", "longUrl"} /\ saved.eventTypes \in {"plain", "lines", "long"}

LEMMA RowMadeIsFit ==
  ASSUME NEW op, NEW id, NEW key, NEW input, TakenThere(op, id, key, input), NEW made \in RowMade(op, input)
  PROVE  RowIsFit(made)
<1>1. CASE op.body = "post"
  <2>1. made = PostRow(input)
    BY <1>1 DEF RowMade
  <2>2. input.workspaceId \in AnyUuid
    BY <1>1 DEF TakenThere, InputTakenThere, Conforms, CreateSocialPostRequest
  <2> QED BY <2>1, <2>2 DEF PostRow, RowIsFit
<1>2. CASE op.body = "subscription"
  <2>1. made = SubscriptionRow(input)
    BY <1>2 DEF RowMade
  <2>2. input.endpointUrl \in {"https", "longUrl"} /\ input.eventTypes \in {"plain", "lines", "long"}
    BY <1>2 DEF TakenThere, InputTakenThere, Conforms, CreateWebhookSubscriptionRequest
  <2> QED BY <2>1, <2>2 DEF SubscriptionRow, RowIsFit
<1>3. CASE op.body \notin {"post", "subscription"}
  BY <1>3 DEF RowMade
<1> QED BY <1>1, <1>2, <1>3

(* Why an item of an answer to an operation may not be understood. *)
Excused(op, item) ==
  \/ item.kind = "post" /\ tenant # "v4"
  \/ item.kind = "post" /\ op.body # "post" /\ item.workspaceId \in {"v7", "nil"}
  \/ /\ item.kind = "subscription" /\ op.body # "subscription"
     /\ item.endpointUrl = "longUrl" \/ item.eventTypes \in {"lines", "long"}
  \/ item.kind = "operation" /\ (item.commandId = "v7" \/ item.lastError = "unbounded")

LEMMA OddPostIsExcused ==
  ASSUME NEW op, op.body # "post", NEW saved, RowIsFit(saved), saved.kind = "post", ~ PostParses(saved)
  PROVE  Excused(op, saved)
<1>1. saved.workspaceId \in AnyUuid /\ saved.publishAt \in {"absent", "rfc3339"}
  BY DEF RowIsFit
<1>2. tenant # "v4" \/ saved.workspaceId # "v4"
  BY <1>1 DEF PostParses, Conforms, Uuid, Optional, DateTime
<1> QED BY <1>1, <1>2 DEF AnyUuid, Excused

LEMMA OddSubscriptionIsExcused ==
  ASSUME NEW op, op.body # "subscription", NEW saved, RowIsFit(saved), saved.kind = "subscription", ~ SubscriptionParses(saved)
  PROVE  Excused(op, saved)
<1>1. saved.endpointUrl \in {"https", "longUrl"} /\ saved.eventTypes \in {"plain", "lines", "long"}
  BY DEF RowIsFit
<1>2. saved.endpointUrl # "https" \/ saved.eventTypes # "plain"
  BY <1>1 DEF SubscriptionParses, Conforms, HttpsUrl, Bounded
<1> QED BY <1>1, <1>2 DEF Excused

LEMMA OddReceiptIsExcused ==
  ASSUME NEW op, NEW receipt \in Receipts, ~ OperationParses(receipt)
  PROVE  Excused(op, receipt)
<1>1. receipt.kind = "operation" /\ receipt.commandId \in {"v4", "v7"} /\ receipt.lastError \in {"absent", "plain", "unbounded"}
  BY DEF Receipts
<1>2. receipt.commandId # "v4" \/ receipt.lastError \notin {"absent", "plain"}
  BY <1>1 DEF OperationParses, Conforms, Uuid, Optional, Bounded
<1> QED BY <1>1, <1>2 DEF Excused

LEMMA AnswerIsUnderstood ==
  ASSUME NEW op, NEW input, OperationIsFit(op), BodyTaken(op.body, input), \A saved \in rows : RowIsFit(saved),
         NEW answer \in Answers(op, input), NEW item \in answer, ~ Parses(item)
  PROVE  Excused(op, item)
<1>1. ASSUME item \in RowsOf("post"), op.body # "post" PROVE Excused(op, item)
  <2>1. item.kind = "post" /\ RowIsFit(item)
    BY <1>1 DEF RowsOf
  <2> QED BY <1>1, <2>1, OddPostIsExcused DEF Parses
<1>2. ASSUME item \in RowsOf("subscription"), op.body # "subscription" PROVE Excused(op, item)
  <2>1. item.kind = "subscription" /\ RowIsFit(item)
    BY <1>2 DEF RowsOf
  <2>2. ~ SubscriptionParses(item)
    BY <2>1 DEF Parses
  <2> QED BY <1>2, <2>1, <2>2, OddSubscriptionIsExcused
<1>3. CASE op.answer = "post"
  <2>1. PICK saved \in IF op.body = "post" THEN {PostRow(input)} ELSE RowsOf("post") : answer = {saved}
    BY <1>3 DEF Answers
  <2>2. CASE op.body = "post"
    <3>1. item = PostRow(input) /\ item.kind = "post"
      BY <2>1, <2>2 DEF PostRow
    <3>2. Conforms(input, PostHere) /\ ~ PostParses(PostRow(input))
      BY <2>2, <3>1 DEF BodyTaken, Parses
    <3>3. tenant # "v4"
      BY <3>2, OwnRowParses
    <3> QED BY <3>1, <3>3 DEF Excused
  <2> QED BY <1>1, <2>1, <2>2
<1>4. CASE op.answer \in {"subscription", "created"}
  <2>1. PICK saved \in IF op.body = "subscription" THEN {SubscriptionRow(input)} ELSE RowsOf("subscription") : answer = {saved}
    BY <1>4 DEF Answers
  <2>2. CASE op.body = "subscription"
    <3>1. item = SubscriptionRow(input) /\ item.kind = "subscription"
      BY <2>1, <2>2 DEF SubscriptionRow
    <3>2. Conforms(input, SubscriptionHere) /\ ~ SubscriptionParses(SubscriptionRow(input))
      BY <2>2, <3>1 DEF BodyTaken, Parses
    <3> QED BY <3>2, OwnRowParses
  <2> QED BY <1>2, <2>1, <2>2
<1>5. CASE op.answer = "posts"
  <2>1. item \in RowsOf("post") /\ op.body # "post"
    BY <1>5 DEF Answers, OperationIsFit
  <2> QED BY <1>1, <2>1
<1>6. CASE op.answer = "subscriptions"
  <2>1. item \in RowsOf("subscription") /\ op.body # "subscription"
    BY <1>6 DEF Answers, OperationIsFit
  <2> QED BY <1>2, <2>1
<1>7. CASE op.answer = "operation"
  <2>1. item \in Receipts
    BY <1>7 DEF Answers
  <2>2. item.kind = "operation"
    BY <2>1 DEF Receipts
  <2>3. ~ OperationParses(item)
    BY <2>2 DEF Parses
  <2> QED BY <2>1, <2>3, OddReceiptIsExcused
<1>8. CASE op.answer \notin {"post", "posts", "subscription", "created", "subscriptions", "operation"}
  BY <1>8 DEF Answers
<1> QED BY <1>3, <1>4, <1>5, <1>6, <1>7, <1>8

-----------------------------------------------------------------------------
CallFields == {"client", "name", "id", "key", "input", "tries", "stage", "answer"}

(* The call that is under way was taken by its client, and there is room    *)
(* for the row it makes.                                                    *)
SentWasTaken ==
  call.stage = "sent" =>
    /\ \E key \in {"absent", "short", "fits", "wide"} : KeyTaken(OpOf(call), key) /\ call.key = KeySent(OpOf(call), key)
    /\ IdTaken(OpOf(call), call.id) /\ BodyTaken(OpOf(call).body, call.input)
    /\ Cardinality(rows \cup RowMade(OpOf(call), call.input)) <= MaxRows

CallIsBuilt ==
  /\ DOMAIN call = CallFields
  /\ call.client \in DOMAIN Clients /\ call.name \in DOMAIN Clients[call.client]

ExchangesInv ==
  /\ IsFiniteSet(rows) /\ (\A saved \in rows : RowIsFit(saved)) /\ CallIsBuilt /\ SentWasTaken
  /\ ExchangesTypeOK /\ TakenHereIsTakenThere /\ DoneIsUnderstood /\ RepeatedIsKeyed

LEMMA RowMadeFits ==
  ASSUME NEW R, IsFiniteSet(R), Cardinality(R) < MaxRows, NEW op, NEW input
  PROVE  IsFiniteSet(R \cup RowMade(op, input)) /\ Cardinality(R \cup RowMade(op, input)) <= MaxRows
<1>1. \A made : IsFiniteSet(R \cup {made}) /\ Cardinality(R \cup {made}) \in {Cardinality(R), Cardinality(R) + 1}
  BY FS_AddElement
<1>2. Cardinality(R) \in Nat
  BY FS_CardinalityType
<1>3. RowMade(op, input) = {PostRow(input)} \/ RowMade(op, input) = {SubscriptionRow(input)} \/ RowMade(op, input) = {}
  BY DEF RowMade
<1>4. CASE RowMade(op, input) = {}
  <2>1. R \cup RowMade(op, input) = R
    BY <1>4
  <2> QED BY <2>1, <1>2, ExchangesAssumption
<1>5. CASE RowMade(op, input) # {}
  <2>1. PICK made : RowMade(op, input) = {made}
    BY <1>3, <1>5
  <2>2. IsFiniteSet(R \cup {made}) /\ Cardinality(R \cup {made}) \in {Cardinality(R), Cardinality(R) + 1}
    BY <1>1
  <2>3. R \cup RowMade(op, input) = R \cup {made}
    BY <2>1
  <2> QED BY <2>2, <2>3, <1>2, ExchangesAssumption
<1> QED BY <1>4, <1>5

LEMMA RowsStayFinite ==
  ASSUME NEW R, IsFiniteSet(R), NEW op, NEW input
  PROVE  IsFiniteSet(R \cup RowMade(op, input))
<1>1. RowMade(op, input) = {PostRow(input)} \/ RowMade(op, input) = {SubscriptionRow(input)} \/ RowMade(op, input) = {}
  BY DEF RowMade
<1>2. IsFiniteSet({}) /\ \A made : IsFiniteSet({made})
  BY FS_EmptySet, FS_Singleton
<1>3. IsFiniteSet(RowMade(op, input))
  BY <1>1, <1>2
<1> QED BY <1>3, FS_Union

LEMMA ExchangesStart == ExchangesInit => ExchangesInv
<1> SUFFICES ASSUME ExchangesInit PROVE ExchangesInv
  OBVIOUS
<1>1. tenant \in Tenants /\ rows = {} /\ call = NoCall
  BY DEF ExchangesInit
<1>2. /\ DOMAIN call = CallFields /\ call.client = "social" /\ call.name = "listPosts"
      /\ call.tries = 0 /\ call.stage = "idle"
  BY <1>1 DEF NoCall, CallFields
<1>3. call.client \in DOMAIN Clients /\ call.name \in DOMAIN Clients[call.client]
  BY <1>2 DEF Clients, SocialOperations
<1>4. IsFiniteSet(rows) /\ Cardinality(rows) = 0 /\ \A saved \in rows : RowIsFit(saved)
  BY <1>1, FS_EmptySet
<1> QED BY <1>1, <1>2, <1>3, <1>4, ExchangesAssumption
     DEF ExchangesInv, CallIsBuilt, SentWasTaken, ExchangesTypeOK, TakenHereIsTakenThere, DoneIsUnderstood, RepeatedIsKeyed

LEMMA BeginCallKeeps ==
  ASSUME ExchangesInv, NEW c \in DOMAIN Clients, NEW n \in DOMAIN Clients[c], NEW id,
         NEW key \in {"absent", "short", "fits", "wide"}, NEW input, BeginCall(c, n, id, key, input)
  PROVE  ExchangesInv'
<1> DEFINE op == Clients[c][n]
<1>1. /\ DOMAIN call' = CallFields /\ call'.client = c /\ call'.name = n /\ call'.key = KeySent(op, key)
      /\ call'.id = id /\ call'.input = input /\ call'.tries = 1 /\ call'.stage \in {"sent", "refusedHere"}
      /\ call'.stage = "sent" => KeyTaken(op, key) /\ IdTaken(op, id) /\ BodyTaken(op.body, input)
  BY DEF BeginCall, CallFields
<1>2. rows' = rows /\ tenant' = tenant /\ IsFiniteSet(rows) /\ Cardinality(rows) < MaxRows
  BY DEF BeginCall, ExchangesInv
<1>3. OpOf(call)' = op /\ OpOf(call') = op
  BY <1>1 DEF OpOf
<1>4. SentWasTaken'
  BY <1>1, <1>2, <1>3, RowMadeFits DEF SentWasTaken
<1>5. ExchangesTypeOK'
  BY <1>1, <1>2, ExchangesAssumption DEF ExchangesInv, ExchangesTypeOK
<1>6. TakenHereIsTakenThere' /\ DoneIsUnderstood' /\ RepeatedIsKeyed'
  BY <1>1 DEF TakenHereIsTakenThere, DoneIsUnderstood, RepeatedIsKeyed
<1>7. \A saved \in rows' : RowIsFit(saved)
  BY <1>2 DEF ExchangesInv
<1> QED BY <1>1, <1>2, <1>4, <1>5, <1>6, <1>7 DEF ExchangesInv, CallIsBuilt

LEMMA RowsStayFit ==
  ASSUME \A saved \in rows : RowIsFit(saved), NEW op, NEW id, NEW key, NEW input, TakenThere(op, id, key, input)
  PROVE  \A saved \in rows \cup RowMade(op, input) : RowIsFit(saved)
BY RowMadeIsFit

LEMMA ServeKeeps ==
  ASSUME ExchangesInv, NEW answer \in Answers(OpOf(call), call.input), Serve(answer)
  PROVE  ExchangesInv'
<1> DEFINE op == OpOf(call)
<1>1. /\ call.stage = "sent" /\ tenant' = tenant /\ DOMAIN call = CallFields
      /\ TakenThere(op, call.id, call.key, call.input) /\ rows' = rows \cup RowMade(op, call.input)
      /\ BodyTaken(op.body, call.input) /\ Cardinality(rows \cup RowMade(op, call.input)) <= MaxRows
      /\ \A saved \in rows : RowIsFit(saved)
  BY DEF Serve, Arrives, ExchangesInv, CallIsBuilt, SentWasTaken
<1>2. OperationIsFit(op)
  BY OperationsFit DEF ExchangesInv, CallIsBuilt, OpOf
<1>3. PICK stage \in {"done", "misunderstood"} :
        /\ call' = [call EXCEPT !.stage = stage, !.answer = answer]
        /\ stage = "misunderstood" => \E item \in answer : ~ Parses(item)
  BY DEF Serve
<1>4. /\ DOMAIN call' = CallFields /\ call'.stage = stage /\ call'.client = call.client /\ call'.name = call.name
      /\ call'.id = call.id /\ call'.key = call.key /\ call'.input = call.input /\ call'.tries = call.tries
      /\ call'.answer = answer
  <2>1. call' = [call EXCEPT !.stage = stage, !.answer = answer] /\ DOMAIN call = CallFields
    BY <1>1, <1>3
  <2>2. {"stage", "answer", "client", "name", "id", "key", "input", "tries"} \subseteq CallFields
    BY DEF CallFields
  <2>3. DOMAIN call' = CallFields /\ call'.stage = stage /\ call'.answer = answer
    BY <2>1, <2>2
  <2>4. \A f \in CallFields : f \notin {"stage", "answer"} => call'[f] = call[f]
    BY <2>1
  <2> QED BY <2>2, <2>3, <2>4
<1>5. OpOf(call)' = op /\ OpOf(call') = op
  BY <1>4 DEF OpOf
<1>6. IsFiniteSet(rows') /\ Cardinality(rows') <= MaxRows
  <2>1. IsFiniteSet(rows)
    BY DEF ExchangesInv
  <2>2. rows' = rows \cup RowMade(op, call.input) /\ Cardinality(rows \cup RowMade(op, call.input)) <= MaxRows
    BY <1>1
  <2> HIDE DEF op
  <2>3. IsFiniteSet(rows \cup RowMade(op, call.input))
    BY <2>1, RowsStayFinite
  <2> QED BY <2>2, <2>3
<1>7. \A saved \in rows' : RowIsFit(saved)
  <2> HIDE DEF op
  <2> QED BY <1>1, RowsStayFit
<1>8. TakenHereIsTakenThere'
  <2>1. ~ OnlyTakenHere(op, call.id, call.input)
    BY <1>1, RouteRefusesIt
  <2> QED BY <1>3, <1>4, <1>5, <2>1 DEF TakenHereIsTakenThere, OnlyTakenHere
<1>9. DoneIsUnderstood'
  <2> SUFFICES ASSUME stage = "misunderstood"
               PROVE  \E item \in answer : Excused(op, item)
    BY <1>1, <1>4, <1>5 DEF DoneIsUnderstood, Excused
  <2>1. PICK item \in answer : ~ Parses(item)
    BY <1>3
  <2>2. Excused(op, item)
    BY <1>1, <1>2, <2>1, AnswerIsUnderstood
  <2> QED BY <2>2
<1>10. RepeatedIsKeyed'
  BY <1>4, <1>5 DEF ExchangesInv, RepeatedIsKeyed
<1>11. ExchangesTypeOK'
  BY <1>1, <1>4, <1>6 DEF ExchangesInv, ExchangesTypeOK
<1>12. SentWasTaken' /\ CallIsBuilt'
  BY <1>4 DEF SentWasTaken, ExchangesInv, CallIsBuilt
<1> QED BY <1>6, <1>7, <1>8, <1>9, <1>10, <1>11, <1>12 DEF ExchangesInv

LEMMA RefusalKeeps == ASSUME ExchangesInv, Refuse PROVE ExchangesInv'
<1> DEFINE op == OpOf(call)
<1>1. /\ call.stage = "sent" /\ tenant' = tenant /\ rows' = rows /\ DOMAIN call = CallFields
      /\ call' = [call EXCEPT !.stage = "refusedThere"] /\ ~ TakenThere(op, call.id, call.key, call.input)
      /\ IdTaken(op, call.id) /\ BodyTaken(op.body, call.input)
  BY DEF Refuse, Arrives, ExchangesInv, CallIsBuilt, SentWasTaken
<1>2. PICK key : KeyTaken(op, key) /\ call.key = KeySent(op, key)
  BY <1>1 DEF ExchangesInv, SentWasTaken
<1>3. OperationIsFit(op)
  BY OperationsFit DEF ExchangesInv, CallIsBuilt, OpOf
<1>4. /\ DOMAIN call' = CallFields /\ call'.stage = "refusedThere" /\ call'.client = call.client /\ call'.name = call.name
      /\ call'.id = call.id /\ call'.key = call.key /\ call'.input = call.input /\ call'.tries = call.tries
  BY <1>1 DEF CallFields
<1>5. OpOf(call)' = op /\ OpOf(call') = op
  BY <1>4 DEF OpOf
<1>6. TakenHereIsTakenThere'
  <2>1. OnlyTakenHere(op, call.id, call.input)
    BY <1>1, <1>2, <1>3, RouteTakesIt
  <2> QED BY <1>4, <1>5, <2>1 DEF TakenHereIsTakenThere, OnlyTakenHere
<1>7. DoneIsUnderstood' /\ SentWasTaken' /\ CallIsBuilt'
  BY <1>4 DEF DoneIsUnderstood, SentWasTaken, ExchangesInv, CallIsBuilt
<1>8. RepeatedIsKeyed'
  BY <1>4, <1>5 DEF ExchangesInv, RepeatedIsKeyed
<1>9. ExchangesTypeOK' /\ IsFiniteSet(rows') /\ \A saved \in rows' : RowIsFit(saved)
  BY <1>1, <1>4 DEF ExchangesInv, ExchangesTypeOK
<1> QED BY <1>6, <1>7, <1>8, <1>9 DEF ExchangesInv

LEMMA LoseKeeps ==
  ASSUME ExchangesInv, NEW arrives \in BOOLEAN, Lose(arrives)
  PROVE  ExchangesInv'
<1> DEFINE op == OpOf(call)
<1>1. /\ call.stage = "sent" /\ tenant' = tenant /\ DOMAIN call = CallFields /\ IsFiniteSet(rows)
      /\ IdTaken(op, call.id) /\ BodyTaken(op.body, call.input) /\ Cardinality(rows \cup RowMade(op, call.input)) <= MaxRows
      /\ Cardinality(rows) <= MaxRows /\ call.tries \in 0 .. MaxRetries + 1
  BY DEF Lose, ExchangesInv, CallIsBuilt, SentWasTaken, ExchangesTypeOK
<1>2. PICK key \in {"absent", "short", "fits", "wide"} : KeyTaken(op, key) /\ call.key = KeySent(op, key)
  BY <1>1 DEF ExchangesInv, SentWasTaken
<1>3. OperationIsFit(op)
  BY OperationsFit DEF ExchangesInv, CallIsBuilt, OpOf
<1>4. (rows' = rows \cup RowMade(op, call.input) /\ TakenThere(op, call.id, call.key, call.input)) \/ rows' = rows
  BY DEF Lose, Arrives
<1>5. \A saved \in rows' : RowIsFit(saved)
  <2>1. \A saved \in rows : RowIsFit(saved)
    BY DEF ExchangesInv
  <2> HIDE DEF op
  <2> QED BY <1>4, <2>1, RowsStayFit
<1>6. /\ IsFiniteSet(rows') /\ Cardinality(rows') <= MaxRows
      /\ Cardinality(rows' \cup RowMade(op, call.input)) <= MaxRows
  <2>1. rows' \cup RowMade(op, call.input) = rows \cup RowMade(op, call.input)
    BY <1>4
  <2>2. IsFiniteSet(rows) /\ Cardinality(rows) <= MaxRows /\ Cardinality(rows \cup RowMade(op, call.input)) <= MaxRows
    BY <1>1
  <2> HIDE DEF op
  <2>3. IsFiniteSet(rows \cup RowMade(op, call.input))
    BY <2>2, RowsStayFinite
  <2> QED BY <1>4, <2>1, <2>2, <2>3
<1>7. CASE CanRetry(call)
  <2>1. call' = [call EXCEPT !.tries = @ + 1]
    BY <1>7 DEF Lose
  <2>2. /\ DOMAIN call' = CallFields /\ call'.stage = "sent" /\ call'.client = call.client /\ call'.name = call.name
        /\ call'.id = call.id /\ call'.key = call.key /\ call'.input = call.input /\ call'.tries = call.tries + 1
    BY <1>1, <2>1 DEF CallFields
  <2>3. OpOf(call)' = op /\ OpOf(call') = op
    BY <2>2 DEF OpOf
  <2>4. op.method = "GET" \/ (call.key \in {"short", "fits", "wide"} /\ op.key # "none")
    <3>1. op.method = "GET" \/ call.key # "absent"
      BY <1>7 DEF CanRetry
    <3>2. call.key # "absent" => call.key \in {"short", "fits", "wide"} /\ op.key # "none"
      BY <1>2, <1>3 DEF OperationIsFit, KeyTaken, KeySent
    <3> QED BY <3>1, <3>2
  <2>5. RepeatedIsKeyed'
    BY <2>2, <2>3, <2>4 DEF RepeatedIsKeyed
  <2>6. call'.tries \in 0 .. MaxRetries + 1
    BY <1>1, <1>7, <2>2, ExchangesAssumption DEF CanRetry
  <2>7. ExchangesTypeOK' /\ CallIsBuilt'
    BY <1>1, <1>6, <2>2, <2>6 DEF ExchangesInv, ExchangesTypeOK, CallIsBuilt
  <2>8. SentWasTaken'
    BY <1>1, <1>2, <1>6, <2>2, <2>3 DEF SentWasTaken
  <2>9. TakenHereIsTakenThere' /\ DoneIsUnderstood'
    BY <2>2 DEF TakenHereIsTakenThere, DoneIsUnderstood
  <2> QED BY <1>6, <1>5, <2>5, <2>7, <2>8, <2>9 DEF ExchangesInv
<1>8. CASE ~ CanRetry(call)
  <2>1. call' = [call EXCEPT !.stage = "unknown"]
    BY <1>8 DEF Lose
  <2>2. /\ DOMAIN call' = CallFields /\ call'.stage = "unknown" /\ call'.client = call.client /\ call'.name = call.name
        /\ call'.id = call.id /\ call'.key = call.key /\ call'.input = call.input /\ call'.tries = call.tries
    BY <1>1, <2>1 DEF CallFields
  <2>3. OpOf(call)' = op /\ OpOf(call') = op
    BY <2>2 DEF OpOf
  <2>4. RepeatedIsKeyed'
    BY <2>2, <2>3 DEF ExchangesInv, RepeatedIsKeyed
  <2>5. ExchangesTypeOK' /\ CallIsBuilt'
    BY <1>1, <1>6, <2>2 DEF ExchangesInv, ExchangesTypeOK, CallIsBuilt
  <2>6. SentWasTaken' /\ TakenHereIsTakenThere' /\ DoneIsUnderstood'
    BY <2>2 DEF SentWasTaken, TakenHereIsTakenThere, DoneIsUnderstood
  <2> QED BY <1>6, <1>5, <2>4, <2>5, <2>6 DEF ExchangesInv
<1> QED BY <1>7, <1>8

LEMMA PostDirectlyKeeps ==
  ASSUME ExchangesInv, NEW n, NEW input, PostDirectly(n, input)
  PROVE  ExchangesInv'
<1> DEFINE op == SocialOperations[n]
<1>1. /\ call.stage # "sent" /\ Cardinality(rows) < MaxRows - 1 /\ IsFiniteSet(rows)
      /\ rows' = rows \cup RowMade(op, input) /\ tenant' = tenant /\ call' = call
      /\ TakenThere(op, "absent", "fits", input) /\ \A saved \in rows : RowIsFit(saved)
  BY DEF PostDirectly, ExchangesInv
<1>2. Cardinality(rows) < MaxRows
  BY <1>1, FS_CardinalityType, ExchangesAssumption
<1>3. IsFiniteSet(rows') /\ Cardinality(rows') <= MaxRows
  BY <1>1, <1>2, RowMadeFits
<1>4. ExchangesTypeOK' /\ CallIsBuilt'
  BY <1>1, <1>3 DEF ExchangesInv, ExchangesTypeOK, CallIsBuilt
<1>5. \A saved \in rows' : RowIsFit(saved)
  <2> HIDE DEF op
  <2> QED BY <1>1, RowsStayFit
<1>6. SentWasTaken' /\ TakenHereIsTakenThere' /\ DoneIsUnderstood' /\ RepeatedIsKeyed'
  BY <1>1 DEF ExchangesInv, SentWasTaken, TakenHereIsTakenThere, DoneIsUnderstood, RepeatedIsKeyed, OpOf, OnlyTakenHere
<1> QED BY <1>3, <1>4, <1>5, <1>6 DEF ExchangesInv

LEMMA ExchangesStep == ExchangesInv /\ [ExchangesNext]_exchangeVars => ExchangesInv'
<1> SUFFICES ASSUME ExchangesInv, [ExchangesNext]_exchangeVars PROVE ExchangesInv'
  OBVIOUS
<1>1. CASE UNCHANGED exchangeVars
  <2>1. tenant' = tenant /\ rows' = rows /\ call' = call
    BY <1>1 DEF exchangeVars
  <2> QED BY <2>1 DEF ExchangesInv, CallIsBuilt, SentWasTaken, ExchangesTypeOK, TakenHereIsTakenThere, DoneIsUnderstood,
                      RepeatedIsKeyed, OpOf, OnlyTakenHere
<1>2. CASE ExchangesNext
  BY <1>2, BeginCallKeeps, ServeKeeps, RefusalKeeps, LoseKeeps, PostDirectlyKeeps DEF ExchangesNext
<1> QED BY <1>1, <1>2

LEMMA BatchIsAsAlone == BatchAsAlone
BY EmailInBatchAsAlone, SmsInBatchAsAlone DEF BatchAsAlone

(* Whatever a client is asked, whichever attempts are lost and whatever     *)
(* others left in the database: of what it has validated the Middleware     *)
(* refuses as invalid what OnlyTakenHere lists and nothing else, what was   *)
(* done it understands but for the rows and receipts DoneIsUnderstood names, *)
(* and only a reading or a keyed write is sent twice.                       *)
THEOREM BothEndsAgree == ExchangesSpec => []EndsAgree
<1>1. ExchangesInv => EndsAgree
  BY BatchIsAsAlone DEF ExchangesInv, EndsAgree
<1> QED BY <1>1, ExchangesStart, ExchangesStep, PTL DEF ExchangesSpec

-----------------------------------------------------------------------------
(* The pages of a list, for any posts, workspaces and page size: the cursor *)
(* is the last post of the last page (CursorIsLast), and what is left of   *)
(* those there at the start lies ahead of it (RestIsAhead).                *)

KeptIsBuilt ==
  /\ Existing \subseteq PostIds /\ IsFiniteSet(Existing)
  /\ when \in Nat /\ when >= 1
  /\ kept \in [Existing -> [at : 1 .. when, workspace : Workspaces, status : {"accepted", "cancelled"}]]

LEMMA BeforeOrders ==
  ASSUME KeptIsBuilt
  PROVE  /\ \A a \in Existing : ~ Before(a, a)
         /\ \A a, b \in Existing : a # b => Before(a, b) \/ Before(b, a)
         /\ \A a, b, c \in Existing : Before(a, b) /\ Before(b, c) => Before(a, c)
<1>1. \A a \in Existing : kept[a].at \in Nat /\ a \in Nat
  BY PagesAssumption DEF KeptIsBuilt
<1> QED BY <1>1 DEF Before

LEMMA AheadIsSmaller ==
  ASSUME KeptIsBuilt, NEW found \in SUBSET Existing, NEW a \in found, NEW b \in found, Before(a, b)
  PROVE  /\ Cardinality(Ahead(a, found)) \in Nat /\ Cardinality(Ahead(b, found)) \in Nat
         /\ Cardinality(Ahead(a, found)) < Cardinality(Ahead(b, found))
<1>1. IsFiniteSet(found) /\ Ahead(a, found) \subseteq found /\ Ahead(b, found) \subseteq found
  BY FS_Subset DEF KeptIsBuilt, Ahead
<1>2. IsFiniteSet(Ahead(a, found)) /\ IsFiniteSet(Ahead(b, found))
  BY <1>1, FS_Subset
<1>3. Ahead(a, found) \subseteq Ahead(b, found) /\ a \in Ahead(b, found) /\ a \notin Ahead(a, found)
  BY BeforeOrders DEF Ahead
<1>4. Cardinality(Ahead(a, found)) <= Cardinality(Ahead(b, found)) /\ Cardinality(Ahead(a, found)) # Cardinality(Ahead(b, found))
  BY <1>2, <1>3, FS_Subset
<1> QED BY <1>2, <1>4, FS_CardinalityType

LEMMA SomeNumberIsLeast ==
  ASSUME NEW T \in SUBSET Nat, T # {}
  PROVE  \E x \in T : \A y \in T : x <= y
<1> DEFINE R == OpToRel(<, Nat)
<1>1. R = {pair \in Nat \X Nat : pair[1] < pair[2]}
  BY DEF OpToRel
<1>2. IsWellFoundedOn(R, Nat)
  BY NatLessThanWellFounded
<1> HIDE DEF R
<1>3. PICK x \in T : \A y \in T : ~ (<<y, x>> \in R)
  BY <1>2, WFMin
<1>4. ASSUME NEW y \in T PROVE x <= y
  <2>1. y \in Nat /\ x \in Nat
    OBVIOUS
  <2>2. y < x => <<y, x>> \in R
    BY <1>1, <2>1
  <2> QED BY <1>3, <2>1, <2>2
<1> QED BY <1>4

(* There is a first row, so the first page is not empty ... *)
LEMMA FirstIsSome ==
  ASSUME KeptIsBuilt, NEW found \in SUBSET Existing, found # {}
  PROVE  FirstOf(found) # {}
<1> DEFINE ranks == {Cardinality(Ahead(id, found)) : id \in found}
<1>0. IsFiniteSet(found)
  BY FS_Subset DEF KeptIsBuilt
<1>1. \A id \in found : IsFiniteSet(Ahead(id, found)) /\ Cardinality(Ahead(id, found)) \in Nat
  <2> TAKE id \in found
  <2>1. IsFiniteSet(Ahead(id, found))
    BY <1>0, FS_Subset DEF Ahead
  <2> QED BY <2>1, FS_CardinalityType
<1>2. ranks \in SUBSET Nat /\ ranks # {}
  BY <1>1
<1>3. PICK least \in ranks : \A y \in ranks : least <= y
  BY <1>2, SomeNumberIsLeast
<1>4. PICK id \in found : least = Cardinality(Ahead(id, found))
  BY <1>3
<1>5. Ahead(id, found) = {}
  <2> SUFFICES ASSUME NEW other \in Ahead(id, found) PROVE FALSE
    OBVIOUS
  <2>1. other \in found /\ Before(other, id)
    BY DEF Ahead
  <2>2. Cardinality(Ahead(other, found)) < Cardinality(Ahead(id, found))
    BY <2>1, AheadIsSmaller
  <2>3. least <= Cardinality(Ahead(other, found))
    BY <1>3, <2>1
  <2> QED BY <1>1, <1>4, <2>1, <2>2, <2>3
<1>6. Cardinality(Ahead(id, found)) < Limit
  BY <1>5, FS_EmptySet, PagesAssumption
<1> QED BY <1>4, <1>6 DEF FirstOf

(* ... and it has a last one. *)
LEMMA LastIsLast ==
  ASSUME KeptIsBuilt, NEW found \in SUBSET Existing, found # {}
  PROVE  LastOf(FirstOf(found)) \in FirstOf(found) /\ \A other \in FirstOf(found) : ~ Before(LastOf(FirstOf(found)), other)
<1> DEFINE taken == FirstOf(found)
           room(id) == Limit - Cardinality(Ahead(id, found))
           rooms == {room(id) : id \in taken}
<1>0. IsFiniteSet(found) /\ taken \subseteq found /\ taken # {}
  BY FS_Subset, FirstIsSome DEF KeptIsBuilt, FirstOf
<1>1. \A id \in taken : Cardinality(Ahead(id, found)) \in Nat /\ Cardinality(Ahead(id, found)) < Limit
  <2> TAKE id \in taken
  <2>1. IsFiniteSet(Ahead(id, found))
    BY <1>0, FS_Subset DEF Ahead
  <2> QED BY <2>1, FS_CardinalityType DEF FirstOf
<1>2. rooms \in SUBSET Nat /\ rooms # {}
  BY <1>0, <1>1, PagesAssumption
<1>3. PICK least \in rooms : \A y \in rooms : least <= y
  BY <1>2, SomeNumberIsLeast
<1>4. PICK id \in taken : least = room(id)
  BY <1>3
<1>5. ASSUME NEW other \in taken, Before(id, other) PROVE FALSE
  <2>1. Cardinality(Ahead(id, found)) < Cardinality(Ahead(other, found))
    BY <1>0, <1>5, AheadIsSmaller
  <2>2. least <= room(other)
    BY <1>3
  <2> QED BY <1>1, <1>4, <2>1, <2>2, PagesAssumption
<1>6. \E last \in taken : \A other \in taken : ~ Before(last, other)
  BY <1>5
<1> QED BY <1>6 DEF LastOf

(* What a page leaves comes after what it takes. *)
LEMMA FirstComeFirst ==
  ASSUME KeptIsBuilt, NEW found \in SUBSET Existing, NEW a \in FirstOf(found), NEW b \in found \ FirstOf(found)
  PROVE  Before(a, b)
<1>1. a \in found /\ a # b
  BY DEF FirstOf
<1>2. ASSUME Before(b, a) PROVE FALSE
  <2>1. Cardinality(Ahead(b, found)) < Cardinality(Ahead(a, found)) /\ Cardinality(Ahead(b, found)) \in Nat /\ Cardinality(Ahead(a, found)) \in Nat
    BY <1>1, <1>2, AheadIsSmaller
  <2>2. Cardinality(Ahead(a, found)) < Limit /\ ~ (Cardinality(Ahead(b, found)) < Limit)
    BY DEF FirstOf
  <2> QED BY <2>1, <2>2, PagesAssumption
<1> QED BY <1>1, <1>2, BeforeOrders

(* Up to the limit, a page takes everything. *)
LEMMA FewAreAllFirst ==
  ASSUME KeptIsBuilt, NEW found \in SUBSET Existing, ~ (Cardinality(found) > Limit)
  PROVE  FirstOf(found) = found
<1>0. IsFiniteSet(found)
  BY FS_Subset DEF KeptIsBuilt
<1>1. ASSUME NEW id \in found PROVE Cardinality(Ahead(id, found)) < Limit
  <2>1. Ahead(id, found) \in SUBSET found /\ id \notin Ahead(id, found)
    BY BeforeOrders DEF Ahead
  <2>2. IsFiniteSet(Ahead(id, found)) /\ Cardinality(Ahead(id, found)) <= Cardinality(found) /\ Cardinality(Ahead(id, found)) # Cardinality(found)
    BY <1>0, <2>1, FS_Subset
  <2>3. Cardinality(found) \in Nat /\ Cardinality(Ahead(id, found)) \in Nat
    BY <1>0, <2>2, FS_CardinalityType
  <2> QED BY <2>2, <2>3, PagesAssumption
<1> QED BY <1>1 DEF FirstOf

-----------------------------------------------------------------------------
WalkFields == {"stage", "workspace", "status", "cursor", "listed", "from"}

(* The cursor is the last post listed; it matches, while no filter can      *)
(* lose it, and what the walk has still to list comes after it.             *)
CursorIsLast ==
  walk.cursor # Anything =>
    /\ walk.cursor \in Existing
    /\ \A a \in ListedIds : a = walk.cursor \/ Before(a, walk.cursor)
    /\ walk.status = Anything => Matches(walk.cursor, walk)

RestIsAhead ==
  walk.status = Anything =>
    \A id \in walk.from :
      /\ Matches(id, walk)
      /\ id \in ListedIds \/ (walk.stage = "walking" /\ (walk.cursor = Anything \/ Before(walk.cursor, id)))

PagesInOrder == \A i, j \in DOMAIN walk.listed : i < j => \A a \in walk.listed[i], b \in walk.listed[j] : Before(a, b)

WalkIsBuilt ==
  /\ DOMAIN walk = WalkFields
  /\ walk.listed \in Seq(SUBSET PostIds) /\ ListedIds \subseteq Existing /\ walk.from \subseteq Existing
  /\ walk.stage \in {"none", "walking", "walked"}
  /\ walk.stage = "none" => walk = NoWalk
  /\ walk.stage = "walking" /\ walk.cursor = Anything => walk.listed = << >>

PagesInv == KeptIsBuilt /\ WalkIsBuilt /\ CursorIsLast /\ RestIsAhead /\ PagesInOrder

LEMMA PagesInvIsEnough == PagesInv => PagesMissNothing
<1> SUFFICES ASSUME PagesInv PROVE PagesMissNothing
  OBVIOUS
<1>2. PagesTypeOK
  BY DEF PagesInv, KeptIsBuilt, WalkIsBuilt, CursorIsLast, PagesTypeOK
<1> QED BY <1>2 DEF PagesInv, PagesInOrder, RestIsAhead, PagesMissNothing

(* Posts are added and cancelled: nothing moves. *)
KeptGrows ==
  /\ Existing \subseteq Existing'
  /\ \A id \in Existing : kept'[id].at = kept[id].at /\ kept'[id].workspace = kept[id].workspace

LEMMA GrowingKeeps ==
  ASSUME PagesInv, KeptGrows, KeptIsBuilt', UNCHANGED walk
  PROVE  PagesInv'
<1>1. walk' = walk
  OBVIOUS
<1>2. \A a, b \in Existing : Before(a, b)' <=> Before(a, b)
  BY DEF KeptGrows, Before
<1>3. ListedIds' = ListedIds /\ ListedIds \subseteq Existing
  BY <1>1 DEF PagesInv, WalkIsBuilt, ListedIds
<1>4. WalkIsBuilt'
  BY <1>1, <1>3 DEF PagesInv, WalkIsBuilt, KeptGrows
<1>5. ASSUME walk.status = Anything, NEW id \in Existing, Matches(id, walk) PROVE Matches(id, walk)'
  BY <1>1, <1>5 DEF Matches, KeptGrows
<1>6. CursorIsLast'
  BY <1>1, <1>2, <1>3, <1>5 DEF PagesInv, CursorIsLast, KeptGrows
<1>7. RestIsAhead'
  BY <1>1, <1>2, <1>3, <1>5 DEF PagesInv, WalkIsBuilt, CursorIsLast, RestIsAhead
<1>8. PagesInOrder'
  <2>1. \A i \in DOMAIN walk.listed : walk.listed[i] \subseteq Existing
    BY DEF PagesInv, WalkIsBuilt, ListedIds
  <2> QED BY <1>1, <1>2, <2>1 DEF PagesInv, PagesInOrder
<1> QED BY <1>4, <1>6, <1>7, <1>8 DEF PagesInv

LEMMA CreateKeeps ==
  ASSUME PagesInv, NEW id \in PostIds, NEW workspace \in Workspaces, Create(id, workspace)
  PROVE  PagesInv'
<1>1. KeptGrows
  BY DEF Create, KeptGrows, Existing
<1>2. Existing' = Existing \cup {id} /\ when' = when
  BY DEF Create, Existing
<1>3. IsFiniteSet(Existing')
  BY <1>2, FS_AddElement DEF PagesInv, KeptIsBuilt
<1>4. KeptIsBuilt'
  <2>1. kept' \in [Existing' -> [at : 1 .. when, workspace : Workspaces, status : {"accepted", "cancelled"}]]
    BY <1>2 DEF Create, PagesInv, KeptIsBuilt
  <2> QED BY <1>2, <1>3, <2>1 DEF PagesInv, KeptIsBuilt
<1> QED BY <1>1, <1>4, GrowingKeeps DEF Create

LEMMA CancelKeeps ==
  ASSUME PagesInv, NEW id, Cancel(id)
  PROVE  PagesInv'
<1>1. /\ kept \in [Existing -> [at : 1 .. when, workspace : Workspaces, status : {"accepted", "cancelled"}]]
      /\ kept' = [kept EXCEPT ![id].status = "cancelled"] /\ when' = when /\ id \in Existing
  BY DEF PagesInv, KeptIsBuilt, Cancel
<1>2. Existing' = Existing
  BY <1>1 DEF Existing
<1>3. kept' \in [Existing -> [at : 1 .. when, workspace : Workspaces, status : {"accepted", "cancelled"}]]
  BY <1>1
<1>4. KeptGrows
  BY <1>1, <1>2 DEF KeptGrows
<1>5. KeptIsBuilt'
  BY <1>1, <1>2, <1>3 DEF PagesInv, KeptIsBuilt
<1> QED BY <1>4, <1>5, GrowingKeeps DEF Cancel

LEMMA LaterKeeps ==
  ASSUME PagesInv, Later
  PROVE  PagesInv'
<1>1. when' = when + 1 /\ kept' = kept /\ Existing' = Existing /\ when \in Nat
  BY DEF Later, Existing, PagesInv, KeptIsBuilt
<1>2. 1 .. when \subseteq 1 .. when'
  BY <1>1
<1>3. kept \in [Existing -> [at : 1 .. when', workspace : Workspaces, status : {"accepted", "cancelled"}]]
  BY <1>2 DEF PagesInv, KeptIsBuilt
<1>4. KeptIsBuilt'
  BY <1>1, <1>3 DEF PagesInv, KeptIsBuilt
<1>5. KeptGrows
  BY <1>1 DEF KeptGrows
<1> QED BY <1>4, <1>5, GrowingKeeps DEF Later

LEMMA StartKeeps ==
  ASSUME PagesInv, NEW workspace, NEW status, Start(workspace, status)
  PROVE  PagesInv'
<1>1. /\ DOMAIN walk' = WalkFields /\ walk'.stage = "walking" /\ walk'.workspace = workspace /\ walk'.status = status
      /\ walk'.cursor = Anything /\ walk'.listed = << >>
      /\ walk'.from = {id \in Existing : Matches(id, [workspace |-> workspace, status |-> status])}
  BY DEF Start, NoWalk, WalkFields
<1>2. kept' = kept /\ when' = when /\ Existing' = Existing
  BY DEF Start, Existing
<1>3. KeptIsBuilt'
  BY <1>2 DEF PagesInv, KeptIsBuilt
<1>4. WalkIsBuilt'
  BY <1>1, <1>2, EmptySeq DEF WalkIsBuilt, ListedIds
<1>5. RestIsAhead'
  BY <1>1, <1>2 DEF RestIsAhead, Matches
<1>6. CursorIsLast' /\ PagesInOrder'
  BY <1>1 DEF CursorIsLast, PagesInOrder
<1> QED BY <1>3, <1>4, <1>5, <1>6 DEF PagesInv

(* The rows of the next page come after the cursor, and are all that the    *)
(* walk has still to list, if no filter can lose it.                        *)
LEMMA RowsAreAhead ==
  ASSUME PagesInv
  PROVE  /\ RowsFrom(walk) \subseteq Existing
         /\ \A id \in RowsFrom(walk) : Matches(id, walk) /\ (walk.cursor # Anything => Before(walk.cursor, id))
         /\ walk.cursor = Anything \/ walk.status = Anything =>
              \A id \in Existing : Matches(id, walk) /\ (walk.cursor = Anything \/ Before(walk.cursor, id)) => id \in RowsFrom(walk)
<1> DEFINE pool == {id \in Existing : Matches(id, walk) /\ (walk.cursor = Anything \/ ~ Before(id, walk.cursor))}
<1>1. RowsFrom(walk) = {id \in pool : walk.cursor = Anything \/ \E other \in pool : Before(other, id)}
  BY DEF RowsFrom
<1>2. KeptIsBuilt
  BY DEF PagesInv
<1>3. RowsFrom(walk) \subseteq Existing /\ \A id \in RowsFrom(walk) : Matches(id, walk)
  BY <1>1
<1>4. ASSUME NEW id \in RowsFrom(walk), walk.cursor # Anything PROVE Before(walk.cursor, id)
  <2>1. walk.cursor \in Existing /\ id \in Existing /\ ~ Before(id, walk.cursor)
    BY <1>1, <1>4 DEF PagesInv, CursorIsLast
  <2>2. id # walk.cursor
    BY <1>1, <1>4
  <2> QED BY <1>2, <2>1, <2>2, BeforeOrders
<1>5. ASSUME walk.cursor = Anything \/ walk.status = Anything, NEW id \in Existing, Matches(id, walk),
             walk.cursor = Anything \/ Before(walk.cursor, id)
      PROVE  id \in RowsFrom(walk)
  <2>1. CASE walk.cursor = Anything
    BY <1>1, <1>5, <2>1
  <2>2. CASE walk.cursor # Anything
    <3>1. walk.cursor \in Existing /\ Matches(walk.cursor, walk) /\ Before(walk.cursor, id)
      BY <1>5, <2>2 DEF PagesInv, CursorIsLast
    <3>2. ~ Before(walk.cursor, walk.cursor) /\ ~ Before(id, walk.cursor)
      BY <1>2, <3>1, BeforeOrders
    <3> QED BY <1>1, <1>5, <3>1, <3>2
  <2> QED BY <2>1, <2>2
<1> QED BY <1>3, <1>4, <1>5

(* The next cursor is the last of all that is listed, and what the page     *)
(* leaves of its rows comes after it; without a cursor it leaves nothing.   *)
LEMMA NextCursorIsLast ==
  ASSUME PagesInv, walk.stage = "walking"
  PROVE  LET found == RowsFrom(walk)
             taken == FirstOf(found)
             next == NextCursor(found)
         IN /\ next # Anything =>
                 /\ next \in Existing /\ Matches(next, walk)
                 /\ \A a \in ListedIds \cup taken : a = next \/ Before(a, next)
                 /\ \A id \in found : id \in taken \/ Before(next, id)
            /\ next = Anything => taken = found
<1> DEFINE found == RowsFrom(walk)
           taken == FirstOf(found)
           next == NextCursor(found)
<1>1. KeptIsBuilt /\ found \in SUBSET Existing /\ taken \subseteq found
  BY RowsAreAhead DEF PagesInv, FirstOf
<1>2. CASE Cardinality(found) > Limit
  <2>1. found # {}
    BY <1>2, FS_EmptySet, PagesAssumption
  <2>2. next \in taken /\ \A other \in taken : ~ Before(next, other)
    BY <1>1, <1>2, <2>1, LastIsLast DEF NextCursor
  <2>3. next # Anything /\ next \in Existing /\ Matches(next, walk)
    BY <1>1, <2>2, RowsAreAhead, PagesAssumption DEF KeptIsBuilt
  <2>4. \A other \in taken : other = next \/ Before(other, next)
    BY <1>1, <2>2, <2>3, BeforeOrders
  <2>5. ASSUME NEW a \in ListedIds PROVE Before(a, next)
    <3>1. walk.cursor # Anything
      BY DEF PagesInv, WalkIsBuilt, ListedIds
    <3>2. a = walk.cursor \/ Before(a, walk.cursor)
      BY <3>1 DEF PagesInv, CursorIsLast
    <3>3. Before(walk.cursor, next)
      BY <1>1, <2>2, <3>1, RowsAreAhead
    <3>4. a \in Existing /\ walk.cursor \in Existing
      BY <3>1 DEF PagesInv, WalkIsBuilt, CursorIsLast
    <3> QED BY <1>1, <2>3, <3>2, <3>3, <3>4, BeforeOrders
  <2>6. \A id \in found : id \in taken \/ Before(next, id)
    <3> TAKE id \in found
    <3>1. CASE id \notin taken
      BY <1>1, <2>2, <3>1, FirstComeFirst
    <3> QED BY <3>1
  <2> QED BY <2>3, <2>4, <2>5, <2>6
<1>3. CASE ~ (Cardinality(found) > Limit)
  <2>1. next = Anything
    BY <1>3 DEF NextCursor
  <2>2. taken = found
    BY <1>1, <1>3, FewAreAllFirst
  <2> QED BY <2>1, <2>2
<1> QED BY <1>2, <1>3

LEMMA WalkKeeps ==
  ASSUME PagesInv, Walk
  PROVE  PagesInv'
<1>0. /\ KeptIsBuilt /\ DOMAIN walk = WalkFields /\ walk.listed \in Seq(SUBSET PostIds)
      /\ walk.stage = "walking" /\ kept' = kept /\ when' = when /\ Existing' = Existing
  BY DEF PagesInv, WalkIsBuilt, Walk, Existing
<1>1. PICK found, taken, next :
        /\ found = RowsFrom(walk) /\ taken = FirstOf(found) /\ next = NextCursor(found)
        /\ DOMAIN walk' = WalkFields /\ walk'.workspace = walk.workspace /\ walk'.status = walk.status /\ walk'.from = walk.from
        /\ walk'.listed = Append(walk.listed, taken) /\ walk'.cursor = next
        /\ walk'.stage = IF next = Anything THEN "walked" ELSE "walking"
  BY <1>0 DEF Walk, WalkFields
<1>2. found \in SUBSET Existing /\ taken \subseteq found /\ taken \in SUBSET PostIds
  BY <1>0, <1>1, RowsAreAhead DEF FirstOf, KeptIsBuilt
<1>3. PICK n \in Nat :
        /\ walk'.listed \in Seq(SUBSET PostIds)
        /\ DOMAIN walk.listed = 1 .. n /\ DOMAIN walk'.listed = 1 .. n + 1
        /\ walk'.listed[n + 1] = taken /\ \A i \in 1 .. n : walk'.listed[i] = walk.listed[i]
  <2>1. Len(walk.listed) \in Nat
    BY <1>0, LenProperties
  <2> QED BY <2>1, <1>0, <1>1, <1>2, AppendProperties, LenProperties
<1>4. ListedIds' = ListedIds \cup taken /\ ListedIds \subseteq Existing
  <2>1. ListedIds = UNION {walk.listed[i] : i \in 1 .. n}
    BY <1>0, <1>3 DEF ListedIds
  <2>2. ListedIds' = UNION {walk'.listed[i] : i \in 1 .. n + 1}
    BY <1>3 DEF ListedIds
  <2>3. \A i : i \in 1 .. n + 1 <=> i \in 1 .. n \/ i = n + 1
    BY <1>3
  <2>4. ASSUME NEW id PROVE id \in ListedIds' <=> id \in ListedIds \cup taken
    <3>1. id \in ListedIds' <=> \E i \in 1 .. n + 1 : id \in walk'.listed[i]
      BY <2>2
    <3>2. id \in ListedIds <=> \E i \in 1 .. n : id \in walk.listed[i]
      BY <2>1
    <3> QED BY <1>3, <2>3, <3>1, <3>2
  <2>5. ListedIds \subseteq Existing
    BY DEF PagesInv, WalkIsBuilt
  <2> QED BY <2>4, <2>5
<1>5. /\ next # Anything =>
           /\ next \in Existing /\ Matches(next, walk)
           /\ \A a \in ListedIds \cup taken : a = next \/ Before(a, next)
           /\ \A id \in found : id \in taken \/ Before(next, id)
      /\ next = Anything => taken = found
  BY <1>0, <1>1, NextCursorIsLast
<1>6. \A a, b : (Before(a, b)' <=> Before(a, b)) /\ (Matches(a, walk)' <=> Matches(a, walk))
  BY <1>0, <1>1 DEF Before, Matches
<1>7. KeptIsBuilt'
  BY <1>0 DEF KeptIsBuilt
<1>8. WalkIsBuilt'
  BY <1>0, <1>1, <1>2, <1>3, <1>4 DEF WalkIsBuilt, PagesInv
<1>9. CursorIsLast'
  BY <1>0, <1>1, <1>4, <1>5, <1>6 DEF CursorIsLast, Before, Matches
<1>10. RestIsAhead'
  <2> SUFFICES ASSUME walk.status = Anything, NEW id \in walk.from
               PROVE  /\ Matches(id, walk)
                      /\ id \in ListedIds \cup taken \/ (next # Anything /\ Before(next, id))
    BY <1>1, <1>4, <1>6 DEF RestIsAhead, Before, Matches
  <2>1. /\ id \in Existing /\ Matches(id, walk)
        /\ id \in ListedIds \/ walk.cursor = Anything \/ Before(walk.cursor, id)
    BY DEF PagesInv, WalkIsBuilt, RestIsAhead
  <2>2. id \in ListedIds \/ id \in found
    BY <1>1, <2>1, RowsAreAhead
  <2> QED BY <1>5, <2>1, <2>2
<1>11. PagesInOrder'
  <2> SUFFICES ASSUME NEW i \in 1 .. n + 1, NEW j \in 1 .. n + 1, i < j, NEW a \in walk'.listed[i], NEW b \in walk'.listed[j]
               PROVE  Before(a, b)
    BY <1>3, <1>6 DEF PagesInOrder, Before
  <2>1. i \in 1 .. n /\ a \in walk.listed[i]
    BY <1>3
  <2>2. CASE j \in 1 .. n
    BY <1>3, <2>1, <2>2 DEF PagesInv, PagesInOrder
  <2>3. CASE j = n + 1
    <3>1. a \in ListedIds /\ b \in taken
      BY <1>3, <2>1, <2>3 DEF ListedIds
    <3>2. walk.listed # << >>
      BY <1>3, <2>1
    <3>3. walk.cursor # Anything
      BY <1>0, <3>2 DEF PagesInv, WalkIsBuilt
    <3>4. (a = walk.cursor \/ Before(a, walk.cursor)) /\ walk.cursor \in Existing
      BY <3>1, <3>3 DEF PagesInv, CursorIsLast
    <3>5. Before(walk.cursor, b) /\ b \in Existing /\ a \in Existing
      BY <1>1, <1>2, <1>4, <3>1, <3>3, RowsAreAhead
    <3> QED BY <1>0, <3>4, <3>5, BeforeOrders
  <2> QED BY <2>2, <2>3
<1> QED BY <1>7, <1>8, <1>9, <1>10, <1>11 DEF PagesInv

-----------------------------------------------------------------------------
LEMMA PagesStart == PagesInit => PagesInv
<1> SUFFICES ASSUME PagesInit PROVE PagesInv
  OBVIOUS
<1>1. kept = << >> /\ when = 1 /\ walk = NoWalk /\ Existing = {}
  BY DEF PagesInit, Existing
<1>2. KeptIsBuilt
  BY <1>1, FS_EmptySet DEF KeptIsBuilt, Existing
<1>3. /\ DOMAIN walk = WalkFields /\ walk.listed = << >> /\ walk.stage = "none" /\ walk.from = {} /\ walk.cursor = Anything
  BY <1>1 DEF NoWalk, WalkFields
<1>4. WalkIsBuilt
  BY <1>1, <1>3, EmptySeq DEF WalkIsBuilt, ListedIds
<1>5. CursorIsLast /\ RestIsAhead /\ PagesInOrder
  BY <1>3 DEF CursorIsLast, RestIsAhead, PagesInOrder
<1> QED BY <1>2, <1>4, <1>5 DEF PagesInv

LEMMA PagesStep == PagesInv /\ [PagesNext]_pageVars => PagesInv'
<1> SUFFICES ASSUME PagesInv, [PagesNext]_pageVars PROVE PagesInv'
  OBVIOUS
<1>1. CASE UNCHANGED pageVars
  <2>1. kept' = kept /\ when' = when /\ walk' = walk /\ Existing' = Existing
    BY <1>1 DEF pageVars, Existing
  <2>2. KeptGrows /\ KeptIsBuilt'
    BY <2>1 DEF PagesInv, KeptIsBuilt, KeptGrows
  <2> QED BY <2>1, <2>2, GrowingKeeps
<1>2. CASE PagesNext
  BY <1>2, CreateKeeps, CancelKeeps, StartKeeps, WalkKeeps, LaterKeeps DEF PagesNext
<1> QED BY <1>1, <1>2

(* A walk over the pages of the posts, whatever is created or cancelled     *)
(* meanwhile, lists no post twice and none out of order, and one that does  *)
(* not filter by status ends with every post that was there when it began.  *)
THEOREM NoPostIsMissed == PagesSpec => []PagesMissNothing
BY PagesStart, PagesStep, PagesInvIsEnough, PTL DEF PagesSpec

-----------------------------------------------------------------------------
(* Questionnaires, for any surveys and forms: every stored submission is   *)
(* fit on its own (EntryIsFit) when it is stored, and nothing changes it.  *)

LEMMA TypesOfAnswers ==
  /\ \A t : Text(t)[1] = "string"
  /\ \A n : Number(n)[1] = "number" /\ Number(n)[2] = n
  /\ <<"null", "">>[1] = "null"
BY DEF Text, Number

(* What a survey shows by the answers it stores it shows by those it was    *)
(* given; and the other way round, unless the question is chained.          *)
LEMMA VisibleEitherWay ==
  ASSUME NEW survey \in Surveys, NEW answers, NEW written, NEW q \in survey.questions,
         DOMAIN written = DOMAIN VisibleAnswers(survey, answers),
         \A id \in DOMAIN written :
           written[id] = IF answers[id] = Number(NaN) THEN <<"null", "">> ELSE answers[id]
  PROVE  /\ Visible(q, written) => Visible(q, answers)
         /\ Visible(q, answers) => Visible(q, written) \/ Chained(q, survey)
<1> DEFINE rule == q.visibleWhen
<1>1. CASE rule = Unset
  BY <1>1 DEF Visible
<1>2. CASE rule # Unset
  <2>0. /\ Visible(q, answers) <=>
             (IF rule.operator = "equals" THEN Answer(answers, rule.on) = Text(rule.value)
              ELSE IsA(Answer(answers, rule.on), "list") /\ rule.value \in Answer(answers, rule.on)[2])
        /\ Visible(q, written) <=>
             (IF rule.operator = "equals" THEN Answer(written, rule.on) = Text(rule.value)
              ELSE IsA(Answer(written, rule.on), "list") /\ rule.value \in Answer(written, rule.on)[2])
    BY <1>2 DEF Visible
  <2>1. Undefined # Text(rule.value)
    BY <1>2, ValuesAssumption DEF Text
  <2>2. DOMAIN written \subseteq DOMAIN answers
    BY DEF VisibleAnswers
  <2>3. ASSUME Visible(q, written) PROVE Visible(q, answers)
    <3>1. Answer(written, rule.on) = Text(rule.value) \/ IsA(Answer(written, rule.on), "list")
      BY <2>0, <2>3
    <3>2. rule.on \in DOMAIN written
      BY <2>1, <3>1 DEF Answer, IsA
    <3>3. written[rule.on] # <<"null", "">>
      <4>1. written[rule.on] = Text(rule.value) \/ written[rule.on][1] = "list"
        BY <3>1, <3>2 DEF Answer, IsA
      <4>2. written[rule.on][1] \in {"string", "list"}
        BY <4>1, TypesOfAnswers
      <4> QED BY <4>2, TypesOfAnswers
    <3>4. Answer(answers, rule.on) = Answer(written, rule.on)
      BY <2>2, <3>2, <3>3 DEF Answer
    <3> QED BY <2>0, <2>3, <3>4
  <2>4. ASSUME Visible(q, answers), ~ Chained(q, survey) PROVE Visible(q, written)
    <3>1. Answer(answers, rule.on) = Text(rule.value) \/ IsA(Answer(answers, rule.on), "list")
      BY <2>0, <2>4
    <3>2. rule.on \in DOMAIN answers
      BY <2>1, <3>1 DEF Answer, IsA
    <3>3. answers[rule.on] # Number(NaN)
      <4>1. answers[rule.on] = Text(rule.value) \/ answers[rule.on][1] = "list"
        BY <3>1, <3>2 DEF Answer, IsA
      <4>2. answers[rule.on][1] \in {"string", "list"}
        BY <4>1, TypesOfAnswers
      <4> QED BY <4>2, TypesOfAnswers
    <3>4. PICK on \in survey.questions : on.id = rule.on /\ on.visibleWhen = Unset
      BY <1>2, <2>4 DEF Chained
    <3>5. rule.on \in DOMAIN VisibleAnswers(survey, answers)
      BY <3>2, <3>4 DEF VisibleAnswers, Visible
    <3>6. Answer(written, rule.on) = Answer(answers, rule.on)
      BY <3>2, <3>3, <3>5 DEF Answer
    <3> QED BY <2>0, <2>4, <3>6
  <2> QED BY <2>3, <2>4
<1> QED BY <1>1, <1>2

(* What is built and written reads by its definition alone. *)
LEMMA BuiltReadsAlone ==
  ASSUME NEW survey \in Surveys, NEW answers, NEW written, ValidSurvey(survey, answers),
         written.of = survey, DOMAIN written.answers = DOMAIN VisibleAnswers(survey, answers),
         \A id \in DOMAIN written.answers :
           written.answers[id] = IF answers[id] = Number(NaN) THEN <<"null", "">> ELSE answers[id]
  PROVE  ReadsAlone(written)
<1>0. \A q \in survey.questions :
        /\ Visible(q, written.answers) => Visible(q, answers)
        /\ Visible(q, answers) => Visible(q, written.answers) \/ Chained(q, survey)
  <2> TAKE q \in survey.questions
  <2> DEFINE shown == written.answers
  <2>1. DOMAIN shown = DOMAIN VisibleAnswers(survey, answers)
    OBVIOUS
  <2>2. \A id \in DOMAIN shown : shown[id] = IF answers[id] = Number(NaN) THEN <<"null", "">> ELSE answers[id]
    OBVIOUS
  <2> HIDE DEF shown
  <2>3. /\ Visible(q, shown) => Visible(q, answers)
        /\ Visible(q, answers) => Visible(q, shown) \/ Chained(q, survey)
    BY <2>1, <2>2, VisibleEitherWay
  <2> QED BY <2>3 DEF shown
<1>1. DOMAIN written.answers = {q.id : q \in {q \in survey.questions : Visible(q, answers)}} \cap DOMAIN answers
  BY DEF VisibleAnswers
<1>2. DOMAIN written.answers \subseteq {q.id : q \in survey.questions} \ survey.prohibited
  BY <1>1 DEF ValidSurvey
<1>3. ASSUME NEW q \in survey.questions, q.id \in DOMAIN written.answers
      PROVE  Chained(q, survey) \/ Visible(q, written.answers)
  <2>1. PICK r \in survey.questions : r.id = q.id /\ Visible(r, answers)
    BY <1>1, <1>3
  <2>2. r = q
    BY <2>1, SurveysAreBuilt
  <2> QED BY <1>0, <2>1, <2>2
<1>4. ASSUME NEW q \in survey.questions, q.required, Visible(q, written.answers)
      PROVE  q.id \in DOMAIN written.answers
  <2>1. Visible(q, answers)
    BY <1>0, <1>4
  <2>2. ~ Empty(Answer(answers, q.id))
    BY <1>4, <2>1 DEF ValidSurvey
  <2>3. q.id \in DOMAIN answers
    BY <2>2 DEF Empty, Answer
  <2> QED BY <1>1, <2>1, <2>3
<1> QED BY <1>2, <1>3, <1>4 DEF ReadsAlone

-----------------------------------------------------------------------------
(* The page holds blanks and what its controls take. *)
PageIsHeld ==
  page.of # Unset =>
    /\ page.of \in Surveys \cup Forms
    /\ DOMAIN page.held = {c.id : c \in page.of.controls}
    /\ \A id \in DOMAIN page.held :
         page.held[id] = Blank \/ \E c \in page.of.controls : c.id = id /\ page.held[id] \in c.inputs

Whole == {Number(n) : n \in 0 .. 10}

LEMMA WholeIsNumber == Number(NaN) \notin Whole
<1> SUFFICES ASSUME NEW n \in 0 .. 10 PROVE Number(NaN) # Number(n)
  BY DEF Whole
<1>1. n \in Int
  OBVIOUS
<1>2. n # NaN
  BY <1>1, ValuesAssumption
<1> QED BY <1>2, TypesOfAnswers

(* A required score that a page sends was entered, and is a whole number in *)
(* its range.                                                               *)
LEMMA PageScoresAreWhole ==
  ASSUME PageIsHeld, page.of \in Surveys, page.of # Unset, ReportsValid(page.of.controls, page.held),
         ValidSurvey(page.of, FormValues(page.of.controls, page.held)), NEW id \in RequiredNps(page.of)
  PROVE  /\ id \in DOMAIN page.held => page.held[id] # Blank
         /\ id \in DOMAIN VisibleAnswers(page.of, FormValues(page.of.controls, page.held)) =>
              FormValues(page.of.controls, page.held)[id] \in Whole
<1> DEFINE survey == page.of
           answers == FormValues(survey.controls, page.held)
<1>1. PICK q \in survey.questions : q.id = id /\ q.type = "nps" /\ q.required
  BY DEF RequiredNps
<1>2. \A c \in survey.controls : c.id = id => c.type = "nps" /\ c.required /\ c.inputs \ {Blank} \subseteq Int
  BY <1>1, PagesAskForScores
<1>3. ASSUME id \in DOMAIN page.held PROVE page.held[id] # Blank /\ page.held[id] \in Int
  <2>1. PICK c \in survey.controls : c.id = id
    BY <1>3 DEF PageIsHeld
  <2>2. page.held[id] # Blank
    BY <1>2, <2>1 DEF ReportsValid
  <2>3. PICK d \in survey.controls : d.id = id /\ page.held[id] \in d.inputs
    BY <1>3, <2>2 DEF PageIsHeld
  <2> QED BY <1>2, <2>2, <2>3
<1>4. ASSUME id \in DOMAIN VisibleAnswers(survey, answers) PROVE answers[id] \in Whole
  <2>1. id \in DOMAIN answers /\ \E r \in survey.questions : r.id = id /\ Visible(r, answers)
    BY <1>4 DEF VisibleAnswers
  <2>2. Visible(q, answers)
    BY <1>1, <2>1, SurveysAreBuilt
  <2>3. id \in {c.id : c \in {c \in survey.controls : c.type # "radio" \/ page.held[c.id] # Blank}}
    BY <2>1 DEF FormValues
  <2>4. PICK c \in survey.controls : c.id = id
    BY <2>3
  <2>5. page.held[id] # Blank /\ page.held[id] \in Int
    BY <1>3, <2>4 DEF PageIsHeld
  <2>6. answers[id] = Number(page.held[id])
    <3> DEFINE control == CHOOSE d \in survey.controls : d.id = id
    <3>1. control \in survey.controls /\ control.id = id
      BY <2>4
    <3>2. control.type = "nps"
      BY <1>2, <3>1
    <3>3. answers[id] = IF control.type = "checkbox" THEN Bool(page.held[id] # Blank) ELSE NormalizeValue(control, page.held[id])
      BY <2>3 DEF FormValues
    <3> QED BY <2>5, <3>2, <3>3 DEF NormalizeValue, Numeric
  <2>7. Answer(answers, id) = answers[id]
    BY <2>1 DEF Answer
  <2>8. ValidAnswer(q, answers[id])
    BY <1>1, <2>2, <2>7 DEF ValidSurvey
  <2>9. IsA(answers[id], "number") /\ RangeFits(q, answers[id])
    BY <1>1, <2>8 DEF ValidAnswer, TypeFits
  <2>10. page.held[id] >= 0 /\ page.held[id] <= 10
    BY <1>1, <2>5, <2>6, <2>9, ValuesAssumption DEF RangeFits, Number
  <2> QED BY <2>5, <2>6, <2>10 DEF Whole
<1> QED BY <1>3, <1>4

-----------------------------------------------------------------------------
(* What is kept of one submission. *)
EntryIsFit(e) ==
  /\ e.sent.of \in Surveys \cup Forms /\ DOMAIN e.sent.answers \subseteq DOMAIN e.sent.given
  /\ (e.sent.anonymous => ~ e.sent.contact) /\ e.sent.tenant = "t1"
  /\ e.sent.kind = "survey" => ReadsAlone(e.sent)
  /\ e.sent.kind = "form" =>
       /\ "privacy" \in e.sent.of.requiredConsents => e.sent.consent.privacy = Bool(TRUE)
       /\ e.sent.consent.marketing = Answer(e.sent.given, "marketingConsent")
  /\ e.origin.page /\ e.sent.of \in Surveys =>
       \A id \in RequiredNps(e.sent.of) :
         id \notin e.origin.blank /\ (id \in DOMAIN e.sent.answers => e.sent.answers[id] \in Whole)

StoredIsSeq == \E S : stored \in Seq(S)

ContentInv ==
  /\ page.of \in Surveys \cup Forms \cup {Unset} /\ DOMAIN page = {"of", "held"} /\ PageIsHeld
  /\ closed \in BOOLEAN /\ refused \in {"none", "tenant", "answers"}
  /\ StoredIsSeq /\ Len(stored) <= MaxStored
  /\ \A i \in DOMAIN stored : EntryIsFit(stored[i])

(* Writing changes nothing but the answers, and of those only NaN. *)
LEMMA WrittenKeeps ==
  ASSUME NEW submission, "answers" \in DOMAIN submission
  PROVE  /\ \A f \in DOMAIN submission : f # "answers" => Written(submission)[f] = submission[f]
         /\ DOMAIN Written(submission).answers = DOMAIN submission.answers
         /\ \A id \in DOMAIN submission.answers :
              Written(submission).answers[id] =
                IF submission.answers[id] = Number(NaN) THEN <<"null", "">> ELSE submission.answers[id]
BY DEF Written

LEMMA SurveyEntryIsFit ==
  ASSUME NEW survey \in Surveys, NEW answers, NEW context, NEW origin, BuildsSurvey(survey, answers, context),
         AdapterTakes(SurveySubmission(survey, answers, context)), context.tenant \in {"t1", " t1"}, context.anonymous \in BOOLEAN,
         origin.page => \A id \in RequiredNps(survey) :
           id \notin origin.blank /\ (id \in DOMAIN VisibleAnswers(survey, answers) => answers[id] \in Whole)
  PROVE  EntryIsFit([sent |-> Written(SurveySubmission(survey, answers, context)), origin |-> origin])
<1> DEFINE submission == SurveySubmission(survey, answers, context)
           written == Written(submission)
           visible == VisibleAnswers(survey, answers)
<1>1. /\ DOMAIN submission = {"kind", "of", "tenant", "anonymous", "contact", "given", "answers", "consent"}
      /\ submission.kind = "survey" /\ submission.of = survey /\ submission.tenant = context.tenant
      /\ submission.anonymous = context.anonymous /\ submission.contact = (context.contact /\ ~ context.anonymous)
      /\ submission.given = answers /\ submission.answers = visible
  BY DEF SurveySubmission
<1>2. /\ written.kind = "survey" /\ written.of = survey /\ written.tenant = context.tenant
      /\ written.anonymous = context.anonymous /\ written.contact = (context.contact /\ ~ context.anonymous)
      /\ written.given = answers
      /\ DOMAIN written.answers = DOMAIN visible
      /\ \A id \in DOMAIN visible :
           written.answers[id] = IF visible[id] = Number(NaN) THEN <<"null", "">> ELSE visible[id]
  <2> HIDE DEF submission, visible
  <2>1. /\ \A f \in DOMAIN submission : f # "answers" => written[f] = submission[f]
        /\ DOMAIN written.answers = DOMAIN submission.answers
        /\ \A id \in DOMAIN submission.answers :
             written.answers[id] = IF submission.answers[id] = Number(NaN) THEN <<"null", "">> ELSE submission.answers[id]
    BY <1>1, WrittenKeeps
  <2> HIDE DEF written
  <2> QED BY <1>1, <2>1
<1>3. DOMAIN visible \subseteq DOMAIN answers /\ \A id \in DOMAIN visible : visible[id] = answers[id]
  BY DEF VisibleAnswers
<1>4. written.tenant = "t1"
  BY <1>1, <1>2 DEF AdapterTakes, Trimmed
<1>5. ValidSurvey(survey, answers)
  BY DEF BuildsSurvey
<1> DEFINE entry == [sent |-> written, origin |-> origin]
<1>6. ReadsAlone(written)
  <2> HIDE DEF written, visible
  <2>1. \A id \in DOMAIN written.answers :
          written.answers[id] = IF answers[id] = Number(NaN) THEN <<"null", "">> ELSE answers[id]
    BY <1>2, <1>3
  <2>2. DOMAIN written.answers = DOMAIN VisibleAnswers(survey, answers)
    BY <1>2 DEF visible
  <2> QED BY <1>2, <1>5, <2>1, <2>2, BuiltReadsAlone
<1>7. ASSUME origin.page, NEW id \in RequiredNps(survey)
      PROVE  id \notin origin.blank /\ (id \in DOMAIN written.answers => written.answers[id] \in Whole)
  <2>1. id \notin origin.blank /\ (id \in DOMAIN visible => answers[id] \in Whole)
    BY <1>7
  <2>2. ASSUME id \in DOMAIN visible PROVE written.answers[id] \in Whole
    <3>1. answers[id] \in Whole
      BY <2>1, <2>2
    <3>2. answers[id] # Number(NaN)
      BY <3>1, WholeIsNumber
    <3>3. written.answers[id] = answers[id]
      BY <1>2, <1>3, <2>2, <3>2
    <3> QED BY <3>1, <3>3
  <2> QED BY <1>2, <2>1, <2>2
<1>8. entry.sent = written /\ entry.origin = origin
  OBVIOUS
<1> HIDE DEF entry, written, visible, submission
<1>9. EntryIsFit(entry)
  BY <1>2, <1>3, <1>4, <1>6, <1>7, <1>8 DEF EntryIsFit
<1> QED BY <1>9 DEF entry, written, submission

LEMMA ConsentFields ==
  ASSUME NEW consent, NEW a, NEW b, consent = [privacy |-> a, marketing |-> b]
  PROVE  consent.privacy = a /\ consent.marketing = b
OBVIOUS

LEMMA FormEntryIsFit ==
  ASSUME NEW form \in Forms, form \notin Surveys, NEW values, NEW context, NEW origin, BuildsForm(form, values),
         AdapterTakes(FormSubmission(form, values, context)), context.tenant \in {"t1", " t1"}
  PROVE  EntryIsFit([sent |-> Written(FormSubmission(form, values, context)), origin |-> origin])
<1> DEFINE submission == FormSubmission(form, values, context)
           written == Written(submission)
           entry == [sent |-> written, origin |-> origin]
<1>1. /\ DOMAIN submission = {"kind", "of", "tenant", "anonymous", "contact", "given", "answers", "consent"}
      /\ submission.kind = "form" /\ submission.of = form /\ submission.tenant = context.tenant
      /\ submission.anonymous = FALSE /\ submission.given = values
      /\ submission.consent = [privacy |-> Answer(values, "privacyConsent"), marketing |-> Answer(values, "marketingConsent")]
  BY DEF FormSubmission
<1>2. DOMAIN submission.answers \subseteq DOMAIN values
  BY DEF FormSubmission, Contact, IsA, Answer
<1>3. /\ written.kind = "form" /\ written.of = form /\ written.tenant = context.tenant
      /\ written.anonymous = FALSE /\ written.given = values /\ written.consent = submission.consent
      /\ DOMAIN written.answers = DOMAIN submission.answers
  <2> HIDE DEF submission
  <2>1. /\ \A f \in DOMAIN submission : f # "answers" => written[f] = submission[f]
        /\ DOMAIN written.answers = DOMAIN submission.answers
    BY <1>1, WrittenKeeps
  <2> HIDE DEF written
  <2> QED BY <1>1, <2>1
<1>4. written.tenant = "t1"
  BY <1>1, <1>3 DEF AdapterTakes, Trimmed
<1>5. /\ "privacy" \in form.requiredConsents => written.consent.privacy = Bool(TRUE)
      /\ written.consent.marketing = Answer(values, "marketingConsent")
  <2>1. "privacy" \in form.requiredConsents => Answer(values, "privacyConsent") = Bool(TRUE)
    BY DEF BuildsForm
  <2> HIDE DEF written, submission
  <2>2. written.consent = [privacy |-> Answer(values, "privacyConsent"), marketing |-> Answer(values, "marketingConsent")]
    BY <1>1, <1>3
  <2>3. /\ written.consent.privacy = Answer(values, "privacyConsent")
        /\ written.consent.marketing = Answer(values, "marketingConsent")
    BY <2>2, ConsentFields
  <2> QED BY <2>1, <2>3
<1>6. entry.sent = written /\ entry.origin = origin
  OBVIOUS
<1> HIDE DEF entry, written, submission
<1>7. EntryIsFit(entry)
  BY <1>2, <1>3, <1>4, <1>5, <1>6 DEF EntryIsFit
<1> QED BY <1>7 DEF entry, written, submission

(* The SDK takes what the engines build. *)
LEMMA SdkTakesWhatIsBuilt ==
  ASSUME NEW of, NEW answers, NEW context, context.anonymous \in BOOLEAN
  PROVE  SdkTakes(Submission(of, answers, context))
BY DEF SdkTakes, Submission, SurveySubmission, FormSubmission

LEMMA SubmitKeeps ==
  ASSUME ContentInv, NEW of \in Surveys \cup Forms, NEW answers, NEW context \in Contexts, NEW origin,
         Len(stored) < MaxStored, Submit(of, answers, context, origin),
         of \in Surveys /\ origin.page /\ ValidSurvey(of, answers) => \A id \in RequiredNps(of) :
           id \notin origin.blank /\ (id \in DOMAIN VisibleAnswers(of, answers) => answers[id] \in Whole)
  PROVE  ContentInv'
<1>0. page' = page /\ closed' = closed
  BY DEF Submit, Send
<1>1. refused' \in {"none", "tenant", "answers"}
  <2>1. context.anonymous \in BOOLEAN
    BY DEF Contexts
  <2>2. SdkTakes(Submission(of, answers, context))
    BY <2>1, SdkTakesWhatIsBuilt
  <2>3. CASE Builds(of, answers, context)
    BY <2>2, <2>3 DEF Submit, Send
  <2>4. CASE ~ Builds(of, answers, context)
    BY <2>4 DEF Submit
  <2> QED BY <2>3, <2>4
<1>2. CASE stored' = stored
  BY <1>0, <1>1, <1>2 DEF ContentInv, PageIsHeld, StoredIsSeq, EntryIsFit, ReadsAlone
<1>3. CASE stored' # stored
  <2> DEFINE submission == Submission(of, answers, context)
             entry == [sent |-> Written(submission), origin |-> origin]
  <2>1. Builds(of, answers, context) /\ AdapterTakes(submission) /\ stored' = Append(stored, entry)
    BY <1>3 DEF Submit, Send
  <2>2. context.tenant \in {"t1", " t1"} /\ context.anonymous \in BOOLEAN
    BY DEF Contexts
  <2>3. EntryIsFit(entry)
    <3>1. CASE of \in Surveys
      <4>1. BuildsSurvey(of, answers, context) /\ submission = SurveySubmission(of, answers, context)
        BY <2>1, <3>1 DEF Builds, Submission
      <4>2. ValidSurvey(of, answers)
        BY <4>1 DEF BuildsSurvey
      <4> QED BY <2>1, <2>2, <3>1, <4>1, <4>2, SurveyEntryIsFit
    <3>2. CASE of \notin Surveys
      <4>1. BuildsForm(of, answers) /\ submission = FormSubmission(of, answers, context)
        BY <2>1, <3>2 DEF Builds, Submission
      <4> QED BY <2>1, <2>2, <3>2, <4>1, FormEntryIsFit
    <3> QED BY <3>1, <3>2
  <2> HIDE DEF entry
  <2>4. PICK S : stored \in Seq(S)
    BY DEF ContentInv, StoredIsSeq
  <2>5. stored \in Seq(S \cup {entry})
    BY <2>4, SeqMonotonic
  <2>6. /\ stored' \in Seq(S \cup {entry}) /\ Len(stored) \in Nat /\ Len(stored') = Len(stored) + 1
        /\ DOMAIN stored = 1 .. Len(stored) /\ DOMAIN stored' = 1 .. Len(stored) + 1
        /\ stored'[Len(stored) + 1] = entry /\ \A i \in 1 .. Len(stored) : stored'[i] = stored[i]
    BY <2>1, <2>5, AppendProperties, LenProperties
  <2>7. \A i \in DOMAIN stored' : EntryIsFit(stored'[i])
    <3> SUFFICES ASSUME NEW i \in DOMAIN stored' PROVE EntryIsFit(stored'[i])
      OBVIOUS
    <3>1. CASE i \in 1 .. Len(stored)
      BY <2>6, <3>1 DEF ContentInv
    <3>2. CASE i = Len(stored) + 1
      BY <2>3, <2>6, <3>2
    <3> QED BY <2>6, <3>1, <3>2
  <2>8. Len(stored') <= MaxStored
    BY <2>6, StoredAssumption
  <2>9. StoredIsSeq'
    BY <2>6 DEF StoredIsSeq
  <2> QED BY <1>0, <1>1, <2>7, <2>8, <2>9 DEF ContentInv, PageIsHeld, EntryIsFit, ReadsAlone
<1> QED BY <1>2, <1>3

-----------------------------------------------------------------------------
LEMMA SubmitPageKeeps ==
  ASSUME ContentInv, page.of # Unset, NEW context \in Contexts, SubmitPage(context)
  PROVE  ContentInv'
<1> DEFINE answers == FormValues(page.of.controls, page.held)
           origin == [page |-> TRUE, blank |-> {id \in DOMAIN page.held : page.held[id] = Blank}]
<1>1. /\ Len(stored) < MaxStored /\ ReportsValid(page.of.controls, page.held)
      /\ Submit(page.of, answers, context, origin)
  BY DEF SubmitPage
<1>2. PageIsHeld /\ page.of \in Surveys \cup Forms
  BY DEF ContentInv
<1>3. origin.blank = {id \in DOMAIN page.held : page.held[id] = Blank}
  OBVIOUS
<1>4. ASSUME page.of \in Surveys, ValidSurvey(page.of, answers), NEW id \in RequiredNps(page.of)
      PROVE  id \notin origin.blank /\ (id \in DOMAIN VisibleAnswers(page.of, answers) => answers[id] \in Whole)
  BY <1>1, <1>2, <1>3, <1>4, PageScoresAreWhole
<1> HIDE DEF answers, origin
<1> QED BY <1>1, <1>2, <1>4, SubmitKeeps

LEMMA SubmitGivenKeeps ==
  ASSUME ContentInv, NEW of \in Surveys \cup Forms, NEW answers, NEW context \in Contexts, SubmitGiven(of, answers, context)
  PROVE  ContentInv'
<1> DEFINE origin == [page |-> FALSE, blank |-> {}]
<1>1. Len(stored) < MaxStored /\ Submit(of, answers, context, origin)
  BY DEF SubmitGiven
<1>2. ~ origin.page
  OBVIOUS
<1> HIDE DEF origin
<1> QED BY <1>1, <1>2, SubmitKeeps

LEMMA RenderKeeps ==
  ASSUME ContentInv, NEW of \in Surveys \cup Forms, Render(of)
  PROVE  ContentInv'
<1>1. /\ page' = [of |-> of, held |-> [id \in {c.id : c \in of.controls} |-> Blank]]
      /\ closed' = closed /\ stored' = stored /\ refused' = refused
  BY DEF Render
<1>2. PageIsHeld' /\ DOMAIN page' = {"of", "held"} /\ page'.of = of
  BY <1>1 DEF PageIsHeld
<1> QED BY <1>1, <1>2 DEF ContentInv, StoredIsSeq, EntryIsFit, ReadsAlone

LEMMA EnterKeeps ==
  ASSUME ContentInv, page.of # Unset, NEW c \in page.of.controls, NEW raw \in c.inputs, Enter(c, raw)
  PROVE  ContentInv'
<1>1. /\ page' = [page EXCEPT !.held[c.id] = raw]
      /\ closed' = closed /\ stored' = stored /\ refused' = refused
  BY DEF Enter
<1>2. DOMAIN page = {"of", "held"} /\ DOMAIN page.held = {d.id : d \in page.of.controls}
  BY DEF ContentInv, PageIsHeld
<1>3. /\ DOMAIN page' = {"of", "held"} /\ page'.of = page.of /\ DOMAIN page'.held = DOMAIN page.held
      /\ \A id \in DOMAIN page.held : page'.held[id] = IF id = c.id THEN raw ELSE page.held[id]
  BY <1>1, <1>2
<1>4. PageIsHeld'
  BY <1>3 DEF ContentInv, PageIsHeld
<1> QED BY <1>1, <1>3, <1>4 DEF ContentInv, StoredIsSeq, EntryIsFit, ReadsAlone

LEMMA ContentStarts == ContentInit => ContentInv
<1> SUFFICES ASSUME ContentInit PROVE ContentInv
  OBVIOUS
<1>1. page.of = Unset /\ DOMAIN page = {"of", "held"} /\ closed = FALSE /\ stored = << >> /\ refused = "none"
  BY DEF ContentInit
<1>2. StoredIsSeq /\ Len(stored) = 0 /\ DOMAIN stored = {}
  BY <1>1, EmptySeq DEF StoredIsSeq
<1>3. PageIsHeld
  BY <1>1 DEF PageIsHeld
<1>4. Len(stored) <= MaxStored
  BY <1>2, StoredAssumption
<1>5. closed \in BOOLEAN
  BY <1>1
<1> QED BY <1>1, <1>2, <1>3, <1>4, <1>5 DEF ContentInv

LEMMA ContentStep == ContentInv /\ [ContentNext]_contentVars => ContentInv'
<1> SUFFICES ASSUME ContentInv, [ContentNext]_contentVars PROVE ContentInv'
  OBVIOUS
<1>1. CASE UNCHANGED contentVars
  BY <1>1 DEF contentVars, ContentInv, PageIsHeld, StoredIsSeq, EntryIsFit, ReadsAlone
<1>2. ASSUME NEW of \in Surveys \cup Forms, Render(of) PROVE ContentInv'
  BY <1>2, RenderKeeps
<1>3. ASSUME page.of # Unset, NEW c \in page.of.controls, NEW raw \in c.inputs, Enter(c, raw) PROVE ContentInv'
  BY <1>3, EnterKeeps
<1>4. ASSUME page.of # Unset, NEW context \in Contexts, SubmitPage(context) PROVE ContentInv'
  BY <1>4, SubmitPageKeeps
<1>5. ASSUME NEW of \in Surveys \cup Forms, NEW answers, NEW context \in Contexts, SubmitGiven(of, answers, context)
      PROVE  ContentInv'
  BY <1>5, SubmitGivenKeeps
<1>6. CASE Expire
  BY <1>6 DEF Expire, ContentInv, PageIsHeld, StoredIsSeq, EntryIsFit, ReadsAlone
<1> QED BY <1>1, <1>2, <1>3, <1>4, <1>5, <1>6 DEF ContentNext

-----------------------------------------------------------------------------
(* Scores.                                                                 *)

LEMMA RoundedIsAPercentage ==
  ASSUME NEW total \in Nat, total > 0, NEW difference \in Int, difference <= total, -total <= difference
  PROVE  Rounded(difference, total) \in -100 .. 100
<1> DEFINE a == 200 * difference + total
           b == 2 * total
           r == a \div b
<1>1. a \in Int /\ b \in Nat \ {0} /\ a <= 201 * total /\ a >= -199 * total
  OBVIOUS
<1>2. \A x \in Int, y \in Nat \ {0} : LET w == x \div y IN w \in Int /\ y * w <= x /\ x < y * w + y
  BY SMTT(60)
<1>3. r \in Int /\ b * r <= a /\ a < b * r + b
  <2> HIDE DEF a, b
  <2> QED BY <1>1, <1>2
<1>4. b * r = 2 * (total * r)
  BY <1>3
<1>5. (r >= 101 => total * r >= 101 * total) /\ (r <= -101 => total * r <= (-101) * total)
  <2>1. \A t \in Nat \ {0}, q \in Int : (q >= 101 => t * q >= 101 * t) /\ (q <= -101 => t * q <= (-101) * t)
    BY SMTT(60)
  <2> HIDE DEF r
  <2> QED BY <1>3, <2>1
<1>6. total * r \in Int
  BY <1>3
<1>7. r >= -100 /\ r <= 100
  <2> DEFINE p == total * r
  <2>1. 2 * p <= a /\ a < 2 * p + 2 * total /\ p \in Int
    BY <1>3, <1>4, <1>6
  <2>2. (r >= 101 => p >= 101 * total) /\ (r <= -101 => p <= (-101) * total)
    BY <1>5
  <2> HIDE DEF r, a, p
  <2> QED BY <1>1, <1>3, <2>1, <2>2
<1> QED BY <1>3, <1>7 DEF Rounded

LEMMA CountsAddUp ==
  ASSUME NEW scores, IsFiniteSet(DOMAIN scores), NpsTakes(scores)
  PROVE  LET nps == Nps(scores) IN
         /\ nps.promoters + nps.passives + nps.detractors = Cardinality(DOMAIN scores)
         /\ nps.score \in -100 .. 100
<1> DEFINE D == DOMAIN scores
           P(lo, hi) == {i \in D : scores[i][2] \in lo .. hi}
<1>1. CASE D = {}
  BY <1>1, FS_EmptySet DEF Nps
<1>2. CASE D # {}
  <2>1. \A i \in D : scores[i][2] \in 0 .. 10
    BY TypesOfAnswers DEF NpsTakes
  <2>2. D = P(9, 10) \cup (P(7, 8) \cup P(0, 6)) /\ P(9, 10) \cap (P(7, 8) \cup P(0, 6)) = {} /\ P(7, 8) \cap P(0, 6) = {}
    BY <2>1
  <2>3. IsFiniteSet(P(9, 10)) /\ IsFiniteSet(P(7, 8)) /\ IsFiniteSet(P(0, 6)) /\ IsFiniteSet(P(7, 8) \cup P(0, 6))
    BY <2>2, FS_Subset
  <2>4. /\ CountOf(scores, 9, 10) = Cardinality(P(9, 10)) /\ CountOf(scores, 7, 8) = Cardinality(P(7, 8))
        /\ CountOf(scores, 0, 6) = Cardinality(P(0, 6))
    BY DEF CountOf
  <2> DEFINE p == CountOf(scores, 9, 10)
             s == CountOf(scores, 7, 8)
             d == CountOf(scores, 0, 6)
             t == Cardinality(D)
  <2>5. p \in Nat /\ s \in Nat /\ d \in Nat /\ t \in Nat
    BY <2>3, <2>4, FS_CardinalityType
  <2>6. Cardinality({}) = 0
    BY FS_EmptySet
  <2>7. Cardinality(P(7, 8) \cup P(0, 6)) = s + d
    <3>1. Cardinality(P(7, 8) \cup P(0, 6)) = Cardinality(P(7, 8)) + Cardinality(P(0, 6)) - Cardinality(P(7, 8) \cap P(0, 6))
      BY <2>3, FS_Union
    <3>2. Cardinality(P(7, 8) \cap P(0, 6)) = 0
      BY <2>2, <2>6, Zenon
    <3> HIDE DEF P
    <3> QED BY <2>4, <2>5, <3>1, <3>2
  <2>8. t = p + s + d
    <3>1. Cardinality(P(9, 10) \cup (P(7, 8) \cup P(0, 6))) =
            Cardinality(P(9, 10)) + Cardinality(P(7, 8) \cup P(0, 6)) - Cardinality(P(9, 10) \cap (P(7, 8) \cup P(0, 6)))
      BY <2>3, FS_Union
    <3>2. Cardinality(P(9, 10) \cap (P(7, 8) \cup P(0, 6))) = 0
      BY <2>2, <2>6, Zenon
    <3>3. Cardinality(P(9, 10) \cup (P(7, 8) \cup P(0, 6))) = t
      BY <2>2, Zenon
    <3> HIDE DEF P
    <3> QED BY <2>4, <2>5, <2>7, <3>1, <3>2, <3>3
  <2>9. t > 0
    BY <1>2, <2>5, FS_EmptySet
  <2>10. p - d \in Int /\ p - d <= t /\ -t <= p - d
    BY <2>5, <2>8
  <2>11. Nps(scores) = [promoters |-> p, passives |-> s, detractors |-> d, score |-> Rounded(p - d, t)]
    BY <1>2 DEF Nps
  <2> HIDE DEF p, s, d, t
  <2>12. Rounded(p - d, t) \in -100 .. 100
    BY <2>5, <2>9, <2>10, RoundedIsAPercentage
  <2> QED BY <2>8, <2>11, <2>12 DEF t
<1> QED BY <1>1, <1>2

LEMMA ScoredAreFinite ==
  ASSUME ContentInv, NEW survey \in Surveys
  PROVE  IsFiniteSet(Scored(survey))
<1> DEFINE asked == {q \in survey.questions : q.type = "nps" /\ q.required}
           identify == [q \in asked |-> q.id]
<1>1. IsFiniteSet(asked)
  BY SurveysAreBuilt, FS_Subset
<1>2. identify \in Surjection(asked, RequiredNps(survey))
  <2>1. identify \in [asked -> RequiredNps(survey)] /\ \A id \in RequiredNps(survey) : \E q \in asked : identify[q] = id
    BY DEF RequiredNps
  <2> QED BY <2>1 DEF Surjection
<1>3. IsFiniteSet(RequiredNps(survey))
  <2> HIDE DEF asked, identify
  <2> QED BY <1>1, <1>2, FS_Surjection
<1>4. IsFiniteSet(DOMAIN stored)
  <2>1. PICK S : stored \in Seq(S)
    BY DEF ContentInv, StoredIsSeq
  <2>2. Len(stored) \in Int /\ DOMAIN stored = 1 .. Len(stored)
    BY <2>1, LenProperties
  <2> QED BY <2>2, FS_Interval
<1>5. IsFiniteSet((DOMAIN stored) \X RequiredNps(survey))
  BY <1>3, <1>4, FS_Product
<1>6. Scored(survey) \subseteq (DOMAIN stored) \X RequiredNps(survey)
  BY DEF Scored
<1> QED BY <1>5, <1>6, FS_Subset

LEMMA StoredCanBeScored == ContentInv => PageCanBeScored
<1> SUFFICES ASSUME ContentInv, NEW survey \in Surveys
             PROVE  LET nps == Nps(Scores(survey)) IN
                    /\ NpsTakes(Scores(survey))
                    /\ \A k \in Scored(survey) : k[2] \notin stored[k[1]].origin.blank
                    /\ nps.promoters + nps.passives + nps.detractors = Cardinality(Scored(survey))
                    /\ nps.score \in -100 .. 100
  BY DEF PageCanBeScored
<1>1. ASSUME NEW k \in Scored(survey)
      PROVE  k[2] \notin stored[k[1]].origin.blank /\ stored[k[1]].sent.answers[k[2]] \in Whole
  <2>1. /\ k[1] \in DOMAIN stored /\ k[2] \in RequiredNps(survey) /\ stored[k[1]].origin.page
        /\ stored[k[1]].sent.of = survey /\ k[2] \in DOMAIN stored[k[1]].sent.answers
    BY DEF Scored
  <2>2. EntryIsFit(stored[k[1]])
    BY <2>1 DEF ContentInv
  <2> QED BY <2>1, <2>2 DEF EntryIsFit
<1>2. DOMAIN Scores(survey) = Scored(survey) /\ NpsTakes(Scores(survey))
  BY <1>1 DEF Scores, NpsTakes, Whole
<1>3. IsFiniteSet(DOMAIN Scores(survey))
  BY <1>2, ScoredAreFinite
<1> QED BY <1>1, <1>2, <1>3, CountsAddUp

LEMMA FitToBeUsed == ContentInv => StoredIsFit
<1> SUFFICES ASSUME ContentInv PROVE StoredIsFit
  OBVIOUS
<1>1. ASSUME NEW s \in Submissions
      PROVE  \E e : s = e.sent /\ EntryIsFit(e)
  BY <1>1 DEF Submissions, RangeOf, ContentInv
<1>2. ContentTypeOK
  <2>1. \A s \in Submissions : s.of \in Surveys \cup Forms /\ DOMAIN s.answers \subseteq DOMAIN s.given
    BY <1>1 DEF EntryIsFit
  <2> QED BY <2>1 DEF ContentTypeOK, ContentInv, PageIsHeld
<1>3. StoredReadsAlone
  BY <1>1 DEF StoredReadsAlone, EntryIsFit
<1>4. BuiltIsTaken
  <2>1. refused # "sdk"
    BY DEF ContentInv
  <2> QED BY <1>1, <2>1 DEF BuiltIsTaken, EntryIsFit
<1>5. ConsentAsGiven
  BY <1>1 DEF ConsentAsGiven, EntryIsFit
<1> QED BY <1>2, <1>3, <1>4, <1>5, StoredCanBeScored DEF StoredIsFit

(* Whoever fills in or sends a survey or form, what is stored of it reads   *)
(* by its definition alone, was refused by nobody on its way, can be       *)
(* scored, and holds the consents its respondent gave.                     *)
THEOREM StoredStaysFit == ContentSpec => []StoredIsFit
BY ContentStarts, ContentStep, FitToBeUsed, PTL DEF ContentSpec
=============================================================================
