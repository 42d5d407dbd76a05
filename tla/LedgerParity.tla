---------------------------- MODULE LedgerParity ----------------------------
(***************************************************************************)
(* PrismaIdempotencyStore beside InMemoryConnectorIdempotencyStore         *)
(* (packages/connector-kit/src/index.ts), which the tests of the runner    *)
(* and local development use in its place.  Both stores receive the same   *)
(* calls about one scope, with the same clock and the same tokens; each    *)
(* call also fixes what either store tells the caller.                     *)
(*                                                                         *)
(* The two differ in what time does.  The database row stays until a       *)
(* begin() with its own fingerprint takes it over; the in-memory record is *)
(* dropped by cleanup(), which begin() and get() of any scope run first.   *)
(***************************************************************************)
EXTENDS LedgerRow

CONSTANT MaxLeases  \* bound on the lease tokens handed out

ASSUME MaxLeasesAssumption == MaxLeases \in Nat

VARIABLES
  row,      \* the database row
  record,   \* the in-memory record, a row with the states of MemoryStates
  issued,   \* the last lease token handed out
  replies,  \* what the last call returned, by store
  fresh     \* no expiry has passed yet

vars == <<row, record, issued, replies, fresh>>

MemoryStates == {"acquired", "dispatched", "indeterminate", "completed"}

(* toSnapshot() of the Prisma store names the states as in memory. *)
SnapshotState(state) ==
  CASE state = "pending"                -> "acquired"
    [] state \in {"succeeded", "failed"} -> "completed"
    [] OTHER                            -> state

Replies ==
  [kind : {"none", "ok", "acquired", "completed", "request_mismatch", "in_progress",
           "indeterminate", "lease_lost", "not_found", "state_conflict", "snapshot"},
   state : MemoryStates \cup {None}, hash : Hashes \cup {None},
   result : Result \cup {NoResult}]

Reply(kind) == [kind |-> kind, state |-> None, hash |-> None, result |-> NoResult]

TypeOK ==
  /\ row \in Row \cup {NoRow}
  /\ record \in [state : MemoryStates, hash : Hashes, token : Nat, live : BOOLEAN,
                 result : Result \cup {NoResult}] \cup {NoRow}
  /\ issued \in 0..MaxLeases
  /\ replies \in [prisma : Replies, memory : Replies]
  /\ fresh \in BOOLEAN

Init ==
  /\ row = NoRow
  /\ record = NoRow
  /\ issued = 0
  /\ replies = [prisma |-> Reply("none"), memory |-> Reply("none")]
  /\ fresh = TRUE

-----------------------------------------------------------------------------
(* Mutant: the outcome that is still unknown is dropped too. *)
CleanedAll(rec) == IF ~rec.live THEN NoRow ELSE rec

Cleaned(rec) ==
  IF rec.state \in {"acquired", "completed"} /\ ~rec.live THEN NoRow ELSE rec

(* begin() of either store on the entry it finds. *)
BeginReply(entry, hash, acquirable) ==
  LET inRowTerms == [entry EXCEPT !.state = CASE @ = "acquired"  -> "pending"
                                              [] @ = "completed" -> "succeeded"
                                              [] OTHER           -> @]
      refusal == Refusal(inRowTerms, hash)
  IN  IF acquirable THEN Reply("acquired")
      ELSE [Reply(refusal) EXCEPT !.result = IF refusal = "completed" THEN entry.result ELSE @]

Begin(hash) ==
  /\ issued < MaxLeases
  /\ LET found == Cleaned(record)
         inRow == Acquirable(row, hash)
         inMemory == found.state = "absent"
     IN  /\ replies' = [prisma |-> BeginReply(row, hash, inRow),
                        memory |-> BeginReply(found, hash, inMemory)]
         /\ row' = IF inRow THEN Acquired(row, hash, issued + 1) ELSE row
         /\ record' = IF inMemory
              THEN [Acquired(found, hash, issued + 1) EXCEPT !.state = "acquired"]
              ELSE found
         /\ issued' = IF inRow \/ inMemory THEN issued + 1 ELSE issued
  /\ UNCHANGED fresh

(* A call under a lease: a transition, or IDEMPOTENCY_LEASE_LOST. *)
UnderLease(rowHolds, newRow, recordHolds, newRecord) ==
  /\ row' = IF rowHolds THEN newRow ELSE row
  /\ record' = IF recordHolds THEN newRecord ELSE record
  /\ replies' = [prisma |-> Reply(IF rowHolds THEN "ok" ELSE "lease_lost"),
                 memory |-> Reply(IF recordHolds THEN "ok" ELSE "lease_lost")]
  /\ UNCHANGED <<issued, fresh>>

MarkDispatched(lease) ==
  UnderLease(CanMarkDispatched(row, lease), MarkedDispatched(row),
             HoldsLease(record, lease, {"acquired"}), MarkedDispatched(record))

Complete(lease, status) ==
  LET result == [status |-> status, token |-> lease.token]
  IN  UnderLease(CanSettle(row, lease), Completed(row, result),
                 CanSettle(record, lease),
                 [Completed(record, result) EXCEPT !.state = "completed"])

(* Mutant: the in-memory store does not compare the state. *)
MarkIndeterminateEarly(lease) ==
  UnderLease(CanSettle(row, lease), MarkedIndeterminate(row),
             HoldsLease(record, lease, MemoryStates), MarkedIndeterminate(record))

MarkIndeterminate(lease) ==
  UnderLease(CanSettle(row, lease), MarkedIndeterminate(row),
             CanSettle(record, lease), MarkedIndeterminate(record))

(* Releasing a lease that was lost is no error. *)
ReleaseBeforeDispatch(lease) ==
  /\ row' = Released(row, lease)
  /\ record' = IF HoldsLease(record, lease, {"acquired"}) THEN NoRow ELSE record
  /\ replies' = [prisma |-> Reply("ok"), memory |-> Reply("ok")]
  /\ UNCHANGED <<issued, fresh>>

ResolveReply(entry, hash) ==
  Reply(CASE entry.state = "absent"  -> "not_found"
          [] Mismatch(entry, hash)   -> "request_mismatch"
          [] CanResolve(entry, hash) -> "ok"
          [] OTHER                   -> "state_conflict")

ResolveIndeterminate(hash, status) ==
  LET result == [status |-> status, token |-> 0]
  IN  /\ row' = IF CanResolve(row, hash) THEN Completed(row, result) ELSE row
      /\ record' = IF CanResolve(record, hash)
           THEN [Completed(record, result) EXCEPT !.state = "completed"]
           ELSE record
      /\ replies' = [prisma |-> ResolveReply(row, hash), memory |-> ResolveReply(record, hash)]
      /\ UNCHANGED <<issued, fresh>>

Snapshot(entry) ==
  IF entry.state = "absent"
    THEN Reply("none")
    ELSE [kind |-> "snapshot", state |-> SnapshotState(entry.state),
          hash |-> entry.hash, result |-> entry.result]

Get ==
  /\ record' = Cleaned(record)
  /\ replies' = [prisma |-> Snapshot(row), memory |-> Snapshot(Cleaned(record))]
  /\ UNCHANGED <<row, issued, fresh>>

(* begin() or get() of another scope. *)
OtherScope ==
  /\ record' = Cleaned(record)
  /\ UNCHANGED <<row, issued, replies, fresh>>

(* The deadline both entries share passes. *)
Lapse ==
  /\ row.live \/ record.live
  /\ row' = Lapsed(row)
  /\ record' = Lapsed(record)
  /\ fresh' = FALSE
  /\ UNCHANGED <<issued, replies>>

(* Callers may come back with any lease handed out so far. *)
Next ==
  \/ \E h \in Hashes : Begin(h)
  \/ \E h \in Hashes, t \in 1..issued :
       LET lease == [hash |-> h, token |-> t]
       IN  \/ MarkDispatched(lease)
           \/ \E status \in Statuses : Complete(lease, status)
           \/ MarkIndeterminate(lease)
           \/ ReleaseBeforeDispatch(lease)
  \/ \E h \in Hashes, status \in Statuses : ResolveIndeterminate(h, status)
  \/ Get
  \/ OtherScope
  \/ Lapse

Spec == Init /\ [][Next]_vars

-----------------------------------------------------------------------------
(* Until the first expiry no sequence of calls, under leases old or new,   *)
(* tells the two stores apart.                                             *)
AgreeUntilExpiry == fresh => replies.prisma = replies.memory

(* Both stores are in a state of theirs, and answer alike until the first  *)
(* expiry (PrismaIdempotencyStore, InMemoryConnectorIdempotencyStore).     *)
StoresAgree == TypeOK /\ AgreeUntilExpiry

(* Even when expiry has led the stores apart, a lease both of them have on *)
(* record is in the same state in both: whoever holds it is told the same. *)
SameLeaseSameState ==
  row.token # 0 /\ row.token = record.token =>
    /\ record.state = SnapshotState(row.state)
    /\ record.hash = row.hash

(* Neither store loses sight of a command that may have run: whatever its  *)
(* deadline, the entry stays under its lease and fingerprint until it is   *)
(* settled.  A caller who asks after a crash is never told "acquired".     *)
UnknownOutcomeSticks ==
  [][\A entries \in {<<row, row'>>, <<record, record'>>} :
       entries[1].state \in {"dispatched", "indeterminate"} =>
         /\ entries[2].hash = entries[1].hash
         /\ \/ SnapshotState(entries[2].state) = "completed"
            \/ /\ entries[2].state \in {"dispatched", "indeterminate"}
               /\ entries[2].token = entries[1].token]_vars
=============================================================================
