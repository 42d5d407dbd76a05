------------------------------ MODULE LedgerRow ------------------------------
(***************************************************************************)
(* One row of the durable idempotency ledger (model IdempotentCommand of   *)
(* services/middleware/prisma/schema.prisma) and the transitions that      *)
(* PrismaIdempotencyStore applies to it.  Every method of the store is one *)
(* database transaction that locks the row with SELECT ... FOR UPDATE, so  *)
(* a method is a function of the row it reads; the modules that EXTEND     *)
(* this one decide who calls it, when, and whether the transaction         *)
(* commits.                                                                *)
(*                                                                         *)
(* Abstractions.  A request hash together with the command id is one       *)
(* member of Hashes (the command id is a function of the scope in          *)
(* run-mutation.ts and is part of the hash in connector-kit).  A random    *)
(* lease token is a positive number never handed out before; NULL is 0.    *)
(* lease_expires_at is kept as the one bit the code reads, "later than     *)
(* now".  A result is its status and the lease under which it was          *)
(* produced.  outcome_json is set exactly in state "indeterminate" and is  *)
(* not kept.                                                               *)
(***************************************************************************)
EXTENDS Naturals

CONSTANTS
  Hashes,  \* fingerprints of a request: request_hash and command_id
  None     \* the absent hash or status

ASSUME NoneAssumption == None \notin Hashes

States == {"pending", "dispatched", "succeeded", "failed", "indeterminate"}

(* The status of a ConnectorCommandResult that the store looks at. *)
Statuses == {"completed", "rejected"}

NoResult == [status |-> None, token |-> 0]
Result == [status : Statuses, token : Nat]

NoRow == [state |-> "absent", hash |-> None, token |-> 0,
          live |-> FALSE, result |-> NoResult]

Row == [state : States, hash : Hashes, token : Nat,
        live : BOOLEAN, result : Result \cup {NoResult}]

(***************************************************************************)
(* begin(): the request hash is compared before anything else, even on an  *)
(* expired row.                                                            *)
(***************************************************************************)
Mismatch(row, hash) == row.state # "absent" /\ row.hash # hash

(* Mutant: a dispatched row ages out like a pending one. *)
AcquirableAgingOut(row, hash) ==
  \/ row.state = "absent"
  \/ row.hash = hash /\ ~row.live

Acquirable(row, hash) ==
  \/ row.state = "absent"
  \/ /\ row.hash = hash
     /\ ~row.live
     /\ row.state \in {"pending", "succeeded", "failed"}

(* The answers of begin() that hand out no lease. *)
Refusal(row, hash) ==
  IF Mismatch(row, hash)
    THEN "request_mismatch"
    ELSE CASE row.state \in {"succeeded", "failed"} -> "completed"
           [] row.state = "pending"                -> "in_progress"
           [] OTHER                                -> "indeterminate"

(* INSERT, takeover of an expired lease, or re-use of an expired result. *)
Acquired(row, hash, token) ==
  IF row.state = "pending"
    THEN [row EXCEPT !.token = token, !.live = TRUE]
    ELSE [state |-> "pending", hash |-> hash, token |-> token,
          live |-> TRUE, result |-> NoResult]

(* requireLease(): token, fingerprint and state; the expiry is not read. *)
HoldsLease(row, lease, allowed) ==
  /\ row.token = lease.token
  /\ row.hash = lease.hash
  /\ row.state \in allowed

CanMarkDispatched(row, lease) == HoldsLease(row, lease, {"pending"})
(* Mutant: only the review deadline is written. *)
MarkedDispatchedDeadlineOnly(row) == [row EXCEPT !.live = TRUE]
MarkedDispatched(row) == [row EXCEPT !.state = "dispatched", !.live = TRUE]

CanSettle(row, lease) == HoldsLease(row, lease, {"dispatched", "indeterminate"})

Settled(status) == IF status = "rejected" THEN "failed" ELSE "succeeded"

Completed(row, result) ==
  [row EXCEPT !.state = Settled(result.status), !.result = result,
              !.token = 0, !.live = TRUE]

MarkedIndeterminate(row) ==
  [row EXCEPT !.state = "indeterminate", !.live = TRUE]

(* Mutant: the lease is compared, the state is not. *)
ReleasedInAnyState(row, lease) == IF HoldsLease(row, lease, States) THEN NoRow ELSE row

(* releaseBeforeDispatch(): deletes the row, or silently does nothing. *)
Released(row, lease) == IF HoldsLease(row, lease, {"pending"}) THEN NoRow ELSE row

(* Mutant: only the fingerprint is compared. *)
CanResolveAnyState(row, hash) == row.hash = hash

(* resolveIndeterminate(): knows the fingerprint but no lease. *)
CanResolve(row, hash) ==
  /\ row.hash = hash
  /\ row.state \in {"dispatched", "indeterminate"}

(* lease_expires_at passes. *)
Lapsed(row) == [row EXCEPT !.live = FALSE]
=============================================================================
