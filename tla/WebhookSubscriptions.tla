------------------------ MODULE WebhookSubscriptions ------------------------
(***************************************************************************)
(* The webhook-subscription routes of the Middleware                       *)
(* (routes/webhook-subscriptions.ts): create with its verification         *)
(* handshake, delete, enable, disable, rotate-secret and the test          *)
(* delivery.  Every handler but create first reads the row, and acts on    *)
(* what it read after any number of awaits.                                *)
(*                                                                         *)
(* Code between two awaits is one step.  create, rotate and test run       *)
(* inside runIdempotentMutation(), which appears as its contract, the      *)
(* module OnceOnly: a key is open, started or done, and a started key is   *)
(* never open again.  Results are not forgotten here: the model lives      *)
(* within completedTtlSeconds of every key.                                *)
(*                                                                         *)
(* Random values (signing secrets, delivery ids) are numbered as drawn.    *)
(* The receiver behind endpointUrl is external: it may get a message and   *)
(* answer 2xx, get it while the answer is lost or is another, or not get   *)
(* it.  The SSRF policy passes or refuses, since DNS may change between    *)
(* two looks.  List and read change nothing and are left out.              *)
(*                                                                         *)
(* Ghosts, read by no action: proven and heard.                            *)
(***************************************************************************)
EXTENDS Naturals

CONSTANTS
  Subscriptions,  \* ids that create may draw
  Keys,           \* Idempotency-Keys of one tenant
  Requests,       \* concurrent requests
  MaxDrawn        \* bound on the random values drawn

ASSUME MaxDrawnAssumption == MaxDrawn \in Nat

VARIABLES
  sub,       \* webhook_subscriptions
  delivery,  \* webhook_deliveries
  drawn,     \* the last random value drawn
  ledger,    \* of each keyed operation and key
  pc, call,
  seen,      \* currentSecret of the row the handler read or wrote
  work,      \* the delivery id, and what became of the message
  proven,    \* subscriptions whose receiver answered 2xx to their challenge
  heard      \* test events that reached a receiver

vars == <<sub, delivery, drawn, ledger, pc, call, seen, work, proven, heard>>
tables == <<sub, delivery, drawn>>
receivers == <<proven, heard>>

Drawn == 0..MaxDrawn  \* 0 is null
Keyed == {"create", "rotate", "test"}
Operations == Keyed \cup {"delete", "enable", "disable"}

Live == {"pending_verification", "active", "disabled"}
Row == [status : Live \cup {"absent", "deleted"},
        verification : {"pending", "verified", "failed"},
        current : Drawn, previous : Drawn]
NoRow == [status |-> "absent", verification |-> "pending", current |-> 0, previous |-> 0]

Delivery == [id : Drawn, of : Subscriptions,
             status : {"rejected", "queued", "delivered", "failed"}]

(* What the ledger keeps of a mutation: its stage, and the secret it drew  *)
(* (a ghost until the response that discloses it is stored).  Which of the *)
(* refusals a request gets that does not find its key open, a conflict, a  *)
(* mismatch or the stored response, makes no difference here.              *)
Entry == [stage : {"open", "started", "done"}, secret : Drawn]
OpenEntry == [stage |-> "open", secret |-> 0]

Pcs == {"idle", "loading", "beginning", "inserting", "challenging", "recording",
        "rotating", "resolving", "rejecting", "queueing", "dispatching", "reporting",
        "completing", "deleting", "enabling", "disabling"}

Call == [operation : Keyed, key : Keys, of : Subscriptions]
          \cup [operation : Operations \ Keyed, of : Subscriptions]
NoCall == [operation |-> "none"]
Outcomes == {"none", "refused", "unanswered", "ok"}
NoWork == [id |-> 0, outcome |-> "none"]

TypeOK ==
  /\ sub \in [Subscriptions -> Row]
  /\ delivery \subseteq Delivery
  /\ drawn \in Drawn
  /\ ledger \in [Keyed \X Keys -> Entry]
  /\ pc \in [Requests -> Pcs]
  /\ call \in [Requests -> Call \cup {NoCall}]
  /\ seen \in [Requests -> Drawn]
  /\ work \in [Requests -> [id : Drawn, outcome : Outcomes]]
  /\ proven \subseteq Subscriptions
  /\ heard \subseteq [id : Drawn, of : Subscriptions, key : Keys, ok : BOOLEAN]

Init ==
  /\ sub = [s \in Subscriptions |-> NoRow]
  /\ delivery = {}
  /\ drawn = 0
  /\ ledger = [e \in Keyed \X Keys |-> OpenEntry]
  /\ pc = [r \in Requests |-> "idle"]
  /\ call = [r \in Requests |-> NoCall]
  /\ seen = [r \in Requests |-> 0]
  /\ work = [r \in Requests |-> NoWork]
  /\ proven = {}
  /\ heard = {}

-----------------------------------------------------------------------------
TargetOf(r) == call[r].of
RowOf(r) == sub[TargetOf(r)]
EntryOf(r) == <<call[r].operation, call[r].key>>
Exists(s) == sub[s].status \in Live

Goto(r, label) == pc' = [pc EXCEPT ![r] = label]

(* The handler returns or throws. *)
Return(r) ==
  /\ Goto(r, "idle")
  /\ call' = [call EXCEPT ![r] = NoCall]
  /\ seen' = [seen EXCEPT ![r] = 0]
  /\ work' = [work EXCEPT ![r] = NoWork]

(* Mutant: an upsert. *)
UpdateOrInsert(r, row) == sub' = [sub EXCEPT ![TargetOf(r)] = row]

(* prisma.webhookSubscription.update(), which throws when the row is gone. *)
Update(r, row) ==
  /\ Exists(TargetOf(r))
  /\ sub' = [sub EXCEPT ![TargetOf(r)] = row]

Send(r, c) ==
  /\ pc[r] = "idle"
  /\ Goto(r, IF c.operation = "create" THEN "beginning" ELSE "loading")
  /\ call' = [call EXCEPT ![r] = c]
  /\ UNCHANGED <<tables, ledger, seen, work, receivers>>

(* requireOwnedSubscription(). *)
LoadRow(r) ==
  /\ pc[r] = "loading"
  /\ Exists(TargetOf(r))
  /\ seen' = [seen EXCEPT ![r] = RowOf(r).current]
  /\ Goto(r, CASE call[r].operation = "delete"  -> "deleting"
               [] call[r].operation = "enable"  -> "enabling"
               [] call[r].operation = "disable" -> "disabling"
               [] OTHER                         -> "beginning")
  /\ UNCHANGED <<tables, ledger, call, work, receivers>>

(* enable also looks at the verification; without it: a mutant. *)
Load(r) ==
  /\ LoadRow(r)
  /\ call[r].operation = "enable" => RowOf(r).verification = "verified"

(* runIdempotentMutation() hands an open key to one request; every other   *)
(* request with the key gets the stored response or a conflict: Fail.      *)
Begin(r) ==
  /\ pc[r] = "beginning"
  /\ ledger[EntryOf(r)].stage = "open"
  /\ ledger' = [ledger EXCEPT ![EntryOf(r)].stage = "started"]
  /\ Goto(r, CASE call[r].operation = "create" -> "inserting"
               [] call[r].operation = "rotate" -> "rotating"
               [] call[r].operation = "test"   -> "resolving")
  /\ UNCHANGED <<tables, call, seen, work, receivers>>

(* store.complete() and the response; the disclosed secret goes with it. *)
Complete(r) ==
  /\ pc[r] = "completing"
  /\ ledger' = [ledger EXCEPT ![EntryOf(r)].stage = "done"]
  /\ Return(r)
  /\ UNCHANGED <<tables, receivers>>

(* Mutant: the key of a mutation that fails is given back. *)
FailReleasing(r) ==
  /\ pc[r] # "idle"
  /\ Return(r)
  /\ ledger' = IF pc[r] \in {"recording", "completing"}
               THEN [ledger EXCEPT ![EntryOf(r)] = OpenEntry] ELSE ledger
  /\ UNCHANGED <<tables, receivers>>

(* The handler ends where it is: a refusal (not found, conflict, replay),  *)
(* a store call that throws, or a crash.  A key it had started stays so,   *)
(* whether or not markIndeterminate() got through.                         *)
Fail(r) ==
  /\ pc[r] # "idle"
  /\ Return(r)
  /\ UNCHANGED <<tables, ledger, receivers>>

-----------------------------------------------------------------------------
(* create: the row, then attemptVerification(). *)
Insert(r, s) ==
  /\ pc[r] = "inserting"
  /\ sub[s].status = "absent"
  /\ drawn < MaxDrawn
  /\ drawn' = drawn + 1
  /\ sub' = [sub EXCEPT ![s] = [NoRow EXCEPT !.status = "pending_verification",
                                             !.current = drawn + 1]]
  /\ seen' = [seen EXCEPT ![r] = drawn + 1]
  /\ call' = [call EXCEPT ![r].of = s]
  /\ ledger' = [ledger EXCEPT ![EntryOf(r)].secret = drawn + 1]
  /\ Goto(r, "challenging")
  /\ UNCHANGED <<delivery, work, receivers>>

(* assertSafeWebhookDestination() fails, or the challenge is dispatched. *)
Challenge(r) ==
  /\ pc[r] = "challenging"
  /\ Goto(r, "recording")
  /\ \E outcome \in Outcomes \ {"none"} :
       /\ work' = [work EXCEPT ![r].outcome = outcome]
       /\ proven' = IF outcome = "ok" THEN proven \cup {TargetOf(r)} ELSE proven
  /\ UNCHANGED <<tables, ledger, call, seen, heard>>

(* Mutant: the name that the status, not the verification, has for it. *)
VerdictAsStatus(outcome) == IF outcome = "ok" THEN "verified" ELSE "verification_failed"

Verdict(outcome) == CASE outcome = "ok"         -> "verified"
                      [] outcome = "refused"    -> "failed"
                      [] outcome = "unanswered" -> "pending"

RecordVerification(r) ==
  /\ pc[r] = "recording"
  /\ Update(r, [RowOf(r) EXCEPT !.verification = Verdict(work[r].outcome)])
  /\ Goto(r, "completing")
  /\ UNCHANGED <<delivery, drawn, ledger, call, seen, work, receivers>>

-----------------------------------------------------------------------------
(* rotate-secret: the secret that becomes previous is the one the handler  *)
(* read before it asked the ledger.                                        *)
Rotate(r) ==
  /\ pc[r] = "rotating"
  /\ drawn < MaxDrawn
  /\ drawn' = drawn + 1
  /\ Update(r, [RowOf(r) EXCEPT !.previous = seen[r], !.current = drawn + 1])
  /\ ledger' = [ledger EXCEPT ![EntryOf(r)].secret = drawn + 1]
  /\ Goto(r, "completing")
  /\ UNCHANGED <<delivery, call, seen, work, receivers>>

-----------------------------------------------------------------------------
(* test: the delivery row is written before the event is dispatched. *)
Resolve(r) ==
  /\ pc[r] = "resolving"
  /\ drawn < MaxDrawn
  /\ drawn' = drawn + 1
  /\ work' = [work EXCEPT ![r].id = drawn + 1]
  /\ Goto(r, "queueing") \/ Goto(r, "rejecting")
  /\ UNCHANGED <<sub, delivery, ledger, call, seen, receivers>>

DeliveryOf(r, status) ==
  [id |-> work[r].id, of |-> TargetOf(r), status |-> status]

(* Mutant: only a rejected delivery is recorded at once. *)
QueueRejectedOnly(r) ==
  /\ pc[r] \in {"queueing", "rejecting"}
  /\ Exists(TargetOf(r))
  /\ delivery' = IF pc[r] = "queueing" THEN delivery
                 ELSE delivery \cup {DeliveryOf(r, "rejected")}
  /\ Goto(r, IF pc[r] = "queueing" THEN "dispatching" ELSE "completing")
  /\ UNCHANGED <<sub, drawn, ledger, call, seen, work, receivers>>

(* webhookDelivery.create(), refused by the foreign key after a delete. *)
Queue(r) ==
  /\ pc[r] \in {"queueing", "rejecting"}
  /\ Exists(TargetOf(r))
  /\ delivery' = delivery \cup
       {DeliveryOf(r, IF pc[r] = "queueing" THEN "queued" ELSE "rejected")}
  /\ Goto(r, IF pc[r] = "queueing" THEN "dispatching" ELSE "completing")
  /\ UNCHANGED <<sub, drawn, ledger, call, seen, work, receivers>>

Dispatch(r) ==
  /\ pc[r] = "dispatching"
  /\ Goto(r, "reporting")
  /\ \E outcome \in {"unanswered", "ok"} :
       /\ work' = [work EXCEPT ![r].outcome = outcome]
       /\ \/ heard' = heard \cup {[id |-> work[r].id, of |-> TargetOf(r), key |-> call[r].key,
                                  ok |-> outcome = "ok"]}
          \/ outcome = "unanswered" /\ UNCHANGED heard
  /\ UNCHANGED <<tables, ledger, call, seen, proven>>

(* webhookDelivery.update(), which throws when a delete took the row. *)
Report(r) ==
  /\ pc[r] = "reporting"
  /\ DeliveryOf(r, "queued") \in delivery
  /\ delivery' = (delivery \ {DeliveryOf(r, "queued")}) \cup
       {DeliveryOf(r, IF work[r].outcome = "ok" THEN "delivered" ELSE "failed")}
  /\ Goto(r, "completing")
  /\ UNCHANGED <<sub, drawn, ledger, call, seen, work, receivers>>

-----------------------------------------------------------------------------
(* enable and disable write the status whatever it became since the read. *)
Enable(r) ==
  /\ pc[r] = "enabling"
  /\ Update(r, [RowOf(r) EXCEPT !.status = "active"])
  /\ Return(r)
  /\ UNCHANGED <<delivery, drawn, ledger, receivers>>

Disable(r) ==
  /\ pc[r] = "disabling"
  /\ Update(r, [RowOf(r) EXCEPT !.status = "disabled"])
  /\ Return(r)
  /\ UNCHANGED <<delivery, drawn, ledger, receivers>>

(* deleteMany(), which takes the deliveries along. *)
Delete(r) ==
  /\ pc[r] = "deleting"
  /\ sub' = [sub EXCEPT ![TargetOf(r)] = [NoRow EXCEPT !.status = "deleted"]]
  /\ delivery' = {d \in delivery : d.of # TargetOf(r)}
  /\ Return(r)
  /\ UNCHANGED <<drawn, ledger, receivers>>

Step(r) ==
  \/ Load(r) \/ Begin(r) \/ Complete(r) \/ Fail(r)
  \/ \E s \in Subscriptions : Insert(r, s)
  \/ Challenge(r) \/ RecordVerification(r)
  \/ Rotate(r)
  \/ Resolve(r) \/ Queue(r) \/ Dispatch(r) \/ Report(r)
  \/ Enable(r) \/ Disable(r) \/ Delete(r)

Next ==
  \/ \E r \in Requests : Step(r)
  \/ \E r \in Requests, c \in Call : Send(r, c)

Spec == Init /\ [][Next]_vars

-----------------------------------------------------------------------------
(* enable decides on a read row and writes later, in a race with the       *)
(* verification, disable and delete: still only a subscription whose       *)
(* receiver answered its challenge with 2xx is ever active.                *)
ActiveIsProven == \A s \in Subscriptions : sub[s].status = "active" => s \in proven

(* A test event never goes out unrecorded, and at most once per key,       *)
(* although a handler may stop between any two steps: while the            *)
(* subscription is there, so is the delivery of every event heard, and     *)
(* "delivered" is said only of one the receiver answered with 2xx.         *)
EventsAreAccountedFor ==
  /\ \A e \in heard : Exists(e.of) => \E d \in delivery : d.id = e.id /\ d.status # "rejected"
  /\ \A d \in delivery : d.status = "delivered" => \E e \in heard : e.id = d.id /\ e.ok
  /\ \A e, f \in heard : e.key = f.key => e.id = f.id

(* No secret signs for a subscription that its owner cannot learn by       *)
(* repeating a call, or sees blocked: the key under which the secret was   *)
(* drawn is never open again, also when the handler failed after writing   *)
(* it, so that no retry silently changes the secret a second time.         *)
SecretHasItsKey ==
  \A s \in Subscriptions : Exists(s) =>
    \E e \in DOMAIN ledger : ledger[e].secret = sub[s].current /\ ledger[e].stage # "open"

(* No late write of a handler that read the row before a delete brings the *)
(* subscription back.                                                      *)
DeletedForGood ==
  [][\A s \in Subscriptions : sub[s].status = "deleted" => sub'[s].status = "deleted"]_vars

(* Middleware "must continue accepting the previous secret": the secret a  *)
(* rotation replaces is the one it keeps as previous.                      *)
ReplacedIsKept ==
  [][\A s \in Subscriptions :
       sub'[s].status \in Live /\ Exists(s) /\ sub'[s].current # sub[s].current =>
         sub'[s].previous = sub[s].current]_vars
=============================================================================
