---------------------------- MODULE SocialPosts ----------------------------
(***************************************************************************)
(* The social-post routes of the Middleware (routes/social-posts.ts) with  *)
(* the outbox rows they write (outbox/writer.ts), behind authenticate()    *)
(* (server.ts, auth/jwt.ts).  create and cancel run in a database          *)
(* transaction inside runIdempotentMutation(), which appears as its        *)
(* contract, the module OnceOnly: a key is open, started or done, and a    *)
(* started key is never open again within completedTtlSeconds.             *)
(*                                                                         *)
(* The isolation level is PostgreSQL's default: cancel reads the committed *)
(* status without a lock, its UPDATE waits for the row lock of another     *)
(* transaction and then writes whatever that one left.  Nothing of a       *)
(* transaction is seen before it commits.                                  *)
(*                                                                         *)
(* The publisher that moves a post through its delivery is external.       *)
(***************************************************************************)
EXTENDS Naturals, FiniteSets

CONSTANTS
  Tenants,
  Posts,     \* ids that create may draw
  Keys,      \* Idempotency-Keys
  Requests,  \* requests the server handles at a time
  Published, \* statuses the publisher sets
  None

ASSUME NoneAssumption == None \notin Tenants \cup Posts \cup Requests

VARIABLES
  post,      \* social_posts
  lock,      \* the request whose open transaction has updated the row
  outbox,    \* outbox_events
  ledger,    \* of each tenant, operation and key
  pc, call,
  seen,      \* the status a cancel read, until its transaction ends
  reply      \* what the handler answers

vars == <<post, lock, outbox, ledger, pc, call, seen, reply>>

Cancellable == {"accepted", "scheduled", "publishing"}
Finished == {"published", "partially_published", "failed"}
Statuses == Cancellable \cup Finished \cup {"cancelled"}

ASSUME PublishedAssumption == Published \subseteq Cancellable \cup Finished

NoPost == [status |-> "absent", tenant |-> None]
Row == [status : Statuses, tenant : Tenants] \cup {NoPost}

(* An event of type codestra.social.post.status.v1; by is a ghost, the     *)
(* scope of the mutation that wrote it.                                    *)
Scope == Tenants \X {"create", "cancel"} \X Keys
Event == [post : Posts, tenant : Tenants, previous : Statuses \cup {"absent"},
          status : {"accepted", "cancelled"}, by : Scope]

(* token is the tenant claim of a verified JWT, None a token that fails;   *)
(* header is X-Codestra-Tenant-Id, None when it is not sent.               *)
Calls == [operation : {"create"}, of : {None}, key : Keys,
          token : Tenants \cup {None}, header : Tenants \cup {None}]
         \cup
         [operation : {"cancel"}, of : Posts, key : Keys,
          token : Tenants \cup {None}, header : Tenants \cup {None}]
NoCall == [operation |-> "none"]

Rejections == {"not_found", "invalid_state"}
(* "unavailable" is a 429 or 500, "denied" a 401 or 403, "conflict" the    *)
(* 409 of another payload or of an outcome nobody knows.                   *)
Answers == {"accepted", "denied", "conflict", "in_progress", "unavailable"} \cup Rejections

OpenEntry == [stage |-> "open", of |-> None, answer |-> "none"]
Entry == {OpenEntry} \cup [stage : {"started"}, of : Posts \cup {None}, answer : {"none"}]
           \cup [stage : {"done"}, of : Posts \cup {None},
                 answer : {"accepted"} \cup Rejections]

Pcs == {"idle", "beginning", "inserting", "reading", "updating", "committing",
        "completing", "rejecting", "replied"}

TypeOK ==
  /\ post \in [Posts -> Row]
  /\ lock \in [Posts -> Requests \cup {None}]
  /\ outbox \subseteq Event
  /\ ledger \in [Scope -> Entry]
  /\ pc \in [Requests -> Pcs]
  /\ call \in [Requests -> Calls \cup {NoCall}]
  /\ seen \in [Requests -> Cancellable \cup {"none"}]
  /\ reply \in [Requests -> Answers \cup {"none"}]

Init ==
  /\ post = [p \in Posts |-> NoPost]
  /\ lock = [p \in Posts |-> None]
  /\ outbox = {}
  /\ ledger = [s \in Scope |-> OpenEntry]
  /\ pc = [r \in Requests |-> "idle"]
  /\ call = [r \in Requests |-> NoCall]
  /\ seen = [r \in Requests |-> "none"]
  /\ reply = [r \in Requests |-> "none"]

-----------------------------------------------------------------------------
ScopeOf(r) == <<call[r].token, call[r].operation, call[r].key>>
EntryOf(r) == ledger[ScopeOf(r)]

Goto(r, label) == pc' = [pc EXCEPT ![r] = label]
Answer(r, a) == Goto(r, "replied") /\ reply' = [reply EXCEPT ![r] = a]
Record(r, e) == ledger' = [ledger EXCEPT ![ScopeOf(r)] = e]
Started(r) == [stage |-> "started", of |-> call[r].of, answer |-> "none"]
Done(r, a) == [stage |-> "done", of |-> call[r].of, answer |-> a]

(* The lock goes with the transaction. *)
EndTransaction(r) ==
  /\ lock' = [p \in Posts |-> IF lock[p] = r THEN None ELSE lock[p]]
  /\ seen' = [seen EXCEPT ![r] = "none"]

Verified(c) == c.token # None
OwnTenant(c) == c.header \in {None, c.token}

(* A request arrives: the rate limit, the JWT and the tenant header are    *)
(* looked at before anything else.                                         *)
Arrive(r, c) ==
  /\ pc[r] = "idle"
  /\ call' = [call EXCEPT ![r] = c]
  /\ \/ Answer(r, "unavailable")
     \/ ~(Verified(c) /\ OwnTenant(c)) /\ Answer(r, "denied")
     \/ Verified(c) /\ OwnTenant(c) /\ Goto(r, "beginning") /\ UNCHANGED reply
  /\ UNCHANGED <<post, lock, outbox, ledger, seen>>

(* begin() and markDispatched() of a key that is open. *)
Begin(r) ==
  /\ pc[r] = "beginning"
  /\ EntryOf(r).stage = "open"
  /\ Record(r, Started(r))
  /\ Goto(r, IF call[r].operation = "create" THEN "inserting" ELSE "reading")
  /\ UNCHANGED <<post, lock, outbox, call, seen, reply>>

(* The ledger is out of reach.  When it was markDispatched() whose answer  *)
(* got lost, the key stays started.                                        *)
BeginFails(r) ==
  /\ pc[r] = "beginning"
  /\ \/ UNCHANGED ledger
     \/ EntryOf(r).stage = "open" /\ Record(r, Started(r))
  /\ Answer(r, "unavailable")
  /\ UNCHANGED <<post, lock, outbox, call, seen>>

(* Mutant: the stored response answers any payload. *)
ReplayAnyPayload(r) ==
  /\ pc[r] = "beginning"
  /\ EntryOf(r).stage = "done"
  /\ Answer(r, EntryOf(r).answer)
  /\ UNCHANGED <<post, lock, outbox, ledger, call, seen>>

(* A key that was used: another payload, a stored response, or a first     *)
(* request that is still running or whose outcome nobody knows.            *)
Replay(r) ==
  /\ pc[r] = "beginning"
  /\ LET e == EntryOf(r) IN
       \/ e.stage # "open" /\ e.of # call[r].of /\ Answer(r, "conflict")
       \/ e.stage = "done" /\ e.of = call[r].of /\ Answer(r, e.answer)
       \/ /\ e.stage = "started" /\ e.of = call[r].of
          /\ Answer(r, "in_progress") \/ Answer(r, "conflict")
  /\ UNCHANGED <<post, lock, outbox, ledger, call, seen>>

EventOf(r, p, previous, status) ==
  [post |-> p, tenant |-> call[r].token, previous |-> previous,
   status |-> status, by |-> ScopeOf(r)]

(* The transaction of create, row and event. *)
Insert(r, p) ==
  /\ pc[r] = "inserting"
  /\ post[p] = NoPost
  /\ post' = [post EXCEPT ![p] = [status |-> "accepted", tenant |-> call[r].token]]
  /\ outbox' = outbox \cup {EventOf(r, p, "absent", "accepted")}
  /\ Goto(r, "completing")
  /\ UNCHANGED <<lock, ledger, call, seen, reply>>

(* findFirst() by id and tenant, and the check of the status it returns. *)
ReadPost(r) ==
  /\ pc[r] = "reading"
  /\ LET row == post[call[r].of] IN
       \/ /\ row.tenant # call[r].token
          /\ Goto(r, "rejecting")
          /\ reply' = [reply EXCEPT ![r] = "not_found"]
          /\ UNCHANGED seen
       \/ /\ row.tenant = call[r].token /\ row.status \notin Cancellable
          /\ Goto(r, "rejecting")
          /\ reply' = [reply EXCEPT ![r] = "invalid_state"]
          /\ UNCHANGED seen
       \/ /\ row.tenant = call[r].token /\ row.status \in Cancellable
          /\ Goto(r, "updating")
          /\ seen' = [seen EXCEPT ![r] = row.status]
          /\ UNCHANGED reply
  /\ UNCHANGED <<post, lock, outbox, ledger, call>>

(* UPDATE ... WHERE id waits for the row lock. *)
UpdatePost(r) ==
  /\ pc[r] = "updating"
  /\ lock[call[r].of] = None
  /\ lock' = [lock EXCEPT ![call[r].of] = r]
  /\ Goto(r, "committing")
  /\ UNCHANGED <<post, outbox, ledger, call, seen, reply>>

(* writeOutboxEvent() and the commit. *)
CommitCancel(r) ==
  /\ pc[r] = "committing"
  /\ post' = [post EXCEPT ![call[r].of].status = "cancelled"]
  /\ outbox' = outbox \cup {EventOf(r, call[r].of, seen[r], "cancelled")}
  /\ EndTransaction(r)
  /\ Goto(r, "completing")
  /\ UNCHANGED <<ledger, call, reply>>

(* Mutant: a failure releases the key. *)
WorkFailsReleasing(r) ==
  /\ pc[r] \in {"inserting", "reading", "updating", "committing", "completing"}
  /\ EndTransaction(r)
  /\ Record(r, OpenEntry)
  /\ Answer(r, "unavailable")
  /\ UNCHANGED <<post, outbox, call>>

(* Any failure inside work(): the transaction rolls back, or has committed *)
(* while its acknowledgement was lost.  The key stays started: nobody      *)
(* knows.                                                                  *)
WorkFails(r) ==
  /\ pc[r] \in {"inserting", "reading", "updating", "committing", "completing"}
  /\ EndTransaction(r)
  /\ Answer(r, "unavailable")
  /\ UNCHANGED <<post, outbox, ledger, call>>

(* complete() with the response. *)
Complete(r) ==
  /\ pc[r] = "completing"
  /\ Record(r, Done(r, "accepted"))
  /\ Answer(r, "accepted")
  /\ UNCHANGED <<post, lock, outbox, call, seen>>

(* complete() with the rejection, whose own failure is swallowed. *)
Reject(r) ==
  /\ pc[r] = "rejecting"
  /\ \/ Record(r, Done(r, reply[r]))
     \/ UNCHANGED ledger
  /\ Goto(r, "replied")
  /\ UNCHANGED <<post, lock, outbox, call, seen, reply>>

Leave(r) ==
  /\ Goto(r, "idle")
  /\ call' = [call EXCEPT ![r] = NoCall]
  /\ reply' = [reply EXCEPT ![r] = "none"]

(* The response leaves the server. *)
Respond(r) ==
  /\ pc[r] = "replied"
  /\ Leave(r)
  /\ UNCHANGED <<post, lock, outbox, ledger, seen>>

(* The process stops; PostgreSQL rolls the transaction back. *)
Crash(r) ==
  /\ pc[r] # "idle"
  /\ EndTransaction(r)
  /\ Leave(r)
  /\ UNCHANGED <<post, outbox, ledger>>

(* The external publisher, in transactions of its own. *)
Publish(p) ==
  /\ post[p].status \in Cancellable
  /\ lock[p] = None
  /\ \E status \in Published : post' = [post EXCEPT ![p].status = status]
  /\ UNCHANGED <<lock, outbox, ledger, pc, call, seen, reply>>

Handle(r) ==
  \/ Begin(r) \/ BeginFails(r) \/ Replay(r)
  \/ \E p \in Posts : Insert(r, p)
  \/ ReadPost(r) \/ UpdatePost(r) \/ CommitCancel(r)
  \/ WorkFails(r) \/ Complete(r) \/ Reject(r) \/ Crash(r)

Publisher == \E p \in Posts : Publish(p)

Next ==
  \/ \E r \in Requests : Handle(r) \/ Respond(r) \/ \E c \in Calls : Arrive(r, c)
  \/ Publisher

Spec == Init /\ [][Next]_vars

-----------------------------------------------------------------------------
EventsBy(s) == {e \in outbox : e.by = s}
EventsOf(p) == {e \in outbox : e.post = p}

(* Row and event commit together and only for a key's one run: a key has   *)
(* at most one event; a post has exactly one event of its creation and is  *)
(* cancelled exactly when an event says so; every event carries the tenant *)
(* of its post, so no tenant's key ever cancelled another's.               *)
OutboxMatchesPosts ==
  /\ \A s \in Scope : Cardinality(EventsBy(s)) <= 1
  /\ \A p \in Posts :
       /\ Cardinality({e \in EventsOf(p) : e.status = "accepted"}) =
            IF post[p] = NoPost THEN 0 ELSE 1
       /\ post[p].status = "cancelled" <=> \E e \in EventsOf(p) : e.status = "cancelled"
       /\ \A e \in EventsOf(p) : e.tenant = post[p].tenant /\ e.by[1] = post[p].tenant

(* What the ledger holds for good is true of the database: a stored        *)
(* success has its event, a stored rejection has none, and neither has a   *)
(* key that was never started.                                             *)
LedgerMatchesOutbox ==
  \A s \in Scope :
    /\ ledger[s].answer = "accepted" =>
         \E e \in EventsBy(s) : ledger[s].of \in {None, e.post}
    /\ ledger[s].answer \in Rejections \/ ledger[s].stage = "open" => EventsBy(s) = {}

=============================================================================
