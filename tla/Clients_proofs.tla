--------------------------- MODULE Clients_proofs ---------------------------
(***************************************************************************)
(* Theorems about the clients of the Middleware and the handoff of its     *)
(* events, each for every value of its constants.  The four share no       *)
(* state.                                                                  *)
(*                                                                         *)
(* SocialClient, for every set of tenants, posts, keys, requests and       *)
(* callers and every number of retries: the invariant says of every        *)
(* request where its key is (ReqInv): a request that may still have an     *)
(* effect holds a started key that has none yet, and no other request      *)
(* holds that key; of the database that events and posts agree (DbInv);    *)
(* and of every caller that the request serving its attempt is its own and *)
(* what it was told cannot become false (CallerInv).                       *)
(*                                                                         *)
(* CommandClients: nothing is executed of a key that was not sent, and     *)
(* nothing else while its only command is on its way (OnItsWay); the       *)
(* commands sent are counted by the attempts a call has left (Counts).     *)
(*                                                                         *)
(* WorkflowNode: the requests of an item are alike but for a key made of   *)
(* the execution (Alike), a request of the visit at hand was sent when the *)
(* items in front of it had been done (Sequenced), and the Middleware does *)
(* a key, or a deletion, once (LedgerInv).                                 *)
(*                                                                         *)
(* SvixHandoff: the messages of an event are in applications the tenant    *)
(* has been seen in, of which there is one more than moves (MessagesInv).  *)
(***************************************************************************)
EXTENDS SocialClient, CommandClients, WorkflowNode, SvixHandoff, FiniteSetTheorems, TLAPS

InWork == {"inserting", "reading", "updating", "committing"}
Holding == InWork \cup {"completing", "rejecting"}

(* The key has had its effect, for this post if it names one. *)
Wrote(s, of) == \E e \in EventsBy(s) : of \in {None, e.post}

(* No effect of the key can follow. *)
Closed(s) == ledger[s].stage # "open" /\ \A r \in Requests : pc[r] \in InWork => ScopeOf(r) # s

Allowed(r) == Verified(call[r]) /\ OwnTenant(call[r])

ReqInv(r) ==
  /\ pc[r] # "idle" => call[r] \in Calls
  /\ pc[r] \in Holding \cup {"beginning"} => Allowed(r)
  /\ pc[r] = "inserting" => call[r].operation = "create"
  /\ pc[r] \in {"reading", "updating", "committing"} => call[r].operation = "cancel"
  /\ pc[r] \in {"updating", "committing"} => post[call[r].of].tenant = call[r].token
  /\ pc[r] \in {"updating", "committing"} => seen[r] \in Cancellable
  /\ pc[r] \in Holding => EntryOf(r).stage = "started" /\ EntryOf(r).of = call[r].of
  /\ pc[r] \in InWork => EventsBy(ScopeOf(r)) = {}
  /\ pc[r] = "completing" => Wrote(ScopeOf(r), call[r].of)
  /\ pc[r] = "replied" /\ reply[r] = "accepted" => Allowed(r) /\ Wrote(ScopeOf(r), call[r].of)
  /\ pc[r] = "rejecting" => reply[r] \in Rejections
  /\ pc[r] \in {"rejecting", "replied"} /\ reply[r] \in Rejections =>
       Allowed(r) /\ EventsBy(ScopeOf(r)) = {} /\ Closed(ScopeOf(r))

Exclusive ==
  \A q, r \in Requests : pc[q] \in Holding /\ pc[r] \in Holding /\ ScopeOf(q) = ScopeOf(r) => q = r

LedgerTrue(s) ==
  /\ ledger[s].answer = "accepted" => Wrote(s, ledger[s].of)
  /\ ledger[s].answer \in Rejections \/ ledger[s].stage = "open" => EventsBy(s) = {}

KeyInv == (\A r \in Requests : ReqInv(r)) /\ Exclusive /\ \A s \in Scope : LedgerTrue(s)

DbInv ==
  /\ \A e, f \in outbox : e.by = f.by => e = f
  /\ \A e, f \in outbox : e.post = f.post /\ e.status = "accepted" /\ f.status = "accepted" => e = f
  /\ \A e \in outbox :
       /\ post[e.post] # NoPost /\ e.tenant = post[e.post].tenant /\ e.by[1] = e.tenant
       /\ e.status = "cancelled" => post[e.post].status = "cancelled"
  /\ \A p \in Posts :
       /\ post[p] # NoPost => \E e \in outbox : e.post = p /\ e.status = "accepted"
       /\ post[p].status = "cancelled" => \E e \in outbox : e.post = p /\ e.status = "cancelled"

ServerInv == TypeOK /\ KeyInv /\ DbInv

-----------------------------------------------------------------------------
(***************************************************************************)
(* Type correctness of the routes.                                         *)
(***************************************************************************)
LEMMA ServerTypeInit == Init => TypeOK
  BY DEF Init, TypeOK, Row, Entry, Pcs

LEMMA RequestTypes ==
  ASSUME TypeOK, NEW r \in Requests, call[r] \in Calls, Verified(call[r])
  PROVE  /\ ScopeOf(r) \in Scope /\ EntryOf(r) \in Entry
         /\ call[r].token \in Tenants /\ call[r].of \in Posts \cup {None}
  <1>1. call[r].token \in Tenants /\ call[r].of \in Posts \cup {None} /\ call[r].key \in Keys
        /\ call[r].operation \in {"create", "cancel"}
    BY DEF Calls, Verified
  <1>2. ScopeOf(r) \in Scope
    BY <1>1 DEF ScopeOf, Scope
  <1> QED BY <1>1, <1>2 DEF EntryOf, TypeOK

LEMMA EndTypes ==
  ASSUME TypeOK, NEW r \in Requests, EndTransaction(r)
  PROVE  lock' \in [Posts -> Requests \cup {None}] /\ seen' \in [Requests -> Cancellable \cup {"none"}]
  BY DEF TypeOK, EndTransaction

LEMMA AnswerTypes ==
  ASSUME TypeOK, NEW r \in Requests, NEW a \in Answers, Answer(r, a)
  PROVE  pc' \in [Requests -> Pcs] /\ reply' \in [Requests -> Answers \cup {"none"}]
  BY DEF TypeOK, Answer, Goto, Pcs

LEMMA RecordTypes ==
  ASSUME TypeOK, NEW r \in Requests, NEW e \in Entry, Record(r, e)
  PROVE  ledger' \in [Scope -> Entry]
  BY DEF TypeOK, Record

LEMMA EntryTypes ==
  ASSUME TypeOK, NEW r \in Requests, call[r] \in Calls
  PROVE  /\ Started(r) \in Entry /\ OpenEntry \in Entry
         /\ \A a \in {"accepted"} \cup Rejections : Done(r, a) \in Entry
  <1>1. call[r].of \in Posts \cup {None}
    BY DEF Calls
  <1> QED BY <1>1 DEF Started, Done, Entry

LEMMA LeaveTypes ==
  ASSUME TypeOK, NEW r \in Requests, Leave(r)
  PROVE  /\ pc' \in [Requests -> Pcs]
         /\ call' \in [Requests -> Calls \cup {NoCall}]
         /\ reply' \in [Requests -> Answers \cup {"none"}]
  BY DEF TypeOK, Leave, Goto, Pcs

LEMMA ArriveTypes ==
  ASSUME TypeOK, NEW r \in Requests, NEW c \in Calls, Arrive(r, c)
  PROVE  TypeOK'
  <1>1. call' \in [Requests -> Calls \cup {NoCall}] /\ UNCHANGED <<post, lock, outbox, ledger, seen>>
    BY DEF Arrive, TypeOK
  <1>2. CASE Answer(r, "unavailable") \/ Answer(r, "denied")
    <2>1. {"unavailable", "denied"} \subseteq Answers
      BY DEF Answers
    <2> QED BY <1>1, <1>2, <2>1, AnswerTypes DEF TypeOK
  <1>3. CASE Goto(r, "beginning") /\ UNCHANGED reply
    BY <1>1, <1>3 DEF TypeOK, Goto, Pcs
  <1> QED BY <1>2, <1>3 DEF Arrive

LEMMA RespondTypes ==
  ASSUME TypeOK, NEW r \in Requests, Respond(r)
  PROVE  TypeOK'
  BY LeaveTypes DEF Respond, TypeOK

LEMMA HandleTypes ==
  ASSUME TypeOK, \A q \in Requests : ReqInv(q), NEW r \in Requests, Handle(r)
  PROVE  TypeOK'
  <1>a. Answers = {"accepted", "denied", "conflict", "in_progress", "unavailable"} \cup Rejections
    BY DEF Answers
  <1>c. pc[r] # "idle" => call[r] \in Calls
    BY DEF ReqInv
  <1>h. pc[r] \in Holding => call[r] \in Calls /\ Verified(call[r])
    BY DEF ReqInv, Holding, InWork, Allowed
  <1>1. CASE Begin(r)
    <2>1. call[r] \in Calls
      BY <1>1, <1>c DEF Begin
    <2>2. ledger' \in [Scope -> Entry]
      BY <1>1, <2>1, EntryTypes, RecordTypes DEF Begin
    <2> QED BY <1>1, <2>2 DEF Begin, TypeOK, Goto, Pcs
  <1>2. CASE BeginFails(r)
    <2>1. ledger' \in [Scope -> Entry]
      BY <1>2, <1>c, EntryTypes, RecordTypes DEF BeginFails, TypeOK
    <2> QED BY <1>2, <1>a, <2>1, AnswerTypes DEF BeginFails, TypeOK
  <1>3. CASE Replay(r)
    <2>1. /\ Answer(r, "conflict") \/ Answer(r, "in_progress")
             \/ (EntryOf(r).stage = "done" /\ Answer(r, EntryOf(r).answer))
          /\ UNCHANGED <<post, lock, outbox, ledger, call, seen>>
      BY <1>3 DEF Replay
    <2>2. Allowed(r) /\ call[r] \in Calls
      BY <1>3, <1>c DEF Replay, ReqInv
    <2>3. EntryOf(r).stage = "done" => EntryOf(r).answer \in Answers
      BY <1>a, <2>2, RequestTypes DEF Entry, OpenEntry, Allowed
    <2> QED BY <1>a, <2>1, <2>3, AnswerTypes DEF TypeOK
  <1>4. ASSUME NEW p \in Posts, Insert(r, p) PROVE TypeOK'
    <2>1. call[r] \in Calls /\ Verified(call[r])
      BY <1>4, <1>h DEF Insert, Holding, InWork
    <2>2. EventOf(r, p, "absent", "accepted") \in Event
      BY <2>1, RequestTypes DEF EventOf, Event
    <2>3. [status |-> "accepted", tenant |-> call[r].token] \in Row
      BY <2>1, RequestTypes DEF Row, Statuses, Cancellable
    <2> QED BY <1>4, <2>2, <2>3 DEF Insert, TypeOK, Goto, Pcs
  <1>5. CASE ReadPost(r)
    <2>1. reply' \in [Requests -> Answers \cup {"none"}] /\ seen' \in [Requests -> Cancellable \cup {"none"}]
      BY <1>5, <1>a DEF ReadPost, TypeOK, Rejections
    <2>2. pc' \in [Requests -> Pcs]
      BY <1>5 DEF ReadPost, TypeOK, Goto, Pcs
    <2> QED BY <1>5, <2>1, <2>2 DEF ReadPost, TypeOK
  <1>6. CASE UpdatePost(r)
    BY <1>6 DEF UpdatePost, TypeOK, Goto, Pcs
  <1>7. CASE CommitCancel(r)
    <2>1. /\ call[r] \in Calls /\ Verified(call[r]) /\ call[r].operation = "cancel"
          /\ seen[r] \in Cancellable /\ post[call[r].of].tenant = call[r].token
      BY <1>7, <1>h DEF CommitCancel, Holding, InWork, ReqInv
    <2>2. call[r].of \in Posts /\ call[r].token \in Tenants
      BY <2>1, RequestTypes DEF Calls
    <2>3. EventOf(r, call[r].of, seen[r], "cancelled") \in Event
      BY <2>1, <2>2, RequestTypes DEF EventOf, Event, Statuses
    <2>4. [post[call[r].of] EXCEPT !.status = "cancelled"] \in Row
      BY <2>1, <2>2, NoneAssumption DEF Row, NoPost, TypeOK, Statuses
    <2>5. post' \in [Posts -> Row]
      BY <1>7, <2>2, <2>4 DEF CommitCancel, TypeOK
    <2> QED BY <1>7, <2>3, <2>5, EndTypes DEF CommitCancel, TypeOK, Goto, Pcs
  <1>8. CASE WorkFails(r)
    BY <1>8, <1>a, AnswerTypes, EndTypes DEF WorkFails, TypeOK
  <1>9. CASE Complete(r)
    <2>1. ledger' \in [Scope -> Entry]
      BY <1>9, <1>c, EntryTypes, RecordTypes DEF Complete
    <2> QED BY <1>9, <1>a, <2>1, AnswerTypes DEF Complete, TypeOK
  <1>10. CASE Reject(r)
    <2>1. reply[r] \in Rejections
      BY <1>10 DEF Reject, ReqInv
    <2>2. ledger' \in [Scope -> Entry]
      BY <1>10, <1>c, <2>1, EntryTypes, RecordTypes DEF Reject, TypeOK
    <2> QED BY <1>10, <2>2 DEF Reject, TypeOK, Goto, Pcs
  <1>11. CASE Crash(r)
    BY <1>11, EndTypes, LeaveTypes DEF Crash, TypeOK
  <1> QED BY <1>1, <1>2, <1>3, <1>4, <1>5, <1>6, <1>7, <1>8, <1>9, <1>10, <1>11 DEF Handle

LEMMA PublishTypes ==
  ASSUME TypeOK, NEW p \in Posts, Publish(p)
  PROVE  TypeOK'
  <1>1. ASSUME NEW status \in Published PROVE [post[p] EXCEPT !.status = status] \in Row
    BY <1>1, PublishedAssumption DEF Publish, TypeOK, Row, NoPost, Statuses, Cancellable
  <1> QED BY <1>1 DEF Publish, TypeOK

-----------------------------------------------------------------------------
(***************************************************************************)
(* Keys.  A step of one request is orderly if it changes no other request, *)
(* only its own key's ledger entry, which never opens again, and adds      *)
(* events of its own key only while it works; and if it comes to hold a    *)
(* key only while that key is open.                                        *)
(***************************************************************************)
Orderly(r) ==
  /\ \A q \in Requests : q # r =>
       pc'[q] = pc[q] /\ call'[q] = call[q] /\ reply'[q] = reply[q] /\ seen'[q] = seen[q]
  /\ outbox \subseteq outbox'
  /\ \A e \in outbox' : e \in outbox \/ (e.by = ScopeOf(r) /\ pc[r] \in InWork)
  /\ \A s \in Scope :
       \/ ledger'[s] = ledger[s]
       \/ /\ s = ScopeOf(r) /\ ledger'[s].stage # "open"
          /\ pc[r] \in Holding \/ ledger[s].stage = "open"
  /\ pc'[r] \in Holding =>
       call'[r] = call[r] /\ (pc[r] \in Holding \/ EntryOf(r).stage = "open")
  /\ pc'[r] \in InWork => pc[r] \in InWork \/ EntryOf(r).stage = "open"
  /\ \A p \in Posts : post[p] # NoPost => post'[p].tenant = post[p].tenant

LEMMA HoldersScope ==
  ASSUME TypeOK, KeyInv, NEW r \in Requests, pc[r] \in Holding \cup {"beginning"}
  PROVE  /\ call[r] \in Calls /\ Verified(call[r]) /\ ScopeOf(r) \in Scope /\ EntryOf(r) \in Entry
         /\ call[r].token \in Tenants /\ call[r].of \in Posts \cup {None}
  <1>1. call[r] \in Calls /\ Verified(call[r])
    BY DEF KeyInv, ReqInv, Allowed, Holding, InWork
  <1> QED BY <1>1, RequestTypes

LEMMA Stays ==
  ASSUME TypeOK, KeyInv, NEW r \in Requests, Orderly(r), NEW s \in Scope
  PROVE  /\ EventsBy(s) \subseteq EventsBy(s)'
         /\ s # ScopeOf(r) \/ pc[r] \notin InWork => EventsBy(s)' = EventsBy(s)
         /\ Closed(s) => Closed(s)' /\ EventsBy(s)' = EventsBy(s)
  <1>1. EventsBy(s) \subseteq EventsBy(s)'
    BY DEF Orderly, EventsBy
  <1>2. s # ScopeOf(r) \/ pc[r] \notin InWork => EventsBy(s)' = EventsBy(s)
    BY DEF Orderly, EventsBy
  <1>3. ASSUME Closed(s) PROVE Closed(s)' /\ EventsBy(s)' = EventsBy(s)
    <2>1. EventsBy(s)' = EventsBy(s)
      BY <1>2, <1>3 DEF Closed
    <2>2. ledger'[s].stage # "open"
      BY <1>3 DEF Closed, Orderly
    <2>3. ASSUME NEW q \in Requests, pc'[q] \in InWork PROVE ScopeOf(q)' # s
      <3>1. CASE q # r
        BY <1>3, <2>3, <3>1 DEF Closed, Orderly, ScopeOf
      <3>2. CASE q = r
        <4>1. call'[r] = call[r] /\ (pc[r] \in InWork \/ EntryOf(r).stage = "open")
          BY <2>3, <3>2 DEF Orderly, Holding
        <4> QED BY <1>3, <3>2, <4>1 DEF Closed, ScopeOf, EntryOf
      <3> QED BY <3>1, <3>2
    <2> QED BY <2>1, <2>2, <2>3 DEF Closed
  <1> QED BY <1>1, <1>2, <1>3

(* An orderly step disturbs no other request.                              *)
LEMMA OthersKept ==
  ASSUME TypeOK, KeyInv, NEW r \in Requests, Orderly(r), NEW q \in Requests, q # r
  PROVE  ReqInv(q)'
  <1>0. ReqInv(q)
    BY DEF KeyInv
  <1>1. /\ pc'[q] = pc[q] /\ call'[q] = call[q] /\ reply'[q] = reply[q] /\ seen'[q] = seen[q]
        /\ ScopeOf(q)' = ScopeOf(q) /\ (Allowed(q) => Allowed(q)')
    BY DEF Orderly, ScopeOf, Allowed, Verified, OwnTenant
  <1>2. pc[q] \in {"updating", "committing"} => post'[call[q].of].tenant = call[q].token
    <2> SUFFICES ASSUME pc[q] \in {"updating", "committing"} PROVE post'[call[q].of].tenant = call[q].token
      OBVIOUS
    <2>1. call[q] \in Calls /\ call[q].operation = "cancel" /\ Verified(call[q])
          /\ post[call[q].of].tenant = call[q].token
      BY <1>0, HoldersScope DEF ReqInv, Holding, InWork
    <2>2. call[q].of \in Posts /\ post[call[q].of] # NoPost
      BY <2>1 DEF Calls, NoPost, Verified
    <2> QED BY <2>1, <2>2 DEF Orderly
  <1>3. pc[q] \in Holding => EntryOf(q)' = EntryOf(q)
    <2> SUFFICES ASSUME pc[q] \in Holding PROVE EntryOf(q)' = EntryOf(q)
      OBVIOUS
    <2>1. ScopeOf(q) \in Scope /\ ledger[ScopeOf(q)].stage = "started"
      BY <1>0, HoldersScope DEF ReqInv, EntryOf
    <2>2. pc[r] \in Holding => ScopeOf(q) # ScopeOf(r)
      BY DEF KeyInv, Exclusive
    <2> QED BY <1>1, <2>1, <2>2 DEF Orderly, EntryOf
  <1>4. pc[q] \in Holding => EventsBy(ScopeOf(q))' = EventsBy(ScopeOf(q)) /\ ScopeOf(q) \in Scope
    <2> SUFFICES ASSUME pc[q] \in Holding
                 PROVE  EventsBy(ScopeOf(q))' = EventsBy(ScopeOf(q)) /\ ScopeOf(q) \in Scope
      OBVIOUS
    <2>1. ScopeOf(q) \in Scope
      BY HoldersScope
    <2>2. pc[r] \in InWork => ScopeOf(q) # ScopeOf(r)
      BY DEF KeyInv, Exclusive, Holding
    <2>3. EventsBy(ScopeOf(q)) = {e \in outbox : e.by = ScopeOf(q)} /\ EventsBy(ScopeOf(q))' = {e \in outbox' : e.by = ScopeOf(q)}
      BY <1>1 DEF EventsBy
    <2> QED BY <2>1, <2>2, <2>3 DEF Orderly
  <1>5. pc[q] = "replied" /\ reply[q] = "accepted" => Wrote(ScopeOf(q), call[q].of)'
    BY <1>0, <1>1 DEF ReqInv, Wrote, EventsBy, Orderly
  <1>6. pc[q] \in {"rejecting", "replied"} /\ reply[q] \in Rejections =>
          (EventsBy(ScopeOf(q)) = {})' /\ Closed(ScopeOf(q))'
    <2> SUFFICES ASSUME pc[q] \in {"rejecting", "replied"}, reply[q] \in Rejections
                 PROVE  (EventsBy(ScopeOf(q)) = {})' /\ Closed(ScopeOf(q))'
      OBVIOUS
    <2>1. EventsBy(ScopeOf(q)) = {} /\ Closed(ScopeOf(q))
      BY <1>0 DEF ReqInv
    <2>0. ScopeOf(q) \in Scope
      BY <1>0, RequestTypes DEF ReqInv, Allowed
    <2>2. pc[r] \in InWork => ScopeOf(r) # ScopeOf(q)
      BY <2>1 DEF Closed
    <2>3. (EventsBy(ScopeOf(q)) = {})'
      BY <1>1, <2>1, <2>2 DEF EventsBy, Orderly
    <2>4. ledger'[ScopeOf(q)].stage # "open"
      BY <2>0, <2>1 DEF Closed, Orderly
    <2>5. ASSUME NEW p \in Requests, pc'[p] \in InWork PROVE ScopeOf(p)' # ScopeOf(q)
      <3>1. CASE p # r
        BY <2>1, <2>5, <3>1 DEF Closed, Orderly, ScopeOf
      <3>2. CASE p = r
        <4>1. call'[r] = call[r] /\ (pc[r] \in InWork \/ EntryOf(r).stage = "open")
          BY <2>5, <3>2 DEF Orderly, Holding
        <4> QED BY <2>1, <3>2, <4>1 DEF Closed, ScopeOf, EntryOf
      <3> QED BY <3>1, <3>2
    <2> QED BY <1>1, <2>3, <2>4, <2>5 DEF Closed
  <1>7. pc[q] = "completing" => Wrote(ScopeOf(q), call[q].of)'
    BY <1>0, <1>1 DEF ReqInv, Wrote, EventsBy, Orderly
  <1>8. pc[q] \in InWork => (EventsBy(ScopeOf(q)) = {})'
    BY <1>0, <1>1, <1>4 DEF ReqInv, Holding
  <1> HIDE DEF InWork
  <1> QED BY <1>0, <1>1, <1>2, <1>3, <1>5, <1>6, <1>7, <1>8 DEF ReqInv

LEMMA ExclusiveKept ==
  ASSUME TypeOK, KeyInv, NEW r \in Requests, Orderly(r)
  PROVE  Exclusive'
  <1> SUFFICES ASSUME NEW q \in Requests, NEW p \in Requests, pc'[q] \in Holding, pc'[p] \in Holding,
                      ScopeOf(q)' = ScopeOf(p)'
               PROVE  q = p
    BY DEF Exclusive
  <1>1. \A o \in Requests : pc'[o] \in Holding =>
          /\ ScopeOf(o)' = ScopeOf(o)
          /\ o # r => pc[o] \in Holding /\ EntryOf(o).stage = "started"
          /\ pc[o] \in Holding \/ EntryOf(o).stage = "open"
    BY DEF Orderly, ScopeOf, KeyInv, ReqInv
  <1>2. CASE pc[q] \in Holding /\ pc[p] \in Holding
    BY <1>1, <1>2 DEF KeyInv, Exclusive
  <1>3. EntryOf(q).stage = EntryOf(p).stage
    BY <1>1 DEF EntryOf
  <1> QED BY <1>1, <1>2, <1>3 DEF KeyInv, ReqInv

LEMMA LedgersKept ==
  ASSUME TypeOK, KeyInv, NEW r \in Requests, Orderly(r), NEW s \in Scope, s # ScopeOf(r)
  PROVE  LedgerTrue(s)'
  <1>1. ledger'[s] = ledger[s] /\ EventsBy(s)' = EventsBy(s)
    BY Stays DEF Orderly
  <1> QED BY <1>1 DEF KeyInv, LedgerTrue, Wrote

LEMMA KeysKept ==
  ASSUME TypeOK, KeyInv, NEW r \in Requests, Orderly(r), ReqInv(r)',
         \A s \in Scope : s = ScopeOf(r) => LedgerTrue(s)'
  PROVE  Orderly(r) /\ KeyInv'
  <1>1. \A q \in Requests : ReqInv(q)'
    BY OthersKept
  <1>2. \A s \in Scope : LedgerTrue(s)'
    BY LedgersKept
  <1> QED BY <1>1, <1>2, ExclusiveKept DEF KeyInv

-----------------------------------------------------------------------------
(***************************************************************************)
(* Each step of a request.                                                 *)
(***************************************************************************)
LEMMA LedgersQuiet ==
  ASSUME KeyInv, UNCHANGED <<outbox, ledger>>
  PROVE  \A s \in Scope : LedgerTrue(s)'
  BY DEF KeyInv, LedgerTrue, Wrote, EventsBy

LEMMA ArriveKeeps ==
  ASSUME TypeOK, KeyInv, NEW r \in Requests, NEW c \in Calls, Arrive(r, c)
  PROVE  Orderly(r) /\ KeyInv'
  <1>1. /\ pc[r] = "idle" /\ call' = [call EXCEPT ![r] = c] /\ UNCHANGED <<post, lock, outbox, ledger, seen>>
        /\ \A q \in Requests : q # r => pc'[q] = pc[q] /\ reply'[q] = reply[q] /\ call'[q] = call[q]
        /\ call'[r] = c
    BY DEF Arrive, Answer, Goto, TypeOK
  <1>2. \/ pc'[r] = "replied" /\ reply'[r] \in {"unavailable", "denied"}
        \/ pc'[r] = "beginning" /\ Verified(c) /\ OwnTenant(c)
    BY DEF Arrive, Answer, Goto, TypeOK
  <1>3. Orderly(r)
    BY <1>1, <1>2 DEF Orderly, Holding, InWork
  <1>4. ReqInv(r)'
    BY <1>1, <1>2 DEF ReqInv, Holding, InWork, Allowed, Rejections, Verified, OwnTenant
  <1> QED BY <1>1, <1>3, <1>4, LedgersQuiet, KeysKept

LEMMA RespondKeeps ==
  ASSUME TypeOK, KeyInv, NEW r \in Requests, Respond(r)
  PROVE  Orderly(r) /\ KeyInv'
  <1>1. UNCHANGED <<post, lock, outbox, ledger, seen>> /\ pc'[r] = "idle"
    BY DEF Respond, Leave, Goto, TypeOK
  <1>2. \A q \in Requests : q # r => pc'[q] = pc[q] /\ reply'[q] = reply[q] /\ call'[q] = call[q]
    BY DEF Respond, Leave, Goto, TypeOK
  <1>3. Orderly(r)
    BY <1>1, <1>2 DEF Orderly, Holding, InWork
  <1>4. ReqInv(r)'
    BY <1>1 DEF ReqInv, Holding, InWork
  <1> QED BY <1>1, <1>3, <1>4, LedgersQuiet, KeysKept

LEMMA CrashKeeps ==
  ASSUME TypeOK, KeyInv, NEW r \in Requests, Crash(r)
  PROVE  Orderly(r) /\ KeyInv'
  <1>1. UNCHANGED <<post, outbox, ledger>> /\ pc'[r] = "idle"
    BY DEF Crash, Leave, Goto, TypeOK
  <1>2. \A q \in Requests : q # r =>
          pc'[q] = pc[q] /\ reply'[q] = reply[q] /\ call'[q] = call[q] /\ seen'[q] = seen[q]
    BY DEF Crash, Leave, Goto, EndTransaction, TypeOK
  <1>3. Orderly(r)
    BY <1>1, <1>2 DEF Orderly, Holding, InWork
  <1>4. ReqInv(r)'
    BY <1>1 DEF ReqInv, Holding, InWork
  <1> QED BY <1>1, <1>3, <1>4, LedgersQuiet, KeysKept

LEMMA WorkFailsKeeps ==
  ASSUME TypeOK, KeyInv, NEW r \in Requests, WorkFails(r)
  PROVE  Orderly(r) /\ KeyInv'
  <1>1. /\ UNCHANGED <<post, outbox, ledger, call>> /\ pc'[r] = "replied" /\ reply'[r] = "unavailable"
        /\ pc[r] # "idle"
    BY DEF WorkFails, Answer, Goto, TypeOK
  <1>2. \A q \in Requests : q # r => pc'[q] = pc[q] /\ reply'[q] = reply[q] /\ seen'[q] = seen[q]
    BY DEF WorkFails, Answer, Goto, EndTransaction, TypeOK
  <1>3. Orderly(r)
    BY <1>1, <1>2 DEF Orderly, Holding, InWork
  <1>4. ReqInv(r)'
    BY <1>1 DEF ReqInv, KeyInv, Holding, InWork, Rejections
  <1> QED BY <1>1, <1>3, <1>4, LedgersQuiet, KeysKept

(* The first request of a key takes it. *)
LEMMA StartKeeps ==
  ASSUME TypeOK, KeyInv, NEW r \in Requests, pc[r] = "beginning", EntryOf(r).stage = "open", Record(r, Started(r))
  PROVE  /\ ledger'[ScopeOf(r)] = Started(r)
         /\ outbox' = outbox => \A s \in Scope : s = ScopeOf(r) => LedgerTrue(s)'
         /\ \A s \in Scope : ledger'[s] = ledger[s]
              \/ (s = ScopeOf(r) /\ ledger[s].stage = "open" /\ ledger'[s].stage # "open")
         /\ EventsBy(ScopeOf(r)) = {}
  <1>1. ScopeOf(r) \in Scope
    BY HoldersScope
  <1>2. ledger'[ScopeOf(r)] = [stage |-> "started", of |-> call[r].of, answer |-> "none"]
    BY <1>1 DEF Record, Started, TypeOK
  <1>3. \A s \in Scope : s # ScopeOf(r) => ledger'[s] = ledger[s]
    BY DEF Record, TypeOK
  <1>4. EventsBy(ScopeOf(r)) = {}
    BY <1>1 DEF KeyInv, LedgerTrue, EntryOf
  <1>5. ASSUME outbox' = outbox, NEW s \in Scope, s = ScopeOf(r) PROVE LedgerTrue(s)'
    BY <1>2, <1>5 DEF LedgerTrue, Rejections
  <1> QED BY <1>1, <1>2, <1>3, <1>4, <1>5 DEF EntryOf, Started

LEMMA BeginKeeps ==
  ASSUME TypeOK, KeyInv, NEW r \in Requests, Begin(r)
  PROVE  Orderly(r) /\ KeyInv'
  <1>1. /\ pc[r] = "beginning" /\ EntryOf(r).stage = "open" /\ Record(r, Started(r))
        /\ pc'[r] = IF call[r].operation = "create" THEN "inserting" ELSE "reading"
        /\ UNCHANGED <<post, lock, outbox, call, seen, reply>>
        /\ \A q \in Requests : q # r => pc'[q] = pc[q]
    BY DEF Begin, Goto, TypeOK
  <1>2. /\ EntryOf(r)' = Started(r)
        /\ \A s \in Scope : s = ScopeOf(r) => LedgerTrue(s)'
        /\ \A s \in Scope : ledger'[s] = ledger[s]
             \/ (s = ScopeOf(r) /\ ledger[s].stage = "open" /\ ledger'[s].stage # "open")
        /\ EventsBy(ScopeOf(r)) = {}
    BY <1>1, StartKeeps DEF EntryOf, ScopeOf
  <1>3. Orderly(r)
    BY <1>1, <1>2 DEF Orderly
  <1>4. ReqInv(r)'
    <2>1. call[r] \in Calls /\ Allowed(r) /\ Allowed(r)' /\ call[r].operation \in {"create", "cancel"}
      BY <1>1 DEF KeyInv, ReqInv, Allowed, Calls, Verified, OwnTenant
    <2>2. (EventsBy(ScopeOf(r)) = {})'
      BY <1>1, <1>2 DEF EventsBy, ScopeOf
    <2> QED BY <1>1, <1>2, <2>1, <2>2 DEF ReqInv, Holding, InWork, Started
  <1> QED BY <1>2, <1>3, <1>4, KeysKept

LEMMA BeginFailsKeeps ==
  ASSUME TypeOK, KeyInv, NEW r \in Requests, BeginFails(r)
  PROVE  Orderly(r) /\ KeyInv'
  <1>1. /\ pc[r] = "beginning" /\ pc'[r] = "replied" /\ reply'[r] = "unavailable"
        /\ UNCHANGED <<post, lock, outbox, call, seen>>
        /\ \A q \in Requests : q # r => pc'[q] = pc[q] /\ reply'[q] = reply[q]
    BY DEF BeginFails, Answer, Goto, TypeOK
  <1>2. /\ \A s \in Scope : s = ScopeOf(r) => LedgerTrue(s)'
        /\ \A s \in Scope : ledger'[s] = ledger[s]
             \/ (s = ScopeOf(r) /\ ledger[s].stage = "open" /\ ledger'[s].stage # "open")
    <2>1. CASE UNCHANGED ledger
      BY <1>1, <2>1, LedgersQuiet
    <2>2. CASE EntryOf(r).stage = "open" /\ Record(r, Started(r))
      BY <1>1, <2>2, StartKeeps
    <2> QED BY <2>1, <2>2 DEF BeginFails
  <1>3. Orderly(r)
    BY <1>1, <1>2 DEF Orderly, Holding, InWork
  <1>4. ReqInv(r)'
    BY <1>1 DEF KeyInv, ReqInv, Holding, InWork, Rejections
  <1> QED BY <1>2, <1>3, <1>4, KeysKept

LEMMA ReplayKeeps ==
  ASSUME TypeOK, KeyInv, NEW r \in Requests, Replay(r)
  PROVE  Orderly(r) /\ KeyInv'
  <1>1. /\ pc[r] = "beginning" /\ pc'[r] = "replied"
        /\ UNCHANGED <<post, lock, outbox, ledger, call, seen>>
        /\ \A q \in Requests : q # r => pc'[q] = pc[q] /\ reply'[q] = reply[q]
    BY DEF Replay, Answer, Goto, TypeOK
  <1>2. \/ reply'[r] \in {"conflict", "in_progress"}
        \/ EntryOf(r).stage = "done" /\ EntryOf(r).of = call[r].of /\ reply'[r] = EntryOf(r).answer
    BY DEF Replay, Answer, Goto, TypeOK
  <1>3. Orderly(r)
    BY <1>1 DEF Orderly, Holding, InWork
  <1>4. call[r] \in Calls /\ Allowed(r) /\ ScopeOf(r) \in Scope
    BY <1>1, HoldersScope DEF KeyInv, ReqInv
  <1>5. /\ ScopeOf(r)' = ScopeOf(r) /\ EventsBy(ScopeOf(r))' = EventsBy(ScopeOf(r))
        /\ EntryOf(r)' = EntryOf(r) /\ Allowed(r)'
    BY <1>1, <1>4 DEF ScopeOf, EventsBy, EntryOf, Allowed, Verified, OwnTenant
  <1>6. reply'[r] = "accepted" => Wrote(ScopeOf(r), call[r].of)'
    BY <1>1, <1>2, <1>4, <1>5 DEF KeyInv, LedgerTrue, EntryOf, Wrote
  <1>7. ASSUME reply'[r] \in Rejections PROVE (EventsBy(ScopeOf(r)) = {})' /\ Closed(ScopeOf(r))'
    <2>1. EntryOf(r).stage = "done" /\ EntryOf(r).answer \in Rejections
      BY <1>2, <1>7 DEF Rejections
    <2>2. (EventsBy(ScopeOf(r)) = {})'
      BY <1>4, <1>5, <2>1 DEF KeyInv, LedgerTrue, EntryOf
    <2>3. ASSUME NEW q \in Requests, pc'[q] \in InWork PROVE ScopeOf(q)' # ScopeOf(r)
      <3>1. q # r /\ pc[q] \in Holding
        BY <1>1, <2>3 DEF InWork, Holding
      <3> QED BY <1>1, <2>1, <3>1 DEF KeyInv, ReqInv, EntryOf, ScopeOf
    <2> QED BY <1>1, <1>5, <2>1, <2>2, <2>3 DEF Closed, EntryOf
  <1>8. ReqInv(r)'
    BY <1>1, <1>4, <1>5, <1>6, <1>7 DEF ReqInv, Holding, InWork
  <1> QED BY <1>1, <1>3, <1>8, LedgersQuiet, KeysKept

LEMMA InsertKeeps ==
  ASSUME TypeOK, KeyInv, NEW r \in Requests, NEW p \in Posts, Insert(r, p)
  PROVE  Orderly(r) /\ KeyInv'
  <1>1. /\ pc[r] = "inserting" /\ pc'[r] = "completing" /\ post[p] = NoPost
        /\ outbox' = outbox \cup {EventOf(r, p, "absent", "accepted")}
        /\ UNCHANGED <<lock, ledger, call, seen, reply>>
        /\ \A q \in Requests : q # r => pc'[q] = pc[q]
        /\ \A x \in Posts : x # p => post'[x] = post[x]
    BY DEF Insert, Goto, TypeOK
  <1>2. EventOf(r, p, "absent", "accepted").by = ScopeOf(r)
    BY DEF EventOf
  <1>3. Orderly(r)
    BY <1>1, <1>2 DEF Orderly, Holding, InWork
  <1>4. /\ call[r] \in Calls /\ Allowed(r) /\ Allowed(r)' /\ call[r].of = None /\ ScopeOf(r) \in Scope
        /\ EntryOf(r).stage = "started" /\ EntryOf(r).of = call[r].of /\ EntryOf(r)' = EntryOf(r)
        /\ EntryOf(r) \in Entry
    <2>1. call[r] \in Calls /\ ScopeOf(r) \in Scope /\ EntryOf(r) \in Entry
      BY <1>1, HoldersScope DEF Holding, InWork
    <2>2. Allowed(r) /\ call[r].operation = "create" /\ EntryOf(r).stage = "started" /\ EntryOf(r).of = call[r].of
      BY <1>1 DEF KeyInv, ReqInv, Holding, InWork
    <2>3. call[r].of = None
      BY <2>1, <2>2 DEF Calls
    <2> QED BY <1>1, <2>1, <2>2, <2>3 DEF EntryOf, ScopeOf, Allowed, Verified, OwnTenant
  <1>5. Wrote(ScopeOf(r), call[r].of)'
    BY <1>1, <1>2, <1>4 DEF Wrote, EventsBy, ScopeOf
  <1>6. ReqInv(r)'
    BY <1>1, <1>4, <1>5 DEF ReqInv, Holding, InWork
  <1>7. ASSUME NEW s \in Scope, s = ScopeOf(r) PROVE LedgerTrue(s)'
    BY <1>1, <1>4, <1>7 DEF LedgerTrue, EntryOf, Entry, OpenEntry, Rejections
  <1> QED BY <1>3, <1>6, <1>7, KeysKept

LEMMA ReadPostKeeps ==
  ASSUME TypeOK, KeyInv, NEW r \in Requests, ReadPost(r)
  PROVE  Orderly(r) /\ KeyInv'
  <1>1. /\ pc[r] = "reading" /\ UNCHANGED <<post, lock, outbox, ledger, call>>
        /\ \A q \in Requests : q # r => pc'[q] = pc[q] /\ reply'[q] = reply[q] /\ seen'[q] = seen[q]
    BY DEF ReadPost, Goto, TypeOK
  <1>2. \/ pc'[r] = "rejecting" /\ reply'[r] \in Rejections
        \/ pc'[r] = "updating" /\ post[call[r].of].tenant = call[r].token /\ seen'[r] \in Cancellable
    BY DEF ReadPost, Goto, TypeOK, Rejections
  <1>3. Orderly(r)
    BY <1>1, <1>2 DEF Orderly, Holding, InWork
  <1>4. /\ call[r] \in Calls /\ Allowed(r) /\ Allowed(r)' /\ call[r].operation = "cancel"
        /\ EntryOf(r).stage = "started" /\ EntryOf(r).of = call[r].of
        /\ EventsBy(ScopeOf(r)) = {}
        /\ EntryOf(r)' = EntryOf(r) /\ ScopeOf(r)' = ScopeOf(r) /\ EventsBy(ScopeOf(r))' = EventsBy(ScopeOf(r))
    BY <1>1 DEF KeyInv, ReqInv, Holding, InWork, EntryOf, ScopeOf, EventsBy, Allowed, Verified, OwnTenant
  <1>5. pc'[r] = "rejecting" => Closed(ScopeOf(r))'
    <2> SUFFICES ASSUME pc'[r] = "rejecting", NEW q \in Requests, pc'[q] \in InWork PROVE ScopeOf(q)' # ScopeOf(r)
      BY <1>1, <1>4 DEF Closed, EntryOf
    <2>1. q # r /\ pc[q] \in Holding
      BY <1>1 DEF InWork, Holding
    <2> QED BY <1>1, <2>1 DEF KeyInv, Exclusive, Holding, InWork, ScopeOf
  <1>6. ReqInv(r)'
    BY <1>1, <1>2, <1>4, <1>5 DEF ReqInv, Holding, InWork
  <1> QED BY <1>1, <1>3, <1>6, LedgersQuiet, KeysKept

LEMMA UpdatePostKeeps ==
  ASSUME TypeOK, KeyInv, NEW r \in Requests, UpdatePost(r)
  PROVE  Orderly(r) /\ KeyInv'
  <1>1. /\ pc[r] = "updating" /\ pc'[r] = "committing" /\ UNCHANGED <<post, outbox, ledger, call, seen, reply>>
        /\ \A q \in Requests : q # r => pc'[q] = pc[q]
    BY DEF UpdatePost, Goto, TypeOK
  <1>2. Orderly(r)
    BY <1>1 DEF Orderly, Holding, InWork
  <1>3. seen[r] \in Cancellable
    BY <1>1 DEF KeyInv, ReqInv
  <1>4. ReqInv(r)'
    BY <1>1, <1>3 DEF KeyInv, ReqInv, Holding, InWork, EntryOf, ScopeOf, EventsBy, Allowed, Verified, OwnTenant
  <1> QED BY <1>1, <1>2, <1>4, LedgersQuiet, KeysKept

LEMMA CommitCancelKeeps ==
  ASSUME TypeOK, KeyInv, NEW r \in Requests, CommitCancel(r)
  PROVE  Orderly(r) /\ KeyInv'
  <1>1. /\ pc[r] = "committing" /\ pc'[r] = "completing"
        /\ post' = [post EXCEPT ![call[r].of].status = "cancelled"]
        /\ outbox' = outbox \cup {EventOf(r, call[r].of, seen[r], "cancelled")}
        /\ UNCHANGED <<ledger, call, reply>>
        /\ \A q \in Requests : q # r => pc'[q] = pc[q] /\ seen'[q] = seen[q]
    BY DEF CommitCancel, EndTransaction, Goto, TypeOK
  <1>2. /\ EventOf(r, call[r].of, seen[r], "cancelled").by = ScopeOf(r)
        /\ EventOf(r, call[r].of, seen[r], "cancelled").post = call[r].of
    BY DEF EventOf
  <1>3. \A p \in Posts : post[p] # NoPost => post'[p].tenant = post[p].tenant
    <2>1. \A p \in Posts : post'[p] = post[p] \/ post'[p] = [post[p] EXCEPT !.status = "cancelled"]
      BY <1>1 DEF TypeOK
    <2>2. \A p \in Posts : post[p] \in [status : Statuses \cup {"absent"}, tenant : Tenants \cup {None}]
      BY DEF TypeOK, Row, NoPost
    <2> QED BY <2>1, <2>2
  <1>4. Orderly(r)
    BY <1>1, <1>2, <1>3 DEF Orderly, Holding, InWork
  <1>5. /\ call[r] \in Calls /\ Allowed(r) /\ Allowed(r)' /\ ScopeOf(r) \in Scope
        /\ EntryOf(r).stage = "started" /\ EntryOf(r).of = call[r].of /\ EntryOf(r)' = EntryOf(r)
        /\ EntryOf(r) \in Entry
    <2>1. call[r] \in Calls /\ ScopeOf(r) \in Scope /\ EntryOf(r) \in Entry
      BY <1>1, HoldersScope DEF Holding, InWork
    <2>2. Allowed(r) /\ EntryOf(r).stage = "started" /\ EntryOf(r).of = call[r].of
      BY <1>1 DEF KeyInv, ReqInv, Holding, InWork
    <2> QED BY <1>1, <2>1, <2>2 DEF EntryOf, ScopeOf, Allowed, Verified, OwnTenant
  <1>6. Wrote(ScopeOf(r), call[r].of)'
    BY <1>1, <1>2 DEF Wrote, EventsBy, ScopeOf
  <1>7. ReqInv(r)'
    BY <1>1, <1>5, <1>6 DEF ReqInv, Holding, InWork
  <1>8. ASSUME NEW s \in Scope, s = ScopeOf(r) PROVE LedgerTrue(s)'
    BY <1>1, <1>5, <1>8 DEF LedgerTrue, EntryOf, Entry, OpenEntry, Rejections
  <1> QED BY <1>4, <1>7, <1>8, KeysKept

LEMMA CompleteKeeps ==
  ASSUME TypeOK, KeyInv, NEW r \in Requests, Complete(r)
  PROVE  Orderly(r) /\ KeyInv'
  <1>1. /\ pc[r] = "completing" /\ pc'[r] = "replied" /\ reply'[r] = "accepted"
        /\ UNCHANGED <<post, lock, outbox, call, seen>> /\ Record(r, Done(r, "accepted"))
        /\ \A q \in Requests : q # r => pc'[q] = pc[q] /\ reply'[q] = reply[q]
    BY DEF Complete, Answer, Goto, TypeOK
  <1>2. /\ call[r] \in Calls /\ Allowed(r) /\ Allowed(r)' /\ ScopeOf(r) \in Scope
        /\ Wrote(ScopeOf(r), call[r].of)
    BY <1>1, HoldersScope DEF Holding, KeyInv, ReqInv, Allowed, Verified, OwnTenant
  <1>3. /\ ledger'[ScopeOf(r)] = Done(r, "accepted")
        /\ \A s \in Scope : s # ScopeOf(r) => ledger'[s] = ledger[s]
    BY <1>1, <1>2 DEF Record, TypeOK
  <1>4. Orderly(r)
    BY <1>1, <1>3 DEF Orderly, Holding, InWork, Done
  <1>5. ReqInv(r)'
    BY <1>1, <1>2 DEF ReqInv, Holding, InWork, Wrote, EventsBy, ScopeOf, Rejections
  <1>6. ASSUME NEW s \in Scope, s = ScopeOf(r) PROVE LedgerTrue(s)'
    BY <1>1, <1>2, <1>3, <1>6 DEF LedgerTrue, Done, Rejections, Wrote, EventsBy
  <1> QED BY <1>4, <1>5, <1>6, KeysKept

LEMMA RejectKeeps ==
  ASSUME TypeOK, KeyInv, NEW r \in Requests, Reject(r)
  PROVE  Orderly(r) /\ KeyInv'
  <1>1. /\ pc[r] = "rejecting" /\ pc'[r] = "replied" /\ reply[r] \in Rejections
        /\ UNCHANGED <<post, lock, outbox, call, seen, reply>>
        /\ \A q \in Requests : q # r => pc'[q] = pc[q]
    BY DEF Reject, Goto, TypeOK, KeyInv, ReqInv
  <1>2. /\ call[r] \in Calls /\ Allowed(r) /\ Allowed(r)' /\ ScopeOf(r) \in Scope
        /\ EventsBy(ScopeOf(r)) = {} /\ Closed(ScopeOf(r))
    BY <1>1, HoldersScope DEF Holding, KeyInv, ReqInv, Allowed, Verified, OwnTenant
  <1>3. /\ ledger'[ScopeOf(r)] = Done(r, reply[r]) \/ UNCHANGED ledger
        /\ \A s \in Scope : s # ScopeOf(r) => ledger'[s] = ledger[s]
    BY <1>2 DEF Reject, Record, TypeOK
  <1>4. Orderly(r)
    BY <1>1, <1>3 DEF Orderly, Holding, InWork, Done
  <1>5. ReqInv(r)'
    <2>1. Closed(ScopeOf(r))' /\ (EventsBy(ScopeOf(r)) = {})'
      <3>1. ScopeOf(r)' = ScopeOf(r)
        BY <1>1 DEF ScopeOf
      <3> QED BY <1>2, <1>4, <3>1, Stays
    <2>2. reply'[r] # "accepted"
      BY <1>1 DEF Rejections
    <2> QED BY <1>1, <1>2, <2>1, <2>2 DEF ReqInv, Holding, InWork
  <1>6. ASSUME NEW s \in Scope, s = ScopeOf(r) PROVE LedgerTrue(s)'
    <2>1. CASE UNCHANGED ledger
      BY <1>1, <2>1, LedgersQuiet
    <2>2. CASE ledger'[ScopeOf(r)] = Done(r, reply[r])
      BY <1>1, <1>2, <1>6, <2>2 DEF LedgerTrue, Done, Rejections, EventsBy
    <2> QED BY <1>3, <2>1, <2>2
  <1> QED BY <1>4, <1>5, <1>6, KeysKept

LEMMA HandleKeeps ==
  ASSUME TypeOK, KeyInv, NEW r \in Requests, Handle(r)
  PROVE  Orderly(r) /\ KeyInv'
  BY BeginKeeps, BeginFailsKeeps, ReplayKeeps, InsertKeeps, ReadPostKeeps, UpdatePostKeeps,
     CommitCancelKeeps, WorkFailsKeeps, CompleteKeeps, RejectKeeps, CrashKeeps DEF Handle

(* The publisher touches no request, and no post changes its tenant. *)
LEMMA PublishKeeps ==
  ASSUME TypeOK, KeyInv, NEW p \in Posts, Publish(p)
  PROVE  KeyInv'
  <1>1. UNCHANGED <<lock, outbox, ledger, pc, call, seen, reply>>
    BY DEF Publish
  <1>2. \A x \in Posts : post'[x].tenant = post[x].tenant
    <2>1. \A x \in Posts : post'[x] = post[x] \/ \E v \in Published : post'[x] = [post[x] EXCEPT !.status = v]
      BY DEF Publish, TypeOK
    <2>2. \A x \in Posts : post[x] \in [status : Statuses \cup {"absent"}, tenant : Tenants \cup {None}]
      BY DEF TypeOK, Row, NoPost
    <2> QED BY <2>1, <2>2
  <1>3. ASSUME NEW q \in Requests PROVE ReqInv(q)'
    <2>1. ReqInv(q)
      BY DEF KeyInv
    <2>2. pc[q] \in {"updating", "committing"} => call[q].of \in Posts
      BY <2>1 DEF ReqInv, Calls
    <2> QED BY <1>1, <1>2, <2>1, <2>2
        DEF ReqInv, Allowed, Verified, OwnTenant, EntryOf, ScopeOf, EventsBy, Wrote, Closed
  <1>4. Exclusive'
    BY <1>1 DEF KeyInv, Exclusive, ScopeOf
  <1> QED BY <1>1, <1>3, <1>4, LedgersQuiet DEF KeyInv

-----------------------------------------------------------------------------
(***************************************************************************)
(* Events and posts.                                                       *)
(***************************************************************************)
LEMMA DbQuiet ==
  ASSUME DbInv, UNCHANGED <<post, outbox>>
  PROVE  DbInv'
  BY DEF DbInv

LEMMA InsertDb ==
  ASSUME TypeOK, KeyInv, DbInv, NEW r \in Requests, NEW p \in Posts, Insert(r, p)
  PROVE  DbInv'
  <1> DEFINE e0 == EventOf(r, p, "absent", "accepted")
  <1>1. /\ e0.by = ScopeOf(r) /\ e0.post = p /\ e0.status = "accepted" /\ e0.tenant = call[r].token
        /\ e0.by[1] = call[r].token
    BY DEF EventOf, ScopeOf
  <1>2. /\ post[p] = NoPost /\ outbox' = outbox \cup {e0}
        /\ post'[p] = [status |-> "accepted", tenant |-> call[r].token]
        /\ \A x \in Posts : x # p => post'[x] = post[x]
    BY DEF Insert, TypeOK
  <1>3. \A e \in outbox : e.by # ScopeOf(r) /\ e.post # p /\ e.post \in Posts
    BY <1>2 DEF Insert, KeyInv, ReqInv, InWork, EventsBy, DbInv, TypeOK, Event
  <1>4. post'[p] # NoPost /\ post'[p].tenant = call[r].token /\ post'[p].status # "cancelled"
    BY <1>2 DEF NoPost
  <1> HIDE DEF e0
  <1>5. \A e, f \in outbox' : e.by = f.by => e = f
    BY <1>1, <1>2, <1>3 DEF DbInv
  <1>6. \A e, f \in outbox' : e.post = f.post /\ e.status = "accepted" /\ f.status = "accepted" => e = f
    BY <1>1, <1>2, <1>3 DEF DbInv
  <1>7. \A e \in outbox' : /\ post'[e.post] # NoPost /\ e.tenant = post'[e.post].tenant /\ e.by[1] = e.tenant
                           /\ e.status = "cancelled" => post'[e.post].status = "cancelled"
    BY <1>1, <1>2, <1>3, <1>4 DEF DbInv
  <1>8. ASSUME NEW x \in Posts
        PROVE  /\ post'[x] # NoPost => \E e \in outbox' : e.post = x /\ e.status = "accepted"
               /\ post'[x].status = "cancelled" => \E e \in outbox' : e.post = x /\ e.status = "cancelled"
    BY <1>1, <1>2, <1>4 DEF DbInv
  <1> QED BY <1>5, <1>6, <1>7, <1>8 DEF DbInv

LEMMA CommitCancelDb ==
  ASSUME TypeOK, KeyInv, DbInv, NEW r \in Requests, CommitCancel(r)
  PROVE  DbInv'
  <1> DEFINE p == call[r].of
             e0 == EventOf(r, p, seen[r], "cancelled")
  <1>1. /\ e0.by = ScopeOf(r) /\ e0.post = p /\ e0.status = "cancelled" /\ e0.tenant = call[r].token
        /\ e0.by[1] = call[r].token
    BY DEF EventOf, ScopeOf
  <1>2. /\ p \in Posts /\ call[r].token \in Tenants /\ post[p].tenant = call[r].token
        /\ EventsBy(ScopeOf(r)) = {}
    <2>1. /\ call[r] \in Calls /\ Verified(call[r]) /\ call[r].operation = "cancel"
          /\ post[call[r].of].tenant = call[r].token /\ EventsBy(ScopeOf(r)) = {} /\ call[r].token \in Tenants
      BY HoldersScope DEF CommitCancel, KeyInv, ReqInv, Holding, InWork
    <2> QED BY <2>1 DEF Calls
  <1>3. post[p] # NoPost
    BY <1>2, NoneAssumption DEF NoPost
  <1>4. /\ outbox' = outbox \cup {e0} /\ post'[p] = [post[p] EXCEPT !.status = "cancelled"]
        /\ \A x \in Posts : x # p => post'[x] = post[x]
    BY <1>2 DEF CommitCancel, TypeOK
  <1>5. post'[p].status = "cancelled" /\ post'[p].tenant = call[r].token /\ post'[p] # NoPost
    <2>1. post[p] \in [status : Statuses \cup {"absent"}, tenant : Tenants \cup {None}]
      BY <1>2 DEF TypeOK, Row, NoPost
    <2> QED BY <1>2, <1>4, <2>1 DEF NoPost
  <1>6. \A e \in outbox : e.by # ScopeOf(r) /\ e.post \in Posts
    BY <1>2 DEF EventsBy, TypeOK, Event
  <1> HIDE DEF e0, p
  <1>7. \A e, f \in outbox' : e.by = f.by => e = f
    BY <1>1, <1>4, <1>6 DEF DbInv
  <1>8. \A e, f \in outbox' : e.post = f.post /\ e.status = "accepted" /\ f.status = "accepted" => e = f
    BY <1>1, <1>4 DEF DbInv
  <1>9. ASSUME NEW e \in outbox'
        PROVE  /\ post'[e.post] # NoPost /\ e.tenant = post'[e.post].tenant /\ e.by[1] = e.tenant
               /\ e.status = "cancelled" => post'[e.post].status = "cancelled"
    <2>1. CASE e = e0
      BY <1>1, <1>5, <2>1
    <2>2. CASE e \in outbox /\ e.post = p
      BY <1>2, <1>5, <2>2 DEF DbInv
    <2>3. CASE e \in outbox /\ e.post # p
      BY <1>4, <1>6, <2>3 DEF DbInv
    <2> QED BY <1>4, <2>1, <2>2, <2>3
  <1>10. ASSUME NEW x \in Posts
        PROVE  /\ post'[x] # NoPost => \E e \in outbox' : e.post = x /\ e.status = "accepted"
               /\ post'[x].status = "cancelled" => \E e \in outbox' : e.post = x /\ e.status = "cancelled"
    BY <1>1, <1>3, <1>4 DEF DbInv
  <1> QED BY <1>7, <1>8, <1>9, <1>10 DEF DbInv

LEMMA PublishDb ==
  ASSUME TypeOK, DbInv, NEW p \in Posts, Publish(p)
  PROVE  DbInv'
  <1>1. PICK v \in Published : post' = [post EXCEPT ![p].status = v]
    BY DEF Publish
  <1>2. /\ outbox' = outbox /\ post'[p] = [post[p] EXCEPT !.status = v] /\ post[p].status \in Cancellable
        /\ \A x \in Posts : x # p => post'[x] = post[x]
    BY <1>1 DEF Publish, TypeOK
  <1>3. post[p] # NoPost /\ post[p].status # "cancelled" /\ v # "cancelled" /\ v # "absent"
    BY <1>2, PublishedAssumption DEF NoPost, Cancellable, Finished
  <1>4. post'[p].status = v /\ post'[p].tenant = post[p].tenant /\ post'[p] # NoPost
    <2>1. post[p] \in [status : Statuses \cup {"absent"}, tenant : Tenants \cup {None}]
      BY DEF TypeOK, Row, NoPost
    <2> QED BY <1>2, <1>3, <2>1 DEF NoPost
  <1>5. \A e \in outbox : e.post \in Posts
    BY DEF TypeOK, Event
  <1>6. \A e \in outbox : e.post = p => e.status # "cancelled"
    BY <1>3 DEF DbInv
  <1>7. ASSUME NEW e \in outbox
        PROVE  /\ post'[e.post] # NoPost /\ e.tenant = post'[e.post].tenant /\ e.by[1] = e.tenant
               /\ e.status = "cancelled" => post'[e.post].status = "cancelled"
    <2>1. /\ post[e.post] # NoPost /\ e.tenant = post[e.post].tenant /\ e.by[1] = e.tenant
          /\ e.status = "cancelled" => post[e.post].status = "cancelled"
      BY DEF DbInv
    <2>2. CASE e.post = p
      BY <1>4, <1>6, <2>1, <2>2
    <2>3. CASE e.post # p
      BY <1>2, <1>5, <2>1, <2>3
    <2> QED BY <2>2, <2>3
  <1>8. ASSUME NEW x \in Posts
        PROVE  /\ post'[x] # NoPost => \E e \in outbox : e.post = x /\ e.status = "accepted"
               /\ post'[x].status = "cancelled" => \E e \in outbox : e.post = x /\ e.status = "cancelled"
    <2>1. /\ post[x] # NoPost => \E e \in outbox : e.post = x /\ e.status = "accepted"
          /\ post[x].status = "cancelled" => \E e \in outbox : e.post = x /\ e.status = "cancelled"
      BY DEF DbInv
    <2>2. CASE x = p
      BY <1>3, <1>4, <2>1, <2>2
    <2>3. CASE x # p
      BY <1>2, <2>1, <2>3
    <2> QED BY <2>2, <2>3
  <1> QED BY <1>2, <1>7, <1>8 DEF DbInv

LEMMA HandleDb ==
  ASSUME TypeOK, KeyInv, DbInv, NEW r \in Requests, Handle(r)
  PROVE  DbInv'
  <1>1. CASE UNCHANGED <<post, outbox>>
    BY <1>1, DbQuiet
  <1> QED BY <1>1, InsertDb, CommitCancelDb
      DEF Handle, Begin, BeginFails, Replay, ReadPost, UpdatePost, WorkFails, Complete, Reject, Crash

(***************************************************************************)
(* The server's invariant is inductive, whoever sends the requests.        *)
(***************************************************************************)
LEMMA ServerInit == Init => ServerInv
  <1> SUFFICES ASSUME Init PROVE ServerInv
    OBVIOUS
  <1>1. TypeOK
    BY ServerTypeInit
  <1>2. KeyInv
    BY DEF Init, KeyInv, ReqInv, Exclusive, LedgerTrue, EventsBy, OpenEntry, Holding, InWork, Rejections
  <1>3. DbInv
    BY DEF Init, DbInv, NoPost
  <1> QED BY <1>1, <1>2, <1>3 DEF ServerInv

LEMMA HandleServer ==
  ASSUME ServerInv, NEW r \in Requests, Handle(r)
  PROVE  ServerInv'
  BY HandleTypes, HandleKeeps, HandleDb DEF ServerInv, KeyInv

LEMMA ArriveServer ==
  ASSUME ServerInv, NEW r \in Requests, NEW c \in Calls, Arrive(r, c)
  PROVE  ServerInv'
  <1>1. UNCHANGED <<post, outbox>>
    BY DEF Arrive
  <1> QED BY <1>1, ArriveTypes, ArriveKeeps, DbQuiet DEF ServerInv

LEMMA RespondServer ==
  ASSUME ServerInv, NEW r \in Requests, Respond(r)
  PROVE  ServerInv'
  <1>1. UNCHANGED <<post, outbox>>
    BY DEF Respond
  <1> QED BY <1>1, RespondTypes, RespondKeeps, DbQuiet DEF ServerInv

LEMMA PublisherServer ==
  ASSUME ServerInv, Publisher
  PROVE  ServerInv'
  BY PublishTypes, PublishKeeps, PublishDb DEF ServerInv, Publisher

LEMMA StutterServer ==
  ASSUME ServerInv, UNCHANGED vars
  PROVE  ServerInv'
  <1>1. TypeOK'
    BY DEF ServerInv, TypeOK, vars
  <1>2. ASSUME NEW q \in Requests PROVE ReqInv(q)'
    BY DEF ServerInv, KeyInv, ReqInv, Allowed, Verified, OwnTenant, EntryOf, ScopeOf, EventsBy, Wrote, Closed, vars
  <1>3. Exclusive'
    BY DEF ServerInv, KeyInv, Exclusive, ScopeOf, vars
  <1>4. (\A s \in Scope : LedgerTrue(s)') /\ DbInv'
    BY LedgersQuiet, DbQuiet DEF ServerInv, vars
  <1> QED BY <1>1, <1>2, <1>3, <1>4 DEF ServerInv, KeyInv

-----------------------------------------------------------------------------
(***************************************************************************)
(* Callers.  What a caller was told stays true: an effect is not undone,   *)
(* and a key that is closed without one never has one (Lasting).           *)
(***************************************************************************)
ToldTrue(c) ==
  /\ told[c] \in {"accepted"} \cup Rejections => intent[c] \in Intent /\ intent[c].token = intent[c].tenant
  /\ told[c] = "accepted" => Wrote(ScopeOfIntent(c), intent[c].of)
  /\ told[c] \in Rejections => EventsBy(ScopeOfIntent(c)) = {} /\ Closed(ScopeOfIntent(c))

CallOK(c) ==
  /\ cpc[c] # "idle" => intent[c] \in Intent
  /\ cpc[c] = "sleeping" => attempt[c] < MaxRetries
  /\ slot[c] # None => cpc[c] = "waiting" /\ pc[slot[c]] # "idle" /\ call[slot[c]] = RequestOf(c)

Apart == \A c, d \in Callers : slot[c] = slot[d] /\ slot[c] # None => c = d

CallerInv == (\A c \in Callers : CallOK(c) /\ ToldTrue(c)) /\ Apart

ClientInv == ClientTypeOK /\ ServerInv /\ CallerInv

Lasting ==
  \A s \in Scope :
    /\ EventsBy(s) \subseteq EventsBy(s)'
    /\ EventsBy(s) = {} /\ Closed(s) => (EventsBy(s) = {})' /\ Closed(s)'

LEMMA ToldStays ==
  ASSUME Lasting, NEW c \in Callers, ToldTrue(c), told'[c] = told[c], intent'[c] = intent[c]
  PROVE  ToldTrue(c)'
  <1>1. /\ ScopeOfIntent(c)' = ScopeOfIntent(c)
        /\ intent[c] \in Intent /\ intent[c].token = intent[c].tenant => ScopeOfIntent(c) \in Scope
    BY DEF ScopeOfIntent, Intent, Scope
  <1>2. told[c] = "accepted" => Wrote(ScopeOfIntent(c), intent[c].of)'
    BY <1>1 DEF ToldTrue, Lasting, Wrote
  <1>3. told[c] \in Rejections => (EventsBy(ScopeOfIntent(c)) = {})' /\ Closed(ScopeOfIntent(c))'
    BY <1>1 DEF ToldTrue, Lasting
  <1> QED BY <1>1, <1>2, <1>3 DEF ToldTrue

LEMMA OrderlyLasts ==
  ASSUME ServerInv, NEW r \in Requests, Orderly(r)
  PROVE  Lasting
  BY Stays DEF ServerInv, Lasting

LEMMA QuietLasts ==
  ASSUME UNCHANGED <<outbox, ledger, pc, call>>
  PROVE  Lasting
  BY DEF Lasting, EventsBy, Closed, ScopeOf

LEMMA HandleOrderly ==
  ASSUME ServerInv, NEW r \in Requests, Handle(r)
  PROVE  Orderly(r) /\ (pc'[r] = "idle" \/ call' = call)
  <1>1. Orderly(r)
    BY HandleKeeps DEF ServerInv
  <1>2. pc'[r] = "idle" \/ call' = call
    BY DEF Handle, Begin, BeginFails, Replay, Insert, ReadPost, UpdatePost, CommitCancel, WorkFails,
           Complete, Reject, Crash, Leave, Goto, ServerInv, TypeOK
  <1> QED BY <1>1, <1>2

(* A step of one caller that leaves the server alone. *)
LEMMA LocalStep ==
  ASSUME ClientInv, NEW c \in Callers, UNCHANGED <<vars, menu>>,
         \A d \in Callers : d # c =>
           cpc'[d] = cpc[d] /\ intent'[d] = intent[d] /\ attempt'[d] = attempt[d]
             /\ slot'[d] = slot[d] /\ told'[d] = told[d],
         slot'[c] \in {None, slot[c]},
         ClientTypeOK', CallOK(c)', ToldTrue(c)'
  PROVE  ClientInv'
  <1>1. ServerInv'
    BY StutterServer DEF ClientInv
  <1>2. ASSUME NEW d \in Callers PROVE CallOK(d)' /\ ToldTrue(d)'
    <2>1. CASE d = c
      BY <2>1
    <2>2. CASE d # c
      <3>1. ToldTrue(d)'
        BY <2>2, ToldStays, QuietLasts DEF ClientInv, CallerInv, vars
      <3>2. CallOK(d)'
        BY <2>2 DEF ClientInv, CallerInv, CallOK, RequestOf, vars
      <3> QED BY <3>1, <3>2
    <2> QED BY <2>1, <2>2
  <1>3. Apart'
    BY DEF ClientInv, CallerInv, Apart
  <1> QED BY <1>1, <1>2, <1>3 DEF ClientInv, CallerInv

LEMMA InvokeKeeps ==
  ASSUME ClientInv, NEW c \in Callers, NEW i \in menu, Invoke(c, i)
  PROVE  ClientInv'
  <1>1. i \in Intent
    BY MenusAssumption DEF ClientInv, ClientTypeOK
  <1>2. /\ cpc' = [cpc EXCEPT ![c] = "sending"] /\ intent' = [intent EXCEPT ![c] = i]
        /\ attempt' = [attempt EXCEPT ![c] = 0] /\ told' = [told EXCEPT ![c] = "none"]
        /\ UNCHANGED <<vars, menu, slot>> /\ cpc[c] = "idle"
    BY DEF Invoke, ClientGoto
  <1>3. ClientTypeOK'
    <2>1. TypeOK'
      BY <1>2, StutterServer DEF ClientInv, ServerInv
    <2> QED BY <1>1, <1>2, <2>1, MaxRetriesAssumption DEF ClientInv, ClientTypeOK
  <1>4. cpc'[c] = "sending" /\ intent'[c] = i /\ told'[c] = "none" /\ slot'[c] = slot[c] /\ slot[c] = None
    BY <1>2 DEF ClientInv, ClientTypeOK, CallerInv, CallOK
  <1>5. CallOK(c)' /\ ToldTrue(c)'
    BY <1>1, <1>4 DEF CallOK, ToldTrue, Rejections
  <1> QED BY <1>2, <1>3, <1>4, <1>5, LocalStep DEF ClientInv, ClientTypeOK

LEMMA HangKeeps ==
  ASSUME ClientInv, NEW c \in Callers, cpc[c] \in {"sending", "waiting"}, Hang(c),
         UNCHANGED <<vars, menu, intent, attempt>>,
         (Retries(c) /\ Sleep(c)) \/ \E e \in Ends : End(c, e)
  PROVE  ClientInv'
  <1>1. /\ slot' = [slot EXCEPT ![c] = None]
        /\ \/ Retries(c) /\ cpc' = [cpc EXCEPT ![c] = "sleeping"] /\ told' = told
           \/ \E e \in Ends : cpc' = [cpc EXCEPT ![c] = "idle"] /\ told' = [told EXCEPT ![c] = e]
    BY DEF Hang, Sleep, End, ClientGoto
  <1>2. ClientTypeOK'
    <2>1. TypeOK'
      BY StutterServer DEF ClientInv, ServerInv
    <2> QED BY <1>1, <2>1 DEF ClientInv, ClientTypeOK
  <1>3. slot'[c] = None /\ intent[c] \in Intent
    BY <1>1 DEF ClientInv, ClientTypeOK, CallerInv, CallOK
  <1>4. CallOK(c)'
    BY <1>1, <1>3 DEF CallOK, Retries, ClientInv, ClientTypeOK
  <1>5. ToldTrue(c)'
    <2>1. CASE told' = told
      BY <2>1, ToldStays, QuietLasts DEF ClientInv, CallerInv, vars
    <2>2. CASE told'[c] \in Ends
      BY <2>2 DEF ToldTrue, Rejections, Ends
    <2> QED BY <1>1, <2>1, <2>2 DEF ClientInv, ClientTypeOK
  <1> QED BY <1>1, <1>2, <1>3, <1>4, <1>5, LocalStep DEF ClientInv, ClientTypeOK

LEMMA WakeKeeps ==
  ASSUME ClientInv, NEW c \in Callers, Wake(c)
  PROVE  ClientInv'
  <1>1. /\ cpc[c] = "sleeping" /\ cpc' = [cpc EXCEPT ![c] = "sending"]
        /\ attempt' = [attempt EXCEPT ![c] = @ + 1] /\ UNCHANGED <<vars, menu, intent, slot, told>>
    BY DEF Wake, ClientGoto
  <1>2. attempt[c] \in 0..MaxRetries /\ attempt[c] < MaxRetries /\ slot[c] = None /\ intent[c] \in Intent
    BY <1>1 DEF ClientInv, ClientTypeOK, CallerInv, CallOK
  <1>3. attempt[c] + 1 \in 0..MaxRetries
    BY <1>2, MaxRetriesAssumption
  <1>4. ClientTypeOK'
    <2>1. TypeOK'
      BY <1>1, StutterServer DEF ClientInv, ServerInv
    <2> QED BY <1>1, <1>3, <2>1 DEF ClientInv, ClientTypeOK
  <1>5. CallOK(c)'
    BY <1>1, <1>2 DEF CallOK, ClientInv, ClientTypeOK
  <1>6. ToldTrue(c)'
    BY <1>1, ToldStays, QuietLasts DEF ClientInv, CallerInv, vars
  <1> QED BY <1>1, <1>4, <1>5, <1>6, LocalStep DEF ClientInv, ClientTypeOK

LEMMA SendKeeps ==
  ASSUME ClientInv, NEW c \in Callers, NEW r \in Requests, SendAttempt(c, r)
  PROVE  ClientInv'
  <1>1. /\ cpc[c] = "sending" /\ Arrive(r, RequestOf(c)) /\ cpc' = [cpc EXCEPT ![c] = "waiting"]
        /\ slot' = [slot EXCEPT ![c] = r] /\ UNCHANGED <<menu, intent, attempt, told>>
    BY DEF SendAttempt, ClientGoto
  <1>2. intent[c] \in Intent /\ RequestOf(c) \in Calls
    BY <1>1 DEF ClientInv, CallerInv, CallOK, RequestOf, Intent, Calls
  <1>3. ServerInv' /\ Orderly(r)
    BY <1>1, <1>2, ArriveServer, ArriveKeeps DEF ClientInv, ServerInv
  <1>4. ClientTypeOK'
    BY <1>1, <1>3 DEF ClientInv, ClientTypeOK, ServerInv
  <1>5. pc[r] = "idle" /\ pc'[r] # "idle" /\ call'[r] = RequestOf(c)
    BY <1>1 DEF Arrive, Answer, Goto, ClientInv, ServerInv, TypeOK
  <1>6. \A d \in Callers : slot[d] # r
    BY <1>5, NoneAssumption DEF ClientInv, CallerInv, CallOK
  <1>7. slot'[c] = r /\ cpc'[c] = "waiting" /\ \A d \in Callers : d # c => slot'[d] = slot[d] /\ cpc'[d] = cpc[d]
    BY <1>1 DEF ClientInv, ClientTypeOK
  <1>8. ASSUME NEW d \in Callers PROVE CallOK(d)' /\ ToldTrue(d)'
    <2>1. ToldTrue(d)'
      BY <1>1, <1>3, ToldStays, OrderlyLasts DEF ClientInv, CallerInv
    <2>2. RequestOf(d)' = RequestOf(d)
      BY <1>1 DEF RequestOf
    <2>3. CASE d = c
      BY <1>1, <1>2, <1>5, <1>7, <2>1, <2>2, <2>3 DEF CallOK
    <2>4. CASE d # c
      <3>1. slot[d] # None => pc'[slot[d]] = pc[slot[d]] /\ call'[slot[d]] = call[slot[d]]
        BY <1>3, <1>6 DEF Orderly, ClientInv, ClientTypeOK
      <3> QED BY <1>1, <1>7, <2>1, <2>2, <2>4, <3>1 DEF ClientInv, CallerInv, CallOK
    <2> QED BY <2>3, <2>4
  <1>9. Apart'
    BY <1>6, <1>7 DEF Apart, ClientInv, CallerInv
  <1> QED BY <1>3, <1>4, <1>8, <1>9 DEF ClientInv, CallerInv

LEMMA ReceiveKeeps ==
  ASSUME ClientInv, NEW c \in Callers, Receive(c)
  PROVE  ClientInv'
  <1> DEFINE r == slot[c]
             a == reply[r]
  <1>1. /\ cpc[c] = "waiting" /\ r # None /\ r \in Requests /\ Respond(r) /\ pc[r] = "replied"
        /\ slot' = [slot EXCEPT ![c] = None] /\ UNCHANGED <<menu, intent, attempt>>
        /\ \/ attempt[c] < MaxRetries /\ cpc' = [cpc EXCEPT ![c] = "sleeping"] /\ told' = told
           \/ cpc' = [cpc EXCEPT ![c] = "idle"] /\ told' = [told EXCEPT ![c] = a]
    BY DEF Receive, Respond, Hang, Sleep, End, ClientGoto, RetriesAnswer, Retries, ClientInv, ClientTypeOK
  <1>2. ServerInv' /\ Orderly(r)
    BY <1>1, RespondServer, RespondKeeps DEF ClientInv, ServerInv
  <1>3. a \in Answers \cup {"none"} /\ intent[c] \in Intent /\ call[r] = RequestOf(c)
    BY <1>1 DEF ClientInv, ServerInv, TypeOK, CallerInv, CallOK
  <1>4. ClientTypeOK'
    BY <1>1, <1>2, <1>3 DEF ClientInv, ClientTypeOK, ServerInv
  <1>5. /\ UNCHANGED <<outbox, ledger>>
        /\ \A q \in Requests : q # r => pc'[q] = pc[q] /\ call'[q] = call[q]
    BY <1>1, <1>2 DEF Respond, Orderly
  <1>6. slot'[c] = None /\ \A d \in Callers : d # c =>
          slot'[d] = slot[d] /\ cpc'[d] = cpc[d] /\ told'[d] = told[d] /\ slot[d] # r
    BY <1>1 DEF ClientInv, ClientTypeOK, CallerInv, Apart
  <1>7. ToldTrue(c)'
    <2>1. CASE told' = told
      BY <1>1, <1>2, <2>1, ToldStays, OrderlyLasts DEF ClientInv, CallerInv
    <2>2. CASE told'[c] = a
      <3>1. ScopeOfIntent(c) = ScopeOf(r) /\ ScopeOfIntent(c)' = ScopeOf(r) /\ intent[c].of = call[r].of
        BY <1>1, <1>3 DEF ScopeOfIntent, ScopeOf, RequestOf
      <3>2. Allowed(r) => intent[c].token = intent[c].tenant /\ ScopeOf(r) \in Scope
        BY <1>3, <3>1, NoneAssumption DEF Allowed, Verified, OwnTenant, RequestOf, Intent, ScopeOfIntent, Scope
      <3>3. /\ a = "accepted" => Allowed(r) /\ Wrote(ScopeOf(r), call[r].of)
            /\ a \in Rejections => Allowed(r) /\ EventsBy(ScopeOf(r)) = {} /\ Closed(ScopeOf(r))
        BY <1>1 DEF ClientInv, ServerInv, KeyInv, ReqInv
      <3>4. Lasting
        BY <1>1, <1>2, OrderlyLasts DEF ClientInv
      <3>5. a = "accepted" => Wrote(ScopeOfIntent(c), intent[c].of)'
        BY <1>1, <1>5, <3>1, <3>3 DEF Wrote, EventsBy
      <3>6. a \in Rejections => (EventsBy(ScopeOfIntent(c)) = {})' /\ Closed(ScopeOfIntent(c))'
        BY <3>1, <3>2, <3>3, <3>4 DEF Lasting
      <3> QED BY <1>1, <1>3, <2>2, <3>2, <3>3, <3>5, <3>6 DEF ToldTrue
    <2> QED BY <1>1, <2>1, <2>2 DEF ClientInv, ClientTypeOK
  <1>8. CallOK(c)'
    BY <1>1, <1>3, <1>6 DEF CallOK, ClientInv, ClientTypeOK
  <1>9. ASSUME NEW d \in Callers, d # c PROVE CallOK(d)' /\ ToldTrue(d)'
    <2>1. ToldTrue(d)'
      BY <1>1, <1>2, <1>6, <1>9, ToldStays, OrderlyLasts DEF ClientInv, CallerInv
    <2>2. slot[d] # None => pc'[slot[d]] = pc[slot[d]] /\ call'[slot[d]] = call[slot[d]]
      BY <1>5, <1>6, <1>9 DEF ClientInv, ClientTypeOK
    <2>3. RequestOf(d)' = RequestOf(d)
      BY <1>1 DEF RequestOf
    <2> QED BY <1>1, <1>6, <1>9, <2>1, <2>2, <2>3 DEF ClientInv, CallerInv, CallOK
  <1>10. Apart'
    BY <1>6 DEF Apart, ClientInv, CallerInv
  <1> QED BY <1>2, <1>4, <1>7, <1>8, <1>9, <1>10 DEF ClientInv, CallerInv

LEMMA ServeKeeps ==
  ASSUME ClientInv, NEW r \in Requests, Serve(r)
  PROVE  ClientInv'
  <1>1. /\ slot' = [c \in Callers |-> IF slot[c] = r /\ pc'[r] = "idle" THEN None ELSE slot[c]]
        /\ UNCHANGED <<menu, cpc, intent, attempt, told>>
    BY DEF Serve
  <1>2. ServerInv' /\ Orderly(r) /\ (pc'[r] = "idle" \/ call' = call)
    <2>1. CASE Handle(r)
      BY <2>1, HandleServer, HandleOrderly DEF ClientInv
    <2>2. CASE Respond(r)
      <3>1. pc'[r] = "idle"
        BY <2>2 DEF Respond, Leave, Goto, ClientInv, ServerInv, TypeOK
      <3> QED BY <2>2, <3>1, RespondServer, RespondKeeps DEF ClientInv, ServerInv
    <2> QED BY <2>1, <2>2 DEF Serve
  <1>3. ClientTypeOK'
    BY <1>1, <1>2 DEF ClientInv, ClientTypeOK, ServerInv
  <1>4. ASSUME NEW c \in Callers PROVE CallOK(c)' /\ ToldTrue(c)'
    <2>1. ToldTrue(c)'
      BY <1>1, <1>2, ToldStays, OrderlyLasts DEF ClientInv, CallerInv
    <2>2. slot'[c] # None => slot'[c] = slot[c] /\ pc'[slot[c]] # "idle" /\ call'[slot[c]] = call[slot[c]]
      BY <1>1, <1>2 DEF Orderly, ClientInv, ClientTypeOK, CallerInv, CallOK
    <2>3. RequestOf(c)' = RequestOf(c)
      BY <1>1 DEF RequestOf
    <2> QED BY <1>1, <2>1, <2>2, <2>3 DEF ClientInv, CallerInv, CallOK
  <1>5. Apart'
    BY <1>1 DEF Apart, ClientInv, CallerInv
  <1> QED BY <1>2, <1>3, <1>4, <1>5 DEF ClientInv, CallerInv

LEMMA PublisherKeeps ==
  ASSUME ClientInv, Publisher, UNCHANGED clientVars
  PROVE  ClientInv'
  <1>1. ServerInv' /\ UNCHANGED <<outbox, ledger, pc, call>>
    BY PublisherServer DEF ClientInv, Publisher, Publish
  <1>2. ClientTypeOK'
    BY <1>1 DEF ClientInv, ClientTypeOK, ServerInv, clientVars
  <1>3. ASSUME NEW c \in Callers PROVE CallOK(c)' /\ ToldTrue(c)'
    BY <1>1, ToldStays, QuietLasts DEF clientVars, ClientInv, CallerInv, CallOK, RequestOf
  <1>4. Apart'
    BY DEF Apart, ClientInv, CallerInv, clientVars
  <1> QED BY <1>1, <1>2, <1>3, <1>4 DEF ClientInv, CallerInv

LEMMA ClientInitInv == ClientInit => ClientInv
  <1> SUFFICES ASSUME ClientInit PROVE ClientInv
    OBVIOUS
  <1>1. ServerInv
    BY ServerInit DEF ClientInit
  <1>2. ClientTypeOK
    BY <1>1, MaxRetriesAssumption DEF ServerInv, ClientInit, ClientTypeOK
  <1>3. CallerInv
    BY DEF ClientInit, CallerInv, CallOK, ToldTrue, Apart, Rejections
  <1> QED BY <1>1, <1>2, <1>3 DEF ClientInv

LEMMA ClientNextInv == ClientInv /\ [ClientNext]_allVars => ClientInv'
  <1> SUFFICES ASSUME ClientInv, [ClientNext]_allVars PROVE ClientInv'
    OBVIOUS
  <1>1. ASSUME NEW c \in Callers, ClientStep(c) PROVE ClientInv'
    <2>1. CASE Disconnect(c)
      <3>1. (Retries(c) /\ Sleep(c)) \/ \E e \in Ends : End(c, e)
        BY <2>1 DEF Disconnect, Ends
      <3> QED BY <2>1, <3>1, HangKeeps DEF Disconnect
    <2>2. CASE GiveUp(c)
      <3>1. \E e \in Ends : End(c, e)
        BY <2>2 DEF GiveUp, Ends
      <3> QED BY <2>2, <3>1, HangKeeps DEF GiveUp
    <2> QED BY <1>1, <2>1, <2>2, SendKeeps, ReceiveKeeps, WakeKeeps DEF ClientStep
  <1>2. CASE UNCHANGED allVars
    <2>1. ServerInv'
      BY <1>2, StutterServer DEF ClientInv, allVars
    <2>2. ClientTypeOK'
      BY <1>2, <2>1 DEF ClientInv, ClientTypeOK, ServerInv, allVars, clientVars
    <2>3. ASSUME NEW c \in Callers PROVE CallOK(c)' /\ ToldTrue(c)'
      BY <1>2, ToldStays, QuietLasts
         DEF allVars, vars, clientVars, ClientInv, CallerInv, CallOK, RequestOf
    <2>4. Apart'
      BY <1>2 DEF Apart, ClientInv, CallerInv, allVars, clientVars
    <2> QED BY <2>1, <2>2, <2>3, <2>4 DEF ClientInv, CallerInv
  <1> QED BY <1>1, <1>2, InvokeKeeps, ServeKeeps, PublisherKeeps DEF ClientNext

LEMMA ClientInvariant == ClientSpec => []ClientInv
  BY ClientInitInv, ClientNextInv, PTL DEF ClientSpec

-----------------------------------------------------------------------------
LEMMA AtMostOne ==
  ASSUME NEW S, \A x, y \in S : x = y
  PROVE  Cardinality(S) = IF S = {} THEN 0 ELSE 1
  <1>1. CASE S = {}
    BY <1>1, FS_EmptySet
  <1>2. CASE S # {}
    <2>1. PICK x \in S : S = {x}
      BY <1>2
    <2> QED BY <1>2, <2>1, FS_Singleton
  <1> QED BY <1>1, <1>2

(* However many callers, attempts, crashes and lost answers there are, the *)
(* ledger agrees with the outbox and the outbox with the posts             *)
(* (routes/social-posts.ts, outbox/writer.ts): row and event exist only    *)
(* together, a key has one event at most, and no tenant's key reaches      *)
(* another tenant's post.                                                  *)
THEOREM OneDatabase == ClientSpec => []DatabaseAgrees
  <1>1. ClientInv => DatabaseAgrees
    <2> SUFFICES ASSUME ClientInv PROVE DatabaseAgrees
      OBVIOUS
    <2>1. DbInv /\ KeyInv /\ outbox \subseteq Event
      BY DEF ClientInv, ServerInv, TypeOK
    <2>2. ASSUME NEW s \in Scope PROVE Cardinality(EventsBy(s)) <= 1
      <3>1. \A x, y \in EventsBy(s) : x = y
        BY <2>1 DEF EventsBy, DbInv
      <3>2. Cardinality(EventsBy(s)) = IF EventsBy(s) = {} THEN 0 ELSE 1
        BY <3>1, AtMostOne
      <3> QED BY <3>2
    <2>3. ASSUME NEW p \in Posts
          PROVE  Cardinality({e \in EventsOf(p) : e.status = "accepted"}) = IF post[p] = NoPost THEN 0 ELSE 1
      <3> DEFINE S == {e \in EventsOf(p) : e.status = "accepted"}
      <3>1. \A x, y \in S : x = y
        BY <2>1 DEF EventsOf, DbInv
      <3>2. S = {} <=> post[p] = NoPost
        BY <2>1 DEF EventsOf, DbInv
      <3> HIDE DEF S
      <3>3. Cardinality(S) = IF S = {} THEN 0 ELSE 1
        BY <3>1, AtMostOne
      <3> QED BY <3>2, <3>3 DEF S
    <2>4. ASSUME NEW p \in Posts
          PROVE  /\ post[p].status = "cancelled" <=> \E e \in EventsOf(p) : e.status = "cancelled"
                 /\ \A e \in EventsOf(p) : e.tenant = post[p].tenant /\ e.by[1] = post[p].tenant
      BY <2>1 DEF EventsOf, DbInv
    <2>5. OutboxMatchesPosts
      BY <2>2, <2>3, <2>4 DEF OutboxMatchesPosts
    <2>6. LedgerMatchesOutbox
      BY <2>1 DEF LedgerMatchesOutbox, KeyInv, LedgerTrue, Wrote
    <2> QED BY <2>5, <2>6 DEF DatabaseAgrees, ClientInv
  <1> QED BY <1>1, ClientInvariant, PTL

(* What request() of the social SDK (packages/social-sdk/src/client.ts)    *)
(* returned or threw remains true of the database, whatever the other      *)
(* callers, the publisher and the handlers of abandoned attempts do: a     *)
(* success has had its effect, a definite rejection never will.            *)
THEOREM CallersAreTold == ClientSpec => []ToldTheTruth
  <1>1. ClientInv => ToldTheTruth
    <2> SUFFICES ASSUME ClientInv, NEW c \in Callers
                 PROVE  LET written == EventsBy(ScopeOfIntent(c)) IN
                          /\ told[c] = "accepted" => \E e \in written : intent[c].of \in {None, e.post}
                          /\ told[c] \in Rejections => written = {}
                          /\ told[c] # "none" /\ intent[c].token # intent[c].tenant => told[c] # "accepted"
      BY DEF ToldTheTruth
    <2>1. ToldTrue(c)
      BY DEF ClientInv, CallerInv
    <2> QED BY <2>1 DEF ToldTrue, Wrote
  <1> QED BY <1>1, ClientInvariant, PTL

-----------------------------------------------------------------------------
(* The clients of the command plane. *)

AnswerStatuses == Executed \cup Faults \cup Refused \cup {"none"}
Client == [kind : Kinds, fixed : BOOLEAN, signal : BOOLEAN, allowed : BOOLEAN,
           pc : {"ready", "sent", "waiting", "reading", "ended"}, round : 0 .. MaxRounds, attempt : Nat,
           ending : Endings, sends : Nat, status : AnswerStatuses]
CommandIds == Nat \X Nat

PlaneTypes ==
  /\ client \in [Senders -> Client]
  /\ posts \subseteq [caller : Senders, round : Nat, attempt : Nat, id : CommandIds]
  /\ plane \in [Senders -> CommandIds \cup {Nothing}]

(* The attempts a call may make. *)
PerCall(k) == IF k.kind = "communications" THEN MaxResends + 1 ELSE 1

(* A call has attempts left for what it may still send. *)
Counts(k) ==
  /\ k.sends <= PerCall(k) * k.round
  /\ k.pc \in {"sent", "waiting"} => k.sends + PerCall(k) <= PerCall(k) * k.round + k.attempt + 1
  /\ k.pc = "sent" => k.attempt + 1 <= PerCall(k)
  /\ k.pc = "waiting" => k.attempt + 2 <= PerCall(k)
  /\ (k.ending # "none") = (k.pc = "ended")

(* What has been sent for a key: nothing is executed that was not sent, and *)
(* nothing else while the only command is on its way; the commands of a    *)
(* caller with an identifier of its own are one.                           *)
OnItsWay(c) ==
  /\ client[c].sends = 0 => plane[c] = Nothing /\ \A m \in posts : m.caller # c
  /\ client[c].sends = 1 =>
       \A m \in posts : m.caller = c => plane[c] = Nothing /\ \A n \in posts : n.caller = c => n = m
  /\ client[c].fixed =>
       plane[c] \in {Nothing, <<0, 0>>} /\ \A m \in posts : m.caller = c => m.id = <<0, 0>>

(* The ending of a call is true of its command. *)
EndingIsTrue(c) ==
  /\ client[c].ending \in {"operation", "found"} => plane[c] # Nothing
  /\ (client[c].ending = "rejected" /\ client[c].status # "broken" /\ client[c].sends = 1) =>
       plane[c] = Nothing /\ \A m \in posts : m.caller # c
  /\ client[c].ending = "conflict" => ~ client[c].fixed /\ plane[c] # Nothing

SendersInv == \A c \in Senders : Counts(client[c]) /\ OnItsWay(c) /\ EndingIsTrue(c)

CommandInv == PlaneTypes /\ SendersInv

-----------------------------------------------------------------------------
LEMMA CommandConstants ==
  /\ MaxResends \in Nat /\ MaxRounds \in Nat /\ ReadAttempts \in Nat
  /\ Nothing \notin CommandIds
BY ClientsAssumption DEF CommandIds

(* What a client keeps may be changed one field at a time. *)
LEMMA FieldChanges ==
  ASSUME NEW k \in Client
  PROVE  /\ \A x \in {"ready", "sent", "waiting", "reading", "ended"} : [k EXCEPT !.pc = x] \in Client
         /\ \A x \in 0 .. MaxRounds : [k EXCEPT !.round = x] \in Client
         /\ \A x \in Nat : [k EXCEPT !.attempt = x] \in Client
         /\ \A x \in Endings : [k EXCEPT !.ending = x] \in Client
         /\ \A x \in Nat : [k EXCEPT !.sends = x] \in Client
         /\ \A x \in AnswerStatuses : [k EXCEPT !.status = x] \in Client
<1>1. \A x \in {"ready", "sent", "waiting", "reading", "ended"} : [k EXCEPT !.pc = x] \in Client
  BY DEF Client
<1>2. \A x \in 0 .. MaxRounds : [k EXCEPT !.round = x] \in Client
  BY DEF Client
<1>3. \A x \in Nat : [k EXCEPT !.attempt = x] \in Client
  BY DEF Client
<1>4. \A x \in Endings : [k EXCEPT !.ending = x] \in Client
  BY DEF Client
<1>5. \A x \in Nat : [k EXCEPT !.sends = x] \in Client
  BY DEF Client
<1>6. \A x \in AnswerStatuses : [k EXCEPT !.status = x] \in Client
  BY DEF Client
<1> QED BY <1>1, <1>2, <1>3, <1>4, <1>5, <1>6

(* A step of one sender, with the plane seeing its requests only. *)
LEMMA OneSender ==
  ASSUME CommandInv, NEW c \in Senders, NEW next \in Client,
         client' = [client EXCEPT ![c] = next], PlaneTypes',
         \A d \in Senders : d # c => plane'[d] = plane[d],
         \A m \in posts' : m.caller # c => m \in posts,
         \A m \in posts : m.caller # c => m \in posts',
         Counts(next), OnItsWay(c)', EndingIsTrue(c)'
  PROVE  CommandInv'
<1>. USE DEF CommandInv, PlaneTypes
<1>1. client'[c] = next
  OBVIOUS
<1>2. ASSUME NEW d \in Senders
      PROVE  Counts(client'[d]) /\ OnItsWay(d)' /\ EndingIsTrue(d)'
  <2>1. CASE d = c
    BY <1>1, <2>1
  <2>2. CASE d # c
    <3>1. client'[d] = client[d] /\ plane'[d] = plane[d]
      BY <2>2
    <3>2. \A m : m.caller = d => (m \in posts' <=> m \in posts)
      BY <2>2
    <3>3. Counts(client[d]) /\ OnItsWay(d) /\ EndingIsTrue(d)
      BY DEF SendersInv
    <3>4. OnItsWay(d)'
      BY <3>1, <3>2, <3>3, Zenon DEF OnItsWay
    <3>5. EndingIsTrue(d)'
      BY <3>1, <3>2, <3>3, Zenon DEF EndingIsTrue
    <3> QED BY <3>1, <3>3, <3>4, <3>5
  <2> QED BY <2>1, <2>2
<1> QED BY <1>2 DEF SendersInv

(* The call ends, or waits for its next attempt, and its requests stay on  *)
(* their way or get lost.                                                  *)
LEMMA CallRests ==
  ASSUME CommandInv, NEW c \in Senders, NEW stage, NEW ending \in Endings,
         client' = [client EXCEPT ![c] = [client[c] EXCEPT !.pc = stage, !.ending = ending]],
         \/ stage = "ended" /\ ending # "none"
         \/ /\ stage = "waiting" /\ ending = "none" /\ client[c].pc = "sent"
            /\ client[c].kind = "communications" /\ client[c].attempt < MaxResends,
         posts' \subseteq posts, \A m \in posts : m.caller # c => m \in posts', plane' = plane,
         ending \in {"operation", "found"} => plane[c] # Nothing, ending \notin {"rejected", "conflict"}
  PROVE  CommandInv'
<1>. USE DEF CommandInv, PlaneTypes
<1>0. client[c] \in Client
  OBVIOUS
<1>. DEFINE next == [client[c] EXCEPT !.pc = stage, !.ending = ending]
<1>1. next \in Client /\ next.pc = stage /\ next.ending = ending
  BY <1>0 DEF Client
<1>2. /\ next.kind = client[c].kind /\ next.sends = client[c].sends /\ next.round = client[c].round
      /\ next.attempt = client[c].attempt /\ next.fixed = client[c].fixed
  BY <1>0 DEF Client
<1>. HIDE DEF next
<1>3. client' = [client EXCEPT ![c] = next]
  BY DEF next
<1>4. PlaneTypes'
  BY <1>1, <1>3
<1>5. client'[c] = next
  BY <1>3
<1>6. Counts(client[c]) /\ OnItsWay(c) /\ EndingIsTrue(c)
  BY DEF SendersInv
<1>7. Counts(next)
  BY <1>0, <1>1, <1>2, <1>6, CommandConstants DEF Counts, PerCall, Client
<1>8. OnItsWay(c)'
  BY <1>2, <1>5, <1>6 DEF OnItsWay
<1>9. EndingIsTrue(c)'
  BY <1>1, <1>2, <1>5, <1>6 DEF EndingIsTrue
<1> QED BY <1>1, <1>3, <1>4, <1>7, <1>8, <1>9, OneSender

LEMMA OneMoreRound ==
  ASSUME NEW p \in Nat, NEW r \in Nat
  PROVE  p * (r + 1) = p * r + p /\ p * r \in Nat
OBVIOUS

(* A request is sent, of the call's next attempt or of the next call. *)
LEMMA PostKeeps ==
  ASSUME CommandInv, NEW c \in Senders, NEW round \in 0 .. MaxRounds, NEW number \in Nat,
         Post(c, round, number), plane' = plane,
         \/ round = client[c].round + 1 /\ number = 0
         \/ round = client[c].round /\ number = client[c].attempt + 1 /\ client[c].pc = "waiting"
  PROVE  CommandInv'
<1>. USE DEF CommandInv, PlaneTypes
<1>0. client[c] \in Client
  OBVIOUS
<1>. DEFINE k == client[c]
            m0 == [caller |-> c, round |-> round, attempt |-> number, id |-> CommandId(c, round, number)]
            next == [client[c] EXCEPT !.pc = "sent", !.round = round, !.attempt = number,
                                      !.ending = "none", !.status = "none", !.sends = @ + 1]
<1>1. /\ next \in Client /\ next.pc = "sent" /\ next.ending = "none" /\ next.sends = k.sends + 1
      /\ next.round = round /\ next.attempt = number /\ next.kind = k.kind /\ next.fixed = k.fixed
  <2>1. "none" \in Endings /\ "none" \in AnswerStatuses /\ k.sends + 1 \in Nat
    BY <1>0 DEF Endings, AnswerStatuses, Client
  <2>. DEFINE a == [k EXCEPT !.pc = "sent"]
              b == [a EXCEPT !.round = round]
              d == [b EXCEPT !.attempt = number]
              e == [d EXCEPT !.ending = "none"]
              f == [e EXCEPT !.status = "none"]
  <2>2. a \in Client
    BY <1>0, FieldChanges
  <2>. HIDE DEF a
  <2>3. b \in Client
    BY <2>2, FieldChanges
  <2>. HIDE DEF b
  <2>4. d \in Client
    BY <2>3, FieldChanges
  <2>. HIDE DEF d
  <2>5. e \in Client
    BY <2>1, <2>4, FieldChanges
  <2>. HIDE DEF e
  <2>6. f \in Client
    BY <2>1, <2>5, FieldChanges
  <2>. HIDE DEF f
  <2>7. [f EXCEPT !.sends = k.sends + 1] \in Client
    BY <2>1, <2>6, FieldChanges
  <2>8. next = [f EXCEPT !.sends = k.sends + 1]
    BY <1>0 DEF Client, a, b, d, e, f
  <2>9. /\ next.pc = "sent" /\ next.ending = "none" /\ next.sends = k.sends + 1 /\ next.round = round
        /\ next.attempt = number /\ next.kind = k.kind /\ next.fixed = k.fixed
    BY <1>0 DEF Client
  <2> QED BY <2>7, <2>8, <2>9
<1>2. client' = [client EXCEPT ![c] = next] /\ posts' = posts \cup {m0}
  BY DEF Post
<1>3. CommandId(c, round, number) \in CommandIds /\ (k.fixed => CommandId(c, round, number) = <<0, 0>>)
  BY CommandConstants DEF CommandId, CommandIds
<1>4. m0 \in [caller : Senders, round : Nat, attempt : Nat, id : CommandIds]
  BY <1>3, CommandConstants
<1>5. m0.caller = c /\ (k.fixed => m0.id = <<0, 0>>)
  BY <1>3
<1>. HIDE DEF next, m0
<1>6. PlaneTypes'
  BY <1>1, <1>2, <1>4
<1>7. client'[c] = next
  BY <1>2
<1>8. Counts(k) /\ OnItsWay(c) /\ EndingIsTrue(c)
  BY DEF SendersInv
<1>9. Counts(next)
  <2>1. k.sends \in Nat /\ k.round \in Nat /\ k.attempt \in Nat /\ PerCall(k) \in Nat \ {0} /\ PerCall(next) = PerCall(k)
    BY <1>0, <1>1, CommandConstants DEF Client, PerCall
  <2>. DEFINE p == PerCall(k)
  <2>2. p * (k.round + 1) = p * k.round + p /\ p * k.round \in Nat
    BY <2>1, OneMoreRound
  <2>3. CASE round = k.round + 1 /\ number = 0
    <3>1. p * round = p * k.round + p
      BY <2>2, <2>3
    <3>2. k.sends <= p * k.round
      BY <1>8 DEF Counts
    <3>. HIDE DEF p
    <3>3. k.sends + 1 <= p * round /\ k.sends + 1 + p <= p * round + number + 1 /\ number + 1 <= p
      BY <2>1, <2>2, <2>3, <3>1, <3>2 DEF p
    <3> QED BY <1>1, <2>1, <3>3 DEF Counts, p
  <2>4. CASE round = k.round /\ number = k.attempt + 1 /\ k.pc = "waiting"
    <3>1. k.sends + p <= p * k.round + k.attempt + 1 /\ k.attempt + 2 <= p
      BY <1>8, <2>4 DEF Counts
    <3>2. p * round \in Nat /\ p * round = p * k.round /\ p \in Nat
      BY <2>1, <2>2, <2>4
    <3>. HIDE DEF p
    <3>3. k.sends + 1 <= p * round /\ k.sends + 1 + p <= p * round + number + 1 /\ number + 1 <= p
      BY <2>1, <2>4, <3>1, <3>2
    <3> QED BY <1>1, <2>1, <3>3 DEF Counts, p
  <2> QED BY <2>3, <2>4
<1>10. OnItsWay(c)'
  <2>1. next.sends # 0 /\ (next.sends = 1 => k.sends = 0)
    BY <1>0, <1>1 DEF Client
  <2>2. k.sends = 0 => plane[c] = Nothing /\ \A m \in posts' : m.caller = c => m = m0
    BY <1>2, <1>8 DEF OnItsWay
  <2>3. k.fixed => \A m \in posts' : m.caller = c => m.id = <<0, 0>>
    BY <1>2, <1>5, <1>8 DEF OnItsWay
  <2>4. k.fixed => plane[c] \in {Nothing, <<0, 0>>}
    BY <1>8 DEF OnItsWay
  <2> QED BY <1>1, <1>7, <2>1, <2>2, <2>3, <2>4 DEF OnItsWay
<1>11. EndingIsTrue(c)'
  BY <1>1, <1>7 DEF EndingIsTrue
<1>12. \A m \in posts' : m.caller # c => m \in posts
  BY <1>2, <1>5
<1>13. \A m \in posts : m.caller # c => m \in posts'
  BY <1>2
<1> QED BY <1>1, <1>2, <1>6, <1>9, <1>10, <1>11, <1>12, <1>13, OneSender
(* The plane sees a request, and executes its command or does not. *)
LEMMA ReceivedKeeps ==
  ASSUME CommandInv, NEW m \in posts, NEW then \in {plane[m.caller], m.id}, NEW next \in Client,
         client' = [client EXCEPT ![m.caller] = next], posts' = posts \ {m},
         plane' = [plane EXCEPT ![m.caller] = then],
         next.sends = client[m.caller].sends, next.fixed = client[m.caller].fixed,
         Counts(next), EndingIsTrue(m.caller)'
  PROVE  CommandInv'
<1>. USE DEF CommandInv, PlaneTypes
<1>. DEFINE c == m.caller
<1>1. c \in Senders /\ m.id \in CommandIds /\ then \in CommandIds \cup {Nothing}
  OBVIOUS
<1>2. PlaneTypes'
  BY <1>1
<1>3. client'[c] = next /\ plane'[c] = then /\ \A d \in Senders : d # c => plane'[d] = plane[d]
  BY <1>1
<1>4. OnItsWay(c)'
  <2>1. OnItsWay(c)
    BY <1>1 DEF SendersInv
  <2>2. client[c].sends # 0
    BY <2>1 DEF OnItsWay
  <2>3. client[c].sends = 1 => \A n \in posts' : n.caller # c
    BY <2>1 DEF OnItsWay
  <2>4. client[c].fixed => then \in {Nothing, <<0, 0>>} /\ \A n \in posts' : n.caller = c => n.id = <<0, 0>>
    BY <2>1 DEF OnItsWay
  <2> QED BY <1>3, <2>2, <2>3, <2>4 DEF OnItsWay
<1> QED BY <1>1, <1>2, <1>3, <1>4, OneSender

LEMMA NobodyWaits ==
  ASSUME CommandInv, NEW m \in posts, NEW then \in {plane[m.caller], m.id}, client' = client, posts' = posts \ {m},
         plane' = [plane EXCEPT ![m.caller] = then]
  PROVE  CommandInv'
<1>. USE DEF CommandInv, PlaneTypes
<1>. DEFINE c == m.caller
<1>1. /\ c \in Senders /\ m.id \in CommandIds /\ m.id # Nothing
      /\ client[c] \in Client /\ client' = [client EXCEPT ![c] = client[c]] /\ plane'[c] = then
  BY CommandConstants
<1>2. Counts(client[c]) /\ EndingIsTrue(c)
  BY <1>1 DEF SendersInv
<1>3. EndingIsTrue(c)'
  BY <1>1, <1>2 DEF EndingIsTrue
<1> QED BY <1>1, <1>2, <1>3, ReceivedKeeps

LEMMA AnsweredKeeps ==
  ASSUME CommandInv, NEW m \in posts, Awaited(m), PlaneReceives(m)
  PROVE  CommandInv'
<1>. USE DEF CommandInv, PlaneTypes
<1>. DEFINE c == m.caller
            k == client[c]
<1>1. c \in Senders /\ k \in Client /\ m.id \in CommandIds /\ m.id # Nothing
  BY CommandConstants
<1>2. PICK answer \in PlaneAnswers, executes \in BOOLEAN :
        LET known == plane[m.caller]
            then == IF executes THEN m.id ELSE known
        IN /\ executes => known = Nothing /\ answer.status \notin Refused
           /\ answer.status = "operation" => then = m.id /\ ~ answer.retryable
           /\ answer.status = "conflict" <=> known \notin {Nothing, m.id} /\ answer.status \notin Faults \cup {"denied"}
           /\ answer.status = "limited" => ~ executes
           /\ answer.status \in Faults => answer.retryable
           /\ plane' = [plane EXCEPT ![m.caller] = then]
           /\ client' = [client EXCEPT ![m.caller].pc = IF SendsAgain(m.caller, answer) THEN "waiting" ELSE "ended",
                               ![m.caller].ending = IF SendsAgain(m.caller, answer) THEN "none"
                                                    ELSE EndingOf(m.caller, answer),
                               ![m.caller].status = answer.status]
  BY Zenon DEF PlaneReceives
<1>. DEFINE then == IF executes THEN m.id ELSE plane[c]
            stage == IF SendsAgain(c, answer) THEN "waiting" ELSE "ended"
            ending == IF SendsAgain(c, answer) THEN "none" ELSE EndingOf(c, answer)
            a == [k EXCEPT !.pc = stage]
            b == [a EXCEPT !.ending = ending]
            next == [b EXCEPT !.status = answer.status]
<1>3. answer.status \in AnswerStatuses /\ answer.retryable \in BOOLEAN
  BY DEF PlaneAnswers, AnswerStatuses
<1>4. EndingOf(c, answer) \in Endings \ {"none", "found"}
  BY DEF EndingOf, PythonEnding, ErrorEnding, Endings
<1>5. stage \in {"waiting", "ended"} /\ ending \in Endings
  BY <1>4 DEF Endings
<1>6. client' = [client EXCEPT ![c] = next]
  BY <1>1, <1>2 DEF Client
<1>7. next \in Client
  <2>. HIDE DEF stage, ending
  <2>1. a \in Client
    BY <1>1, <1>5, FieldChanges
  <2>. HIDE DEF a
  <2>2. b \in Client
    BY <2>1, <1>5, FieldChanges
  <2>. HIDE DEF b
  <2>3. QED
    BY <2>2, <1>3, FieldChanges
<1>8. /\ next.pc = stage /\ next.ending = ending /\ next.status = answer.status
      /\ next.sends = k.sends /\ next.fixed = k.fixed /\ next.kind = k.kind /\ next.round = k.round
      /\ next.attempt = k.attempt
  <2>. HIDE DEF stage, ending
  <2> QED BY <1>1 DEF Client
<1>. HIDE DEF next
<1>9. then \in {plane[c], m.id} /\ plane' = [plane EXCEPT ![c] = then] /\ posts' = posts \ {m}
  BY <1>2 DEF PlaneReceives
<1>10. client'[c] = next /\ plane'[c] = then
  BY <1>1, <1>6, <1>9
<1>11. Counts(next)
  <2>1. Counts(k) /\ k.pc = "sent"
    BY <1>1 DEF SendersInv, Awaited
  <2>2. stage = "waiting" => k.kind = "communications" /\ k.attempt < MaxResends /\ ending = "none"
    BY DEF SendsAgain
  <2>3. stage = "ended" => ending # "none"
    BY <1>4
  <2>. HIDE DEF stage, ending
  <2> QED BY <1>1, <1>5, <1>8, <2>1, <2>2, <2>3, CommandConstants DEF Counts, PerCall, Client
<1>12. OnItsWay(c)
  BY <1>1 DEF SendersInv
<1>13. EndingIsTrue(c)'
  <2>1. ending \in {"operation", "found"} => then # Nothing
    <3>1. ending \in {"operation", "found"} => answer.status = "operation"
      BY DEF EndingOf, PythonEnding, ErrorEnding
    <3> QED BY <1>1, <1>2, <3>1
  <2>2. ending = "rejected" => answer.status \in {"denied", "broken"}
    <3>1. answer.status \in {"operation", "limited", "broken", "unavailable", "denied", "conflict"}
      BY DEF PlaneAnswers, Executed, Faults, Refused
    <3>2. answer.status \in Faults => answer.retryable
      BY <1>2
    <3> QED BY <3>1, <3>2 DEF EndingOf, PythonEnding, ErrorEnding, Faults
  <2>3. ending = "rejected" /\ answer.status # "broken" /\ k.sends = 1 =>
          then = Nothing /\ \A n \in posts' : n.caller # c
    BY <1>2, <1>9, <1>12, <2>2 DEF OnItsWay, Refused
  <2>4. ending = "conflict" => ~ k.fixed /\ then # Nothing
    <3>1. ending = "conflict" => answer.status = "conflict"
      BY DEF EndingOf, PythonEnding, ErrorEnding
    <3>2. answer.status = "conflict" => plane[c] \notin {Nothing, m.id}
      BY <1>2
    <3>3. k.fixed => plane[c] \in {Nothing, <<0, 0>>} /\ m.id = <<0, 0>>
      BY <1>12 DEF OnItsWay
    <3> QED BY <1>1, <3>1, <3>2, <3>3
  <2>. HIDE DEF ending, then
  <2> QED BY <1>8, <1>10, <2>1, <2>3, <2>4 DEF EndingIsTrue
<1> QED BY <1>6, <1>7, <1>8, <1>9, <1>11, <1>13, ReceivedKeeps
LEMMA PlaneReceivesKeeps ==
  ASSUME CommandInv, NEW m \in posts, PlaneReceives(m)
  PROVE  CommandInv'
<1>1. CASE Awaited(m)
  BY <1>1, AnsweredKeeps
<1>2. CASE ~ Awaited(m)
  <2>1. client' = client /\ posts' = posts \ {m}
    BY <1>2 DEF PlaneReceives
  <2>2. \E executes \in BOOLEAN : plane' = [plane EXCEPT ![m.caller] = IF executes THEN m.id ELSE plane[m.caller]]
    BY DEF PlaneReceives
  <2>3. PICK then \in {plane[m.caller], m.id} : plane' = [plane EXCEPT ![m.caller] = then]
    BY <2>2
  <2> QED BY <2>1, <2>3, NobodyWaits
<1> QED BY <1>1, <1>2

LEMMA UnreadableKeeps ==
  ASSUME CommandInv, NEW m \in posts, Unreadable(m)
  PROVE  CommandInv'
<1>. USE DEF CommandInv, PlaneTypes
<1>. DEFINE c == m.caller
            k == client[c]
<1>1. c \in Senders /\ k \in Client /\ m.id \in CommandIds /\ m.id # Nothing
  BY CommandConstants
<1>2. Counts(k) /\ EndingIsTrue(c) /\ k.pc = "sent"
  BY <1>1 DEF SendersInv, Unreadable, Awaited
<1>3. plane' = [plane EXCEPT ![c] = m.id] /\ posts' = posts \ {m}
  BY DEF Unreadable
<1>4. CASE EndCall(c, "unread")
  <2>. DEFINE a == [k EXCEPT !.pc = "ended"]
              next == [a EXCEPT !.ending = "unread"]
  <2>1. client' = [client EXCEPT ![c] = next]
    BY <1>1, <1>4 DEF EndCall, Client
  <2>2. next \in Client
    <3>1. a \in Client
      BY <1>1, FieldChanges
    <3>. HIDE DEF a
    <3> QED BY <3>1, FieldChanges DEF Endings
  <2>3. /\ next.pc = "ended" /\ next.ending = "unread" /\ next.sends = k.sends /\ next.fixed = k.fixed
        /\ next.kind = k.kind /\ next.round = k.round
    BY <1>1 DEF Client
  <2>. HIDE DEF next
  <2>4. Counts(next)
    BY <1>2, <2>3 DEF Counts, PerCall
  <2>5. EndingIsTrue(c)'
    BY <1>1, <2>1, <2>3 DEF EndingIsTrue
  <2> QED BY <1>3, <2>1, <2>2, <2>3, <2>4, <2>5, ReceivedKeeps
<1>5. CASE k.kind = "communications" /\ k.attempt < MaxResends /\ client' = [client EXCEPT ![c].pc = "waiting"]
  <2>. DEFINE next == [k EXCEPT !.pc = "waiting"]
  <2>1. client' = [client EXCEPT ![c] = next]
    BY <1>1, <1>5
  <2>2. next \in Client
    BY <1>1, FieldChanges
  <2>3. /\ next.pc = "waiting" /\ next.ending = k.ending /\ next.sends = k.sends /\ next.fixed = k.fixed
        /\ next.kind = k.kind /\ next.round = k.round /\ next.attempt = k.attempt
    BY <1>1 DEF Client
  <2>. HIDE DEF next
  <2>4. Counts(next) /\ next.ending = "none"
    BY <1>1, <1>2, <1>5, <2>3, CommandConstants DEF Counts, PerCall, Client
  <2>5. EndingIsTrue(c)'
    BY <1>1, <2>1, <2>4 DEF EndingIsTrue
  <2> QED BY <1>3, <2>1, <2>2, <2>3, <2>4, <2>5, ReceivedKeeps
<1> QED BY <1>4, <1>5 DEF Unreadable

(* A call that ends by itself. *)
LEMMA EndKeeps ==
  ASSUME CommandInv, NEW c \in Senders, NEW ending \in Endings \ {"none", "rejected", "conflict"}, EndCall(c, ending),
         posts' \subseteq posts, \A m \in posts : m.caller # c => m \in posts', plane' = plane,
         ending \in {"operation", "found"} => plane[c] # Nothing
  PROVE  CommandInv'
<1>1. client' = [client EXCEPT ![c] = [client[c] EXCEPT !.pc = "ended", !.ending = ending]]
  BY DEF EndCall, CommandInv, PlaneTypes, Client
<1> QED BY <1>1, CallRests, Zenon

LEMMA FailsKeeps ==
  ASSUME CommandInv, NEW c \in Senders, Fails(c)
  PROVE  CommandInv'
<1>1. posts' \subseteq posts /\ (\A m \in posts : m.caller # c => m \in posts') /\ plane' = plane
  BY DEF Fails
<1>2. CASE client[c].kind = "communications" /\ client[c].attempt < MaxResends
  <2>1. client[c] \in Client /\ client[c].pc = "sent" /\ client' = [client EXCEPT ![c].pc = "waiting"]
    BY <1>2 DEF Fails, CommandInv, PlaneTypes
  <2>2. client[c].ending = "none"
    BY <2>1 DEF CommandInv, SendersInv, Counts
  <2>3. client' = [client EXCEPT ![c] = [client[c] EXCEPT !.pc = "waiting", !.ending = "none"]]
    BY <2>1, <2>2 DEF Client
  <2>4. "none" \in Endings /\ "none" \notin {"operation", "found"} /\ "none" \notin {"rejected", "conflict"}
    BY DEF Endings
  <2> QED BY <1>1, <1>2, <2>1, <2>3, <2>4, CallRests, Zenon
<1>3. CASE ~ (client[c].kind = "communications" /\ client[c].attempt < MaxResends)
  <2>1. PICK ending \in {"unknown", "network"} : EndCall(c, ending)
    BY <1>3 DEF Fails
  <2>2. ending \in Endings \ {"none", "rejected", "conflict", "operation", "found"}
    BY DEF Endings
  <2> QED BY <1>1, <2>1, <2>2, EndKeeps
<1> QED BY <1>2, <1>3

LEMMA ReadAnswerKeeps ==
  ASSUME CommandInv, NEW c \in Senders, ReadAnswer(c)
  PROVE  CommandInv'
<1>. USE DEF CommandInv, PlaneTypes
<1>1. posts' = posts /\ plane' = plane /\ client[c] \in Client /\ client[c].pc = "reading"
  BY DEF ReadAnswer
<1>2. ASSUME NEW ending \in {"found", "absent", "unavailable"}, EndCall(c, ending), ending = "found" => plane[c] # Nothing
      PROVE  CommandInv'
  <2>1. ending \in Endings \ {"none", "rejected", "conflict", "operation"}
    BY DEF Endings
  <2> QED BY <1>1, <1>2, <2>1, EndKeeps
<1>3. CASE client' = [client EXCEPT ![c].attempt = @ + 1]
  <2>. DEFINE k == client[c]
              next == [k EXCEPT !.attempt = k.attempt + 1]
  <2>1. client' = [client EXCEPT ![c] = next]
    BY <1>1, <1>3
  <2>2. next \in Client
    <3>1. k.attempt + 1 \in Nat
      BY <1>1 DEF Client
    <3> QED BY <1>1, <3>1, FieldChanges
  <2>3. /\ next.pc = "reading" /\ next.ending = k.ending /\ next.sends = k.sends /\ next.fixed = k.fixed
        /\ next.kind = k.kind /\ next.round = k.round /\ next.status = k.status
    BY <1>1 DEF Client
  <2>. HIDE DEF next
  <2>4. Counts(k) /\ OnItsWay(c) /\ EndingIsTrue(c) /\ client'[c] = next
    BY <2>1 DEF SendersInv
  <2>5. Counts(next)
    BY <1>1, <2>3, <2>4 DEF Counts, PerCall
  <2>6. OnItsWay(c)'
    BY <1>1, <2>3, <2>4 DEF OnItsWay
  <2>7. EndingIsTrue(c)'
    BY <1>1, <2>3, <2>4 DEF EndingIsTrue
  <2>8. PlaneTypes'
    BY <1>1, <2>1, <2>2
  <2> QED BY <1>1, <2>1, <2>2, <2>5, <2>6, <2>7, <2>8, OneSender
<1>4. CASE EndCall(c, IF plane[c] = Nothing THEN "absent" ELSE "found")
  BY <1>2, <1>4
<1>5. CASE EndCall(c, "unavailable")
  BY <1>2, <1>5
<1> QED BY <1>3, <1>4, <1>5 DEF ReadAnswer

LEMMA ReadBackKeeps ==
  ASSUME CommandInv, NEW c \in Senders, ReadBack(c)
  PROVE  CommandInv'
<1>. USE DEF CommandInv, PlaneTypes
<1>. DEFINE k == client[c]
            a == [k EXCEPT !.pc = "reading"]
            b == [a EXCEPT !.attempt = 1]
            next == [b EXCEPT !.ending = "none"]
<1>1. posts' = posts /\ plane' = plane /\ k \in Client
  BY DEF ReadBack
<1>2. client' = [client EXCEPT ![c] = next]
  BY <1>1 DEF ReadBack, Client
<1>3. next \in Client
  <2>1. a \in Client
    BY <1>1, FieldChanges
  <2>. HIDE DEF a
  <2>2. b \in Client
    BY <2>1, FieldChanges
  <2>. HIDE DEF b
  <2> QED BY <2>2, FieldChanges DEF Endings
<1>4. /\ next.pc = "reading" /\ next.ending = "none" /\ next.sends = k.sends /\ next.fixed = k.fixed
      /\ next.kind = k.kind /\ next.round = k.round
  BY <1>1 DEF Client
<1>. HIDE DEF next
<1>5. Counts(k) /\ OnItsWay(c) /\ client'[c] = next
  BY <1>2 DEF SendersInv
<1>6. Counts(next)
  BY <1>4, <1>5 DEF Counts, PerCall
<1>7. OnItsWay(c)'
  BY <1>1, <1>4, <1>5 DEF OnItsWay
<1>8. EndingIsTrue(c)'
  BY <1>4, <1>5 DEF EndingIsTrue
<1>9. PlaneTypes'
  BY <1>1, <1>2, <1>3
<1> QED BY <1>1, <1>2, <1>3, <1>6, <1>7, <1>8, <1>9, OneSender

LEMMA CallKeeps ==
  ASSUME CommandInv, NEW c \in Senders, Call(c)
  PROVE  CommandInv'
<1>1. plane' = plane /\ client[c] \in Client /\ client[c].round < MaxRounds
  BY DEF Call, CommandInv, PlaneTypes
<1>2. CASE Post(c, client[c].round + 1, 0)
  <2>1. client[c].round + 1 \in 0 .. MaxRounds
    BY <1>1, CommandConstants DEF Client
  <2> QED BY <1>1, <1>2, <2>1, PostKeeps
<1>3. CASE EndCall(c, "disabled") /\ UNCHANGED posts
  BY <1>1, <1>3, EndKeeps DEF Endings
<1> QED BY <1>2, <1>3 DEF Call

LEMMA SenderKeeps ==
  ASSUME CommandInv, NEW c \in Senders, TimesOut(c) \/ Aborts(c) \/ Retry(c)
  PROVE  CommandInv'
<1>1. ASSUME NEW ending \in {"unknown", "timeout", "aborted"}, EndCall(c, ending), UNCHANGED <<posts, plane>>
      PROVE  CommandInv'
  <2>1. ending \in Endings \ {"none", "rejected", "conflict", "operation", "found"}
    BY DEF Endings
  <2> QED BY <1>1, <2>1, EndKeeps
<1>2. CASE TimesOut(c)
  <2>1. EndCall(c, IF client[c].kind = "python" THEN "unknown" ELSE "timeout") /\ UNCHANGED <<posts, plane>>
    BY <1>2 DEF TimesOut
  <2> QED BY <1>1, <2>1
<1>3. CASE Aborts(c)
  BY <1>1, <1>3 DEF Aborts
<1>4. CASE Retry(c)
  <2>1. client[c] \in Client
    BY DEF CommandInv, PlaneTypes
  <2>2. client[c].round \in 0 .. MaxRounds /\ client[c].attempt + 1 \in Nat
    BY <2>1 DEF Client
  <2> QED BY <1>4, <2>2, PostKeeps DEF Retry
<1> QED BY <1>2, <1>3, <1>4

LEMMA LostKeeps ==
  ASSUME CommandInv, NEW m \in posts, Lost(m)
  PROVE  CommandInv'
<1>1. UNCHANGED <<client, plane>> /\ posts' \subseteq posts
  BY DEF Lost
<1> QED BY <1>1 DEF CommandInv, PlaneTypes, SendersInv, Counts, PerCall, OnItsWay, EndingIsTrue

LEMMA ClientsStart == ClientsInit => CommandInv
<1>. SUFFICES ASSUME ClientsInit
              PROVE  CommandInv
  OBVIOUS
<1>1. posts = {} /\ plane = [c \in Senders |-> Nothing]
  BY DEF ClientsInit
<1>2. ASSUME NEW c \in Senders
      PROVE  /\ client[c] \in Client
             /\ client[c].ending = "none" /\ client[c].pc = "ready" /\ client[c].sends = 0 /\ client[c].round = 0
  <2>1. client[c] \in Newcomers
    BY DEF ClientsInit
  <2>2. "none" \in Endings /\ "none" \in AnswerStatuses /\ 0 \in 0 .. MaxRounds
    BY CommandConstants DEF Endings, AnswerStatuses
  <2> QED BY <2>1, <2>2 DEF Newcomers, Client
<1>3. client \in [Senders -> Client]
  BY <1>2 DEF ClientsInit
<1>4. \A c \in Senders : 0 <= PerCall(client[c]) * 0
  BY CommandConstants DEF PerCall
<1>5. PlaneTypes
  BY <1>1, <1>3 DEF PlaneTypes
<1>6. SendersInv
  BY <1>1, <1>2, <1>4 DEF SendersInv, Counts, OnItsWay, EndingIsTrue
<1> QED BY <1>5, <1>6 DEF CommandInv

LEMMA ClientsKeep == CommandInv /\ [ClientsNext]_commandVars => CommandInv'
<1>. SUFFICES ASSUME CommandInv, [ClientsNext]_commandVars
              PROVE  CommandInv'
  OBVIOUS
<1>1. ASSUME NEW c \in Senders, Call(c) \/ CommandStep(c) \/ Fails(c) \/ Aborts(c) \/ ReadBack(c)
      PROVE  CommandInv'
  BY <1>1, CallKeeps, SenderKeeps, ReadAnswerKeeps, FailsKeeps, ReadBackKeeps DEF CommandStep
<1>2. ASSUME NEW m \in posts, PlaneReceives(m) \/ Unreadable(m) \/ Lost(m)
      PROVE  CommandInv'
  BY <1>2, PlaneReceivesKeeps, UnreadableKeeps, LostKeeps
<1>3. CASE UNCHANGED commandVars
  BY <1>3 DEF commandVars, CommandInv, PlaneTypes, SendersInv, Counts, PerCall, OnItsWay, EndingIsTrue
<1> QED BY <1>1, <1>2, <1>3 DEF ClientsNext

LEMMA ClientsInvariance == ClientsSpec => []CommandInv
<1> QED BY ClientsStart, ClientsKeep, PTL DEF ClientsSpec

(* Whatever a caller of the command plane is told by its client            *)
(* (CodestraCommunicationsClient, CodestraSdk, CodestraMiddlewareClient),   *)
(* for any number of callers, attempts and rounds: it is true of its       *)
(* command, and its own earlier calls are no conflict.                     *)
THEOREM WhatTheyAreTold == ClientsSpec => []OutcomesAreTrue
<1>1. CommandInv => OutcomesAreTrue
  <2>. SUFFICES ASSUME CommandInv
                PROVE  OutcomesAreTrue
    OBVIOUS
  <2>1. \A c \in Senders : client[c] \in Client
    BY DEF CommandInv, PlaneTypes
  <2>2. ClientsTypeOK
    BY <2>1 DEF ClientsTypeOK, CommandInv, PlaneTypes, SendersInv, Counts, PerCall, Client
  <2>3. ToldTheOutcome
    BY DEF ToldTheOutcome, CommandInv, SendersInv, EndingIsTrue
  <2>4. NoConflictWithItself
    BY DEF NoConflictWithItself, CommandInv, SendersInv, EndingIsTrue
  <2> QED BY <2>2, <2>3, <2>4 DEF OutcomesAreTrue
<1> QED BY <1>1, ClientsInvariance, PTL

-----------------------------------------------------------------------------
(* The node of a workflow. *)

Visits == [state : {"none", "running", "done", "failed"}, input : Nat, execution : 0 .. MaxExecutions,
           loop : 0 .. MaxLoops, try : 0 .. MaxTries, index : Nat \ {0}, batch : Batches \cup {<< >>}]

VisitInv ==
  /\ longIds \in BOOLEAN /\ visit \in Visits
  /\ visit = NoVisit \/
       (visit.batch \in Batches /\ visit.index <= Len(visit.batch) + 1 /\ visit.execution # 0 /\ visit.state # "none")
  /\ visit.state = "done" => visit.index = Len(visit.batch) + 1
  /\ output = IF visit.state \in {"running", "done"} THEN [i \in 1 .. visit.index - 1 |-> i] ELSE << >>

(* An operation that the Middleware keeps a ledger of. *)
Ledger(operation) == NodeOperations[operation].repeated \notin {"harmless", "missing"}

(* What the item of an index asks for has been done. *)
Did(i) ==
  LET r == ItemRequest(i) IN
  NodeOperations[r.operation].repeated # "harmless" =>
    \E e \in effects : e.operation = r.operation /\ e.subject = r.subject /\ (Ledger(r.operation) => e.key = r.key)

(* A request and the visit: an older execution or loop sent it, or this    *)
(* one did when the items in front of it had been done.                    *)
Sequenced(r) ==
  /\ r.by.execution \in 1 .. visit.execution
  /\ r.by.execution = visit.execution => r.by.loop <= visit.loop
  /\ r.by.execution = visit.execution /\ r.by.loop = visit.loop =>
       \A i \in 1 .. r.by.index - 1 : Did(i)

(* A request of the input that is being worked on is of its item. *)
OfInput(r) ==
  /\ r.by.input <= visit.input
  /\ r.by.input = visit.input =>
       LET item == visit.batch[r.by.index] IN
       /\ r.operation = item.operation /\ r.subject = item.subject
       /\ r.key = IF item.key = DefaultKey THEN <<r.by.execution, r.by.index>> ELSE <<0, item.key>>

(* The requests of an item are alike, but for a key made of the execution. *)
Alike(q, r) ==
  q.by.input = r.by.input /\ q.by.index = r.by.index =>
    /\ q.operation = r.operation /\ q.subject = r.subject
    /\ \/ q.key = r.key /\ q.key[1] = 0
       \/ q.key = <<q.by.execution, q.by.index>> /\ r.key = <<r.by.execution, r.by.index>>

Sent == effects \cup late

RequestsInv ==
  /\ \A r \in Sent : r.by.input \in Nat /\ r.by.loop \in Nat /\ r.by.index \in Nat /\ Sequenced(r) /\ OfInput(r)
  /\ \A q, r \in Sent : Alike(q, r)

(* What the Middleware does once. *)
LedgerInv ==
  /\ \A e \in effects : Ledger(e.operation) => Claimed(e) # {}
  /\ \A c \in claims : c.settled => \E e \in effects : e.operation = c.operation /\ e.key = c.key /\ e.subject = c.subject
  /\ \A e, f \in effects : e.operation = f.operation =>
       /\ Ledger(e.operation) /\ e.key = f.key => e = f
       /\ ~ Ledger(e.operation) /\ e.subject = f.subject => e = f

NodeInv == VisitInv /\ (\A i \in 1 .. visit.index - 1 : Did(i)) /\ RequestsInv /\ LedgerInv

-----------------------------------------------------------------------------
LEMMA NodeConstants ==
  /\ MaxExecutions \in Nat /\ MaxLoops \in Nat \ {0} /\ MaxTries \in Nat \ {0}
  /\ \A batch \in Batches : Len(batch) \in Nat
BY NodeAssumption
(* What has been done stays done while the visit stays with its input. *)
SameVisit ==
  /\ visit'.batch = visit.batch /\ visit'.input = visit.input
  /\ visit'.execution = visit.execution /\ visit'.loop = visit.loop

LEMMA DidGrows ==
  ASSUME SameVisit, effects \subseteq effects', NEW i, Did(i)
  PROVE  Did(i)'
<1>1. ItemRequest(i)' = ItemRequest(i)
  BY DEF SameVisit, ItemRequest, ItemKey
<1>. DEFINE r == ItemRequest(i)
<1>2. CASE NodeOperations[r.operation].repeated = "harmless"
  BY <1>1, <1>2 DEF Did
<1>3. CASE NodeOperations[r.operation].repeated # "harmless"
  <2>1. PICK e \in effects : e.operation = r.operation /\ e.subject = r.subject /\ (Ledger(r.operation) => e.key = r.key)
    BY <1>3 DEF Did
  <2>2. e \in effects'
    BY <2>1
  <2> QED BY <1>1, <2>1, <2>2 DEF Did, Ledger
<1> QED BY <1>2, <1>3

(* What a request has to say of itself. *)
Fitting(r) ==
  r.by.input \in Nat /\ r.by.loop \in Nat /\ r.by.index \in Nat /\ Sequenced(r) /\ OfInput(r)

(* The request of the item at hand is what RequestsInv says of all. *)
LEMMA CurrentRequest ==
  ASSUME NodeInv, Taking, NEW r, r = ItemRequest(visit.index)
  PROVE  Fitting(r) /\ Alike(r, r) /\ \A q \in Sent : Alike(q, r) /\ Alike(r, q)
<1>. DEFINE item == visit.batch[visit.index]
<1>1. /\ r.operation = item.operation /\ r.subject = item.subject
      /\ r.key = IF item.key = DefaultKey THEN <<visit.execution, visit.index>> ELSE <<0, item.key>>
      /\ r.by.input = visit.input /\ r.by.execution = visit.execution /\ r.by.loop = visit.loop /\ r.by.index = visit.index
  BY DEF ItemRequest, ItemKey
<1>2. /\ visit.input \in Nat /\ visit.loop \in Nat /\ visit.index \in Nat
      /\ visit.execution \in 1 .. MaxExecutions
  BY NodeConstants DEF NodeInv, VisitInv, Visits, Taking, NoVisit
<1>3. Sequenced(r)
  BY <1>1, <1>2, NodeConstants DEF Sequenced, NodeInv
<1>4. OfInput(r)
  BY <1>1, <1>2 DEF OfInput
<1>5. Alike(r, r)
  BY <1>1 DEF Alike
<1>6. ASSUME NEW q \in Sent
      PROVE  Alike(q, r) /\ Alike(r, q)
  <2>1. OfInput(q)
    BY DEF NodeInv, RequestsInv
  <2>2. CASE q.by.input = r.by.input /\ q.by.index = r.by.index
    <3>1. /\ q.operation = item.operation /\ q.subject = item.subject
          /\ q.key = IF item.key = DefaultKey THEN <<q.by.execution, q.by.index>> ELSE <<0, item.key>>
      BY <1>1, <2>1, <2>2 DEF OfInput
    <3>2. CASE item.key = DefaultKey
      BY <1>1, <2>2, <3>1, <3>2 DEF Alike
    <3>3. CASE item.key # DefaultKey
      BY <1>1, <2>2, <3>1, <3>3 DEF Alike
    <3> QED BY <3>2, <3>3
  <2>3. CASE ~ (q.by.input = r.by.input /\ q.by.index = r.by.index)
    BY <2>3 DEF Alike
  <2> QED BY <2>2, <2>3
<1> QED BY <1>1, <1>2, <1>3, <1>4, <1>5, <1>6 DEF Fitting

(* A step of a visit that sends one request more, at the most. *)
LEMMA RequestsStand ==
  ASSUME NodeInv, SameVisit, effects \subseteq effects', NEW r, Sent' \subseteq Sent \cup {r},
         r \in Sent' => Fitting(r) /\ Alike(r, r) /\ \A q \in Sent : Alike(q, r) /\ Alike(r, q)
  PROVE  RequestsInv'
<1>1. ASSUME NEW q \in Sent'
      PROVE  Fitting(q)'
  <2>1. Fitting(q)
    BY DEF NodeInv, RequestsInv, Fitting
  <2>2. Sequenced(q)'
    <3>1. q.by.execution = visit.execution /\ q.by.loop = visit.loop => \A i \in 1 .. q.by.index - 1 : Did(i)'
      BY <2>1, DidGrows DEF Fitting, Sequenced
    <3> QED BY <2>1, <3>1 DEF Fitting, Sequenced, SameVisit
  <2>3. OfInput(q)'
    BY <2>1 DEF Fitting, OfInput, SameVisit
  <2> QED BY <2>1, <2>2, <2>3 DEF Fitting
<1>2. ASSUME NEW p \in Sent', NEW q \in Sent'
      PROVE  Alike(p, q)
  BY DEF NodeInv, RequestsInv
<1> QED BY <1>1, <1>2 DEF RequestsInv, Fitting, Alike

(* The Middleware does a request once, and answers with a success when it  *)
(* has been done.                                                          *)
LEMMA ArrivalKeeps ==
  ASSUME LedgerInv, NEW r, NEW settled \in BOOLEAN, NEW performed \in BOOLEAN, Arrives(r, settled, performed)
  PROVE  /\ LedgerInv' /\ effects \subseteq effects' /\ effects' \subseteq effects \cup {r}
         /\ Succeeds(r, settled, performed) /\ NodeOperations[r.operation].repeated # "harmless" =>
              \E e \in effects' : e.operation = r.operation /\ e.subject = r.subject
                                  /\ (Ledger(r.operation) => e.key = r.key)
<1>1. CASE NodeOperations[r.operation].repeated = "harmless"
  BY <1>1 DEF Arrives, LedgerInv, Claimed, Ledger
<1>2. CASE NodeOperations[r.operation].repeated = "missing"
  <2>1. claims' = claims /\ effects' = IF Gone(r) \/ ~ performed THEN effects ELSE effects \cup {r}
    BY <1>2 DEF Arrives
  <2>2. ~ Ledger(r.operation)
    BY <1>2 DEF Ledger
  <2>3. LedgerInv'
    <3>1. CASE Gone(r) \/ ~ performed
      BY <2>1, <3>1 DEF LedgerInv, Claimed
    <3>2. CASE ~ Gone(r) /\ performed
      <4>1. effects' = effects \cup {r} /\ \A e \in effects : ~ (e.operation = r.operation /\ e.subject = r.subject)
        BY <2>1, <3>2 DEF Gone
      <4>2. \A e \in effects' : Ledger(e.operation) => Claimed(e)' # {}
        BY <2>1, <2>2, <4>1 DEF LedgerInv, Claimed
      <4>3. \A c \in claims' : c.settled =>
              \E e \in effects' : e.operation = c.operation /\ e.key = c.key /\ e.subject = c.subject
        BY <2>1, <4>1 DEF LedgerInv
      <4>4. \A e, f \in effects' : e.operation = f.operation =>
              /\ Ledger(e.operation) /\ e.key = f.key => e = f
              /\ ~ Ledger(e.operation) /\ e.subject = f.subject => e = f
        BY <2>2, <4>1 DEF LedgerInv
      <4> QED BY <4>2, <4>3, <4>4 DEF LedgerInv
    <3> QED BY <3>1, <3>2
  <2>4. Succeeds(r, settled, performed) => r \in effects'
    BY <1>2, <2>1 DEF Succeeds
  <2> QED BY <2>1, <2>2, <2>3, <2>4
<1>3. CASE Ledger(r.operation) /\ Claimed(r) # {}
  <2>1. UNCHANGED <<claims, effects>>
    BY <1>3 DEF Arrives, Ledger
  <2>2. LedgerInv'
    BY <2>1 DEF LedgerInv, Claimed
  <2>3. Succeeds(r, settled, performed) =>
          \E e \in effects : e.operation = r.operation /\ e.subject = r.subject /\ e.key = r.key
    <3>1. SUFFICES ASSUME Succeeds(r, settled, performed)
                   PROVE  \E e \in effects : e.operation = r.operation /\ e.subject = r.subject /\ e.key = r.key
      OBVIOUS
    <3>2. PICK c \in Claimed(r) : c.subject = r.subject /\ c.settled
      BY <1>3, <3>1 DEF Succeeds, Ledger
    <3> QED BY <3>2 DEF LedgerInv, Claimed
  <2> QED BY <2>1, <2>2, <2>3
<1>4. CASE Ledger(r.operation) /\ Claimed(r) = {}
  <2>. DEFINE c0 == [operation |-> r.operation, key |-> r.key, subject |-> r.subject, settled |-> settled]
  <2>1. /\ settled => performed
        /\ claims' = claims \cup {c0} /\ effects' = IF performed THEN effects \cup {r} ELSE effects
    BY <1>4 DEF Arrives, Ledger
  <2>2. c0.operation = r.operation /\ c0.key = r.key /\ c0.subject = r.subject /\ c0.settled = settled
    OBVIOUS
  <2>. HIDE DEF c0
  <2>3. \A e \in effects : ~ (e.operation = r.operation /\ e.key = r.key)
    BY <1>4 DEF LedgerInv, Claimed
  <2>4. \A e \in effects' : Ledger(e.operation) => Claimed(e)' # {}
    <3>1. ASSUME NEW e \in effects', Ledger(e.operation)
          PROVE  \E c \in claims' : c.operation = e.operation /\ c.key = e.key
      <4>1. CASE e \in effects
        BY <2>1, <3>1, <4>1 DEF LedgerInv, Claimed
      <4>2. CASE e = r
        BY <2>1, <2>2, <4>2
      <4> QED BY <2>1, <4>1, <4>2
    <3> QED BY <3>1 DEF Claimed
  <2>5. \A c \in claims' : c.settled =>
          \E e \in effects' : e.operation = c.operation /\ e.key = c.key /\ e.subject = c.subject
    BY <2>1, <2>2 DEF LedgerInv
  <2>6. \A e, f \in effects' : e.operation = f.operation =>
          /\ Ledger(e.operation) /\ e.key = f.key => e = f
          /\ ~ Ledger(e.operation) /\ e.subject = f.subject => e = f
    BY <1>4, <2>1, <2>3 DEF LedgerInv
  <2>7. LedgerInv'
    BY <2>4, <2>5, <2>6 DEF LedgerInv
  <2>8. Succeeds(r, settled, performed) => r \in effects'
    BY <1>4, <2>1 DEF Succeeds, Ledger
  <2> QED BY <2>1, <2>7, <2>8
<1> QED BY <1>1, <1>2, <1>3, <1>4 DEF Ledger
LEMMA AppendNext ==
  ASSUME NEW n \in Nat \ {0}
  PROVE  Append([i \in 1 .. n - 1 |-> i], n) = [i \in 1 .. n |-> i]
OBVIOUS

(* A visit that has begun; a sequence that may be empty bounds its index. *)
LEMMA Running ==
  ASSUME VisitInv, visit.state # "none"
  PROVE  /\ visit.batch \in Batches /\ visit.execution # 0 /\ visit.index <= Len(visit.batch) + 1
         /\ Len(visit.batch) \in Nat /\ visit.index \in Nat \ {0}
BY NodeConstants DEF VisitInv, Visits, NoVisit

LEMMA FailStands ==
  ASSUME VisitInv, Taking, Fail, longIds' = longIds
  PROVE  VisitInv' /\ SameVisit /\ visit'.index = visit.index
<1>. DEFINE next == [visit EXCEPT !.state = "failed"]
<1>1. visit \in Visits /\ visit.state = "running"
  BY DEF VisitInv, Taking
<1>2. next \in Visits
  BY <1>1 DEF Visits
<1>3. /\ next.state = "failed" /\ next.index = visit.index /\ next.batch = visit.batch
      /\ next.input = visit.input /\ next.execution = visit.execution /\ next.loop = visit.loop
  BY <1>1 DEF Visits
<1>4. visit' = next /\ output' = << >>
  BY DEF Fail
<1>. HIDE DEF next
<1>5. VisitInv'
  BY <1>1, <1>2, <1>3, <1>4, Running DEF VisitInv
<1> QED BY <1>3, <1>4, <1>5 DEF SameVisit

LEMMA AnswerStands ==
  ASSUME VisitInv, Taking, ItemAnswered, longIds' = longIds
  PROVE  VisitInv' /\ SameVisit /\ visit'.index = visit.index + 1
<1>. DEFINE next == [visit EXCEPT !.index = @ + 1]
<1>1. visit \in Visits /\ visit.state = "running" /\ visit.index <= Len(visit.batch)
  BY DEF VisitInv, Taking
<1>2. visit.index \in Nat \ {0}
  BY <1>1 DEF Visits
<1>3. next \in Visits
  BY <1>1, <1>2 DEF Visits
<1>4. /\ next.state = "running" /\ next.index = visit.index + 1 /\ next.batch = visit.batch
      /\ next.input = visit.input /\ next.execution = visit.execution /\ next.loop = visit.loop
  BY <1>1 DEF Visits
<1>5. visit' = next /\ output' = Append(output, visit.index)
  BY DEF ItemAnswered
<1>. HIDE DEF next
<1>6. output' = [i \in 1 .. next.index - 1 |-> i]
  <2>1. output = [i \in 1 .. visit.index - 1 |-> i]
    BY <1>1 DEF VisitInv
  <2>2. next.index - 1 = visit.index
    BY <1>2, <1>4
  <2> QED BY <1>2, <1>5, <2>1, <2>2, AppendNext
<1>7. next.batch \in Batches /\ next.execution # 0 /\ next.index <= Len(next.batch) + 1
  BY <1>1, <1>2, <1>4, Running
<1>8. VisitInv'
  BY <1>3, <1>4, <1>5, <1>6, <1>7 DEF VisitInv
<1> QED BY <1>4, <1>5, <1>8 DEF SameVisit

(* The items that had been done in this visit still are. *)
LEMMA DoneStand ==
  ASSUME NodeInv, SameVisit, effects \subseteq effects', NEW n, n = visit.index,
         visit'.index = n \/ (visit'.index = n + 1 /\ Did(n)')
  PROVE  \A i \in 1 .. visit'.index - 1 : Did(i)'
<1>1. \A i \in 1 .. visit.index - 1 : Did(i)'
  BY DidGrows DEF NodeInv
<1>2. n \in Nat \ {0}
  BY DEF NodeInv, VisitInv, Visits
<1>3. \A i \in 1 .. n : i \in 1 .. n - 1 \/ i = n
  BY <1>2
<1> QED BY <1>1, <1>2, <1>3

LEMMA TakeItemKeeps ==
  ASSUME NodeInv, NEW settled \in BOOLEAN, NEW performed \in BOOLEAN, NEW heard \in BOOLEAN,
         TakeItem(settled, performed, heard)
  PROVE  NodeInv'
<1>. DEFINE r == ItemRequest(visit.index)
<1>1. Taking /\ Arrives(r, settled, performed) /\ longIds' = longIds /\ late' = late
  BY DEF TakeItem
<1>2. /\ LedgerInv' /\ effects \subseteq effects' /\ effects' \subseteq effects \cup {r}
      /\ Succeeds(r, settled, performed) /\ NodeOperations[r.operation].repeated # "harmless" =>
           \E e \in effects' : e.operation = r.operation /\ e.subject = r.subject /\ (Ledger(r.operation) => e.key = r.key)
  BY <1>1, ArrivalKeeps DEF NodeInv
<1>. PICK n : n = visit.index
  OBVIOUS
<1>3. VisitInv' /\ SameVisit /\ (visit'.index = n \/ (visit'.index = n + 1 /\ Did(n)'))
  <2>1. CASE heard /\ Succeeds(r, settled, performed)
    <3>1. VisitInv' /\ SameVisit /\ visit'.index = visit.index + 1
      BY <1>1, <2>1, AnswerStands DEF TakeItem, NodeInv
    <3>2. ItemRequest(n)' = r
      BY <3>1 DEF SameVisit, ItemRequest, ItemKey
    <3>3. Did(n)'
      BY <1>2, <2>1, <3>2 DEF Did, Ledger
    <3> QED BY <3>1, <3>3
  <2>2. CASE ~ (heard /\ Succeeds(r, settled, performed))
    BY <1>1, <2>2, FailStands DEF TakeItem, NodeInv
  <2> QED BY <2>1, <2>2
<1>4. \A i \in 1 .. visit'.index - 1 : Did(i)'
  BY <1>2, <1>3, DoneStand
<1>5. RequestsInv'
  <2>1. Fitting(r) /\ Alike(r, r) /\ \A q \in Sent : Alike(q, r) /\ Alike(r, q)
    BY <1>1, CurrentRequest
  <2>2. Sent' \subseteq Sent \cup {r}
    BY <1>1, <1>2 DEF Sent
  <2>. HIDE DEF r
  <2> QED BY <1>2, <1>3, <2>1, <2>2, RequestsStand
<1> QED BY <1>2, <1>3, <1>4, <1>5 DEF NodeInv
LEMMA LedgerStands ==
  ASSUME LedgerInv, UNCHANGED <<claims, effects>>
  PROVE  LedgerInv'
BY DEF LedgerInv, Claimed, Ledger

(* The item is refused, or given up while its request is on its way. *)
LEMMA GiveUpKeeps ==
  ASSUME NodeInv, RefuseItem \/ LoseItem
  PROVE  NodeInv'
<1>. DEFINE r == ItemRequest(visit.index)
<1>1. Taking /\ Fail /\ UNCHANGED <<longIds, claims, effects>> /\ late' \subseteq late \cup {r}
  BY DEF RefuseItem, LoseItem
<1>2. VisitInv' /\ SameVisit /\ visit'.index = visit.index
  BY <1>1, FailStands DEF NodeInv
<1>3. \A i \in 1 .. visit'.index - 1 : Did(i)'
  BY <1>1, <1>2, DoneStand
<1>4. RequestsInv'
  <2>1. Fitting(r) /\ Alike(r, r) /\ \A q \in Sent : Alike(q, r) /\ Alike(r, q)
    BY <1>1, CurrentRequest
  <2>2. Sent' \subseteq Sent \cup {r}
    BY <1>1 DEF Sent
  <2>. HIDE DEF r
  <2> QED BY <1>1, <1>2, <2>1, <2>2, RequestsStand
<1>5. LedgerInv'
  BY <1>1, LedgerStands DEF NodeInv
<1> QED BY <1>2, <1>3, <1>4, <1>5 DEF NodeInv

LEMMA ArriveLateKeeps ==
  ASSUME NodeInv, NEW settled \in BOOLEAN, NEW performed \in BOOLEAN, NEW r \in late, ArriveLate(r, settled, performed)
  PROVE  NodeInv'
<1>1. Arrives(r, settled, performed) /\ late' = late \ {r} /\ UNCHANGED <<longIds, visit, output>>
  BY DEF ArriveLate
<1>2. LedgerInv' /\ effects \subseteq effects' /\ effects' \subseteq effects \cup {r}
  BY <1>1, ArrivalKeeps DEF NodeInv
<1>3. VisitInv' /\ SameVisit /\ visit'.index = visit.index
  BY <1>1 DEF NodeInv, VisitInv, SameVisit
<1>4. \A i \in 1 .. visit'.index - 1 : Did(i)'
  BY <1>2, <1>3, DoneStand
<1>5. RequestsInv'
  <2>1. Sent' \subseteq Sent
    BY <1>1, <1>2 DEF Sent
  <2>2. Fitting(r) /\ Alike(r, r) /\ \A q \in Sent : Alike(q, r) /\ Alike(r, q)
    BY DEF NodeInv, RequestsInv, Fitting, Sent
  <2> QED BY <1>2, <1>3, <2>1, <2>2, RequestsStand
<1> QED BY <1>2, <1>3, <1>4, <1>5 DEF NodeInv

LEMMA FinishKeeps ==
  ASSUME NodeInv, Finish
  PROVE  NodeInv'
<1>. DEFINE next == [visit EXCEPT !.state = "done"]
<1>1. visit \in Visits /\ visit.state = "running" /\ visit.index > Len(visit.batch)
  BY DEF NodeInv, VisitInv, Finish
<1>2. next \in Visits
  BY <1>1 DEF Visits
<1>3. /\ next.state = "done" /\ next.index = visit.index /\ next.batch = visit.batch
      /\ next.input = visit.input /\ next.execution = visit.execution /\ next.loop = visit.loop
  BY <1>1 DEF Visits
<1>4. visit' = next /\ UNCHANGED <<longIds, output, claims, effects, late>>
  BY DEF Finish
<1>. HIDE DEF next
<1>5. VisitInv'
  <2>1. next.index = Len(next.batch) + 1
    BY <1>1, <1>3, Running DEF NodeInv
  <2> QED BY <1>1, <1>2, <1>3, <1>4, <2>1, Running DEF NodeInv, VisitInv
<1>6. SameVisit /\ visit'.index = visit.index
  BY <1>3, <1>4 DEF SameVisit
<1>7. \A i \in 1 .. visit'.index - 1 : Did(i)'
  BY <1>4, <1>6, DoneStand
<1>8. RequestsInv'
  <2>1. Sent' = Sent
    BY <1>4 DEF Sent
  <2>2. ASSUME NEW r \in Sent
        PROVE  Fitting(r) /\ Alike(r, r) /\ \A q \in Sent : Alike(q, r) /\ Alike(r, q)
    BY DEF NodeInv, RequestsInv, Fitting
  <2>3. CASE Sent = {}
    BY <2>1, <2>3 DEF RequestsInv
  <2>4. CASE Sent # {}
    <3>1. PICK r \in Sent : TRUE
      BY <2>4
    <3> QED BY <1>4, <1>6, <2>1, <2>2, <3>1, RequestsStand
  <2> QED BY <2>3, <2>4
<1>9. LedgerInv'
  BY <1>4, LedgerStands DEF NodeInv
<1> QED BY <1>5, <1>7, <1>8, <1>9 DEF NodeInv

(* A visit begins with another input, or with the same one again. *)
LEMMA VisitBegins ==
  ASSUME NodeInv, NEW input \in Nat, NEW execution \in 1 .. MaxExecutions, NEW loop \in 0 .. MaxLoops,
         NEW try \in 0 .. MaxTries, NEW batch \in Batches,
         BeginVisit(input, execution, loop, try, batch),
         input = visit.input + 1 \/ (input = visit.input /\ batch = visit.batch),
         \/ execution = visit.execution + 1
         \/ execution = visit.execution /\ loop = visit.loop + 1
         \/ execution = visit.execution /\ loop = visit.loop /\ input = visit.input /\ batch = visit.batch
  PROVE  NodeInv'
<1>. DEFINE next == [state |-> "running", input |-> input, execution |-> execution, loop |-> loop, try |-> try,
                     index |-> 1, batch |-> batch]
<1>1. visit \in Visits
  BY DEF NodeInv, VisitInv
<1>2. next \in Visits
  BY NodeConstants DEF Visits
<1>3. /\ next.state = "running" /\ next.index = 1 /\ next.batch = batch
      /\ next.input = input /\ next.execution = execution /\ next.loop = loop
  OBVIOUS
<1>4. visit' = next /\ output' = << >> /\ UNCHANGED <<longIds, claims, effects, late>>
  BY DEF BeginVisit
<1>. HIDE DEF next
<1>5. VisitInv'
  <2>1. Len(batch) \in Nat
    BY NodeConstants
  <2>2. [i \in 1 .. 1 - 1 |-> i] = << >>
    OBVIOUS
  <2> QED BY <1>2, <1>3, <1>4, <2>1, <2>2 DEF NodeInv, VisitInv
<1>6. Sent' = Sent
  BY <1>4 DEF Sent
<1>7. visit.input \in Nat /\ visit.execution \in Nat /\ visit.loop \in Nat
  BY <1>1, NodeConstants DEF Visits
<1>8. ASSUME NEW r \in Sent
      PROVE  Fitting(r)'
  <2>1. Fitting(r)
    BY DEF NodeInv, RequestsInv, Fitting
  <2>2. OfInput(r)'
    <3>1. visit'.input = input /\ visit'.batch = batch /\ r.by.input \in Nat /\ r.by.input <= visit.input
      BY <1>3, <1>4, <2>1 DEF Fitting, OfInput
    <3>2. CASE input = visit.input + 1
      <4>1. r.by.input <= input /\ r.by.input # input
        BY <1>7, <3>1, <3>2
      <4> QED BY <3>1, <4>1 DEF OfInput
    <3>3. CASE input = visit.input /\ batch = visit.batch
      <4>1. visit'.input = visit.input /\ visit'.batch = visit.batch
        BY <3>1, <3>3
      <4>2. OfInput(r)
        BY <2>1 DEF Fitting
      <4> QED BY <4>1, <4>2 DEF OfInput
    <3> QED BY <3>2, <3>3
  <2>3. CASE execution = visit.execution /\ loop = visit.loop /\ input = visit.input /\ batch = visit.batch
    <3>1. SameVisit
      BY <1>3, <1>4, <2>3 DEF SameVisit
    <3>2. r.by.execution = visit.execution /\ r.by.loop = visit.loop => \A i \in 1 .. r.by.index - 1 : Did(i)'
      BY <1>4, <2>1, <3>1, DidGrows DEF Fitting, Sequenced
    <3>3. Sequenced(r)'
      BY <2>1, <3>1, <3>2 DEF Fitting, Sequenced, SameVisit
    <3> QED BY <2>1, <2>2, <3>3 DEF Fitting
  <2>4. CASE execution = visit.execution + 1 \/ (execution = visit.execution /\ loop = visit.loop + 1)
    <3>1. r.by.execution \in Nat /\ r.by.loop \in Nat
      BY <1>7, <2>1 DEF Fitting, Sequenced
    <3>2. ~ (r.by.execution = execution /\ r.by.loop = loop)
      BY <1>7, <2>1, <2>4, <3>1 DEF Fitting, Sequenced
    <3>3. r.by.execution \in 1 .. execution /\ (r.by.execution = execution => r.by.loop <= loop)
      BY <1>7, <2>1, <2>4, <3>1 DEF Fitting, Sequenced
    <3>4. Sequenced(r)'
      BY <1>3, <1>4, <3>2, <3>3 DEF Sequenced
    <3> QED BY <2>1, <2>2, <3>4 DEF Fitting
  <2> QED BY <2>3, <2>4
<1>9. RequestsInv'
  <2>1. \A q, r \in Sent : Alike(q, r)
    BY DEF NodeInv, RequestsInv
  <2> QED BY <1>6, <1>8, <2>1 DEF RequestsInv, Fitting, Alike
<1>10. \A i \in 1 .. visit'.index - 1 : Did(i)'
  BY <1>3, <1>4
<1>11. LedgerInv'
  BY <1>4, LedgerStands DEF NodeInv
<1> QED BY <1>5, <1>9, <1>10, <1>11 DEF NodeInv

LEMMA VisitKeeps ==
  ASSUME NodeInv, TryAgain \/ RerunExecution \/ \E batch \in Batches : Trigger(batch) \/ LoopAgain(batch)
  PROVE  NodeInv'
<1>1. /\ visit \in Visits /\ visit.input \in Nat /\ visit.execution \in 0 .. MaxExecutions /\ visit.loop \in 0 .. MaxLoops
      /\ visit.try \in 0 .. MaxTries
  BY DEF NodeInv, VisitInv, Visits
<1>2. visit.state # "none" => visit.batch \in Batches /\ visit.execution \in 1 .. MaxExecutions
  BY <1>1, Running, NodeConstants DEF NodeInv
<1>3. ASSUME NEW batch \in Batches, Trigger(batch)
      PROVE  NodeInv'
  <2>1. /\ visit.execution + 1 \in 1 .. MaxExecutions /\ visit.input + 1 \in Nat /\ 1 \in 0 .. MaxLoops /\ 1 \in 0 .. MaxTries
        /\ BeginVisit(visit.input + 1, visit.execution + 1, 1, 1, batch)
    BY <1>1, <1>3, NodeConstants DEF Trigger
  <2> QED BY <2>1, VisitBegins
<1>4. ASSUME NEW batch \in Batches, LoopAgain(batch)
      PROVE  NodeInv'
  <2>1. /\ visit.execution \in 1 .. MaxExecutions /\ visit.input + 1 \in Nat /\ visit.loop + 1 \in 0 .. MaxLoops
        /\ 1 \in 0 .. MaxTries /\ BeginVisit(visit.input + 1, visit.execution, visit.loop + 1, 1, batch)
    <3>1. visit.state = "done" /\ visit.loop < MaxLoops /\ BeginVisit(visit.input + 1, visit.execution, visit.loop + 1, 1, batch)
      BY <1>4 DEF LoopAgain
    <3>2. visit.execution \in 1 .. MaxExecutions
      BY <1>2, <3>1
    <3>3. visit.input + 1 \in Nat /\ visit.loop + 1 \in 0 .. MaxLoops /\ 1 \in 0 .. MaxTries
      BY <1>1, <3>1, NodeConstants
    <3> QED BY <3>1, <3>2, <3>3
  <2> QED BY <2>1, VisitBegins
<1>5. CASE TryAgain
  <2>1. /\ visit.execution \in 1 .. MaxExecutions /\ visit.try + 1 \in 0 .. MaxTries /\ visit.batch \in Batches
        /\ BeginVisit(visit.input, visit.execution, visit.loop, visit.try + 1, visit.batch)
    <3>1. visit.state = "failed" /\ visit.try < MaxTries /\ BeginVisit(visit.input, visit.execution, visit.loop, visit.try + 1, visit.batch)
      BY <1>5 DEF TryAgain
    <3>2. visit.execution \in 1 .. MaxExecutions /\ visit.batch \in Batches
      BY <1>2, <3>1
    <3>3. visit.try + 1 \in 0 .. MaxTries
      BY <1>1, <3>1, NodeConstants
    <3> QED BY <3>1, <3>2, <3>3
  <2> QED BY <1>1, <2>1, VisitBegins
<1>6. CASE RerunExecution
  <2>1. /\ visit.execution + 1 \in 1 .. MaxExecutions /\ visit.batch \in Batches /\ 1 \in 0 .. MaxLoops /\ 1 \in 0 .. MaxTries
        /\ BeginVisit(visit.input, visit.execution + 1, 1, 1, visit.batch)
    BY <1>1, <1>2, <1>6, NodeConstants DEF RerunExecution
  <2> QED BY <1>1, <2>1, VisitBegins
<1> QED BY <1>3, <1>4, <1>5, <1>6

LEMMA NodeStarts == NodeInit => NodeInv
<1>. SUFFICES ASSUME NodeInit
              PROVE  NodeInv
  OBVIOUS
<1>1. NoVisit \in Visits /\ NoVisit.state = "none" /\ NoVisit.index = 1
  BY NodeConstants DEF NoVisit, Visits
<1>2. VisitInv
  BY <1>1 DEF NodeInit, VisitInv
<1>3. RequestsInv /\ LedgerInv
  BY DEF NodeInit, RequestsInv, LedgerInv, Sent
<1> QED BY <1>1, <1>2, <1>3 DEF NodeInit, NodeInv

LEMMA NodeKeeps == NodeInv /\ [NodeNext]_nodeVars => NodeInv'
<1>. SUFFICES ASSUME NodeInv, [NodeNext]_nodeVars
              PROVE  NodeInv'
  OBVIOUS
<1>1. CASE TryAgain \/ RerunExecution \/ \E batch \in Batches : Trigger(batch) \/ LoopAgain(batch)
  BY <1>1, VisitKeeps
<1>2. CASE RefuseItem \/ LoseItem
  BY <1>2, GiveUpKeeps
<1>3. CASE Finish
  BY <1>3, FinishKeeps
<1>4. ASSUME NEW settled \in BOOLEAN, NEW performed \in BOOLEAN, NEW heard \in BOOLEAN,
             TakeItem(settled, performed, heard)
      PROVE  NodeInv'
  BY <1>4, TakeItemKeeps
<1>5. ASSUME NEW settled \in BOOLEAN, NEW performed \in BOOLEAN, NEW r \in late, ArriveLate(r, settled, performed)
      PROVE  NodeInv'
  BY <1>5, ArriveLateKeeps
<1>6. CASE UNCHANGED nodeVars
  BY <1>6 DEF nodeVars, NodeInv, VisitInv, Did, ItemRequest, ItemKey, RequestsInv, Sent, Sequenced, OfInput, LedgerInv, Claimed
<1> QED BY <1>1, <1>2, <1>3, <1>4, <1>5, <1>6 DEF NodeNext

(* Of two effects of an item, one is of another execution and its key      *)
(* follows the execution.                                                  *)
LEMMA EffectsOfAnItem ==
  ASSUME NodeInv, NEW e \in effects, NEW f \in effects, e # f, e.by.input = f.by.input, e.by.index = f.by.index
  PROVE  e.by.execution # f.by.execution /\ e.key[1] # 0
<1>1. Alike(e, f) /\ e.by.execution \in 1 .. visit.execution
  BY DEF NodeInv, RequestsInv, Sequenced, Sent
<1>2. e.operation = f.operation /\ e.subject = f.subject
  BY <1>1 DEF Alike
<1>3. e.key # f.key
  BY <1>2 DEF NodeInv, LedgerInv
<1>4. e.key = <<e.by.execution, e.by.index>> /\ f.key = <<f.by.execution, f.by.index>>
  BY <1>1, <1>3 DEF Alike
<1>5. visit.execution \in Nat
  BY NodeConstants DEF NodeInv, VisitInv, Visits
<1> QED BY <1>1, <1>3, <1>4, <1>5

(* execute() of the Codestra node, for any inputs, executions, loops and   *)
(* tries: an item takes effect once, what is put out has been done, and    *)
(* nothing is done out of order.                                           *)
THEOREM NodesAreTrue == NodeSpec => []NodeIsTrue
<1>1. NodeInv => NodeIsTrue
  <2>. SUFFICES ASSUME NodeInv
                PROVE  NodeIsTrue
    OBVIOUS
  <2>1. visit \in Visits /\ visit.index \in Nat \ {0}
    BY DEF NodeInv, VisitInv, Visits
  <2>2. NodeTypeOK
    BY <2>1, NodeConstants DEF NodeTypeOK, NodeInv, VisitInv, Visits
  <2>3. ItemsRunOnce
    BY EffectsOfAnItem DEF ItemsRunOnce
  <2>4. Len(output) \in 0 .. visit.index - 1 /\ (visit.state = "done" => Len(output) = Len(visit.batch))
    <3>1. CASE visit.state \in {"running", "done"}
      <4>1. output = [i \in 1 .. visit.index - 1 |-> i] /\ visit.index - 1 \in Nat
        BY <2>1, <3>1 DEF NodeInv, VisitInv
      <4>2. Len(output) = visit.index - 1
        BY <4>1
      <4>3. visit.state = "done" => visit.index = Len(visit.batch) + 1 /\ Len(visit.batch) \in Nat
        BY Running DEF NodeInv, VisitInv
      <4> QED BY <2>1, <4>2, <4>3
    <3>2. CASE visit.state \notin {"running", "done"}
      <4>1. output = << >>
        BY <3>2 DEF NodeInv, VisitInv
      <4> QED BY <2>1, <3>2, <4>1
    <3> QED BY <3>1, <3>2
  <2>5. \A i \in 1 .. Len(output) : Did(i)
    BY <2>1, <2>4 DEF NodeInv
  <2>6. OutputIsDone
    <3>1. ASSUME NEW i \in 1 .. Len(output), NodeOperations[ItemRequest(i).operation].repeated # "harmless"
          PROVE  \E e \in effects : /\ e.operation = ItemRequest(i).operation /\ e.subject = ItemRequest(i).subject
                                    /\ NodeOperations[ItemRequest(i).operation].repeated = "ledger" => e.key = ItemRequest(i).key
      BY <2>5, <3>1 DEF Did, Ledger
    <3> QED BY <2>4, <3>1, Zenon DEF OutputIsDone
  <2>7. DoneInOrder
    <3>1. ASSUME NEW e \in effects, e.by.execution = visit.execution, e.by.loop = visit.loop,
                 NEW i \in 1 .. e.by.index - 1, NodeOperations[ItemRequest(i).operation].repeated = "ledger"
          PROVE  \E f \in effects : /\ f.operation = ItemRequest(i).operation /\ f.key = ItemRequest(i).key
                                    /\ f.subject = ItemRequest(i).subject
      <4>1. Did(i)
        BY <3>1 DEF NodeInv, RequestsInv, Sequenced, Sent
      <4> QED BY <3>1, <4>1 DEF Did, Ledger
    <3> QED BY <3>1, Zenon DEF DoneInOrder
  <2> QED BY <2>2, <2>3, <2>6, <2>7 DEF NodeIsTrue
<1> QED BY <1>1, NodeStarts, NodeKeeps, PTL DEF NodeSpec

-----------------------------------------------------------------------------
(* The handoff of events to Svix. *)

Handing == [stage : {"idle", "resolving", "creating"}, command : Deliveries \cup {NoWork},
            application : Applications \cup {"none"}]

(* What a dispatcher has in hand is a command that is fit. *)
InHand(h) ==
  /\ h.stage = "idle" => h = Idling
  /\ h.stage # "idle" => h.command \in Deliveries
  /\ h.stage = "resolving" => h.application = "none"
  /\ h.stage = "creating" => h.application \in Applications

HandingInv ==
  /\ application \in Applications /\ moves \in 0 .. MaxMoves
  /\ handing \in [Dispatchers -> Handing]
  /\ \A d \in Dispatchers : InHand(handing[d])

(* The applications the tenant has been seen in are all that a message can *)
(* be in.                                                                  *)
SeenIn(places) ==
  /\ IsFiniteSet(places) /\ Cardinality(places) <= 1 + moves
  /\ application \in places
  /\ \A d \in Dispatchers : handing[d].stage = "creating" => handing[d].application \in places
  /\ \A m \in messages : \E a \in places, c \in Deliveries : m = [id |-> <<a, c.key>>, event |-> c.event]

MessagesInv == \E places \in SUBSET Applications : SeenIn(places)

(* An answer says what has become of the event. *)
Truthful(a) ==
  /\ a.ending = "receipt" => \E m \in messages : m.id = a.message /\ m.event = a.command.event
  /\ a.ending = "disabled" => ~ delivering
  /\ a.ending = "command" => a.command.flaw \in Flaws
  /\ a.ending = "messageId" => \E m \in messages : m.event = a.command.event

HandoffInv == HandingInv /\ MessagesInv /\ (\A a \in answers : Truthful(a))

-----------------------------------------------------------------------------
LEMMA HandoffConstants ==
  /\ MaxMoves \in Nat /\ NoWork \notin Deliveries
  /\ \A c1, c2 \in Deliveries : c1.key = c2.key => c1.event = c2.event
  /\ \A c1, c2 \in Deliveries : c1.event = c2.event => c1.key = c2.key
BY HandoffAssumption

LEMMA IdlingIsFine == Idling \in Handing /\ InHand(Idling) /\ Idling.stage = "idle"
BY DEF Idling, Handing, InHand

(* A dispatcher moves on: its command stays a command, and the application *)
(* it has resolved is one the tenant has been seen in.                     *)
LEMMA HandKeeps ==
  ASSUME HandingInv, NEW d \in Dispatchers, NEW h \in Handing, InHand(h),
         handing' = [handing EXCEPT ![d] = h], UNCHANGED <<application, moves>>
  PROVE  HandingInv'
<1>1. \A e \in Dispatchers : handing'[e] = IF e = d THEN h ELSE handing[e]
  BY DEF HandingInv
<1>2. \A e \in Dispatchers : InHand(handing'[e])
  BY <1>1 DEF HandingInv
<1> QED BY <1>2 DEF HandingInv

LEMMA PlacesKeep ==
  ASSUME HandingInv, MessagesInv, NEW d \in Dispatchers, NEW h \in Handing,
         h.stage = "creating" => h.application = application \/ h = handing[d],
         handing' = [handing EXCEPT ![d] = h], UNCHANGED <<application, moves, messages>>
  PROVE  MessagesInv'
<1>1. \A e \in Dispatchers : handing'[e] = IF e = d THEN h ELSE handing[e]
  BY DEF HandingInv
<1>2. PICK places \in SUBSET Applications : SeenIn(places)
  BY DEF MessagesInv
<1>3. \A e \in Dispatchers : handing'[e].stage = "creating" => handing'[e].application \in places
  BY <1>1, <1>2 DEF SeenIn
<1>4. SeenIn(places)'
  BY <1>2, <1>3 DEF SeenIn
<1> QED BY <1>4 DEF MessagesInv

(* Svix takes the message of an event, and of no other. *)
LEMMA AcceptKeeps ==
  ASSUME HandingInv, MessagesInv, NEW d \in Dispatchers, handing[d].stage = "creating", Accept(d),
         handing' = [handing EXCEPT ![d] = Idling], UNCHANGED <<application, moves>>
  PROVE  /\ MessagesInv' /\ messages \subseteq messages'
         /\ \E m \in messages' : m.id = MessageOf(d) /\ m.event = handing[d].command.event
<1>. DEFINE c0 == handing[d].command
            a0 == handing[d].application
            m0 == [id |-> <<a0, c0.key>>, event |-> c0.event]
<1>1. PICK places \in SUBSET Applications : SeenIn(places)
  BY DEF MessagesInv
<1>2. c0 \in Deliveries /\ a0 \in places
  BY <1>1 DEF HandingInv, InHand, SeenIn
<1>3. messages \subseteq messages' /\ messages' \subseteq messages \cup {m0}
  BY DEF Accept, MessageOf
<1>4. \A e \in Dispatchers : handing'[e] = IF e = d THEN Idling ELSE handing[e]
  BY DEF HandingInv
<1>5. \A e \in Dispatchers : handing'[e].stage = "creating" => handing'[e].application \in places
  BY <1>1, <1>4, IdlingIsFine DEF SeenIn
<1>6. \A m \in messages' : \E a \in places, c \in Deliveries : m = [id |-> <<a, c.key>>, event |-> c.event]
  BY <1>1, <1>2, <1>3 DEF SeenIn
<1>7. SeenIn(places)'
  BY <1>1, <1>5, <1>6 DEF SeenIn
<1>8. \E m \in messages' : m.id = MessageOf(d) /\ m.event = c0.event
  <2>1. CASE \E m \in messages : m.id = MessageOf(d)
    <3>1. PICK m \in messages : m.id = <<a0, c0.key>>
      BY <2>1 DEF MessageOf
    <3>2. PICK a \in places, c \in Deliveries : m = [id |-> <<a, c.key>>, event |-> c.event]
      BY <1>1 DEF SeenIn
    <3>3. c.key = c0.key
      BY <3>1, <3>2
    <3>4. c.event = c0.event
      BY <1>2, <3>3, HandoffConstants
    <3> QED BY <1>3, <3>1, <3>2, <3>4 DEF MessageOf
  <2>2. CASE ~ \E m \in messages : m.id = MessageOf(d)
    <3>1. m0 \in messages'
      BY <2>2 DEF Accept, MessageOf
    <3> QED BY <3>1 DEF MessageOf
  <2> QED BY <2>1, <2>2
<1> QED BY <1>3, <1>7, <1>8 DEF MessagesInv

(* What has been said stays true, for messages stay. *)
LEMMA AnswersStand ==
  ASSUME \A a \in answers : Truthful(a), messages \subseteq messages', delivering' = delivering,
         NEW b, answers' \subseteq answers \cup {b}, b \in answers' => Truthful(b)'
  PROVE  (\A a \in answers : Truthful(a))'
<1>1. ASSUME NEW a \in answers'
      PROVE  Truthful(a)'
  <2>1. CASE a = b
    BY <1>1, <2>1
  <2>2. CASE a # b
    <3>1. Truthful(a)
      BY <2>2
    <3> QED BY <3>1 DEF Truthful
  <2> QED BY <2>1, <2>2
<1> QED BY <1>1
(* An answer that is given without Svix having been asked. *)
LEMMA ConcludeKeeps ==
  ASSUME HandoffInv, NEW d \in Dispatchers, NEW c, NEW ending, Conclude(d, c, ending, NoMessage),
         UNCHANGED <<delivering, application, moves, messages>>,
         ending \in {"disabled", "command", "applicationId", "error"},
         ending = "disabled" => ~ delivering, ending = "command" => c.flaw \in Flaws
  PROVE  HandoffInv'
<1>. USE DEF HandoffInv
<1>. DEFINE b == [command |-> c, ending |-> ending, message |-> NoMessage]
<1>1. handing' = [handing EXCEPT ![d] = Idling] /\ answers' = answers \cup {b}
  BY DEF Conclude
<1>2. HandingInv'
  BY <1>1, IdlingIsFine, HandKeeps
<1>3. MessagesInv'
  BY <1>1, IdlingIsFine, PlacesKeep
<1>4. Truthful(b)'
  BY DEF Truthful
<1>. HIDE DEF b
<1>5. (\A a \in answers : Truthful(a))'
  BY <1>1, <1>4, AnswersStand
<1> QED BY <1>2, <1>3, <1>5

LEMMA DeliverKeeps ==
  ASSUME HandoffInv, NEW d \in Dispatchers, NEW c \in Deliveries, Deliver(d, c)
  PROVE  HandoffInv'
<1>0. UNCHANGED <<delivering, application, moves, messages>>
  BY DEF Deliver
<1>1. CASE ~ delivering
  BY <1>0, <1>1, ConcludeKeeps DEF Deliver
<1>2. CASE delivering /\ c.flaw \in Flaws
  BY <1>0, <1>2, ConcludeKeeps DEF Deliver
<1>3. CASE delivering /\ c.flaw \notin Flaws
  <2>. DEFINE h == [stage |-> "resolving", command |-> c, application |-> "none"]
  <2>1. handing' = [handing EXCEPT ![d] = h] /\ answers' = answers
    BY <1>3 DEF Deliver, Hand
  <2>2. h \in Handing /\ InHand(h) /\ h.stage # "creating"
    BY DEF Handing, InHand
  <2>. HIDE DEF h
  <2>3. HandingInv'
    BY <1>0, <2>1, <2>2, HandKeeps DEF HandoffInv
  <2>4. MessagesInv'
    BY <1>0, <2>1, <2>2, PlacesKeep DEF HandoffInv
  <2>5. (\A a \in answers : Truthful(a))'
    BY <1>0, <2>1 DEF HandoffInv, Truthful
  <2> QED BY <2>3, <2>4, <2>5 DEF HandoffInv
<1> QED BY <1>1, <1>2, <1>3

LEMMA ResolveKeeps ==
  ASSUME HandoffInv, NEW d \in Dispatchers, NEW outcome \in {"resolved", "blank", "failed"}, Resolve(d, outcome)
  PROVE  HandoffInv'
<1>0. UNCHANGED <<delivering, application, moves, messages>>
  BY DEF Resolve
<1>1. CASE outcome = "blank"
  BY <1>0, <1>1, ConcludeKeeps DEF Resolve
<1>2. CASE outcome = "failed"
  BY <1>0, <1>2, ConcludeKeeps DEF Resolve
<1>3. CASE outcome = "resolved"
  <2>. DEFINE h == [stage |-> "creating", command |-> handing[d].command, application |-> application]
  <2>1. handing' = [handing EXCEPT ![d] = h] /\ answers' = answers
    BY <1>3 DEF Resolve, Hand
  <2>2. handing[d].command \in Deliveries /\ application \in Applications
    BY DEF HandoffInv, HandingInv, InHand, Resolve
  <2>3. h \in Handing /\ InHand(h) /\ h.application = application
    BY <2>2 DEF Handing, InHand
  <2>. HIDE DEF h
  <2>4. HandingInv'
    BY <1>0, <2>1, <2>3, HandKeeps DEF HandoffInv
  <2>5. MessagesInv'
    BY <1>0, <2>1, <2>3, PlacesKeep DEF HandoffInv
  <2>6. (\A a \in answers : Truthful(a))'
    BY <1>0, <2>1 DEF HandoffInv, Truthful
  <2> QED BY <2>4, <2>5, <2>6 DEF HandoffInv
<1> QED BY <1>1, <1>2, <1>3

(* An answer given when the message may be at Svix. *)
LEMMA CreatedKeeps ==
  ASSUME HandoffInv, NEW d \in Dispatchers, handing[d].stage = "creating",
         Accept(d) \/ UNCHANGED messages, handing' = [handing EXCEPT ![d] = Idling],
         UNCHANGED <<delivering, application, moves>>,
         NEW b, answers' \subseteq answers \cup {b},
         b \in answers' =>
           \/ b.ending = "SVIX_HANDOFF_FAILED"
           \/ /\ Accept(d) /\ b.command = handing[d].command /\ b.ending \in {"receipt", "messageId"}
              /\ b.ending = "receipt" => b.message = MessageOf(d)
  PROVE  HandoffInv'
<1>1. HandingInv'
  BY IdlingIsFine, HandKeeps DEF HandoffInv
<1>2. CASE Accept(d)
  <2>1. /\ MessagesInv' /\ messages \subseteq messages'
        /\ \E m \in messages' : m.id = MessageOf(d) /\ m.event = handing[d].command.event
    BY <1>2, AcceptKeeps DEF HandoffInv
  <2>2. b \in answers' => Truthful(b)'
    BY <2>1 DEF Truthful
  <2>3. (\A a \in answers : Truthful(a))'
    BY <2>1, <2>2, AnswersStand DEF HandoffInv
  <2> QED BY <1>1, <2>1, <2>3 DEF HandoffInv
<1>3. CASE ~ Accept(d) /\ UNCHANGED messages
  <2>1. MessagesInv'
    BY <1>3, IdlingIsFine, PlacesKeep DEF HandoffInv
  <2>2. b \in answers' => Truthful(b)'
    BY <1>3 DEF Truthful
  <2>3. (\A a \in answers : Truthful(a))'
    BY <1>3, <2>2, AnswersStand DEF HandoffInv
  <2> QED BY <1>1, <2>1, <2>3 DEF HandoffInv
<1> QED BY <1>2, <1>3

LEMMA CreateKeeps ==
  ASSUME HandoffInv, NEW d \in Dispatchers, NEW b \in BOOLEAN, Create(d, b) \/ CreateFails(d, b)
  PROVE  HandoffInv'
<1>. DEFINE said(ending, message) == [command |-> handing[d].command, ending |-> ending, message |-> message]
<1>1. CASE Create(d, b)
  <2>1. PICK a : /\ answers' = answers \cup {a}
                 /\ a.command = handing[d].command /\ a.ending \in {"receipt", "messageId"}
                 /\ a.ending = "receipt" => a.message = MessageOf(d)
    <3>1. CASE b
      <4>1. answers' = answers \cup {said("receipt", MessageOf(d))}
        BY <1>1, <3>1 DEF Create, Conclude
      <4>2. said("receipt", MessageOf(d)).command = handing[d].command /\ said("receipt", MessageOf(d)).ending = "receipt"
            /\ said("receipt", MessageOf(d)).message = MessageOf(d)
        OBVIOUS
      <4>. HIDE DEF said
      <4> QED BY <4>1, <4>2
    <3>2. CASE ~ b
      <4>1. answers' = answers \cup {said("messageId", NoMessage)}
        BY <1>1, <3>2 DEF Create, Conclude
      <4>2. said("messageId", NoMessage).command = handing[d].command /\ said("messageId", NoMessage).ending = "messageId"
            /\ said("messageId", NoMessage).message = NoMessage
        OBVIOUS
      <4>. HIDE DEF said
      <4> QED BY <4>1, <4>2
    <3> QED BY <3>1, <3>2
  <2>2. handing[d].stage = "creating" /\ Accept(d) /\ UNCHANGED <<delivering, application, moves>>
    BY <1>1 DEF Create
  <2>3. handing' = [handing EXCEPT ![d] = Idling]
    BY <1>1 DEF Create, Conclude
  <2> QED BY <2>1, <2>2, <2>3, CreatedKeeps
<1>2. CASE CreateFails(d, b)
  <2>1. /\ handing[d].stage = "creating" /\ (Accept(d) \/ UNCHANGED messages)
        /\ UNCHANGED <<delivering, application, moves>>
    BY <1>2 DEF CreateFails
  <2>2. /\ handing' = [handing EXCEPT ![d] = Idling]
        /\ answers' = answers \cup {said("SVIX_HANDOFF_FAILED", NoMessage)}
    BY <1>2 DEF CreateFails, Conclude
  <2>3. said("SVIX_HANDOFF_FAILED", NoMessage).ending = "SVIX_HANDOFF_FAILED"
    OBVIOUS
  <2>. HIDE DEF said
  <2> QED BY <2>1, <2>2, <2>3, CreatedKeeps
<1> QED BY <1>1, <1>2

LEMMA DispatcherCrashKeeps ==
  ASSUME HandoffInv, NEW d \in Dispatchers, NEW arrives \in BOOLEAN, DispatcherCrashes(d, arrives)
  PROVE  HandoffInv'
<1>1. /\ handing' = [handing EXCEPT ![d] = Idling] /\ UNCHANGED <<delivering, application, moves, answers>>
  BY DEF DispatcherCrashes
<1>2. CASE handing[d].stage = "creating"
  <2>1. Accept(d) \/ UNCHANGED messages
    BY DEF DispatcherCrashes
  <2>. DEFINE b == [command |-> NoWork, ending |-> "SVIX_HANDOFF_FAILED", message |-> NoMessage]
  <2>2. answers' \subseteq answers \cup {b} /\ b.ending = "SVIX_HANDOFF_FAILED"
    BY <1>1
  <2>. HIDE DEF b
  <2> QED BY <1>1, <1>2, <2>1, <2>2, CreatedKeeps
<1>3. CASE handing[d].stage # "creating"
  <2>1. UNCHANGED messages
    BY <1>3 DEF DispatcherCrashes
  <2>2. HandingInv' /\ MessagesInv'
    BY <1>1, <2>1, IdlingIsFine, HandKeeps, PlacesKeep DEF HandoffInv
  <2>3. (\A a \in answers : Truthful(a))'
    BY <1>1, <2>1 DEF HandoffInv, Truthful
  <2> QED BY <2>2, <2>3 DEF HandoffInv
<1> QED BY <1>2, <1>3

LEMMA MoveKeeps ==
  ASSUME HandoffInv, NEW app \in Applications, Move(app)
  PROVE  HandoffInv'
<1>1. /\ application' = app /\ moves' = moves + 1 /\ moves < MaxMoves
      /\ UNCHANGED <<delivering, handing, messages, answers>>
  BY DEF Move
<1>2. HandingInv'
  BY <1>1, HandoffConstants DEF HandoffInv, HandingInv
<1>3. PICK places \in SUBSET Applications : SeenIn(places)
  BY DEF HandoffInv, MessagesInv
<1>4. IsFiniteSet(places \cup {app}) /\ Cardinality(places \cup {app}) <= 1 + moves'
  <2>1. IsFiniteSet(places \cup {app})
    BY <1>3, FS_AddElement DEF SeenIn
  <2>2. Cardinality(places \cup {app}) = IF app \in places THEN Cardinality(places) ELSE Cardinality(places) + 1
    BY <1>3, FS_AddElement DEF SeenIn
  <2>3. Cardinality(places) \in Nat /\ Cardinality(places) <= 1 + moves
    BY <1>3, FS_CardinalityType DEF SeenIn
  <2>4. moves \in Nat
    BY HandoffConstants DEF HandoffInv, HandingInv
  <2> QED BY <1>1, <2>1, <2>2, <2>3, <2>4
<1>5. SeenIn(places \cup {app})'
  BY <1>1, <1>3, <1>4 DEF SeenIn
<1>6. MessagesInv'
  BY <1>5 DEF MessagesInv
<1>7. (\A a \in answers : Truthful(a))'
  BY <1>1 DEF HandoffInv, Truthful
<1> QED BY <1>2, <1>6, <1>7 DEF HandoffInv

LEMMA HandoffStarts == HandoffInit => HandoffInv
<1>. SUFFICES ASSUME HandoffInit
              PROVE  HandoffInv
  OBVIOUS
<1>1. HandingInv
  BY IdlingIsFine, HandoffConstants DEF HandoffInit, HandingInv
<1>2. MessagesInv
  <2>1. IsFiniteSet({application}) /\ Cardinality({application}) = 1
    BY FS_Singleton
  <2>2. SeenIn({application})
    BY <2>1, IdlingIsFine DEF HandoffInit, SeenIn
  <2> QED BY <2>2 DEF HandoffInit, MessagesInv
<1>3. \A a \in answers : Truthful(a)
  BY DEF HandoffInit
<1> QED BY <1>1, <1>2, <1>3 DEF HandoffInv

LEMMA HandoffKeeps == HandoffInv /\ [HandoffNext]_handoffVars => HandoffInv'
<1>. SUFFICES ASSUME HandoffInv, [HandoffNext]_handoffVars
              PROVE  HandoffInv'
  OBVIOUS
<1>1. ASSUME NEW d \in Dispatchers, NEW c \in Deliveries, Deliver(d, c)
      PROVE  HandoffInv'
  BY <1>1, DeliverKeeps
<1>2. ASSUME NEW d \in Dispatchers, NEW outcome \in {"resolved", "blank", "failed"}, Resolve(d, outcome)
      PROVE  HandoffInv'
  BY <1>2, ResolveKeeps
<1>3. ASSUME NEW d \in Dispatchers, NEW b \in BOOLEAN, Create(d, b) \/ CreateFails(d, b) \/ DispatcherCrashes(d, b)
      PROVE  HandoffInv'
  BY <1>3, CreateKeeps, DispatcherCrashKeeps
<1>4. ASSUME NEW app \in Applications, Move(app)
      PROVE  HandoffInv'
  BY <1>4, MoveKeeps
<1>5. CASE UNCHANGED handoffVars
  BY <1>5 DEF handoffVars, HandoffInv, HandingInv, MessagesInv, SeenIn, Truthful
<1> QED BY <1>1, <1>2, <1>3, <1>4, <1>5 DEF HandoffNext

(* An event has a message in as many applications as the tenant has been   *)
(* seen in, at the most.                                                   *)
LEMMA MessagesAreFew ==
  ASSUME HandoffInv, NEW c \in Deliveries
  PROVE  Cardinality({m \in messages : m.event = c.event}) <= 1 + moves
<1>. DEFINE own == {m \in messages : m.event = c.event}
<1>1. PICK places \in SUBSET Applications : SeenIn(places)
  BY DEF HandoffInv, MessagesInv
<1>2. \A m \in own : \E a \in places : m = [id |-> <<a, c.key>>, event |-> c.event]
  BY <1>1, HandoffConstants DEF SeenIn
<1>. DEFINE f == [m \in own |-> m.id[1]]
<1>3. \A m \in own : m.id[1] \in places /\ m = [id |-> <<m.id[1], c.key>>, event |-> c.event]
  BY <1>2
<1>4. f \in [own -> places]
  BY <1>3
<1>5. \A m, n \in own : f[m] = f[n] => m = n
  BY <1>3
<1>6. f \in Injection(own, places)
  BY <1>4, <1>5 DEF Injection, IsInjective
<1>7. Cardinality(own) <= Cardinality(places) /\ IsFiniteSet(own)
  BY <1>1, <1>6, FS_Injection DEF SeenIn
<1>8. Cardinality(own) \in Nat /\ Cardinality(places) \in Nat /\ moves \in Nat
  BY <1>1, <1>7, FS_CardinalityType, HandoffConstants DEF SeenIn, HandoffInv, HandingInv
<1> QED BY <1>1, <1>7, <1>8 DEF SeenIn

(* SvixDeliveryService.deliver(), called by any number of dispatchers for  *)
(* any events: an event becomes one message of an application, a receipt    *)
(* is of that message, and a fit event is given up for a reason only.      *)
THEOREM HandoffsAreTrue == HandoffSpec => []HandoffIsTrue
<1>1. HandoffInv => HandoffIsTrue
  <2>. SUFFICES ASSUME HandoffInv
                PROVE  HandoffIsTrue
    OBVIOUS
  <2>1. HandoffTypeOK
    BY DEF HandoffTypeOK, HandoffInv, HandingInv, InHand, Handing
  <2>2. OneMessageEach
    BY MessagesAreFew DEF OneMessageEach
  <2>3. ReceiptIsTrue
    BY DEF ReceiptIsTrue, HandoffInv, Truthful
  <2>4. GivenUpForAReason
    <3>1. "none" \notin Flaws
      BY DEF Flaws
    <3> QED BY <3>1 DEF GivenUpForAReason, HandoffInv, Truthful, Final
  <2> QED BY <2>1, <2>2, <2>3, <2>4 DEF HandoffIsTrue
<1> QED BY <1>1, HandoffStarts, HandoffKeeps, PTL DEF HandoffSpec
=============================================================================
