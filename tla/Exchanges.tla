------------------------------ MODULE Exchanges ------------------------------
(***************************************************************************)
(* One call of the social, communications and canonical clients: what the  *)
(* client takes from its caller (validateCreateSocialPostInput,            *)
(* validateSendEmailInput, requireIdempotencyKey, requireUuid, ...), what  *)
(* the route's schema takes from the client, whether a lost answer is      *)
(* asked for again, and whether the client understands what it is answered *)
(* (parseSocialPost, parseWebhookSubscription, parseCommandOperation).     *)
(* Rows also come from callers that use the HTTP interface directly.       *)
(*                                                                         *)
(* A string is one of the kinds the checks tell apart: "plain", "lines"    *)
(* (with a line break), "empty", "long" (over its bound), "absent"; a UUID *)
(* "v4", "v7" or "nil"; a schema gives the kinds taken for each field.     *)
(***************************************************************************)
EXTENDS Naturals, FiniteSets

CONSTANTS Tenants,    \* kinds of tenant identifiers: "v4", "v7"
          Inputs,     \* by schema, the inputs callers have
          MaxRetries, \* the clients' maxRetries
          MaxRows     \* bound on posts and subscriptions kept

ASSUME ExchangesAssumption == MaxRetries \in Nat /\ MaxRows \in Nat

VARIABLES tenant, \* the kind of the tenant's identifier
          rows,   \* posts and subscriptions of the tenant: what decides whether an answer can be read
          call    \* the call under way, or the last one

exchangeVars == <<tenant, rows, call>>

Conforms(value, schema) == \A f \in DOMAIN schema : value[f] \in schema[f]

(* boundedString takes no control character, a line break included.         *)
Bounded(least) == {"plain"} \cup IF least = 0 THEN {"empty"} ELSE {}

Optional(kinds) == kinds \cup {"absent"}

Uuid == {"v4"}                       \* versions 1 to 5
AnyUuid == {"v4", "v7", "nil"}       \* z.string().uuid(), and the token's and facade's own pattern
DateTime == {"rfc3339", "loose"}     \* whatever Date.parse reads

(* "HTTPS" is not written https:// though new URL reads it so (capitals, no  *)
(* slashes); "private" is one the destination policy refuses.               *)
HttpsUrl == {"https", "HTTPS", "private"}
Uri == HttpsUrl \cup {"http"}         \* new URL, at most 2048 characters
Json == {"absent", "record"}         \* jsonObject

-----------------------------------------------------------------------------
(* The operations.  A key is required, or made up from the identifier when  *)
(* none is given; no operation without one changes anything but render,     *)
(* which computes.  An identifier is looked at ("uuid", "anyUuid") or only  *)
(* put into the path or a header, where the route takes a UUID alone and    *)
(* finds nothing under a name ("row", "header"), or anything ("segment").   *)
(* A body "any" is one the client does not look at; the body of a reading   *)
(* is its query.                                                            *)

Operation(method, id, key, body, answer) ==
  [method |-> method, id |-> id, key |-> key, body |-> body, answer |-> answer]
Read(id, answer) == Operation("GET", id, "none", "none", answer)
Query(query, answer) == Operation("GET", "none", "none", query, answer)
Mutation(id, key, body, answer) == Operation("POST", id, key, body, answer)

(* CodestraClient: social posts and webhook subscriptions. *)
SocialOperations ==
  [createPost         |-> Mutation("none", "route", "post", "post"),
   listPosts          |-> Query("query", "posts"),
   getPost            |-> Read("row", "post"),
   cancelPost         |-> Mutation("row", "route", "none", "post"),
   createSubscription |-> Mutation("none", "route", "subscription", "created"),
   listSubscriptions  |-> Read("none", "subscriptions"),
   getSubscription    |-> Read("row", "subscription"),
   testSubscription   |-> Mutation("row", "route", "none", "test"),
   rotateSecret       |-> Mutation("row", "route", "none", "created"),
   enable             |-> Mutation("row", "route", "none", "subscription"),
   disable            |-> Mutation("row", "route", "none", "subscription"),
   deleteSubscription |-> Operation("DELETE", "row", "route", "none", "nothing")]

(* CodestraCommunicationsClient: resources and readings. *)
ResourceOperations ==
  [list    |-> Query("any", "object"), get |-> Read("uuid", "object"), getMessage |-> Read("header", "object"),
   create  |-> Mutation("none", "canonical", "any", "object"),
   update  |-> Operation("PUT", "uuid", "canonical", "any", "object"),
   verify  |-> Mutation("uuid", "canonical", "any", "object"),
   cancelMessage |-> Mutation("header", "canonical", "any", "object"),
   archive |-> Operation("DELETE", "uuid", "default", "none", "nothing"),
   delete  |-> Operation("DELETE", "uuid", "default", "none", "nothing"),
   render  |-> Mutation("uuid", "none", "any", "object")]

(* Its commands: email, SMS, voice, and reading an operation back. *)
CommandOperations ==
  [sendEmail |-> Mutation("none", "canonical", "email", "operation"),
   sendEmails |-> Mutation("none", "canonical", "emails", "operation"),
   sendSms   |-> Mutation("none", "canonical", "sms", "operation"),
   sendSmses |-> Mutation("none", "canonical", "smses", "operation"),
   callVoice |-> Mutation("none", "canonical", "call", "operation"),
   transferCall |-> Mutation("none", "canonical", "transfer", "operation"),
   cancelCommand |-> Mutation("none", "canonical", "cancel", "operation"),
   getCommand |-> Read("uuid", "operation")]

(* CodestraSdk's own requests, which are never repeated and whose answers   *)
(* are not looked at.                                                       *)
FacadeOperations ==
  [platform |-> Read("none", "any"), campaign |-> Read("segment", "any"),
   trigger |-> Mutation("none", "canonical", "trigger", "any"),
   generate |-> Mutation("none", "route", "any", "any"),
   dashboard |-> Read("none", "any"), dashboardTenant |-> Read("segment", "any")]

(* Its domain clients, each bound to some commands and operations.          *)
DomainOperations ==
  [submit |-> Mutation("none", "canonical", "command", "any"),
   listOperations |-> Query("any", "any"), getOperation |-> Read("anyUuid", "any"),
   cancelOperation |-> Mutation("anyUuid", "canonical", "decision", "any"),
   reconcileOperation |-> Mutation("anyUuid", "canonical", "decision", "any")]

Clients == [social |-> SocialOperations, resources |-> ResourceOperations,
            commands |-> CommandOperations, facade |-> FacadeOperations, domain |-> DomainOperations]

(* Lengths of keys: "short" 8 to 15, "fits" 16 to 128, "wide" 129 to 180.   *)
KeyTaken(op, key) ==
  CASE op.key = "none"      -> key = "absent"
    [] op.key = "route"     -> key = "fits"
    [] op.key = "canonical" -> key \in {"short", "fits", "wide"}
    [] op.key = "default"   -> key \in {"absent", "short", "fits", "wide"}

KeySent(op, key) == IF op.key = "default" /\ key = "absent" THEN "fits" ELSE key

IdTaken(op, id) ==
  CASE op.id = "none"    -> id = "absent"
    [] op.id = "uuid"    -> id \in Uuid
    [] op.id = "anyUuid" -> id \in AnyUuid
    [] OTHER             -> id \in AnyUuid \cup {"name"}

-----------------------------------------------------------------------------
(* What the clients take.  "others" are members a schema does not know: no  *)
(* client looks for them, and the whole object is sent.  A cursor is a      *)
(* "token" when it decodes to a UUID.                                       *)

PostHere ==
  [workspaceId |-> Uuid, channels |-> {"some"}, text |-> Bounded(1), media |-> {"absent", "few", "many"},
   link |-> Optional(Uri), publishAt |-> Optional(DateTime),
   metadata |-> {"absent", "record", "other"}, others |-> {"none", "some"}]

QueryHere ==
  [cursor |-> {"absent", "token", "plain"}, limit |-> {"absent", "within"}, workspaceId |-> Optional(Uuid),
   status |-> {"absent", "known"}]

SubscriptionHere ==
  [endpointUrl |-> HttpsUrl, eventTypes |-> Bounded(1), description |-> Optional(Bounded(0)), others |-> {"none", "some"}]

(* requireContentOrTemplate; an address may have a name.                    *)
Content == {"absent", "text", "html"}
Address == {"address", "named"}

EmailHere ==
  [from |-> Address, to |-> Address, cc |-> Optional(Address) \cup {"nobody"}, replyTo |-> Optional(Address),
   subject |-> Bounded(1), content |-> Content, template |-> {"absent", "known"}, scheduledAt |-> Optional(DateTime),
   metadata |-> Json]

EmailTaken(m) == Conforms(m, EmailHere) /\ {m.content, m.template} # {"absent"}

SmsHere ==
  [from |-> Optional(Bounded(1)), to |-> {"E.164"}, body |-> Bounded(1), media |-> {"absent", "few", "many", "nobody"},
   scheduledAt |-> Optional(DateTime), metadata |-> Json]

(* The batches have copies of these checks of their own. *)
EmailInBatch ==
  [from |-> Address, to |-> Address, cc |-> Optional(Address) \cup {"nobody"}, replyTo |-> Optional(Address),
   subject |-> Bounded(1), scheduledAt |-> Optional(DateTime), metadata |-> Json]

ContentOrTemplate(m) ==
  /\ m.content \in Content /\ m.template \in {"absent", "known"}
  /\ m.content # "absent" \/ m.template # "absent"

BatchTaken(messages) ==
  messages # {} /\ \A m \in messages : Conforms(m, EmailInBatch) /\ ContentOrTemplate(m)

SmsInBatch ==
  [from |-> Optional(Bounded(1)), to |-> {"E.164"}, body |-> Bounded(1), media |-> {"absent", "few", "many", "nobody"},
   scheduledAt |-> Optional(DateTime), metadata |-> Json]

SmsBatchTaken(messages) == messages # {} /\ \A m \in messages : Conforms(m, SmsInBatch)

CallHere ==
  [from |-> {"absent", "E.164"}, to |-> {"E.164"}, campaignId |-> Optional(Bounded(1)), scheduledAt |-> Optional(DateTime),
   metadata |-> Json]
TransferHere == [callId |-> Bounded(1), destination |-> Bounded(1), metadata |-> Json]
CancelHere == [messageId |-> Optional(Bounded(1)), operationId |-> Optional(Uuid), reason |-> Optional(Bounded(1))]
TriggerHere == [commandId |-> AnyUuid]
CommandHere ==
  [commandId |-> AnyUuid, commandType |-> {"dotted"}, target |-> {"dashed"}, capability |-> {"UPPER"},
   payload |-> {"record", "other"}]
DecisionHere == [expectedVersion |-> {"positive"}, reason |-> {"plain", "free", "long"}]

BodyTaken(body, input) ==
  CASE body = "post"         -> Conforms(input, PostHere)
    [] body = "query"        -> Conforms(input, QueryHere)
    [] body = "subscription" -> Conforms(input, SubscriptionHere)
    [] body = "email"        -> EmailTaken(input)
    [] body = "emails"       -> BatchTaken({input})
    [] body = "sms"          -> Conforms(input, SmsHere)
    [] body = "smses"        -> SmsBatchTaken({input})
    [] body = "call"         -> Conforms(input, CallHere)
    [] body = "transfer"     -> Conforms(input, TransferHere)
    [] body = "cancel"       -> Conforms(input, CancelHere) /\ {input.messageId, input.operationId} # {"absent"}
    [] body = "trigger"      -> Conforms(input, TriggerHere)
    [] body = "command"      -> Conforms(input, CommandHere)
    [] body = "decision"     -> Conforms(input, DecisionHere)
    [] body = "any"          -> input \in {"fit", "unfit"}
    [] OTHER                 -> TRUE

-----------------------------------------------------------------------------
(* What the routes take, and what the Middleware's OpenAPI has them take.   *)
(* Schemas are strict: a member they do not know is refused.  What a refusal *)
(* owes to the rows there are (404, 409), to the token (401, 403) or to the  *)
(* size of a request (413) is left out.                                     *)

CreateSocialPostRequest ==
  [workspaceId |-> AnyUuid, channels |-> {"some"}, text |-> {"plain", "lines"}, media |-> {"absent", "few"},
   link |-> Optional(Uri \cup {"longUrl"}), publishAt |-> {"absent", "rfc3339"}, metadata |-> Json, others |-> {"none"}]

(* decodeCursor, then the rest of ListQuery.                                *)
ListQuery ==
  [cursor |-> {"absent", "token"}, limit |-> {"absent", "within"}, workspaceId |-> Optional(AnyUuid),
   status |-> {"absent", "known"}]

(* assertSafeWebhookDestination follows; what a host name resolves to stays  *)
(* the same during a call.                                                  *)
CreateWebhookSubscriptionRequest ==
  [endpointUrl |-> {"https", "longUrl"}, eventTypes |-> {"plain", "lines", "long"},
   description |-> {"absent", "empty", "plain", "lines"}, others |-> {"none"}]

CommandEnvelope ==
  [commandId |-> AnyUuid, commandType |-> {"dotted"}, target |-> {"dashed"}, capability |-> {"UPPER"}, payload |-> {"record"}]

OperationMutationRequest == [expectedVersion |-> {"positive"}, reason |-> {"plain"}]

InputTakenThere(body, input) ==
  CASE body = "post"         -> Conforms(input, CreateSocialPostRequest)
    [] body = "query"        -> Conforms(input, ListQuery)
    [] body = "subscription" -> Conforms(input, CreateWebhookSubscriptionRequest)
    [] body = "command"      -> Conforms(input, CommandEnvelope)
    [] body = "decision"     -> Conforms(input, OperationMutationRequest)
    [] body = "any"          -> input = "fit"
    [] OTHER                 -> TRUE

TakenThere(op, id, key, input) ==
  /\ op.key = "route" => key = "fits"
  /\ op.id \in {"row", "header"} => id \in AnyUuid
  /\ InputTakenThere(op.body, input)

(* serialize leaves out what is null. *)
PostRow(input) == [kind |-> "post", workspaceId |-> input.workspaceId,
                   publishAt |-> IF input.publishAt = "absent" THEN "absent" ELSE "rfc3339"]
SubscriptionRow(input) == [kind |-> "subscription", endpointUrl |-> input.endpointUrl, eventTypes |-> input.eventTypes]

-----------------------------------------------------------------------------
(* What the clients understand.                                             *)

PostParses(row) ==
  Conforms([tenantId |-> tenant, workspaceId |-> row.workspaceId, publishAt |-> row.publishAt],
           [tenantId |-> Uuid, workspaceId |-> Uuid, publishAt |-> Optional(DateTime)])

SubscriptionParses(row) ==
  Conforms(row, [endpointUrl |-> HttpsUrl, eventTypes |-> Bounded(1)])

(* parseCommandOperation.                                                   *)
OperationParses(receipt) == Conforms(receipt, [commandId |-> Uuid, lastError |-> Optional(Bounded(1))])

(* The contract has any UUID for a command, which the facade may have given  *)
(* it, and any text for its last error: "unbounded" stands for an empty or   *)
(* long one and one with a line break.                                      *)
Receipts == [kind : {"operation"}, commandId : {"v4", "v7"}, lastError : {"absent", "plain", "unbounded"}]

Parses(item) ==
  CASE item.kind = "post"         -> PostParses(item)
    [] item.kind = "subscription" -> SubscriptionParses(item)
    [] item.kind = "operation"    -> OperationParses(item)

RowsOf(kind) == {row \in rows : row.kind = kind}

(* The answers an operation may be given, each the set of what it tells of. *)
Answers(op, input) ==
  CASE op.answer = "post" -> {{row} : row \in IF op.body = "post" THEN {PostRow(input)} ELSE RowsOf("post")}
    [] op.answer = "posts" -> SUBSET RowsOf("post")
    [] op.answer \in {"subscription", "created"} ->
         {{row} : row \in IF op.body = "subscription" THEN {SubscriptionRow(input)} ELSE RowsOf("subscription")}
    [] op.answer = "subscriptions" -> {RowsOf("subscription")}
    [] op.answer = "operation" -> {{receipt} : receipt \in Receipts}
    [] OTHER -> {{}}

-----------------------------------------------------------------------------
NoCall == [client |-> "social", name |-> "listPosts", id |-> "absent", key |-> "absent", input |-> "none",
           tries |-> 0, stage |-> "idle", answer |-> {}]

ExchangesInit ==
  /\ tenant \in Tenants
  /\ rows = {}
  /\ call = NoCall

OpOf(c) == Clients[c.client][c.name]

BeginCall(client, name, id, key, input) ==
  LET op == Clients[client][name] IN
  /\ call.stage # "sent" /\ Cardinality(rows) < MaxRows
  /\ call' = [client |-> client, name |-> name, id |-> id, key |-> KeySent(op, key), input |-> input, tries |-> 1, answer |-> {},
              stage |-> IF KeyTaken(op, key) /\ IdTaken(op, id) /\ BodyTaken(op.body, input)
                        THEN "sent" ELSE "refusedHere"]
  /\ UNCHANGED <<tenant, rows>>

(* What the call leaves behind; the ledger sees that it does so once.       *)
RowMade(op, input) ==
  CASE op.body = "post"         -> {PostRow(input)}
    [] op.body = "subscription" -> {SubscriptionRow(input)}
    [] OTHER                    -> {}

Arrives(c) == TakenThere(OpOf(c), c.id, c.key, c.input)

Serve(answer) ==
  /\ call.stage = "sent" /\ Arrives(call)
  /\ rows' = rows \cup RowMade(OpOf(call), call.input)
  /\ call' = [call EXCEPT !.stage = IF \A item \in answer : Parses(item) THEN "done" ELSE "misunderstood", !.answer = answer]
  /\ UNCHANGED tenant

Refuse ==
  /\ call.stage = "sent" /\ ~ Arrives(call)
  /\ call' = [call EXCEPT !.stage = "refusedThere"]
  /\ UNCHANGED <<tenant, rows>>

(* canRetry of the social and communications clients. *)
CanRetryAlways(c) == c.client \notin {"facade", "domain"} /\ c.tries <= MaxRetries

CanRetry(c) ==
  /\ c.client \notin {"facade", "domain"} /\ c.tries <= MaxRetries
  /\ OpOf(c).method = "GET" \/ c.key # "absent"

(* The request or its answer is lost, or the answer is a passing failure.   *)
Lose(arrives) ==
  /\ call.stage = "sent"
  /\ call' = IF CanRetry(call) THEN [call EXCEPT !.tries = @ + 1] ELSE [call EXCEPT !.stage = "unknown"]
  /\ rows' = IF arrives /\ Arrives(call)
             THEN rows \cup RowMade(OpOf(call), call.input) ELSE rows
  /\ UNCHANGED tenant

(* Another caller posts to the routes without a client. *)
PostDirectly(name, input) ==
  LET op == SocialOperations[name] IN
  /\ call.stage # "sent" /\ Cardinality(rows) < MaxRows - 1
  /\ TakenThere(op, "absent", "fits", input)
  /\ rows' = rows \cup RowMade(op, input)
  /\ UNCHANGED <<tenant, call>>

ExchangesNext ==
  \/ \E c \in DOMAIN Clients : \E n \in DOMAIN Clients[c] :
       \E id \in AnyUuid \cup {"absent", "name"}, key \in {"absent", "short", "fits", "wide"},
          input \in Inputs[Clients[c][n].body] : BeginCall(c, n, id, key, input)
  \/ \E answer \in Answers(OpOf(call), call.input) : Serve(answer)
  \/ Refuse
  \/ \E arrives \in BOOLEAN : Lose(arrives)
  \/ \E n \in {"createPost", "createSubscription"} : \E input \in Inputs[SocialOperations[n].body] : PostDirectly(n, input)

ExchangesSpec == ExchangesInit /\ [][ExchangesNext]_exchangeVars

-----------------------------------------------------------------------------
ExchangesTypeOK ==
  /\ tenant \in Tenants
  /\ Cardinality(rows) <= MaxRows
  /\ call.name \in DOMAIN Clients[call.client]
  /\ call.tries \in 0 .. MaxRetries + 1
  /\ call.stage \in {"idle", "sent", "refusedHere", "refusedThere", "done", "misunderstood", "unknown"}

(* What a client takes and its route does not: an identifier that is none;  *)
(* what the client does not look at (a body of its caller's, a command's    *)
(* payload, a post's metadata, members no schema knows); a cursor that      *)
(* decodes to no UUID; a date only Date.parse reads; more than twenty       *)
(* media; a destination not written https:// or that the policy refuses;    *)
(* a reason that is long or has characters the contract does not know.      *)
OnlyTakenHere(op, id, input) ==
  \/ op.id \in {"row", "header"} /\ id = "name"
  \/ op.body = "any" /\ input = "unfit"
  \/ op.body = "command" /\ input.payload = "other"
  \/ op.body = "query" /\ input.cursor = "plain"
  \/ op.body = "post" /\ (input.publishAt = "loose" \/ input.media = "many" \/ input.metadata = "other" \/ input.others = "some")
  \/ op.body = "subscription" /\ (input.endpointUrl \in {"HTTPS", "private"} \/ input.others = "some")
  \/ op.body = "decision" /\ input.reason \in {"free", "long"}

(* Of what a client has validated, its key included, the route refuses      *)
(* nothing as invalid but what OnlyTakenHere lists, and lists with cause.    *)
TakenHereIsTakenThere ==
  /\ call.stage = "refusedThere" => OnlyTakenHere(OpOf(call), call.id, call.input)
  /\ call.stage \in {"done", "misunderstood"} => ~ OnlyTakenHere(OpOf(call), call.id, call.input)

(* A mutation that was performed is not reported as a contract violation,   *)
(* which its caller would take for a failure, but for three causes: a post  *)
(* of a tenant whose identifier is of a later version; a row that a caller  *)
(* without a client made, in a workspace of such an identifier or with an   *)
(* address or event type the client finds too long or broken over lines; a  *)
(* receipt of a command with such an identifier or an unbounded last error. *)
DoneIsUnderstood ==
  call.stage = "misunderstood" => \E item \in call.answer :
    \/ item.kind = "post" /\ tenant # "v4"
    \/ item.kind = "post" /\ OpOf(call).body # "post" /\ item.workspaceId \in {"v7", "nil"}
    \/ /\ item.kind = "subscription" /\ OpOf(call).body # "subscription"
       /\ item.endpointUrl = "longUrl" \/ item.eventTypes \in {"lines", "long"}
    \/ item.kind = "operation" /\ (item.commandId = "v7" \/ item.lastError = "unbounded")

(* Whatever is sent a second time is a reading or carries the key under      *)
(* which the first is recognised.                                           *)
RepeatedIsKeyed ==
  call.tries > 1 => OpOf(call).method = "GET" \/ (call.key \in {"short", "fits", "wide"} /\ OpOf(call).key # "none")

(* A message is taken in a batch exactly when it is taken alone, though the  *)
(* two have separate copies of the checks.                                  *)
BatchAsAlone ==
  /\ OpOf(call).body \in {"email", "emails"} => (EmailTaken(call.input) <=> BatchTaken({call.input}))
  /\ OpOf(call).body \in {"sms", "smses"} => (Conforms(call.input, SmsHere) <=> SmsBatchTaken({call.input}))

(* The two ends of a call agree on what it is, what it did and whether it    *)
(* may be sent again.                                                       *)
EndsAgree == ExchangesTypeOK /\ TakenHereIsTakenThere /\ DoneIsUnderstood /\ RepeatedIsKeyed /\ BatchAsAlone
=============================================================================
