--------------------------- MODULE GatewayCommands ---------------------------
(***************************************************************************)
(* What a command of a connector passes through, layer by layer: the       *)
(* checks, the fingerprint and the claim of ConnectorRunner, the adapter   *)
(* of packages/provider-adapters or the Middleware's                       *)
(* RestrictedGatewayConnector, and the private gateway's answer on its way *)
(* back.  A call is one step here: the interleavings of calls, store       *)
(* failures and expiries are ConnectorRunner's.                            *)
(*                                                                         *)
(* The gateway is external; an answer in the 4xx means that it did         *)
(* nothing, its own receipts are true, anything else leaves it open.       *)
(*                                                                         *)
(* A string that may hold colons is the sequence of what is between them;  *)
(* a payload is one of "ab", "ba" (the same members in another order),     *)
(* "zero", "minusZero", and "unprintable" (NaN, a cycle, undefined).       *)
(***************************************************************************)
EXTENDS Sequences

CONSTANTS Commands,  \* the commands callers have
          Setups     \* connector, switches and capabilities: see GatewayInit

VARIABLES setup,     \* who calls which gateway, and what is enabled and granted
          ledger,    \* by scope, the idempotency record
          received,  \* requests that reached the gateway
          done,      \* those of them it has performed
          contacted, \* whether anything at all was sent
          heard      \* the last call and what its caller was told

gatewayVars == <<setup, ledger, received, done, contacted, heard>>

NoKey == << >>

(* The manifests of the five adapters: what each operation requires.        *)
PostizOperations ==
  [create |-> {"social.write", "social.external_delivery"}, cancel |-> {"social.write"}]

OdooOperations ==
  [contact |-> {"crm.write"}, lead |-> {"crm.write"}, activity |-> {"crm.write"}]

KlyrowOperations ==
  [send |-> {"email.write", "email.live_delivery"}, suppression |-> {"email.compliance.write"}]

TelnexaOperations ==
  [send |-> {"sms.write", "sms.live_delivery"}, cancel |-> {"sms.write"}]

VicidialOperations ==
  [request |-> {"telephony.write", "telephony.live_dialing"},
   callback |-> {"telephony.callback.write"}, cancel |-> {"telephony.write"}]

Manifests ==
  [postiz |-> PostizOperations, odoo |-> OdooOperations, klyrow |-> KlyrowOperations,
   telnexa |-> TelnexaOperations, vicidial |-> VicidialOperations]

(* A command is about something, and what its texts hold is text. *)
ASSUME CommandsAssumption ==
  /\ Commands # {}
  /\ \A c \in Commands : c.operation \in Seq(STRING) /\ c.key \in Seq(STRING)

(* The Middleware declares whatever it is asked for, with no requirement.   *)
OfAdapter == setup.connector # "middleware"

(* The constructor of an adapter refuses to enable what it does not declare. *)
ASSUME SetupsAreBuilt ==
  \A s \in Setups : s.allowed \subseteq IF s.connector = "middleware" THEN {} ELSE DOMAIN Manifests[s.connector]

Declared(c) ==
  OfAdapter => Len(c.operation) = 1 /\ c.operation[1] \in DOMAIN Manifests[setup.connector]

RequiredCapabilities(c) ==
  IF OfAdapter /\ Declared(c) THEN Manifests[setup.connector][c.operation[1]] ELSE {}

-----------------------------------------------------------------------------
(* canonicalizeJson sorts members and prints -0 as 0.                       *)
Canonical(payload) ==
  CASE payload = "ba"        -> "ab"
    [] payload = "minusZero" -> "zero"
    [] OTHER                 -> payload

(* computeConnectorCommandRequestHash, of one tenant and one connector.     *)
Fingerprint(c) ==
  [actor |-> c.actor, commandId |-> c.commandId, operation |-> c.operation, payload |-> Canonical(c.payload)]

(* buildIdempotencyScope joins operation and key by a colon. *)
Scope(c) == c.operation \o c.key

CommandScopes == {Scope(c) : c \in Commands}

(* The request the gateway sees: no actor, and JSON has one zero.           *)
Request(c) == [commandId |-> c.commandId, operation |-> c.operation, key |-> c.key, payload |-> Canonical(c.payload)]

ReceiptStatuses == {"accepted", "completed", "rejected"}
NoClaim == [state |-> "absent"]
Claim(c, state, status) == [state |-> state, hash |-> Fingerprint(c), status |-> status]

-----------------------------------------------------------------------------
(* requireCapabilities asks for every one of them. *)
Granted(c) == RequiredCapabilities(c) \subseteq setup.granted

(* What the runner refuses before it claims anything. *)
RefusedByRunner(c) ==
  \/ ~ Declared(c) \/ ~ Granted(c)
  \/ c.key = NoKey \/ c.payload = "unprintable"

(* What the adapter refuses by itself, when the runner has already claimed  *)
(* the key and marked the command dispatched.                               *)
SwitchedOff == OfAdapter /\ ~ setup.enabled

Tokenless == OfAdapter /\ ~ setup.token

RefusedByAdapter(c) ==
  \/ SwitchedOff \/ Tokenless
  \/ OfAdapter /\ (c.operation[1] \notin setup.allowed \/ c.key = NoKey)

(* An answer: nothing, an error, or a body, which may be unreadable, about  *)
(* another command or with a status nobody knows.                           *)
ReceiptBodies == [own : BOOLEAN, status : ReceiptStatuses \cup {"odd"}]
Unreadable == [own |-> FALSE, status |-> "none"]
GatewayReplies == [code : {"lost", "4xx", "429", "5xx"}, body : {Unreadable}]
             \cup [code : {"200", "202"}, body : ReceiptBodies \cup {Unreadable}]

(* parseCommandReceipt of the adapters. *)
ReadByAdapter(reply) ==
  reply.code \in {"200", "202"} /\ reply.body.own /\ reply.body.status \in ReceiptStatuses

(* RestrictedGatewayClient asks for a 202 and casts the body. *)
ReadByClient(reply) == reply.code = "202" /\ reply.body # Unreadable

Parsed(reply) == IF OfAdapter THEN ReadByAdapter(reply) ELSE ReadByClient(reply)

(* validateConnectorResult of the runner. *)
ValidByStatus(reply) == Parsed(reply) /\ reply.body.status \in ReceiptStatuses

Valid(reply) == Parsed(reply) /\ reply.body.own /\ reply.body.status \in ReceiptStatuses

(* Whether the gateway performed a command it answered so. *)
Performs(reply) ==
  CASE reply.code \in {"4xx", "429"} -> {FALSE}
    [] reply.code \in {"200", "202"} /\ reply.body.own /\ reply.body.status # "odd" -> {reply.body.status # "rejected"}
    [] OTHER -> BOOLEAN

-----------------------------------------------------------------------------
AnyCommand == CHOOSE c \in Commands : TRUE  \* what is heard is about no command
Hear(c, by, kind) == heard' = [command |-> c, by |-> by, kind |-> kind]
HearOfGateway(by, kind) == heard' = [command |-> AnyCommand, by |-> by, kind |-> kind]

GatewayInit ==
  /\ setup \in Setups
  /\ ledger = [s \in CommandScopes |-> NoClaim]
  /\ received = {} /\ done = {} /\ contacted = FALSE
  /\ heard = [command |-> AnyCommand, by |-> "nobody", kind |-> "none"]

RefuseCommand(c) ==
  /\ RefusedByRunner(c)
  /\ Hear(c, "execute", "refused")
  /\ UNCHANGED <<setup, ledger, received, done, contacted>>

(* The key has been used: the claim answers. *)
ClaimAnswer(c) ==
  LET row == ledger[Scope(c)] IN
  IF row.hash # Fingerprint(c) THEN "mismatch" ELSE IF row.state = "completed" THEN row.status ELSE "indeterminate"

Repeat(c) ==
  /\ ~ RefusedByRunner(c)
  /\ ledger[Scope(c)] # NoClaim
  /\ Hear(c, "execute", ClaimAnswer(c))
  /\ UNCHANGED <<setup, ledger, received, done, contacted>>

(* Whatever fails after the claim is marked dispatched is indeterminate.    *)
Dispatch(c, reply) ==
  /\ ~ RefusedByRunner(c)
  /\ ledger[Scope(c)] = NoClaim /\ ~ RefusedByAdapter(c)
  /\ received' = received \cup {Request(c)} /\ contacted' = TRUE
  /\ \E performed \in Performs(reply) : done' = IF performed THEN done \cup {Request(c)} ELSE done
  /\ IF Valid(reply)
     THEN ledger' = [ledger EXCEPT ![Scope(c)] = Claim(c, "completed", reply.body.status)] /\ Hear(c, "execute", reply.body.status)
     ELSE ledger' = [ledger EXCEPT ![Scope(c)] = Claim(c, "indeterminate", "none")] /\ Hear(c, "execute", "indeterminate")
  /\ UNCHANGED setup

DispatchNowhere(c) ==
  /\ ~ RefusedByRunner(c)
  /\ ledger[Scope(c)] = NoClaim /\ RefusedByAdapter(c)
  /\ ledger' = [ledger EXCEPT ![Scope(c)] = Claim(c, "indeterminate", "none")]
  /\ Hear(c, "execute", "indeterminate")
  /\ UNCHANGED <<setup, received, done, contacted>>

(* reconcileCommand of the adapter asks the gateway what became of a        *)
(* command.  reply.body is the result, Unreadable when there is none.       *)
ReconcileCommand(c, reply) ==
  IF SwitchedOff \/ Tokenless
  THEN Hear(c, "reconcile", "error") /\ UNCHANGED <<ledger, contacted>>
  ELSE /\ contacted' = TRUE
       /\ Valid(reply) => (Request(c) \in done <=> reply.body.status # "rejected")
       /\ IF Valid(reply) /\ reply.body.status # "accepted"
          THEN ledger' = [ledger EXCEPT ![Scope(c)] = Claim(c, "completed", reply.body.status)] /\ Hear(c, "reconcile", reply.body.status)
          ELSE UNCHANGED ledger /\ Hear(c, "reconcile", "undetermined")

(* reconcileIndeterminate over an adapter: the Middleware has no route that *)
(* calls it.                                                                *)
Reconcile(c, reply) ==
  /\ OfAdapter
  /\ ~ RefusedByRunner(c)
  /\ IF ledger[Scope(c)] = NoClaim \/ ClaimAnswer(c) # "indeterminate"
     THEN /\ Hear(c, "reconcile", IF ledger[Scope(c)] = NoClaim THEN "absent" ELSE ClaimAnswer(c))
          /\ UNCHANGED <<ledger, contacted>>
     ELSE ReconcileCommand(c, reply)
  /\ UNCHANGED <<setup, received, done>>

(* getIdempotencyStatus asks for no capability. *)
Status(c) ==
  /\ Declared(c) /\ c.key # NoKey /\ c.payload # "unprintable"
  /\ Hear(c, "status", IF ledger[Scope(c)] = NoClaim THEN "absent" ELSE ClaimAnswer(c))
  /\ UNCHANGED <<setup, ledger, received, done, contacted>>

(* testConnection of an adapter; the Middleware's throws NOT_IMPLEMENTED.   *)
(* JSON that does not parse passes for a failure of the network, 408 and    *)
(* 425 for a 5xx.                                                           *)
HealthOf(reply) ==
  CASE reply.body # Unreadable -> {"healthy"}
    [] reply.code \in {"200", "202"} -> {"unavailable", "degraded"}
    [] reply.code = "4xx" -> {"unavailable"}
    [] OTHER -> {"degraded"}

TestConnection(reply) ==
  /\ OfAdapter
  /\ IF SwitchedOff \/ Tokenless
     THEN HearOfGateway("health", IF SwitchedOff THEN "disabled" ELSE "unavailable") /\ UNCHANGED contacted
     ELSE /\ \E health \in HealthOf(reply) : HearOfGateway("health", health)
          /\ contacted' = TRUE
  /\ UNCHANGED <<setup, ledger, received, done>>

(* A reconciliation page: no capability, operation or key is asked for.  An *)
(* adapter takes a page of objects that says whether there is more, the     *)
(* Middleware any body of a 200.                                            *)
PageReplies ==
  [code : {"lost", "4xx", "429", "5xx"}, items : {"none"}, more : {"none"}]
    \cup [code : {"200", "202"}, items : {"objects", "odd", "none"}, more : {"boolean", "none"}]

PageOfAdapter(reply) ==
  reply.code \in {"200", "202"} /\ reply.items = "objects" /\ reply.more = "boolean"

PageOfClient(reply) == reply.code = "200"

ReadPage(reply) ==
  IF SwitchedOff \/ Tokenless
  THEN HearOfGateway("page", "error") /\ UNCHANGED <<setup, ledger, received, done, contacted>>
  ELSE /\ HearOfGateway("page", IF (IF OfAdapter THEN PageOfAdapter(reply) ELSE PageOfClient(reply)) THEN "page" ELSE "error")
       /\ contacted' = TRUE
       /\ UNCHANGED <<setup, ledger, received, done>>

(* What the configured normalizer makes of a webhook: events that are       *)
(* declared or not, dated or not, with data or not and with a blank id,     *)
(* source or type or not; "unverified" when it throws.                      *)
Events == [declared : BOOLEAN, named : BOOLEAN, dated : BOOLEAN, object : BOOLEAN]
FitEvent == [declared |-> TRUE, named |-> TRUE, dated |-> TRUE, object |-> TRUE]
Deliveries == [verified : {FALSE}, events : {{}}] \cup [verified : {TRUE}, events : {{}} \cup {{FitEvent, e} : e \in Events}]

(* validateNormalizedEvent. *)
FitForBatch(event) == event.declared /\ event.named /\ event.dated /\ event.object

(* ingestWebhook of an adapter; the Middleware's throws NOT_IMPLEMENTED.    *)
(* One event that is not fit fails all of them; no token is asked for.      *)
IngestWebhook(delivery) ==
  /\ HearOfGateway("webhook",
       IF /\ OfAdapter /\ setup.enabled /\ setup.normalizer
          /\ delivery.verified /\ \A e \in delivery.events : FitForBatch(e)
       THEN "events" ELSE "error")
  /\ UNCHANGED <<setup, ledger, received, done, contacted>>

GatewayNext ==
  \/ \E c \in Commands :
       \/ RefuseCommand(c) \/ Repeat(c) \/ DispatchNowhere(c) \/ Status(c)
       \/ \E reply \in GatewayReplies : Dispatch(c, reply) \/ Reconcile(c, reply)
  \/ \E reply \in GatewayReplies : TestConnection(reply)
  \/ \E reply \in PageReplies : ReadPage(reply)
  \/ \E delivery \in Deliveries : IngestWebhook(delivery)

GatewaySpec == GatewayInit /\ [][GatewayNext]_gatewayVars

-----------------------------------------------------------------------------
GatewayTypeOK ==
  /\ setup \in Setups
  /\ \A s \in CommandScopes : ledger[s] = NoClaim \/ ledger[s].state \in {"completed", "indeterminate"}
  /\ done \subseteq received /\ received \subseteq {Request(c) : c \in Commands}
  /\ (received # {} => contacted) /\ heard.command \in Commands

(* A status a caller is told, at once, from the ledger or by a              *)
(* reconciliation, is true of the caller's own command, although two pairs  *)
(* of operation and key may have the same scope, and although the           *)
(* Middleware's gateway client looks at neither the command nor the status  *)
(* of the receipt it is given.                                              *)
StatusIsOfThisCommand ==
  /\ heard.kind \in {"accepted", "completed"} => Request(heard.command) \in done
  /\ heard.kind = "rejected" => Request(heard.command) \notin done

(* Whoever is told that a command is refused, that its key belongs to       *)
(* another one or that nothing is known of it, is not told so of a command  *)
(* the gateway has performed: only "indeterminate" and what a failed        *)
(* question leaves open may hide a success.  The same command by another    *)
(* actor is a different one.                                                *)
RefusedIsUndone ==
  heard.kind \in {"refused", "mismatch", "absent"} =>
    \/ Request(heard.command) \notin done
    \/ ledger[Scope(heard.command)] # NoClaim /\ ledger[Scope(heard.command)].hash.actor # heard.command.actor

(* A claim that stays open although its command was never sent, so that no  *)
(* reconciliation can ever settle it, is only left by the adapter's own     *)
(* switches and token: what the runner refuses leaves no claim.             *)
OnlySwitchesStrand ==
  \A c \in Commands :
    LET row == ledger[Scope(c)] IN
    row # NoClaim /\ row.hash = Fingerprint(c) /\ row.state = "indeterminate" /\ Request(c) \notin received =>
      SwitchedOff \/ Tokenless \/ (OfAdapter /\ c.operation[1] \notin setup.allowed)

(* Nothing reaches a provider but what the operator of the adapter has      *)
(* enabled and the tenant is granted in full, and nothing at all leaves an  *)
(* adapter that is switched off.                                            *)
OnlyWhatIsEnabledLeaves ==
  OfAdapter =>
    /\ contacted => setup.enabled
    /\ \A r \in received :
         r.operation[1] \in setup.allowed /\ Manifests[setup.connector][r.operation[1]] \subseteq setup.granted

(* What a command's caller is told is true of it, what is refused was not   *)
(* done, only the adapter's own refusals leave a claim nobody can settle,   *)
(* and nothing leaves but what is enabled and granted.                      *)
CommandsAreTrue ==
  GatewayTypeOK /\ StatusIsOfThisCommand /\ RefusedIsUndone /\ OnlySwitchesStrand /\ OnlyWhatIsEnabledLeaves
=============================================================================
