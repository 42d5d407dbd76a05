------------------------------- MODULE MCRules -------------------------------
(***************************************************************************)
(* Small instances for TLC of the rules at the edges: a behaviour is about *)
(* one scene, "content" for surveys and forms, "exchange" for one call of  *)
(* a client, "pages" for a walk over the list of posts, "commands" for the *)
(* commands of a connector, "protocols" for those of the protocol gateway, *)
(* "contracts" for the releases of a document.                             *)
(*                                                                         *)
(* What a client leaves behind a direct caller may leave as well: one call *)
(* after some of those is enough.  The callers' inputs are a good one of   *)
(* every schema and what one change of a field makes of it.                *)
(***************************************************************************)
EXTENDS MCQuestionnaires, MCContractDrift, Exchanges, PostPages, Gateways

VARIABLE scene

Around(good, kinds) ==
  {good} \cup UNION {{[good EXCEPT ![f] = k] : k \in kinds[f]} : f \in DOMAIN kinds}

Strings == {"absent", "empty", "plain", "lines", "long"}
Dates == {"absent", "loose", "no"}
Metadata == {"record", "other"}
Urls == {"absent", "HTTPS", "private", "http", "longUrl", "no"}

Emails == Around(
  [from |-> "address", to |-> "address", cc |-> "absent", replyTo |-> "absent", subject |-> "plain",
   content |-> "text", template |-> "absent", scheduledAt |-> "absent", metadata |-> "absent"],
  [from |-> {"named", "no"}, to |-> {"nobody", "no"}, cc |-> {"nobody", "no"}, replyTo |-> {"no"}, subject |-> Strings,
   content |-> {"absent", "html", "neither", "lines"}, template |-> {"known", "lines"}, scheduledAt |-> Dates,
   metadata |-> Metadata])

Smses == Around(
  [from |-> "absent", to |-> "E.164", body |-> "plain", media |-> "absent", scheduledAt |-> "absent", metadata |-> "absent"],
  [from |-> Strings, to |-> {"no"}, body |-> Strings, media |-> {"few", "many", "nobody", "bad"}, scheduledAt |-> Dates,
   metadata |-> Metadata])

InputSets ==
  [none |-> {"none"}, any |-> {"fit", "unfit"},
   post |-> Around([workspaceId |-> "v4", channels |-> "some", text |-> "plain", media |-> "absent",
                    link |-> "absent", publishAt |-> "rfc3339", metadata |-> "absent", others |-> "none"],
                   [workspaceId |-> {"v7", "nil", "no"}, channels |-> {"none", "unknown"}, text |-> Strings,
                    media |-> {"few", "many", "bad"}, link |-> Urls, publishAt |-> Dates,
                    metadata |-> Metadata, others |-> {"some"}]),
   query |-> Around([cursor |-> "absent", limit |-> "absent", workspaceId |-> "absent", status |-> "absent"],
                    [cursor |-> Strings \cup {"token"}, limit |-> {"within", "no"}, workspaceId |-> {"v4", "v7", "no"},
                     status |-> {"known", "no"}]),
   subscription |-> Around([endpointUrl |-> "https", eventTypes |-> "plain", description |-> "absent", others |-> "none"],
                           [endpointUrl |-> Urls, eventTypes |-> Strings \cup {"none"}, description |-> Strings,
                            others |-> {"some"}]),
   email |-> Emails, emails |-> Emails, sms |-> Smses, smses |-> Smses,
   call |-> Around([from |-> "absent", to |-> "E.164", campaignId |-> "absent", scheduledAt |-> "absent",
                    metadata |-> "absent"],
                   [from |-> {"no"}, to |-> {"no"}, campaignId |-> Strings, scheduledAt |-> Dates, metadata |-> Metadata]),
   transfer |-> Around([callId |-> "plain", destination |-> "plain", metadata |-> "absent"],
                       [callId |-> Strings, metadata |-> Metadata]),
   cancel |-> Around([messageId |-> "plain", operationId |-> "absent", reason |-> "absent"],
                     [messageId |-> Strings, operationId |-> {"v4", "v7"}, reason |-> Strings]),
   trigger |-> Around([commandId |-> "v4"], [commandId |-> {"v7", "no"}]),
   command |-> Around([commandId |-> "v4", commandType |-> "dotted", target |-> "dashed", capability |-> "UPPER",
                       payload |-> "record"],
                      [commandId |-> {"v7", "no"}, target |-> {"no"}, payload |-> {"other"}]),
   decision |-> Around([expectedVersion |-> "positive", reason |-> "plain"],
                       [expectedVersion |-> {"zero"}, reason |-> Strings \cup {"free"}])]

(* Commands of a connector: one in two spellings and by two actors, two     *)
(* whose operations and keys run into the same scope, one without a key    *)
(* and one that cannot be fingerprinted; an adapter in every position of   *)
(* its switches, and the Middleware's connector.                           *)
Command(operation, key, id, actor, payload) ==
  [operation |-> operation, key |-> key, commandId |-> id, actor |-> actor, payload |-> payload]

CommandSet ==
  {Command(<<"send">>, <<"k">>, 1, "a", "ab"), Command(<<"send">>, <<"k">>, 1, "a", "ba"),
   Command(<<"send">>, <<"k">>, 1, "b", "ab"), Command(<<"send">>, NoKey, 1, "a", "ab"),
   Command(<<"send">>, <<"k", "k">>, 1, "a", "zero"), Command(<<"send", "k">>, <<"k">>, 1, "a", "zero"),
   Command(<<"cancel">>, <<"k">>, 2, "a", "minusZero"), Command(<<"cancel">>, <<"k">>, 2, "a", "unprintable")}

Telnexa == [connector |-> "telnexa", enabled |-> TRUE, token |-> TRUE, normalizer |-> TRUE, allowed |-> {"send", "cancel"},
            granted |-> {"sms.write", "sms.live_delivery"}]

SetupSet ==
  {Telnexa, [Telnexa EXCEPT !.enabled = FALSE], [Telnexa EXCEPT !.token = FALSE],
   [Telnexa EXCEPT !.allowed = {"cancel"}, !.normalizer = FALSE], [Telnexa EXCEPT !.granted = {"sms.write"}],
   [Telnexa EXCEPT !.connector = "middleware", !.allowed = {}, !.granted = {}]}

(* Names of one, two and three words, and how a text may be written. *)
Name(words, written) == [words |-> words, written |-> written]
SmsName == Name(<<"sms">>, "plain")
SendName == Name(<<"send">>, "plain")
Scoped(words) == Name(<<"sms">> \o words, "plain")

EnvironmentSet ==
  [flag : {"true", "TRUE"},
   protocols : {<< >>, <<SmsName>>, <<SmsName, Scoped(<<"send">>)>>, <<Name(<<"email">>, "plain"), Name(<< >>, "plain"), Name(<<"sms">>, "shouted")>>,
                <<Name(<<"email">>, "padded")>>},
   operations : {<< >>, <<Scoped(<<"send">>)>>, <<Name(<<"sms", "send">>, "padded"), Scoped(<<"send", "bulk">>)>>,
                 <<SendName>>, <<Name(<<"email", "send">>, "plain")>>}]

ProtocolCommandSet ==
  LET spellings == {Name(<<"x">>, "plain"), Name(<<"x">>, "padded"), Name(<<"x">>, "unfit"), Name(<< >>, "plain")}
      good == [tenant |-> Name(<<"x">>, "plain"), correlation |-> Name(<<"x">>, "plain"),
               idempotency |-> Name(<<"x">>, "plain"), protocol |-> SmsName, operation |-> SendName]
      kinds == [tenant |-> spellings, correlation |-> spellings, idempotency |-> spellings,
                protocol |-> {Name(<<"sms">>, "shouted"), Name(<<"sms">>, "unfit"), Name(<<"email">>, "plain"),
                              Name(<<"sms", "send">>, "plain"), Name(<< >>, "plain")},
                operation |-> {Name(<<"send">>, "padded"), Name(<<"send">>, "unfit"), Name(<<"send", "bulk">>, "plain"),
                               Name(<<"bulk">>, "plain"), Name(<< >>, "padded")}]
  IN Around(good, kinds) \cup Around([good EXCEPT !.protocol = Name(<<"sms">>, "shouted")],
                                      [operation |-> kinds.operation])

MCInit ==
  /\ ContentInit /\ ExchangesInit /\ PagesInit /\ GatewayInit /\ ProtocolInit
  /\ scene \in {"content", "exchange", "pages", "commands", "protocols", "contracts"}
  /\ scene # "exchange" => tenant = "v4"
  /\ scene # "commands" => setup = Telnexa
  /\ IF scene = "contracts" THEN DriftInit ELSE DriftStill

Others(mine) ==
  /\ mine # "content" => UNCHANGED contentVars
  /\ mine # "exchange" => UNCHANGED exchangeVars
  /\ mine # "pages" => UNCHANGED pageVars
  /\ mine # "commands" => UNCHANGED gatewayVars
  /\ mine # "protocols" => UNCHANGED protocolVars
  /\ mine # "contracts" => UNCHANGED driftVars

MCNext ==
  /\ UNCHANGED scene
  /\ \/ scene = "content" /\ MCContentNext
     \/ scene = "exchange" /\ call.stage \in {"idle", "sent"} /\ ExchangesNext
     \/ scene = "pages" /\ PagesNext
     \/ scene = "commands" /\ GatewayNext
     \/ scene = "protocols" /\ ProtocolNext
     \/ scene = "contracts" /\ DriftNext
  /\ Others(scene)

MCSpec ==
  MCInit /\ [][MCNext]_<<contentVars, exchangeVars, pageVars, gatewayVars, protocolVars, driftVars, scene>>
=============================================================================
