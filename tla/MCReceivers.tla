---------------------------- MODULE MCReceivers ----------------------------
(***************************************************************************)
(* Small instances of the three receivers of signed messages, and of the   *)
(* forms of one, for TLC: a behaviour is about the one its scene says, the *)
(* others stand still.                                                     *)
(* One event tells all there is to see of a lease, and the hours do not    *)
(* matter to the trigger but for what has grown stale.                     *)
(***************************************************************************)
EXTENDS Receivers, TLC

VARIABLE scene

Good(id) ==
  [event |-> [specversion |-> "1.0", id |-> id, tenantid |-> "tenant",
              source |-> "urn:codestra:x", type |-> SocialType, time |-> "today",
              datacontenttype |-> "application/json", data |-> "object"],
   data |-> CancelledData("publishing"),
   deliveries |-> DeliveriesOf(<<"x">>)]

(* One event as it should be, and another that is not, or is as good. *)
SomeContents ==
  {[e \in Events |-> IF e = "event" THEN Good("event") ELSE other] :
     other \in {Good("other"), Good("event"),
                [Good("other") EXCEPT !.event.type = "codestra.raw.provider.event.v1"],
                [Good("other") EXCEPT !.data.tenantId = "stranger"]}}

(* The id of the other event has a colon. *)
SomeWords == [e \in Events |-> IF e = "event" THEN <<"e">> ELSE <<"e", "v">>]

(* What one or two changes make of a good showing. *)
Changed(good, kinds) ==
  {good} \cup UNION {{[good EXCEPT ![f] = k] : k \in kinds[f]} : f \in DOMAIN kinds}
Twice(good, kinds) == UNION {Changed(once, kinds) : once \in Changed(good, kinds)}

Plain(words) == [words |-> words, written |-> "plain"]
PlainOptions ==
  [tenant |-> Plain(<<"t">>), endpoint |-> Plain(<<"p">>), signer |-> "current", event |-> "plain", ttl |-> "fit"]
SomeOptions == Changed(PlainOptions,
  [tenant |-> {Plain(<<"p">>), Plain(<<"t", "p">>), Plain(<< >>), [words |-> <<"t">>, written |-> "padded"]},
   endpoint |-> {Plain(<<"q">>), Plain(<<"p", "q">>), [words |-> <<"p">>, written |-> "broken"]},
   signer |-> {"previous", "unknown"}, event |-> {"padded", "another"}, ttl |-> {"unfit"}])

PlainShowing ==
  [id |-> "plain", timestamp |-> "plain", tolerance |-> "fit", tokens |-> <<"match">>,
   secrets |-> <<"current", "previous">>, purpose |-> "replay", options |-> PlainOptions]
SomeShowings ==
  Twice(PlainShowing,
    [id |-> {"padded", "broken"}, timestamp |-> {"respelled", "fraction", "zero"}, tolerance |-> {"unfit"},
     tokens |-> {<< >>, <<"mismatch">>, <<"undecodable", "match">>, <<"mismatch", "unversioned", "match">>},
     secrets |-> {<< >>, <<"previous", "current">>, <<"undefined", "current", "short">>,
                  <<"undecodable", "current">>, <<"previous", "unprefixed", "current">>},
     purpose |-> {"processing"}])
  \cup {[PlainShowing EXCEPT !.purpose = "processing", !.options = o] : o \in SomeOptions}

MCInit ==
  /\ ReceiversInit
  /\ scene \in {"replay", "processing", "trigger", "forms"}
  /\ scene # "replay" => expiring
  /\ scene # "processing" => ~split
  /\ scene # "trigger" => content = [e \in Events |-> Good(e)]

(* A showing after an accepted one, and no more. *)
MayShow == shown.code \in {"none", "ok"} /\ Cardinality(granted) <= 1

Scarce ==
  /\ scene = "processing" => clock' <= 4 /\ \A m \in sent' : m.id = "event" /\ m.at <= 2
  /\ scene = "forms" => clock' <= 3 /\ \A m \in sent' : m.at = 1
  /\ scene = "trigger" => clock' <= 3 /\ secret' = 1 /\ \A m \in sent' : m.at = 1

MCNext ==
  /\ UNCHANGED scene
  /\ \/ shown.code = "none" /\ NetworkStep
     \/ scene = "replay" /\ ReplayStep
     \/ scene = "processing" /\ LeaseStep
     \/ scene = "trigger" /\ EventStep
     \/ scene = "forms" /\ MayShow /\ FormStep
  /\ Scarce

MCSpec == MCInit /\ [][MCNext]_<<receivers, scene>>

Symmetry == Permutations(Workers)
=============================================================================
