--------------------------- MODULE CanonicalEvent ---------------------------
(***************************************************************************)
(* What the internal trigger of the n8n package takes for a canonical      *)
(* event (integrations/n8n-nodes/src: internal-event-schema.ts and         *)
(* internal-event-primitives.ts), what the contracts say one is            *)
(* (contracts/asyncapi/codestra-events.asyncapi.yaml,                      *)
(* contracts/schemas/events/social-post-status.schema.json), and what the  *)
(* Middleware writes to its outbox (routes/social-posts.ts).               *)
(*                                                                         *)
(* A JSON object is a function on the names of its members.  A member's    *)
(* value is a word; the words are sorted by what the checks tell apart.    *)
(* An event is three objects: its own members, those of its data and, when *)
(* the data has deliveries, the list of them.                              *)
(***************************************************************************)
EXTENDS Sequences, SequencesExt, CheckLists

SocialType == "codestra.social.post.status.v1"
WebhookType == "codestra.webhook.delivery.status.v1"

Uuids == {"tenant", "stranger", "event", "other", "thing"}
Dates == {"today"}
(* What Date.parse() takes and RFC 3339 does not. *)
LooseDates == {"1 June 2026"}
(* Of the URIs only the first two are https or urn. *)
AbsoluteUris == {"urn:codestra:x", "urn:alien:x"}
Uris == AbsoluteUris \cup {"http://x", "/relative"}
SocialStatuses == {"accepted", "scheduled", "publishing", "published",
                   "partially_published", "failed", "cancelled"}
WebhookStatuses == {"queued", "attempting", "delivered", "failed", "dead_lettered"}
Channels == {"facebook", "instagram", "linkedin", "x", "youtube", "tiktok"}
Attempts == {"0", "7"}
HugeAttempts == {"2000000"}

(* Strings n8n refuses anywhere: too long, empty, with a line break. *)
OddTexts == {"long", "", "two\nlines"}
Objects == {"object"}
Lists == {"list"}
NotTexts == Objects \cup Lists \cup Attempts \cup HugeAttempts \cup {"null", "undefined"}

-----------------------------------------------------------------------------
Get(o, k) == IF k \in DOMAIN o THEN o[k] ELSE "undefined"
Maybe(o, k, holds) == k \in DOMAIN o => holds

(* requireString(); requireUuid() and requireEnum(); requireDateTime(). *)
IsText(o, k) == Get(o, k) \notin NotTexts \cup OddTexts
IsOneOf(o, k, set) == Get(o, k) \in set
IsDate(o, k) == IsOneOf(o, k, Dates \cup LooseDates)

EventKeys == {"specversion", "id", "tenantid", "source", "type", "subject", "time",
              "datacontenttype", "dataschema", "data"}
SocialKeys == {"postId", "tenantId", "previousStatus", "status", "deliveries", "occurredAt"}
DeliveryKeys == {"channel", "status", "externalId", "failureCode", "failureMessage"}
WebhookKeys == {"deliveryId", "endpointId", "status", "attempt", "occurredAt"}

DeliveryFailure(d) ==
  FirstFailure(<<
    <<DOMAIN d \subseteq DeliveryKeys, "UNKNOWN_FIELD">>,
    <<IsOneOf(d, "channel", Channels), "INVALID_ENUM">>,
    <<IsOneOf(d, "status", SocialStatuses), "INVALID_ENUM">>,
    <<Maybe(d, "externalId", IsText(d, "externalId")), "INVALID_STRING">>,
    <<Maybe(d, "failureCode", IsText(d, "failureCode")), "INVALID_STRING">>,
    <<Maybe(d, "failureMessage", IsText(d, "failureMessage")), "INVALID_STRING">> >>)

SocialDataFailure(e, tenant) ==
  LET data == e.data IN
  FirstFailure(<<
    <<DOMAIN data \subseteq SocialKeys, "UNKNOWN_FIELD">>,
    <<IsOneOf(data, "tenantId", Uuids), "INVALID_UUID">>,
    <<Get(data, "tenantId") = tenant, "EVENT_TENANT_MISMATCH">>,
    <<IsOneOf(data, "postId", Uuids), "INVALID_UUID">>,
    <<Maybe(data, "previousStatus", IsOneOf(data, "previousStatus", SocialStatuses)),
      "INVALID_ENUM">>,
    <<IsOneOf(data, "status", SocialStatuses), "INVALID_ENUM">>,
    <<IsOneOf(data, "deliveries", Lists), "INVALID_ARRAY">>,
    <<\A i \in DOMAIN e.deliveries : DeliveryFailure(e.deliveries[i]) = "ok",
      "INVALID_DELIVERY">>,
    <<IsDate(data, "occurredAt"), "INVALID_DATETIME">> >>)

WebhookDataFailure(e) ==
  LET data == e.data IN
  FirstFailure(<<
    <<DOMAIN data \subseteq WebhookKeys, "UNKNOWN_FIELD">>,
    <<IsOneOf(data, "deliveryId", Uuids), "INVALID_UUID">>,
    <<IsOneOf(data, "endpointId", Uuids), "INVALID_UUID">>,
    <<IsOneOf(data, "status", WebhookStatuses), "INVALID_ENUM">>,
    <<Maybe(data, "attempt", IsOneOf(data, "attempt", Attempts)), "INVALID_INTEGER">>,
    <<IsDate(data, "occurredAt"), "INVALID_DATETIME">> >>)

DataFailure(e, tenant) ==
  IF e.event.type = SocialType
  THEN SocialDataFailure(e, tenant)
  ELSE WebhookDataFailure(e)

(* parseAndValidateCanonicalEvent(), of a trigger configured with the      *)
(* types and the sources it allows, for the tenant of the header.  A body  *)
(* that is not JSON has no members.                                        *)
EventFailure(e, types, sources, tenant) ==
  LET event == e.event
      envelope == FirstFailure(<<
        <<DOMAIN event \subseteq EventKeys, "UNKNOWN_FIELD">>,
        <<Get(event, "specversion") = "1.0", "INVALID_EVENT_SPECVERSION">>,
        <<Get(event, "datacontenttype") = "application/json", "INVALID_EVENT_CONTENT_TYPE">>,
        <<IsOneOf(event, "tenantid", Uuids), "INVALID_UUID">>,
        <<IsText(event, "type"), "INVALID_STRING">>,
        <<IsText(event, "source"), "INVALID_STRING">>,
        <<Get(event, "tenantid") = tenant, "EVENT_TENANT_MISMATCH">>,
        <<Get(event, "type") \in types, "EVENT_TYPE_NOT_ALLOWED">>,
        <<Get(event, "source") \in sources, "EVENT_SOURCE_NOT_ALLOWED">>,
        <<IsOneOf(event, "id", Uuids), "INVALID_UUID">>,
        <<IsDate(event, "time"), "INVALID_DATETIME">>,
        <<Maybe(event, "subject", IsText(event, "subject")), "INVALID_STRING">>,
        <<Maybe(event, "dataschema", IsOneOf(event, "dataschema", AbsoluteUris)),
          "INVALID_URI">>,
        <<Get(event, "type") \in {SocialType, WebhookType}, "EVENT_SCHEMA_NOT_SUPPORTED">>,
        <<IsOneOf(event, "data", Objects), "INVALID_OBJECT">> >>)
  IN IF envelope # "ok" THEN envelope ELSE DataFailure(e, tenant)

-----------------------------------------------------------------------------
(* The contracts.  A JSON schema's "string" takes any of these. *)
IsString(o, k) == Get(o, k) \notin NotTexts

DeliveryConforms(d) ==
  /\ DOMAIN d \subseteq DeliveryKeys
  /\ IsString(d, "channel")
  /\ IsOneOf(d, "status", SocialStatuses)
  /\ \A k \in {"externalId", "failureCode", "failureMessage"} : Maybe(d, k, IsString(d, k))

(* social-post-status.schema.json, and the payload of                      *)
(* WebhookDeliveryStatusChanged.                                           *)
DataConforms(e) ==
  LET data == e.data IN
  IF e.event.type = SocialType
  THEN /\ DOMAIN data \subseteq SocialKeys
       /\ IsOneOf(data, "postId", Uuids)
       /\ IsOneOf(data, "tenantId", Uuids)
       /\ Maybe(data, "previousStatus", IsOneOf(data, "previousStatus", SocialStatuses))
       /\ IsOneOf(data, "status", SocialStatuses)
       /\ IsOneOf(data, "deliveries", Lists)
       /\ \A i \in DOMAIN e.deliveries : DeliveryConforms(e.deliveries[i])
       /\ IsOneOf(data, "occurredAt", Dates)
  ELSE /\ DOMAIN data \subseteq WebhookKeys
       /\ IsOneOf(data, "deliveryId", Uuids)
       /\ IsOneOf(data, "endpointId", Uuids)
       /\ IsOneOf(data, "status", WebhookStatuses)
       /\ Maybe(data, "attempt", IsOneOf(data, "attempt", Attempts \cup HugeAttempts))
       /\ IsOneOf(data, "occurredAt", Dates)

(* CloudEventEnvelope, with additionalProperties false. *)
EnvelopeConforms(event) ==
  /\ DOMAIN event \subseteq EventKeys \ {"tenantid"}
  /\ Get(event, "specversion") = "1.0"
  /\ IsOneOf(event, "id", Uuids)
  /\ IsString(event, "source")
  /\ IsString(event, "type")
  /\ Maybe(event, "subject", IsString(event, "subject"))
  /\ IsOneOf(event, "time", Dates)
  /\ Get(event, "datacontenttype") = "application/json"
  /\ Maybe(event, "dataschema", IsOneOf(event, "dataschema", Uris))
  /\ "data" \in DOMAIN event

-----------------------------------------------------------------------------
(* The payload of create and of cancel, as data of an event. *)
CreatedData ==
  [postId |-> "thing", tenantId |-> "tenant", status |-> "accepted",
   deliveries |-> "list", occurredAt |-> "today"]
CancelledData(previous) ==
  [postId |-> "thing", tenantId |-> "tenant", previousStatus |-> previous,
   status |-> "cancelled", deliveries |-> "list", occurredAt |-> "today"]
DeliveriesOf(channels) ==
  [i \in DOMAIN channels |-> [channel |-> channels[i], status |-> "accepted"]]
=============================================================================
