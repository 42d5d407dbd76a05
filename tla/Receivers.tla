----------------------------- MODULE Receivers -----------------------------
(***************************************************************************)
(* The receivers of signed messages beside each other: a replay endpoint,  *)
(* a processing endpoint, the internal trigger and the forms of a webhook, *)
(* on one network, under one clock and one secret.  They share nothing     *)
(* else: each has a store of its own.                                      *)
(***************************************************************************)
EXTENDS ReplayEndpoint, ProcessingEndpoint, InternalEvents, WebhookForms

receivers == <<environment, endpoint, processing, trigger, forms>>

ReceiversInit ==
  EnvironmentInit /\ EndpointInit /\ ProcessingInit /\ TriggerInit /\ FormsInit

NetworkStep == EnvironmentStep /\ UNCHANGED <<endpoint, processing, trigger, forms>>
ReplayStep == EndpointStep /\ UNCHANGED <<processing, trigger, forms>>
LeaseStep == ProcessingStep /\ UNCHANGED <<endpoint, trigger, forms>>
EventStep == TriggerStep /\ UNCHANGED <<endpoint, processing, forms>>
FormStep == FormsStep /\ UNCHANGED <<endpoint, processing, trigger>>

ReceiversNext == NetworkStep \/ ReplayStep \/ LeaseStep \/ EventStep \/ FormStep

ReceiversSpec == ReceiversInit /\ [][ReceiversNext]_receivers

-----------------------------------------------------------------------------
(* The two stores of the webhook SDK hold what their endpoints rely on: an *)
(* acceptance within its window is still claimed, a lease has one worker   *)
(* that has not outlived it, and what is marked processed was handled.     *)
StoresHold ==
  /\ EnvironmentTypeOK /\ EndpointTypeOK /\ ProcessingTypeOK
  /\ AcceptedIsClaimed /\ OverlapOnlyAfterExpiry /\ ProcessedWasHandled
=============================================================================
