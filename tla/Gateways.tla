------------------------------ MODULE Gateways ------------------------------
(***************************************************************************)
(* The two gateways side by side: the connector to the restricted gateway  *)
(* (packages/provider-adapters) and the policy of the protocol gateway     *)
(* (services/camel-protocol-gateway).  They share nothing.                 *)
(***************************************************************************)
EXTENDS GatewayCommands, ProtocolPolicy

(* What the two gateways let through is what they were set up for, and     *)
(* what they say of it is so.                                              *)
GatewaysAreTrue == CommandsAreTrue /\ ProtocolsAreTrue
=============================================================================
