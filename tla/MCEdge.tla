------------------------------- MODULE MCEdge -------------------------------
(***************************************************************************)
(* Small instances of the clients in front of the Middleware.  A behaviour *)
(* is about one scene: "time" runs the intake clock under one mounted      *)
(* form, "page" the remounts, resets, cache clearings and revocations at   *)
(* one instant, "commands" the clients of the command plane, "workflow"    *)
(* the n8n node, "handoff" the dispatchers of the outbox to Svix.          *)
(***************************************************************************)
EXTENDS Intake, CommandClients, WorkflowNode, SvixHandoff, TLC

VARIABLE scene

Life == {3, 4}

(* Two items with an effect, of which the second may be lost; an item with *)
(* a key of its own; a read and an item that is not fit.                   *)
SomeBatches ==
  LET create == [operation |-> "createSocialPost", subject |-> "a", flaw |-> "none", key |-> DefaultKey]
      other == [create EXCEPT !.subject = "b"]
      delete == [create EXCEPT !.operation = "deleteWebhookSubscription"]
      get == [create EXCEPT !.operation = "getSocialPost"]
      own == [create EXCEPT !.key = 1]
  IN {<<create, delete>>, <<own, other>>, <<other, get, [own EXCEPT !.flaw = "text"]>>}

SomeDeliveries ==
  {[event |-> "posted", key |-> "k1", flaw |-> "none"], [event |-> "timeless", key |-> "k2", flaw |-> "time"]}

MCInit ==
  /\ IntakeInit /\ ClientsInit /\ NodeInit /\ HandoffInit
  /\ scene \in {"time", "page", "commands", "workflow", "handoff"}
  /\ scene # "commands" => \A c \in Senders : client[c].kind = "facade" /\ client[c].fixed /\ ~ client[c].signal
  /\ scene # "workflow" => longIds
  /\ scene # "handoff" => delivering /\ application = "a1"

MCNext ==
  /\ scene' = scene
  /\ \/ scene = "commands" /\ ClientsNext /\ UNCHANGED <<intakeVars, nodeVars, handoffVars>>
     \/ scene = "workflow" /\ NodeNext /\ Cardinality(late') <= 1 /\ UNCHANGED <<intakeVars, commandVars, handoffVars>>
     \/ scene = "handoff" /\ HandoffNext /\ UNCHANGED <<intakeVars, commandVars, nodeVars>>
     \/ /\ scene \in {"time", "page"} /\ IntakeNext /\ UNCHANGED <<commandVars, nodeVars, handoffVars>>
        /\ IF scene = "time" THEN page'.mount = 1 /\ events' = 0 ELSE now' = 0

MCSpec ==
  /\ MCInit /\ [][MCNext]_<<intakeVars, commandVars, nodeVars, handoffVars, scene>>
  /\ ClientsFairness
=============================================================================
