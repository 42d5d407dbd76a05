----------------------------- MODULE SvixHandoff -----------------------------
(***************************************************************************)
(* The handoff of outbox events to Svix (packages/svix-delivery):          *)
(* SvixDeliveryService.deliver() checks the command, asks for the tenant's *)
(* Svix application and creates the message there, under the event's       *)
(* idempotency key.                                                        *)
(*                                                                         *)
(* The outbox, the resolver and Svix are external.  The outbox gives an    *)
(* event to a dispatcher until it has a receipt or is told of a failure    *)
(* that is not retryable; several dispatchers overlap and may crash.  The  *)
(* tenant may be moved to another application.  Svix creates one message   *)
(* of a key in an application and answers a repetition with the same one.  *)
(***************************************************************************)
EXTENDS Naturals, FiniteSets

CONSTANTS
  Dispatchers,
  Deliveries,   \* the commands: an event, its key and a flaw, "none" for no flaw
  Applications,
  NoWork,       \* a dispatcher without a command
  MaxMoves      \* bound on the moves of the tenant

(* Each event has an idempotency key of its own (svix-delivery/README.md). *)
ASSUME HandoffAssumption ==
  /\ MaxMoves \in Nat /\ NoWork \notin Deliveries
  /\ \A c1, c2 \in Deliveries : c1.key = c2.key <=> c1.event = c2.event

VARIABLES
  delivering,   \* options.enabled; never changed
  handing,      \* what each dispatcher is doing
  application,  \* the tenant's application
  moves,
  messages,     \* what Svix has accepted
  answers       \* what deliver() has come to, with its command

handoffVars == <<delivering, handing, application, moves, messages, answers>>

Idling == [stage |-> "idle", command |-> NoWork, application |-> "none"]

(* What requireSingleLine(), requireIdempotencyKey() and                   *)
(* validateCloudEvent() look at.                                           *)
Flaws == {"tenantId", "idempotencyKey", "specversion", "id", "type", "source", "time"}

(* The SvixDeliveryErrors that are not retryable, by what they complain of. *)
Final == {"disabled", "command", "applicationId", "messageId"}

(* The outbox still has the event: a failure that is no SvixDeliveryError  *)
(* does not say that it is final.                                          *)
Outstanding(c) == ~ \E a \in answers : a.command = c /\ a.ending \in Final \cup {"receipt"}

HandoffInit ==
  /\ delivering \in BOOLEAN
  /\ handing = [d \in Dispatchers |-> Idling]
  /\ application \in Applications
  /\ moves = 0
  /\ messages = {} /\ answers = {}

Hand(d, stage, c, app) == handing' = [handing EXCEPT ![d] = [stage |-> stage, command |-> c, application |-> app]]

Conclude(d, c, ending, message) ==
  /\ answers' = answers \cup {[command |-> c, ending |-> ending, message |-> message]}
  /\ handing' = [handing EXCEPT ![d] = Idling]

NoMessage == <<"none", "none">>

(* deliver() up to its first await: disabled, or a command that is not fit *)
Deliver(d, c) ==
  /\ handing[d] = Idling /\ Outstanding(c)
  /\ IF ~ delivering THEN Conclude(d, c, "disabled", NoMessage)
     ELSE IF c.flaw \in Flaws THEN Conclude(d, c, "command", NoMessage)
     ELSE Hand(d, "resolving", c, "none") /\ UNCHANGED answers
  /\ UNCHANGED <<delivering, application, moves, messages>>

(* resolveApplicationId() answers, with a blank, or fails: its failure is  *)
(* passed on as it is, for it is outside of the try.                       *)
Resolve(d, outcome) ==
  /\ handing[d].stage = "resolving"
  /\ CASE outcome = "resolved" -> Hand(d, "creating", handing[d].command, application) /\ UNCHANGED answers
       [] outcome = "blank"    -> Conclude(d, handing[d].command, "applicationId", NoMessage)
       [] outcome = "failed"   -> Conclude(d, handing[d].command, "error", NoMessage)
  /\ UNCHANGED <<delivering, application, moves, messages>>

(* Mutant: the key is made for the request, not for the event. *)
MessageOfRequest(d) == <<handing[d].application, handing[d].command.key, d>>

(* Svix names a message by its application and key. *)
MessageOf(d) == <<handing[d].application, handing[d].command.key>>

Accept(d) ==
  messages' = IF \E m \in messages : m.id = MessageOf(d) THEN messages
              ELSE messages \cup {[id |-> MessageOf(d), event |-> handing[d].command.event]}

(* message.create fails, having reached Svix or not: every failure of it   *)
(* is SVIX_HANDOFF_FAILED, retryable.                                      *)
CreateFails(d, arrives) ==
  /\ handing[d].stage = "creating"
  /\ IF arrives THEN Accept(d) ELSE UNCHANGED messages
  /\ Conclude(d, handing[d].command, "SVIX_HANDOFF_FAILED", NoMessage)
  /\ UNCHANGED <<delivering, application, moves>>

(* The message is created.  When the answer names none, the check of its   *)
(* id throws a SvixDeliveryError, which the catch passes on: not retryable. *)
Create(d, named) ==
  /\ handing[d].stage = "creating"
  /\ Accept(d)
  /\ IF named THEN Conclude(d, handing[d].command, "receipt", MessageOf(d))
     ELSE Conclude(d, handing[d].command, "messageId", NoMessage)
  /\ UNCHANGED <<delivering, application, moves>>

DispatcherCrashes(d, arrives) ==
  /\ handing[d] # Idling
  /\ IF arrives /\ handing[d].stage = "creating" THEN Accept(d) ELSE UNCHANGED messages
  /\ handing' = [handing EXCEPT ![d] = Idling]
  /\ UNCHANGED <<delivering, application, moves, answers>>

Move(app) ==
  /\ moves < MaxMoves /\ app # application
  /\ moves' = moves + 1 /\ application' = app
  /\ UNCHANGED <<delivering, handing, messages, answers>>

HandoffNext ==
  \/ \E d \in Dispatchers :
       \/ \E c \in Deliveries : Deliver(d, c)
       \/ \E outcome \in {"resolved", "blank", "failed"} : Resolve(d, outcome)
       \/ \E b \in BOOLEAN : Create(d, b) \/ CreateFails(d, b) \/ DispatcherCrashes(d, b)
  \/ \E app \in Applications : Move(app)

HandoffSpec == HandoffInit /\ [][HandoffNext]_handoffVars

-----------------------------------------------------------------------------
HandoffTypeOK ==
  /\ application \in Applications /\ moves \in 0 .. MaxMoves
  /\ \A d \in Dispatchers :
       \/ handing[d] = Idling
       \/ /\ handing[d].stage \in {"resolving", "creating"} /\ handing[d].command \in Deliveries
          /\ handing[d].application \in IF handing[d].stage = "creating" THEN Applications ELSE {"none"}

(* An event becomes one message however often it is handed over, and one   *)
(* more for every application the tenant was moved to in between.          *)
OneMessageEach ==
  \A c \in Deliveries : Cardinality({m \in messages : m.event = c.event}) <= 1 + moves

(* A receipt is of the event's own message.                                *)
ReceiptIsTrue ==
  \A a \in answers : a.ending = "receipt" =>
    \E m \in messages : m.id = a.message /\ m.event = a.command.event

(* A fit command is given up without a receipt only when nothing can come  *)
(* of it, the switch being off or the tenant having no application, or     *)
(* when its message is at Svix all the same.                               *)
GivenUpForAReason ==
  \A a \in answers : a.ending \in Final /\ a.command.flaw = "none" =>
    \/ ~ delivering /\ a.ending = "disabled"
    \/ a.ending = "applicationId"
    \/ \E m \in messages : m.event = a.command.event

(* An event that is handed to Svix (deliver()) arrives once, and what its   *)
(* dispatchers are told of it is so.                                       *)
HandoffIsTrue == HandoffTypeOK /\ OneMessageEach /\ ReceiptIsTrue /\ GivenUpForAReason
=============================================================================
