---------------------------- MODULE WorkflowNode ----------------------------
(***************************************************************************)
(* The Codestra node of an n8n workflow (nodes/Codestra/Codestra.node.ts): *)
(* execute() takes the items of its input one after another, checks the    *)
(* parameters of each, calls the Middleware and throws away all it has got *)
(* when one of them fails.                                                 *)
(*                                                                         *)
(* n8n is external: it starts the node in a new execution, again in the    *)
(* same one when the workflow has a loop or the node fails and is to be    *)
(* tried again, and runs a failed execution anew as another one.  So is    *)
(* the Middleware, by what RunMutation says of it: under an operation and  *)
(* a key one request takes effect once, is replayed, or is left for        *)
(* somebody to settle, and another request is refused.                     *)
(***************************************************************************)
EXTENDS Naturals, Sequences, FiniteSets

CONSTANTS
  Batches,        \* inputs of the node: sequences of items
  MaxExecutions,  \* bound on the executions
  MaxLoops,       \* bound on the visits of the node in an execution
  MaxTries        \* n8n's "max tries" of the node

ASSUME NodeAssumption ==
  /\ MaxExecutions \in Nat /\ MaxLoops \in Nat \ {0} /\ MaxTries \in Nat \ {0}
  /\ \A batch \in Batches : Len(batch) \in Nat

VARIABLES
  longIds,  \* whether n8n's execution ids are long; never changed
  visit,    \* the node's visit under way, or the last one
  output,   \* the items it has answered
  claims,   \* requests the ledger knows, by operation and key
  effects,  \* what the Middleware has done, and for whom
  late      \* requests the node has given up that may still arrive

nodeVars == <<longIds, visit, output, claims, effects, late>>

(* The operations: the parameters each of them asks for, whether it has an *)
(* idempotency key, and what the Middleware makes of a repetition.         *)
Reading(needs) == [needs |-> needs, keyed |-> FALSE, repeated |-> "harmless"]
Ledgered(needs) == [needs |-> needs, keyed |-> TRUE, repeated |-> "ledger"]
Switching(repeated) == [needs |-> {"subscriptionId"}, keyed |-> TRUE, repeated |-> repeated]

NodeOperations ==
  [createSocialPost |-> Ledgered({"workspaceId", "channels", "text"}),
   getSocialPost |-> Reading({"postId"}),
   listSocialPosts |-> Reading({"limit"}),
   cancelSocialPost |-> Ledgered({"postId"}),
   createWebhookSubscription |-> Ledgered({"endpointUrl", "eventTypes"}),
   listWebhookSubscriptions |-> Reading({}),
   getWebhookSubscription |-> Reading({"subscriptionId"}),
   testWebhookSubscription |-> Ledgered({"subscriptionId"}),
   rotateWebhookSubscriptionSecret |-> Ledgered({"subscriptionId"}),
   enableWebhookSubscription |-> Switching("harmless"),
   disableWebhookSubscription |-> Switching("harmless"),
   deleteWebhookSubscription |-> Switching("missing")]

-----------------------------------------------------------------------------
DefaultKey == 0

(* Mutant: the key is made up whenever it is asked for. *)
ItemKeyOfTry(item, index) ==
  IF item.key = DefaultKey THEN <<visit.execution, index + MaxTries * 10 * visit.try>> ELSE <<0, item.key>>

(* The key of an item: its own, a number, or the parameter's default       *)
(* {{$execution.id}}-{{$itemIndex}}, which the tries of a visit share, and *)
(* so do all visits of an execution.                                       *)
ItemKey(item, index) == IF item.key = DefaultKey THEN <<visit.execution, index>> ELSE <<0, item.key>>

(* requireIdempotencyKey wants 16 characters: the default has them when    *)
(* the execution's id is long.                                             *)
KeyTaken(item) == item.flaw # "idempotencyKey" /\ (item.key = DefaultKey => longIds)

(* An item has at most one parameter that is missing or out of bounds.     *)
Prepared(item) ==
  /\ item.operation \in DOMAIN NodeOperations
  /\ item.flaw \notin NodeOperations[item.operation].needs \cup {"correlationId"}
  /\ NodeOperations[item.operation].keyed => KeyTaken(item)

ItemRequest(index) ==
  LET item == visit.batch[index] IN
  [operation |-> item.operation, key |-> ItemKey(item, index), subject |-> item.subject,
   by |-> [input |-> visit.input, execution |-> visit.execution, loop |-> visit.loop, index |-> index]]

Claimed(r) == {c \in claims : c.operation = r.operation /\ c.key = r.key}
Gone(r) == \E e \in effects : e.operation = r.operation /\ e.subject = r.subject

(* The request reaches the Middleware.  settled is FALSE when its work      *)
(* fails halfway: the claim stays, with the effect or without it.          *)
Arrives(r, settled, performed) ==
  CASE NodeOperations[r.operation].repeated = "harmless" -> UNCHANGED <<claims, effects>>
    [] NodeOperations[r.operation].repeated = "missing" ->
         /\ effects' = IF Gone(r) \/ ~ performed THEN effects ELSE effects \cup {r}
         /\ UNCHANGED claims
    [] OTHER ->
         IF Claimed(r) # {} THEN UNCHANGED <<claims, effects>>
         ELSE /\ settled => performed
              /\ claims' = claims \cup {[operation |-> r.operation, key |-> r.key, subject |-> r.subject, settled |-> settled]}
              /\ effects' = IF performed THEN effects \cup {r} ELSE effects

(* Whether it is answered with a success. *)
Succeeds(r, settled, performed) ==
  CASE NodeOperations[r.operation].repeated = "harmless" -> TRUE
    [] NodeOperations[r.operation].repeated = "missing" -> ~ Gone(r) /\ performed
    [] OTHER -> IF Claimed(r) = {} THEN settled ELSE \E c \in Claimed(r) : c.subject = r.subject /\ c.settled

-----------------------------------------------------------------------------
NoVisit == [state |-> "none", input |-> 0, execution |-> 0, loop |-> 0, try |-> 0, index |-> 1, batch |-> << >>]

NodeInit ==
  /\ longIds \in BOOLEAN
  /\ visit = NoVisit
  /\ output = << >>
  /\ claims = {} /\ effects = {} /\ late = {}

BeginVisit(input, execution, loop, try, batch) ==
  /\ visit' = [state |-> "running", input |-> input, execution |-> execution, loop |-> loop, try |-> try,
               index |-> 1, batch |-> batch]
  /\ output' = << >>
  /\ UNCHANGED <<longIds, claims, effects, late>>

Trigger(batch) ==
  /\ visit.state # "running" /\ visit.execution < MaxExecutions
  /\ BeginVisit(visit.input + 1, visit.execution + 1, 1, 1, batch)

LoopAgain(batch) ==
  /\ visit.state = "done" /\ visit.loop < MaxLoops
  /\ BeginVisit(visit.input + 1, visit.execution, visit.loop + 1, 1, batch)

TryAgain ==
  /\ visit.state = "failed" /\ visit.try < MaxTries
  /\ BeginVisit(visit.input, visit.execution, visit.loop, visit.try + 1, visit.batch)

RerunExecution ==
  /\ visit.state = "failed" /\ visit.loop = 1 /\ visit.execution < MaxExecutions
  /\ BeginVisit(visit.input, visit.execution + 1, 1, 1, visit.batch)

Fail == visit' = [visit EXCEPT !.state = "failed"] /\ output' = << >>

ItemAnswered ==
  /\ visit' = [visit EXCEPT !.index = @ + 1]
  /\ output' = Append(output, visit.index)

Finish ==
  /\ visit.state = "running" /\ visit.index > Len(visit.batch)
  /\ visit' = [visit EXCEPT !.state = "done"]
  /\ UNCHANGED <<longIds, output, claims, effects, late>>

Taking == visit.state = "running" /\ visit.index <= Len(visit.batch)

(* A parameter throws: nothing of this item is sent. *)
RefuseItem ==
  /\ Taking /\ ~ Prepared(visit.batch[visit.index])
  /\ Fail
  /\ UNCHANGED <<longIds, claims, effects, late>>

(* The request arrives, and the node hears the answer or does not.         *)
TakeItem(settled, performed, heard) ==
  /\ Taking /\ Prepared(visit.batch[visit.index])
  /\ LET r == ItemRequest(visit.index) IN
       /\ Arrives(r, settled, performed)
       /\ IF heard /\ Succeeds(r, settled, performed) THEN ItemAnswered ELSE Fail
  /\ UNCHANGED <<longIds, late>>

(* The node waits 15 seconds; what it gives up may arrive later or never.  *)
LoseItem ==
  /\ Taking /\ Prepared(visit.batch[visit.index])
  /\ late' = late \cup {ItemRequest(visit.index)}
  /\ Fail
  /\ UNCHANGED <<longIds, claims, effects>>

ArriveLate(r, settled, performed) ==
  /\ r \in late
  /\ late' = late \ {r}
  /\ Arrives(r, settled, performed)
  /\ UNCHANGED <<longIds, visit, output>>

NodeNext ==
  \/ \E batch \in Batches : Trigger(batch) \/ LoopAgain(batch)
  \/ TryAgain \/ RerunExecution \/ RefuseItem \/ LoseItem \/ Finish
  \/ \E settled, performed \in BOOLEAN :
       \/ \E heard \in BOOLEAN : TakeItem(settled, performed, heard)
       \/ \E r \in late : ArriveLate(r, settled, performed)

NodeSpec == NodeInit /\ [][NodeNext]_nodeVars

-----------------------------------------------------------------------------
NodeTypeOK ==
  /\ longIds \in BOOLEAN
  /\ visit = NoVisit \/ (visit.batch \in Batches /\ visit.index \in 1 .. Len(visit.batch) + 1)
  /\ visit.execution \in 0 .. MaxExecutions /\ visit.loop \in 0 .. MaxLoops /\ visit.try \in 0 .. MaxTries
  /\ output = IF visit.state \in {"running", "done"} THEN [i \in 1 .. visit.index - 1 |-> i] ELSE << >>

(* An item of the input takes effect once, however often the node is tried *)
(* again, whatever is lost or late; a second time only when the execution  *)
(* is run anew and the item has no key of its own, or what it deletes or   *)
(* repeats was asked for by another input.                                 *)
ItemsRunOnce ==
  \A e, f \in effects :
    e # f /\ e.by.input = f.by.input /\ e.by.index = f.by.index =>
      e.by.execution # f.by.execution /\ e.key[1] # 0

(* An item in the output has been done, by this visit or before it under   *)
(* the same key with the same request: that a failure is thrown and never  *)
(* skipped makes the output the whole input.                               *)
OutputIsDone ==
  /\ visit.state = "done" => Len(output) = Len(visit.batch)
  /\ \A i \in 1 .. Len(output) :
       LET r == ItemRequest(i) IN
       NodeOperations[r.operation].repeated # "harmless" =>
         \E e \in effects : e.operation = r.operation /\ e.subject = r.subject
                            /\ (NodeOperations[r.operation].repeated = "ledger" => e.key = r.key)

(* Nothing of an item is done before all of the items in front of it are.  *)
DoneInOrder ==
  \A e \in effects :
    e.by.execution = visit.execution /\ e.by.loop = visit.loop =>
      \A i \in 1 .. e.by.index - 1 :
        LET r == ItemRequest(i) IN
        NodeOperations[r.operation].repeated = "ledger" =>
          \E f \in effects : f.operation = r.operation /\ f.key = r.key /\ f.subject = r.subject

(* What a workflow leaves to the Codestra node (execute()) is done once, in *)
(* order, and before the node says so.                                     *)
NodeIsTrue == NodeTypeOK /\ ItemsRunOnce /\ OutputIsDone /\ DoneInOrder
=============================================================================
