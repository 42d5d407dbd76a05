--------------------------- MODULE ProtocolPolicy ---------------------------
(***************************************************************************)
(* The protocol gateway (services/camel-protocol-gateway): a process that  *)
(* starts when it is told to, reads its allowlists once and lets through   *)
(* the commands they name.  The commands come from the Middleware, which   *)
(* is external; behind the check no protocol is connected yet.             *)
(*                                                                         *)
(* A text is its words between colons, in lower case, and how it is        *)
(* written: "plain", "shouted" (in upper case), "padded" by blanks, or     *)
(* "unfit" (a control character in it, or too long).  Without words it is  *)
(* blank.                                                                  *)
(***************************************************************************)
EXTENDS Naturals, Sequences, FiniteSets

CONSTANTS
  Environments,      \* flag and allowlists, the lists as sequences of texts; << >> when unset
  ProtocolCommands,  \* the five headers of a command
  MaxStarts          \* bound on the starts of the process

Spellings == [words : Seq(STRING), written : {"plain", "shouted", "padded", "unfit"}]

ASSUME SpellingsAssumption ==
  /\ \A e \in Environments : e.protocols \in Seq(Spellings) /\ e.operations \in Seq(Spellings)
  /\ \A c \in ProtocolCommands :
       \A h \in {"tenant", "correlation", "idempotency", "protocol", "operation"} : c[h] \in Spellings

VARIABLES
  gate,    \* the process: whether it is up, in which environment, and the policy it has read
  starts,
  letBy    \* the last command and whether it was let through

protocolVars == <<gate, starts, letBy>>

Down == [up |-> FALSE]
NoCommand == [through |-> FALSE, why |-> "none"]

ProtocolInit == gate = Down /\ starts = 0 /\ letBy = NoCommand

-----------------------------------------------------------------------------
(* parseCsv() trims, drops blank items and normalizes: the words are left. *)
ReadList(texts) == {texts[i].words : i \in 1 .. Len(texts)} \ {<< >>}

(* fromEnvironment(). *)
PolicyOf(e) == [protocols |-> ReadList(e.protocols), operations |-> ReadList(e.operations)]

(* main(): the flag is "true" to the letter.  GatewayRoutes is built with  *)
(* that policy.                                                            *)
StartGateway(e) ==
  /\ ~ gate.up /\ starts < MaxStarts
  /\ starts' = starts + 1
  /\ gate' = IF e.flag # "true" THEN Down
             ELSE [up |-> TRUE, environment |-> e, policy |-> PolicyOf(e)]
  /\ letBy' = NoCommand

StopGateway == gate.up /\ gate' = Down /\ letBy' = NoCommand /\ UNCHANGED starts

(* requireHeader(), of what is written and not of what is left of it. *)
Missing(text) == text.words = << >>
Unfit(text) == text.written = "unfit"

Required == <<"tenant", "correlation", "idempotency", "protocol", "operation">>

Refused(c) == {i \in 1 .. Len(Required) : Missing(c[Required[i]]) \/ Unfit(c[Required[i]])}

(* assertAllowed(): the headers in order, then the protocol, then the      *)
(* operation within it.                                                    *)
WhyRefused(c) ==
  IF Refused(c) # {} THEN Required[CHOOSE i \in Refused(c) : \A j \in Refused(c) : i <= j]
  ELSE IF c.protocol.words \notin gate.policy.protocols THEN "Protocol is not enabled"
  ELSE IF c.protocol.words \o c.operation.words \notin gate.policy.operations THEN "Operation is not enabled"
  ELSE "none"

(* The route direct:protocol-command. *)
ProtocolCommand(c) ==
  /\ gate.up
  /\ letBy' = [through |-> WhyRefused(c) = "none", why |-> WhyRefused(c), command |-> c]
  /\ UNCHANGED <<gate, starts>>

ProtocolNext ==
  \/ \E e \in Environments : StartGateway(e)
  \/ StopGateway
  \/ \E c \in ProtocolCommands : ProtocolCommand(c)

ProtocolSpec == ProtocolInit /\ [][ProtocolNext]_protocolVars

-----------------------------------------------------------------------------
Names(texts, words) == \E i \in 1 .. Len(texts) : texts[i].words = words /\ words # << >>

(* One of the texts is the operation's under that very protocol. *)
NamesWithin(texts, protocol, operation) ==
  \E i \in 1 .. Len(texts) :
    Len(texts[i].words) > 1 /\ <<Head(texts[i].words)>> = protocol /\ Tail(texts[i].words) = operation

Traceable(c) ==
  /\ \A h \in {"tenant", "correlation", "idempotency"} : c[h].words # << >> /\ c[h].written # "unfit"
  /\ c.protocol.written # "unfit" /\ c.operation.written # "unfit"

(* A command is let through when and only when the operator who started    *)
(* the process meant it: the flag is set, one list names its protocol and  *)
(* the other its operation under that very protocol, in whatever spelling; *)
(* an empty list, or one of the two alone, lets nothing through; and no    *)
(* command passes that could not be traced or told from its repetition.    *)
(* A protocol whose own name holds a colon is left out of "only": its      *)
(* operations cannot be told from those of the protocol before the colon.  *)
ProtocolsAreTrue ==
  /\ gate.up => gate.environment.flag = "true"
  /\ letBy # NoCommand =>
       LET c == letBy.command
           e == gate.environment
           meant == NamesWithin(e.operations, c.protocol.words, c.operation.words)
           proper == Names(e.protocols, c.protocol.words) /\ Traceable(c)
       IN /\ letBy.through => proper /\ (Len(c.protocol.words) = 1 => meant)
          /\ meant /\ proper => letBy.through
=============================================================================
