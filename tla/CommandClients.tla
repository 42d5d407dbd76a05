--------------------------- MODULE CommandClients ---------------------------
(***************************************************************************)
(* The three clients of the command plane (POST /v1/commands and           *)
(* GET /v1/operations/{id}): CodestraCommunicationsClient, which repeats   *)
(* keyed requests; the CodestraSdk facade, which sends once and leaves the *)
(* timing to a caller that passes a signal; and the Python                 *)
(* CodestraMiddlewareClient, which sends once, calls an ambiguous outcome  *)
(* unknown and reads it back.  The plane itself is external: it executes a *)
(* key once, answers the same envelope again as a duplicate and refuses    *)
(* another command under the key.                                          *)
(*                                                                         *)
(* A caller has one intent and one idempotency key for it; it may call     *)
(* again, with the key, when a call ended without settling the matter.     *)
(***************************************************************************)
EXTENDS Naturals, FiniteSets

CONSTANTS Senders,      \* one intent and one key each
          MaxResends,   \* maxRetries of the communications client
          ReadAttempts, \* read_attempts of the Python client
          MaxRounds,    \* bound on the calls a caller makes
          Nothing       \* no command

ASSUME ClientsAssumption ==
  /\ {MaxResends, ReadAttempts, MaxRounds} \subseteq Nat /\ ReadAttempts >= 1 /\ MaxRounds >= 1
  /\ Nothing \notin Nat \X Nat  \* no command identifier

VARIABLES client, \* each caller's client and the call it is in
          posts,  \* commands sent and not yet seen by the plane
          plane   \* the command the plane has executed for each caller's key

commandVars == <<client, posts, plane>>

Kinds == {"communications", "facade", "python"}

(* An answer of the plane: its class of status, and whether its body says   *)
(* retryable; a fault's says so, or leaves it to the status.                *)
Executed == {"operation"}
Faults == {"limited", "broken", "unavailable"}      \* 429; 500; 502, 503, 504
Refused == {"denied", "conflict"}                   \* 400, 401, 403; 409
PlaneAnswers == [status : Executed \cup Faults \cup Refused, retryable : BOOLEAN]

(* What a call ends with.  "unread" is a success whose body the client       *)
(* cannot use, "timeout" its own timer, "network" a failed fetch.           *)
Endings == {"none", "operation", "rejected", "again", "conflict", "unknown", "unread", "timeout",
            "network", "aborted", "disabled", "found", "absent", "unavailable"}

(* Endings after which the caller may still have to try its intent again. *)
Unsettled == {"again", "unknown", "unread", "timeout", "network", "absent", "unavailable"}

(* A caller before its first call: its client, whether the command's        *)
(* identifier is its own, whether it passes a signal, and whether the        *)
(* Python client's allowlist has the capability.                            *)
Newcomers == [kind : Kinds, fixed : BOOLEAN, signal : BOOLEAN, allowed : BOOLEAN, pc : {"ready"},
              round : {0}, attempt : {0}, ending : {"none"}, sends : {0}, status : {"none"}]

ClientsInit ==
  /\ client \in [Senders -> Newcomers]
  /\ \A c \in Senders : client[c].kind = "python" => client[c].fixed /\ ~ client[c].signal
  /\ \A c \in Senders : client[c].kind # "python" => client[c].allowed
  /\ posts = {}
  /\ plane = [c \in Senders |-> Nothing]

(* The command id of the envelope: the caller's own, or the factory's, drawn *)
(* once for a call and kept for its attempts.                               *)
CommandId(c, round, attempt) == IF client[c].fixed THEN <<0, 0>> ELSE <<round, 0>>

(* Every client lets the caller's signal replace its timer. *)
HasTimerUnlessSignalled(c) == ~ client[c].signal

(* The communications client arms its timer beside the caller's signal and   *)
(* httpx has one of its own; the facade's is replaced by the caller's signal. *)
HasTimer(c) == client[c].kind # "facade" \/ ~ client[c].signal

(* Sends the request of an attempt: every attempt of a call has one body. *)
Post(c, round, attempt) ==
  /\ posts' = posts \cup {[caller |-> c, round |-> round, attempt |-> attempt,
                           id |-> CommandId(c, round, attempt)]}
  /\ client' = [client EXCEPT ![c].pc = "sent", ![c].round = round, ![c].attempt = attempt,
                              ![c].ending = "none", ![c].status = "none", ![c].sends = @ + 1]

EndCall(c, ending) == client' = [client EXCEPT ![c].pc = "ended", ![c].ending = ending]

(* submitCommand / submitCanonicalCommand / submit_command.  The Python      *)
(* client refuses a capability that is not allowlisted before it sends.     *)
Call(c) ==
  /\ client[c].pc = "ready" \/ (client[c].pc = "ended" /\ client[c].ending \in Unsettled)
  /\ client[c].round < MaxRounds
  /\ \/ client[c].allowed /\ Post(c, client[c].round + 1, 0)
     \/ ~ client[c].allowed /\ EndCall(c, "disabled") /\ UNCHANGED posts
  /\ UNCHANGED plane

(* Whether the communications client sends the request again: it is keyed,   *)
(* an attempt is left, and the status is a retryable one or the body says so. *)
SendsAgain(c, answer) ==
  /\ client[c].kind = "communications" /\ client[c].attempt < MaxResends
  /\ answer.status \in Faults \/ answer.retryable

(* Gateway failures taken for answers of the plane. *)
PythonEndingByMapping(answer) ==
  CASE answer.status = "limited"  -> "again"
    [] answer.status = "conflict" -> "conflict"
    [] OTHER                      -> "rejected"

(* What the Python client makes of an answer that is no operation. *)
PythonEnding(answer) ==
  CASE answer.status = "unavailable" -> "unknown"
    [] answer.status = "limited"     -> "again"
    [] answer.status = "conflict"    -> "conflict"
    [] OTHER                         -> "rejected"

(* What a TypeScript client throws for the last answer it gets: the body's   *)
(* retryable flag decides, or the status where the body has none.           *)
ErrorEnding(answer) ==
  CASE answer.status = "conflict"              -> "conflict"
    [] answer.retryable                        -> "again"
    [] OTHER                                   -> "rejected"

EndingOf(c, answer) ==
  IF answer.status = "operation" THEN "operation"
  ELSE IF client[c].kind = "python" THEN PythonEnding(answer) ELSE ErrorEnding(answer)

Awaited(m) ==
  /\ client[m.caller].pc = "sent"
  /\ client[m.caller].round = m.round /\ client[m.caller].attempt = m.attempt

(* The plane sees a command and answers it; a fault may come before or after *)
(* the command was executed.  If the client still waits, it gets the answer. *)
PlaneReceives(m) ==
  /\ m \in posts
  /\ posts' = posts \ {m}
  /\ \E answer \in PlaneAnswers, executes \in BOOLEAN :
       LET known == plane[m.caller]
           then == IF executes THEN m.id ELSE known
       IN /\ executes => known = Nothing /\ answer.status \notin Refused
          /\ answer.status = "operation" => then = m.id /\ ~ answer.retryable
          /\ answer.status = "conflict" <=> known \notin {Nothing, m.id} /\ answer.status \notin Faults \cup {"denied"}
          /\ answer.status = "limited" => ~ executes
          /\ answer.status \in Faults => answer.retryable
          /\ plane' = [plane EXCEPT ![m.caller] = then]
          /\ client' = IF Awaited(m)
               THEN [client EXCEPT ![m.caller].pc = IF SendsAgain(m.caller, answer) THEN "waiting" ELSE "ended",
                                   ![m.caller].ending = IF SendsAgain(m.caller, answer) THEN "none"
                                                        ELSE EndingOf(m.caller, answer),
                                   ![m.caller].status = answer.status]
               ELSE client

(* The answer is a success, but of no use: not JSON, not an operation.  A    *)
(* body that is cut off counts as a failed fetch and is retried.            *)
Unreadable(m) ==
  /\ m \in posts /\ Awaited(m)
  /\ plane[m.caller] \in {Nothing, m.id}
  /\ plane' = [plane EXCEPT ![m.caller] = m.id]
  /\ posts' = posts \ {m}
  /\ \/ EndCall(m.caller, "unread")
     \/ /\ client[m.caller].kind = "communications" /\ client[m.caller].attempt < MaxResends
        /\ client' = [client EXCEPT ![m.caller].pc = "waiting"]

(* The fetch fails, with the request on its way or not. *)
Fails(c) ==
  /\ client[c].pc = "sent"
  /\ posts' \in {posts, {m \in posts : ~ (m.caller = c /\ Awaited(m))}}
  /\ CASE client[c].kind = "communications" /\ client[c].attempt < MaxResends ->
            client' = [client EXCEPT ![c].pc = "waiting"]
       [] client[c].kind = "python" -> EndCall(c, "unknown")
       [] OTHER -> EndCall(c, "network")
  /\ UNCHANGED plane

(* The client's timer ends the call: no attempt follows a timeout. *)
TimesOut(c) ==
  /\ client[c].pc = "sent" /\ HasTimer(c)
  /\ EndCall(c, IF client[c].kind = "python" THEN "unknown" ELSE "timeout")
  /\ UNCHANGED <<posts, plane>>

(* The caller's signal is aborted during a fetch or between two of them. *)
Aborts(c) ==
  /\ client[c].pc \in {"sent", "waiting"} /\ client[c].signal
  /\ EndCall(c, "aborted")
  /\ UNCHANGED <<posts, plane>>

(* The delay before the next attempt is over. *)
Retry(c) ==
  /\ client[c].pc = "waiting"
  /\ Post(c, client[c].round, client[c].attempt + 1)
  /\ UNCHANGED plane

(* get_operation after an unknown outcome: it reads until an answer below    *)
(* 500 comes, and the last attempt decides.                                 *)
ReadBack(c) ==
  /\ client[c].kind = "python" /\ client[c].pc = "ended" /\ client[c].ending = "unknown"
  /\ client' = [client EXCEPT ![c].pc = "reading", ![c].attempt = 1, ![c].ending = "none"]
  /\ UNCHANGED <<posts, plane>>

ReadAnswer(c) ==
  /\ client[c].pc = "reading"
  /\ \/ EndCall(c, IF plane[c] = Nothing THEN "absent" ELSE "found")
     \/ /\ client[c].attempt < ReadAttempts
        /\ client' = [client EXCEPT ![c].attempt = @ + 1]
     \/ client[c].attempt = ReadAttempts /\ EndCall(c, "unavailable")
  /\ UNCHANGED <<posts, plane>>

Lost(m) == m \in posts /\ posts' = posts \ {m} /\ UNCHANGED <<client, plane>>

CommandStep(c) == Retry(c) \/ TimesOut(c) \/ ReadAnswer(c)

ClientsNext ==
  \/ \E c \in Senders : Call(c) \/ CommandStep(c) \/ Fails(c) \/ Aborts(c) \/ ReadBack(c)
  \/ \E m \in posts : PlaneReceives(m) \/ Unreadable(m) \/ Lost(m)

(* Timers fire and delays end; nothing makes the plane answer. *)
ClientsFairness == \A c \in Senders : WF_commandVars(CommandStep(c))

ClientsSpec == ClientsInit /\ [][ClientsNext]_commandVars /\ ClientsFairness

-----------------------------------------------------------------------------
ClientsTypeOK ==
  /\ \A c \in Senders :
       /\ client[c].kind \in Kinds /\ client[c].ending \in Endings
       /\ client[c].pc \in {"ready", "sent", "waiting", "reading", "ended"}
       /\ client[c].round \in 0 .. MaxRounds
       /\ client[c].sends <= (IF client[c].kind = "communications" THEN MaxResends + 1 ELSE 1) * client[c].round
       /\ (client[c].ending # "none") = (client[c].pc = "ended")
  /\ \A m \in posts : m.caller \in Senders

(* A caller that is told of its operation has one, and a caller that is told *)
(* a rejection by the only request ever sent for its key has none, now or    *)
(* later: no client turns an ambiguous answer into a definite one.  Status   *)
(* 500 is left out: the Python client does call it a rejection.             *)
ToldTheOutcome ==
  \A c \in Senders :
    /\ client[c].ending \in {"operation", "found"} => plane[c] # Nothing
    /\ (client[c].ending = "rejected" /\ client[c].status # "broken" /\ client[c].sends = 1) =>
          plane[c] = Nothing /\ \A m \in posts : m.caller # c

(* A caller that names its command is never refused for its own earlier      *)
(* call, however often it calls and whichever requests arrive late; one that *)
(* leaves the id to the client can be, and then its command was executed.    *)
NoConflictWithItself ==
  \A c \in Senders : client[c].ending = "conflict" => ~ client[c].fixed /\ plane[c] # Nothing

(* Whatever a caller of the command plane is told by any of the three       *)
(* clients is true of its command.                                          *)
OutcomesAreTrue == ClientsTypeOK /\ ToldTheOutcome /\ NoConflictWithItself

(* Every call ends, whatever becomes of its requests, unless a facade caller *)
(* brought its own signal and never aborts it.                              *)
EveryCommandEnds ==
  \A c \in Senders :
    (client[c].pc \in {"sent", "waiting", "reading"}
       /\ ~ (client[c].kind = "facade" /\ client[c].signal)) ~> client[c].pc = "ended"

=============================================================================
