---------------------------- MODULE SocialClient ----------------------------
(***************************************************************************)
(* The request loop of the social SDK (packages/social-sdk/src/client.ts,  *)
(* request()) against the routes of SocialPosts.  A call makes up to       *)
(* 1 + MaxRetries attempts with one Idempotency-Key.  An attempt may never *)
(* reach the server, may be answered by a gateway in front of it, or may   *)
(* lose its response; the handler of an attempt the client gave up on goes *)
(* on all the same.  A timeout ends the call.  A caller may call again     *)
(* with a key it used, for the same post or another.                       *)
(***************************************************************************)
EXTENDS SocialPosts

CONSTANTS
  Callers,     \* each makes one call after the other
  Menus,       \* sets of calls: a population of callers makes calls of one
  MaxRetries

(* What a caller asks for, with a client configured for tenant and an      *)
(* access token that is for another one or for none (None) if it was       *)
(* provided by mistake.                                                    *)
Intent == [operation : {"create"}, of : {None}, key : Keys,
           tenant : Tenants, token : Tenants \cup {None}]
          \cup
          [operation : {"cancel"}, of : Posts, key : Keys,
           tenant : Tenants, token : Tenants \cup {None}]
NoIntent == [operation |-> "none"]

ASSUME MenusAssumption == Menus \subseteq SUBSET Intent
ASSUME MaxRetriesAssumption == MaxRetries \in Nat

VARIABLES
  menu,     \* what the callers ask for, never changed
  cpc,      \* where the call is: "sending" before an attempt, "waiting" in fetch()
  intent,   \* operation, post and key of the call
  attempt,
  slot,     \* the request that serves the attempt
  told      \* how the call ended

clientVars == <<menu, cpc, intent, attempt, slot, told>>
allVars == <<vars, clientVars>>

Ends == {"gave_up", "network"}

ClientTypeOK ==
  /\ TypeOK
  /\ menu \in Menus
  /\ cpc \in [Callers -> {"idle", "sending", "waiting", "sleeping"}]
  /\ intent \in [Callers -> Intent \cup {NoIntent}]
  /\ attempt \in [Callers -> 0..MaxRetries]
  /\ slot \in [Callers -> Requests \cup {None}]
  /\ told \in [Callers -> Answers \cup Ends \cup {"none"}]

ClientInit ==
  /\ Init
  /\ menu \in Menus
  /\ cpc = [c \in Callers |-> "idle"]
  /\ intent = [c \in Callers |-> NoIntent]
  /\ attempt = [c \in Callers |-> 0]
  /\ slot = [c \in Callers |-> None]
  /\ told = [c \in Callers |-> "none"]

-----------------------------------------------------------------------------
(* Answers whose status is 408, 425, 429, 500, 502, 503 or 504, and those  *)
(* whose body says retryable.                                              *)
RetryableStatus == {"unavailable"}
RetryableBody == {"in_progress", "unavailable"}

(* canRetry holds of every keyed call.  A retryable status is retried      *)
(* whatever the body says; any other is retried when the body says so.     *)
Retries(c) == attempt[c] < MaxRetries
RetriesAnswer(c, a) ==
  Retries(c) /\ a \in RetryableStatus \cup RetryableBody

RequestOf(c) == [operation |-> intent[c].operation, of |-> intent[c].of,
                 key |-> intent[c].key, token |-> intent[c].token,
                 header |-> intent[c].tenant]

ClientGoto(c, label) == cpc' = [cpc EXCEPT ![c] = label]
Hang(c) == slot' = [slot EXCEPT ![c] = None]
Sleep(c) == ClientGoto(c, "sleeping") /\ UNCHANGED told
End(c, e) == ClientGoto(c, "idle") /\ told' = [told EXCEPT ![c] = e]

(* The access token is fetched once per call. *)
Invoke(c, i) ==
  /\ cpc[c] = "idle"
  /\ ClientGoto(c, "sending")
  /\ intent' = [intent EXCEPT ![c] = i]
  /\ attempt' = [attempt EXCEPT ![c] = 0]
  /\ told' = [told EXCEPT ![c] = "none"]
  /\ UNCHANGED <<vars, menu, slot>>

SendAttempt(c, r) ==
  /\ cpc[c] = "sending"
  /\ Arrive(r, RequestOf(c))
  /\ ClientGoto(c, "waiting")
  /\ slot' = [slot EXCEPT ![c] = r]
  /\ UNCHANGED <<menu, intent, attempt, told>>

(* The response of the handler is read. *)
Receive(c) ==
  /\ cpc[c] = "waiting"
  /\ slot[c] # None
  /\ LET r == slot[c] IN
       /\ Respond(r)
       /\ IF RetriesAnswer(c, reply[r]) THEN Sleep(c) ELSE End(c, reply[r])
  /\ Hang(c)
  /\ UNCHANGED <<menu, intent, attempt>>

(* fetch() rejects, or a gateway answers 502, 503 or 504, before or after  *)
(* the request reached the server.                                         *)
Disconnect(c) ==
  /\ cpc[c] \in {"sending", "waiting"}
  /\ IF Retries(c) THEN Sleep(c) ELSE End(c, "network")
  /\ Hang(c)
  /\ UNCHANGED <<vars, menu, intent, attempt>>

(* The timer of the attempt or the caller's signal: never retried. *)
GiveUp(c) ==
  /\ cpc[c] \in {"sending", "waiting"}
  /\ End(c, "gave_up")
  /\ Hang(c)
  /\ UNCHANGED <<vars, menu, intent, attempt>>

Wake(c) ==
  /\ cpc[c] = "sleeping"
  /\ ClientGoto(c, "sending")
  /\ attempt' = [attempt EXCEPT ![c] = @ + 1]
  /\ UNCHANGED <<vars, menu, intent, slot, told>>

Attended(r) == \E c \in Callers : slot[c] = r

(* The server goes on: a response nobody waits for is dropped, and a crash *)
(* cuts the connection.                                                    *)
Serve(r) ==
  /\ (Handle(r) \/ (~Attended(r) /\ Respond(r)))
  /\ slot' = [c \in Callers |-> IF slot[c] = r /\ pc'[r] = "idle" THEN None ELSE slot[c]]
  /\ UNCHANGED <<menu, cpc, intent, attempt, told>>

ClientStep(c) ==
  \/ \E r \in Requests : SendAttempt(c, r)
  \/ Receive(c) \/ Disconnect(c) \/ GiveUp(c) \/ Wake(c)

ClientNext ==
  \/ \E c \in Callers : ClientStep(c) \/ \E i \in menu : Invoke(c, i)
  \/ \E r \in Requests : Serve(r)
  \/ (Publisher /\ UNCHANGED clientVars)

ClientSpec == ClientInit /\ [][ClientNext]_allVars

-----------------------------------------------------------------------------
(* However the attempts of the clients overlap, fail and are repeated, what *)
(* the database holds agrees: the ledger with the outbox, the outbox with  *)
(* the posts.                                                              *)
DatabaseAgrees == ClientTypeOK /\ OutboxMatchesPosts /\ LedgerMatchesOutbox

ScopeOfIntent(c) == <<intent[c].token, intent[c].operation, intent[c].key>>

(* What a call that ended was told is true of the database.  A success     *)
(* means that this key made the post or cancelled this very post, however  *)
(* many attempts it took; a definite rejection, that no attempt of the key *)
(* on this post ever had or will have an effect, those still running on    *)
(* the server included; and a client configured for one tenant that holds  *)
(* another's token never succeeds.                                         *)
ToldTheTruth ==
  \A c \in Callers :
    LET written == EventsBy(ScopeOfIntent(c)) IN
      /\ told[c] = "accepted" => \E e \in written : intent[c].of \in {None, e.post}
      /\ told[c] \in Rejections => written = {}
      /\ told[c] # "none" /\ intent[c].token # intent[c].tenant => told[c] # "accepted"
=============================================================================
