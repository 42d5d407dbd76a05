------------------------------- MODULE Intake -------------------------------
(***************************************************************************)
(* The intake path of a web page: the form mounted by mountIntakeUi, the   *)
(* IntakeUiController behind it, CodestraIntakeClient.submit, and the      *)
(* server-side adapter createIntakeBff with its cached service token, in   *)
(* front of an identity provider and of the gateway, which are external.   *)
(*                                                                         *)
(* A submission is one call of the SDK.  The gateway records a lead per    *)
(* Idempotency-Key.  Requests cross the network: one that the adapter has  *)
(* given up may still arrive.  Time is counted in units of a few seconds   *)
(* and the adapter's timers fire on time; nothing in the code bounds how   *)
(* long a token answer's body takes once its headers are there, BodyTime   *)
(* bounds it here.                                                         *)
(***************************************************************************)
EXTENDS Naturals, FiniteSets

CONSTANTS Submissions,  \* calls of the SDK's submit, one key each
          None,         \* not a token, an entry or a submission
          MaxAttempts,  \* config.maxAttempts, at least 1
          Timeout,      \* config.timeoutMs
          Skew,         \* TOKEN_EXPIRY_SKEW_MS
          Lifetimes,    \* how long the provider's tokens last
          DefaultLife,  \* the 60 seconds assumed when expires_in is absent
          BodyTime,     \* how long the body of a token answer takes
          MaxNow,       \* bound on the clock
          MaxTokens,    \* bound on the tokens issued
          MaxMounts,    \* bound on mounts of the form
          MaxEvents     \* bound on revocations, cache clearings and resets

ASSUME IntakeAssumption ==
  /\ MaxAttempts \in Nat \ {0}
  /\ {Timeout, Skew, DefaultLife, BodyTime, MaxNow, MaxTokens, MaxEvents} \subseteq Nat
  /\ MaxMounts \in Nat \ {0}
  /\ Lifetimes \subseteq Nat /\ \A life \in Lifetimes : life >= Skew
  /\ None \notin Submissions

VARIABLES now,      \* the clock
          issued,   \* the tokens the provider has issued, in order
          cache,    \* tokenCache
          adapter,  \* what the adapter is doing for each submission
          wire,     \* forwarded requests the gateway has not seen
          leads,    \* how often the gateway has recorded each key
          page,     \* the form and its controller
          events    \* rare events so far, for the bound

intakeVars == <<now, issued, cache, adapter, wire, leads, page, events>>

Tokens == 1 .. MaxTokens
Keys == Submissions \X {0} \cup Submissions \X (1 .. MaxAttempts)

(* What a request handed to the adapter is like, as far as handle() looks. *)
Requests == [allowed : BOOLEAN, fits : BOOLEAN, object : BOOLEAN, ownTenant : BOOLEAN]

(* The answer handle() gives before anything is forwarded: the tenant      *)
(* allowlist, the size, the body's shape, then the body's tenant.          *)
Refusal(request) ==
  CASE ~ request.allowed   -> "forbidden"
    [] ~ request.fits      -> "too_large"
    [] ~ request.object    -> "bad_request"
    [] ~ request.ownTenant -> "forbidden"
    [] OTHER               -> "none"

Refusals == {"forbidden", "too_large", "bad_request"}
GatewayStatuses == {"ok", "unauthorized", "rejected", "busy"}
Answers == Refusals \cup GatewayStatuses \cup {"idp_refused", "bad_gateway", "gateway_timeout"}

Retryable(status) == status = "busy"   \* RETRYABLE_STATUSES: 429, 502, 503, 504

Idle == [pc |-> "idle", attempt |-> 0, token |-> None, handed |-> 0, late |-> 0,
         deadline |-> MaxNow, answer |-> "none"]

IntakeTypeOK ==
  /\ now \in 0 .. MaxNow
  /\ \A t \in DOMAIN issued : issued[t] \in
       [at : 0 .. MaxNow, life : Lifetimes, stated : BOOLEAN, revoked : BOOLEAN, cachedAt : 0 .. MaxNow]
  /\ cache = None \/ (cache.token \in DOMAIN issued /\ cache.expiresAt \in Nat)
  /\ \A s \in Submissions :
       /\ adapter[s].pc \in {"idle", "asking", "issued", "reading", "forwarding", "answered", "told"}
       /\ adapter[s].attempt \in 0 .. MaxAttempts
       /\ adapter[s].pc \in {"asking", "issued", "forwarding"} => now <= adapter[s].deadline
       /\ adapter[s].answer \in Answers \cup {"none"}
       /\ (adapter[s].answer # "none") = (adapter[s].pc \in {"answered", "told"})
  /\ \A m \in wire : m.sub \in Submissions /\ m.token \in DOMAIN issued
  /\ page.mount \in 1 .. MaxMounts
  /\ page.enabled \/ \E s \in Submissions : page.awaiting[s] # 0

IntakeInit ==
  /\ now = 0
  /\ issued = << >>
  /\ cache = None
  /\ adapter = [s \in Submissions |-> Idle]
  /\ wire = {}
  /\ leads = [k \in Keys |-> 0]
  /\ page = [mount |-> 1, enabled |-> TRUE, status |-> "idle", of |-> None, latest |-> None,
             resets |-> 0, awaiting |-> [s \in Submissions |-> 0]]
  /\ events = 0

-----------------------------------------------------------------------------
(* The adapter.                                                            *)

(* Used until its very end. *)
UsableToTheEnd(entry) == entry # None /\ entry.expiresAt > now

(* A cached token is used while it has more than the skew left. *)
Usable(entry) == entry # None /\ entry.expiresAt > now + Skew

(* A key per attempt, as if it were drawn where the request is made. *)
KeyOfEachAttempt(s, attempt) == <<s, attempt>>

(* The header the adapter forwards: the caller's own key, on every attempt. *)
KeyOf(s, attempt) == <<s, 0>>

(* forward() sends an attempt with a token and arms the timeout. *)
Forward(s, attempt, token, handed) ==
  /\ adapter' = [adapter EXCEPT ![s].pc = "forwarding", ![s].attempt = attempt, ![s].token = token,
                          ![s].handed = handed, ![s].deadline = now + Timeout,
                          ![s].answer = "none"]
  /\ wire' = wire \cup {[sub |-> s, attempt |-> attempt, token |-> token]}

(* getAccessToken asks the identity provider. *)
AskProvider(s) ==
  /\ adapter' = [adapter EXCEPT ![s].pc = "asking", ![s].deadline = now + Timeout, ![s].answer = "none"]
  /\ UNCHANGED wire

(* The adapter answers the browser. *)
Tell(s, answer) ==
  /\ adapter' = [adapter EXCEPT ![s] = IF answer = "unauthorized"
       THEN [Idle EXCEPT !.pc = "told", !.answer = answer, !.token = adapter[s].token,
                         !.late = now - adapter[s].handed]
       ELSE [Idle EXCEPT !.pc = "told", !.answer = answer]]
  /\ UNCHANGED wire

(* handle() on a request of the SDK, or of any other same-origin caller.   *)
Handle(s, request) ==
  \/ Refusal(request) # "none" /\ Tell(s, Refusal(request))
  \/ Refusal(request) = "none" /\ Usable(cache) /\ Forward(s, 1, cache.token, now)
  \/ Refusal(request) = "none" /\ ~ Usable(cache) /\ AskProvider(s)

(* The provider issues a token; its answer is on the way. *)
Issue(s) ==
  /\ adapter[s].pc = "asking"
  /\ Cardinality(DOMAIN issued) < MaxTokens
  /\ \E life \in Lifetimes, stated \in BOOLEAN :
       /\ stated \/ life >= DefaultLife
       /\ LET n == Cardinality(DOMAIN issued) + 1 IN
          /\ issued' = [t \in 1 .. n |-> IF t = n
                THEN [at |-> now, life |-> life, stated |-> stated, revoked |-> FALSE, cachedAt |-> now]
                ELSE issued[t]]
          /\ adapter' = [adapter EXCEPT ![s].pc = "issued", ![s].token = n]
  /\ UNCHANGED <<now, cache, wire, leads, page, events>>

(* Its headers arrive in time; the timer is cleared before the body is read. *)
Headers(s) ==
  /\ adapter[s].pc = "issued"
  /\ adapter' = [adapter EXCEPT ![s].pc = "reading", ![s].deadline = now + BodyTime]
  /\ UNCHANGED <<now, issued, cache, wire, leads, page, events>>

Stated(token) == IF issued[token].stated THEN issued[token].life ELSE DefaultLife

(* Its body arrives: the token is cached, and used for the next attempt.   *)
Cache(s) ==
  /\ adapter[s].pc = "reading"
  /\ LET token == adapter[s].token IN
     /\ cache' = [token |-> token, expiresAt |-> now + Stated(token)]
     /\ issued' = [issued EXCEPT ![token].cachedAt = now]
     /\ Forward(s, adapter[s].attempt + 1, token, now)
  /\ UNCHANGED <<now, leads, page, events>>

(* The provider refuses (its status is passed on), fails or answers without *)
(* a token.                                                                *)
ProviderFails(s) ==
  /\ adapter[s].pc = "asking"
  /\ \E answer \in {"idp_refused", "bad_gateway"} : Tell(s, answer)
  /\ UNCHANGED <<now, issued, cache, leads, page, events>>

(* The gateway sees a forwarded request: it checks the token, then records  *)
(* the lead of a new key, or knows the key, or refuses or fails before or   *)
(* after recording.  The answer counts only if the adapter awaits it.      *)
GatewayReceives(m) ==
  /\ m \in wire
  /\ wire' = wire \ {m}
  /\ LET token == issued[m.token]
         good == ~ token.revoked /\ now < token.at + token.life
         key == KeyOf(m.sub, m.attempt)
         awaited == adapter[m.sub].pc = "forwarding" /\ adapter[m.sub].attempt = m.attempt
     IN \E status \in IF good THEN {"ok", "rejected", "busy"} ELSE {"unauthorized"},
           recorded \in BOOLEAN :
          /\ status = "ok" => recorded
          /\ status \in {"rejected", "unauthorized"} => ~ recorded
          /\ leads' = [leads EXCEPT ![key] = IF recorded /\ @ = 0 THEN @ + 1 ELSE @]
          /\ adapter' = IF awaited
                     THEN [adapter EXCEPT ![m.sub].pc = "answered", ![m.sub].answer = status]
                     ELSE adapter
  /\ UNCHANGED <<now, issued, cache, page, events>>

(* forward() with an answer in hand: a 401 forces a new token while an      *)
(* attempt is left, a retryable status is sent again at once, and anything  *)
(* else, or the last attempt's answer, is passed on.                        *)
Answered(s) ==
  /\ adapter[s].pc = "answered"
  /\ LET status == adapter[s].answer
         last == adapter[s].attempt >= MaxAttempts
     IN \/ status = "unauthorized" /\ ~ last /\ AskProvider(s)
        \/ Retryable(status) /\ ~ last
             /\ Forward(s, adapter[s].attempt + 1, adapter[s].token, adapter[s].handed)
        \/ (last \/ ~ (Retryable(status) \/ status = "unauthorized")) /\ Tell(s, status)
  /\ UNCHANGED <<now, issued, cache, leads, page, events>>

(* A fetch is aborted at its deadline, or fails before it: both leave        *)
(* forward() at once, whatever attempts are left.                           *)
FetchFails(s) ==
  /\ adapter[s].pc \in {"asking", "issued", "forwarding"}
  /\ Tell(s, IF now = adapter[s].deadline THEN "gateway_timeout" ELSE "bad_gateway")
  /\ UNCHANGED <<now, issued, cache, leads, page, events>>

-----------------------------------------------------------------------------
(* The page.                                                               *)

(* The form is submitted with the button enabled throughout. *)
SubmitAtAnyTime(s) ==
  /\ adapter[s] = Idle
  /\ \E request \in Requests :
       /\ Handle(s, request)
       /\ page' = [page EXCEPT !.status = "submitting", !.of = s, !.latest = s,
                               !.awaiting[s] = page.mount]
  /\ UNCHANGED <<now, issued, cache, leads, events>>

(* The user submits the form: the button is disabled, the controller shows  *)
(* "submitting", and the payload is built and sent, or its builder throws.  *)
Submit(s) ==
  /\ page.enabled
  /\ adapter[s] = Idle
  /\ \/ \E request \in Requests :
          /\ Handle(s, request)
          /\ page' = [page EXCEPT !.enabled = FALSE, !.status = "submitting", !.of = s,
                                  !.latest = s, !.awaiting[s] = page.mount]
     \/ /\ page' = [page EXCEPT !.status = "error", !.of = s, !.latest = s]
        /\ Tell(s, "bad_request")
  /\ UNCHANGED <<now, issued, cache, leads, events>>

(* The answer reaches the page: the controller shows it whatever it shows    *)
(* now, and the button of the form the submission came from is enabled.     *)
Show(s) ==
  /\ adapter[s].pc = "told" /\ page.awaiting[s] # 0
  /\ page' = [page EXCEPT !.status = IF adapter[s].answer = "ok" THEN "success" ELSE "error",
                          !.of = s,
                          !.enabled = @ \/ page.awaiting[s] = page.mount,
                          !.awaiting[s] = 0]
  /\ UNCHANGED <<now, issued, cache, adapter, wire, leads, events>>

(* The form is unmounted and mounted again, with a button of its own. *)
Remount ==
  /\ page.mount < MaxMounts
  /\ page' = [page EXCEPT !.mount = @ + 1, !.enabled = TRUE]
  /\ UNCHANGED <<now, issued, cache, adapter, wire, leads, events>>

Reset ==
  /\ events < MaxEvents /\ events' = events + 1
  /\ page' = [page EXCEPT !.status = "idle", !.of = None, !.resets = @ + 1]
  /\ UNCHANGED <<now, issued, cache, adapter, wire, leads>>

ClearTokenCache ==
  /\ events < MaxEvents /\ events' = events + 1
  /\ cache' = None
  /\ UNCHANGED <<now, issued, adapter, wire, leads, page>>

(* The provider revokes a token: the gateway refuses it from now on. *)
Revoke(t) ==
  /\ events < MaxEvents /\ events' = events + 1
  /\ t \in DOMAIN issued /\ ~ issued[t].revoked
  /\ issued' = [issued EXCEPT ![t].revoked = TRUE]
  /\ UNCHANGED <<now, cache, adapter, wire, leads, page>>

(* A request is lost on the way to the gateway. *)
Lose(m) ==
  /\ m \in wire
  /\ wire' = wire \ {m}
  /\ UNCHANGED <<now, issued, cache, adapter, leads, page, events>>

Tick ==
  /\ now < MaxNow
  /\ \A s \in Submissions :
       /\ adapter[s].pc \in {"asking", "issued", "reading", "forwarding"} => now < adapter[s].deadline
       /\ adapter[s].pc # "answered"
  /\ now' = now + 1
  /\ UNCHANGED <<issued, cache, adapter, wire, leads, page, events>>

IntakeNext ==
  \/ \E s \in Submissions :
       \/ Submit(s) \/ Show(s) \/ Issue(s) \/ Headers(s) \/ Cache(s) \/ ProviderFails(s)
       \/ Answered(s) \/ FetchFails(s)
  \/ \E m \in wire : GatewayReceives(m) \/ Lose(m)
  \/ Remount \/ Reset \/ ClearTokenCache \/ (\E t \in Tokens : Revoke(t)) \/ Tick

IntakeSpec == IntakeInit /\ [][IntakeNext]_intakeVars

-----------------------------------------------------------------------------
(* However often the adapter sends a submission again, and however late a   *)
(* request it gave up arrives, the gateway records one lead of it at most:  *)
(* every attempt carries the caller's own Idempotency-Key.                  *)
OneLeadEach ==
  \A s \in Submissions : Cardinality({k \in Keys : k[1] = s /\ leads[k] > 0}) <= 1

(* A page that shows success shows a submission the gateway has recorded,   *)
(* and one the adapter refused itself is never recorded, whichever           *)
(* requests are still on the way.                                           *)
ShownIsTrue ==
  /\ page.status = "success" => leads[KeyOf(page.of, 1)] = 1
  /\ \A s \in Submissions : adapter[s].answer \in Refusals =>
       /\ \A k \in Keys : k[1] = s => leads[k] = 0
       /\ \A m \in wire : m.sub # s

(* A form that was mounted once and not reset shows its latest submission:  *)
(* its outcome once that is there, "submitting" before.  The controller has *)
(* no guard of its own; the disabled button is what keeps two submissions   *)
(* from answering in the wrong order.                                       *)
LatestIsShown ==
  (page.mount = 1 /\ page.resets = 0 /\ page.latest # None) =>
     /\ page.of = page.latest
     /\ (page.status = "submitting") = (page.awaiting[page.latest] # 0)

(* A caller is told 401 for a token nobody revoked only if the time from    *)
(* handing it out to its check, with the time its own answer took, used up  *)
(* the skew: the cache never hands out a token that ends sooner.            *)
ExpiredOnlyWhenLate ==
  \A s \in Submissions :
    LET token == issued[adapter[s].token] IN
    (adapter[s].pc = "told" /\ adapter[s].answer = "unauthorized" /\ ~ token.revoked) =>
       adapter[s].late + (token.cachedAt - token.at) >= Skew

(* What the page shows is true, and of the submission its reader expects.   *)
PageIsTrue == IntakeTypeOK /\ ShownIsTrue /\ LatestIsShown
=============================================================================
