---------------------------- MODULE WebhookForms ----------------------------
(***************************************************************************)
(* The forms of a signed webhook (packages/webhook-sdk): the checks        *)
(* verifyWebhook() makes of the headers and of the receiver's secrets, in  *)
(* their order, the text of the claim that is made of an accepted one, and *)
(* the scope of its processing.  SignedMessages says what is signed, the   *)
(* endpoints what the stores do with a claim.                              *)
(*                                                                         *)
(* A text is its words between colons, and how it is written: "plain",     *)
(* "padded" by blanks, "broken" by a line break within or too long.  A     *)
(* text without words is blank.  No event has a dot in its id.             *)
(***************************************************************************)
EXTENDS SignedMessages, Sequences, CheckLists

CONSTANTS
  Words,    \* of each event, the words of its id
  Showings  \* headers, secrets and options that come with a message

Texts == [words : Seq(STRING), written : {"plain", "padded", "broken"}]

ASSUME WordsAssumption ==
  /\ Words \in [Events -> Seq(STRING)]
  /\ \A e, f \in Events : Words[e] # << >> /\ (Words[e] = Words[f] => e = f)

ASSUME ShowingsAssumption == \A p \in Showings :
  /\ p.id \in {"plain", "padded", "broken"}
  /\ p.timestamp \in {"plain", "respelled", "fraction", "zero"}
  /\ p.tolerance \in {"fit", "unfit"}
  /\ p.tokens \in Seq({"match", "mismatch", "undecodable", "unversioned"})
  /\ p.secrets \in Seq({"current", "previous", "undefined", "unprefixed", "undecodable", "short"})
  /\ p.purpose \in {"replay", "processing"}
  /\ p.options.tenant \in Texts /\ p.options.endpoint \in Texts
  /\ p.options.signer \in {"current", "previous", "unknown"}
  /\ p.options.event \in {"plain", "padded", "another"}
  /\ p.options.ttl \in {"fit", "unfit"}

VARIABLES
  shown,   \* the last showing and what has become of it
  granted  \* the claims made: of which event, in which words and writing

forms == <<shown, granted>>

FormsInit == shown = [code |-> "none"] /\ granted = {}

-----------------------------------------------------------------------------
(* A secret the receiver lists: an active one, "undefined", or malformed.  *)
Named(s) == CASE s = "current" -> secret [] s = "previous" -> secret - 1 [] OTHER -> 0

(* The same secret makes the same signature of the same id, timestamp and  *)
(* payload, and no other one does.                                         *)
Made(s, m) == Named(s) = m.key

(* decodeSecret() throws. *)
Malformed(s) == s \in {"unprefixed", "undecodable", "short"}

(* parseSignatures(): what is not of v1, has no or a third part, or cannot *)
(* be decoded is ignored, wherever it is in the list.                      *)
Candidates(p) == {t \in 1 .. Len(p.tokens) : p.tokens[t] \in {"match", "mismatch"}}

(* The loop over the secrets ends at the first one it throws at or that    *)
(* made one of the signatures.                                             *)
Stops(p, m) ==
  {i \in 1 .. Len(p.secrets) :
     \/ Malformed(p.secrets[i])
     \/ Made(p.secrets[i], m) /\ \E t \in Candidates(p) : p.tokens[t] = "match"}
FirstStop(p, m) == CHOOSE i \in Stops(p, m) : \A j \in Stops(p, m) : i <= j
StopsAt(p, m, kinds) == Stops(p, m) # {} /\ p.secrets[FirstStop(p, m)] \in kinds

TakesText(words, written) == words # << >> /\ written \in {"plain", "padded"}

(* Number() reads many spellings of a number. *)
TakesTimestamp(stamp) == stamp \in {"plain", "respelled"}

(* Whole seconds up to a day, for processing not zero: "fit". *)
TakesTolerance(tolerance) == tolerance = "fit"
TakesTtl(ttl) == ttl = "fit"

(* The checks of verifyWebhook(), in order. *)
VerifyFailure(p, m) ==
  FirstFailure(<<
    <<TakesText(Words[m.id], p.id), "INVALID_EVENT_ID">>,
    <<TakesTimestamp(p.timestamp), "INVALID_TIMESTAMP">>,
    <<TakesTolerance(p.tolerance), "INVALID_TOLERANCE">>,
    <<Distance(clock, m.at) <= Tolerance, "TIMESTAMP_OUT_OF_RANGE">>,
    <<p.secrets # << >>, "NO_SECRETS">>,
    <<Candidates(p) # {}, "INVALID_SIGNATURE_HEADER">>,
    <<Stops(p, m) # {}, "INVALID_SIGNATURE">>,
    <<~ StopsAt(p, m, {"unprefixed", "short"}), "INVALID_SECRET_FORMAT">>,
    <<~ StopsAt(p, m, {"undecodable"}), "INVALID_BASE64">> >>)

(* A part of a scope is one word, a scope four. *)
TakesPart(text) == Len(text.words) = 1 /\ TakesText(text.words, text.written)
TakesSigner(signer) == signer \in {"current", "previous"}
IsCanonical(scope) == Len(scope) = 4

(* The scope joins its parts by colons: its words are theirs. *)
ScopeWords(o, m) == o.tenant.words \o o.endpoint.words \o <<o.signer>> \o Words[m.id]

(* Those of verifyAndClaimWebhookProcessing(), of the store and of         *)
(* buildWebhookProcessingScope() that follow.  The event id of the options *)
(* is compared as it is written.                                           *)
ProcessingFailure(o, m) ==
  FirstFailure(<<
    <<o.event = "plain", "SCOPE_EVENT_MISMATCH">>,
    <<TakesTtl(o.ttl), "INVALID_PROCESSING_TTL">>,
    <<TakesPart(o.tenant) /\ TakesPart(o.endpoint), "INVALID_PROCESSING_SCOPE">>,
    <<TakesSigner(o.signer), "INVALID_SIGNER_TYPE">>,
    <<IsCanonical(ScopeWords(o, m)), "INVALID_PROCESSING_SCOPE">> >>)

Failure(p, m) ==
  LET failure == VerifyFailure(p, m)
  IN IF failure = "ok" /\ p.purpose = "processing" THEN ProcessingFailure(p.options, m) ELSE failure

(* Mutant: what is claimed is the header, not what was read in it. *)
ClaimOfHeader(p, m) ==
  [words |-> IF p.purpose = "processing" THEN ScopeWords(p.options, m) ELSE Words[m.id], written |-> p.id]

(* The claim is made of the trimmed id, or of the trimmed parts. *)
ClaimOf(p, m) ==
  [words |-> IF p.purpose = "processing" THEN ScopeWords(p.options, m) ELSE Words[m.id], written |-> "plain"]

(* Whom a claim is about, as its receiver sees it. *)
Subject(p, m) ==
  IF p.purpose = "processing" THEN <<p.options.tenant.words, p.options.endpoint.words, p.options.signer, m.id>>
  ELSE <<m.id>>

-----------------------------------------------------------------------------
(* A receiver is shown a message. *)
Show(p, m) ==
  LET failure == Failure(p, m) IN
  /\ shown' = [code |-> failure, showing |-> p, message |-> m, due |-> Verifies(m),
               made |-> {i \in 1 .. Len(p.secrets) : Made(p.secrets[i], m)},
               matched |-> IF failure = "ok" THEN FirstStop(p, m) ELSE 0]
  /\ granted' = IF failure # "ok" THEN granted
                ELSE granted \cup {[purpose |-> p.purpose, claim |-> ClaimOf(p, m), of |-> Subject(p, m)]}
  /\ UNCHANGED environment

FormsStep == \E p \in Showings, m \in sent : Show(p, m)

FormsSpec ==
  /\ EnvironmentInit /\ FormsInit
  /\ [][FormsStep \/ (EnvironmentStep /\ UNCHANGED forms)]_<<environment, forms>>

-----------------------------------------------------------------------------
(* What is accepted was due, and the secret it is put down to made it.     *)
AcceptedWasDue == shown.code = "ok" => shown.due /\ shown.matched \in shown.made

(* A message that is due is refused for what its showing says, and not for *)
(* spellings, other signatures beside its own or a secret behind its own;  *)
(* a malformed secret in front of it is enough, and so is, for processing  *)
(* only, an id with a colon.                                               *)
RefusedForCause ==
  shown.code \notin {"none", "ok"} /\ shown.due =>
    LET p == shown.showing
        o == p.options
    IN \/ p.id = "broken" \/ p.timestamp \in {"fraction", "zero"} \/ p.tolerance # "fit"
       \/ \A t \in 1 .. Len(p.tokens) : p.tokens[t] # "match"
       \/ \A i \in shown.made : \E j \in 1 .. i : Malformed(p.secrets[j])
       \/ /\ p.purpose = "processing"
          /\ \/ o.event # "plain" \/ o.ttl # "fit" \/ o.signer = "unknown"
             \/ \E text \in {o.tenant, o.endpoint} : Len(text.words) # 1 \/ text.written = "broken"
             \/ Len(Words[shown.message.id]) > 1

(* Two claims are one exactly when they are about the same: respelling a   *)
(* header makes no second event, and no two tenants, endpoints, signers or *)
(* events share a scope.                                                   *)
ClaimsAreDistinct ==
  \A g, h \in granted : g.purpose = h.purpose => (g.claim = h.claim <=> g.of = h.of)

FormsAgree == AcceptedWasDue /\ RefusedForCause /\ ClaimsAreDistinct
=============================================================================
