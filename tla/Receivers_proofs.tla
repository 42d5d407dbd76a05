-------------------------- MODULE Receivers_proofs --------------------------
(***************************************************************************)
(* Theorems about the receivers of signed messages, for any events,        *)
(* workers, tolerance, skew and lifetime of a lease: what their stores     *)
(* hold, and what no step does to them.                                    *)
(*                                                                         *)
(* Each receiver has an invariant of its own, kept by its steps and by     *)
(* those of the network, which alone moves the clock: ReplayInv relates    *)
(* a claim to the window of the message it was made of, LeaseInv the       *)
(* lease of every worker to the last one drawn.                            *)
(***************************************************************************)
EXTENDS Receivers, WellFoundedInduction, SequenceTheorems, TLAPS

(* A claim lasts until its message verifies no more, and what a worker is  *)
(* about to claim was in its window when it was verified.                  *)
ReplayInv ==
  /\ \A w \in Workers : claiming[w] # None =>
       /\ claiming[w].message \in sent
       /\ Distance(claiming[w].verified, claiming[w].message.at) <= Tolerance
  /\ \A e \in Events : accepted[e] # None =>
       /\ accepted[e].message \in sent
       /\ accepted[e].message.id = e
       /\ Distance(accepted[e].verified, accepted[e].message.at) <= Tolerance
       /\ claims[e] = Expiry(accepted[e].message) \/ Expiry(accepted[e].message) <= clock

(* No lease but the last one drawn may still be good, and no two workers   *)
(* have the same.  Who reports success has handled the event.              *)
LeaseInv ==
  /\ \A s \in Scopes :
       /\ record[s].state = "none" => drawn[s] = 0
       /\ record[s].state = "processing" => record[s].token = drawn[s]
       /\ ~split /\ s[1] # "current" => record[s].state = "none"
       /\ record[s].state = "processed" => \E l \in handled : l.scope = s /\ l.token = drawn[s]
  /\ \A w \in Workers : Working(w) =>
       LET l == task[w] IN
       /\ l.token <= drawn[l.scope]
       /\ l.token < drawn[l.scope] => l.expires <= clock
       /\ l.token = drawn[l.scope] /\ record[l.scope].state = "processing" => record[l.scope].expires = l.expires
       /\ pc[w] = "succeeding" => l \in handled
  /\ \A v, w \in Workers :
       v # w /\ Working(v) /\ Working(w) /\ task[v].scope = task[w].scope => task[v].token # task[w].token

(* What the trigger claims, or is about to, was sent and is valid; what it *)
(* refused is not; and a claim that nobody waits for was reported, or its  *)
(* worker crashed.                                                         *)
Due(e) == Valid(e) /\ \E m \in sent : m.id = e

TriggerInv ==
  /\ \A e \in Events : e \in guard \cup late => Due(e)
  /\ \A w \in Workers, e \in Events : asking[w] = e => Due(e)
  /\ \A e \in Events : <<e, "refused">> \in told => ~Valid(e)
  /\ \A e \in late : <<e, "retry">> \in told \/ e \in abandoned
  /\ DispatchedOnce /\ LostIsReported

(* What is claimed was shown in full, and a scope has one word of each of  *)
(* its parts.                                                              *)
FormsInv ==
  /\ AcceptedWasDue /\ RefusedForCause
  /\ \A g \in granted : \E p \in Showings, m \in Message :
       /\ g = [purpose |-> p.purpose, claim |-> ClaimOf(p, m), of |-> Subject(p, m)]
       /\ p.purpose = "processing" =>
            /\ Len(p.options.tenant.words) = 1 /\ Len(p.options.endpoint.words) = 1
            /\ IsCanonical(ScopeWords(p.options, m))

TypeInv == EnvironmentTypeOK /\ EndpointTypeOK /\ ProcessingTypeOK /\ TriggerTypeOK

IInv == TypeInv /\ ReplayInv /\ LeaseInv /\ TriggerInv /\ FormsInv

-----------------------------------------------------------------------------
(* The network.                                                            *)
LEMMA EnvironmentInitTypes == EnvironmentInit => EnvironmentTypeOK
BY MaxClockAssumption, MaxSecretAssumption DEF EnvironmentInit, EnvironmentTypeOK, Clock, Secrets

(* The clock never runs back and no message is ever gone. *)
LEMMA NetworkGrows ==
  ASSUME EnvironmentTypeOK, EnvironmentStep
  PROVE  EnvironmentTypeOK' /\ clock <= clock' /\ sent \subseteq sent'
<1>1. CASE Rotate
  BY <1>1, MaxSecretAssumption, MaxClockAssumption DEF Rotate, EnvironmentTypeOK, Clock, Secrets
<1>2. CASE Tick
  BY <1>2, MaxSecretAssumption, MaxClockAssumption DEF Tick, EnvironmentTypeOK, Clock, Secrets
<1>3. ASSUME NEW e \in Events, NEW at \in clock..(clock + Skew), Sign(e, at)
      PROVE  EnvironmentTypeOK' /\ clock <= clock' /\ sent \subseteq sent'
  <2>1. at \in 1..(MaxClock + Skew) /\ clock \in Clock /\ secret \in Secrets /\ clock \in Nat
    BY MaxClockAssumption, SkewAssumption DEF EnvironmentTypeOK, Clock
  <2>2. [id |-> e, at |-> at, key |-> secret] \in Message
    BY <2>1 DEF Message
  <2>. QED
    BY <1>3, <2>1, <2>2 DEF Sign, EnvironmentTypeOK
<1>. QED
  BY <1>1, <1>2, <1>3 DEF EnvironmentStep

(* Within the window, on either side of it. *)
LEMMA Windows ==
  ASSUME NEW a \in Int, NEW b \in Int, Distance(a, b) <= Tolerance
  PROVE  a <= b + Tolerance /\ b <= a + Tolerance
BY ToleranceAssumption DEF Distance

-----------------------------------------------------------------------------
(* The replay endpoint.                                                    *)
LEMMA ReplayInitInv == EnvironmentInit /\ EndpointInit => EndpointTypeOK /\ ReplayInv
BY ToleranceAssumption, SkewAssumption, MaxClockAssumption
   DEF EndpointInit, EndpointTypeOK, ReplayInv, Times, Never

LEMMA ReplayKeepsWithNetwork ==
  ASSUME EnvironmentTypeOK, EndpointTypeOK, ReplayInv, EnvironmentStep, UNCHANGED endpoint
  PROVE  EndpointTypeOK' /\ ReplayInv'
<1>1. clock <= clock' /\ sent \subseteq sent' /\ clock \in Int /\ clock' \in Int
  BY NetworkGrows DEF EnvironmentTypeOK, Clock
<1>2. \A e \in Events : accepted[e] # None => Expiry(accepted[e].message) \in Int
  BY NoneAssumption, MaxClockAssumption, SkewAssumption, ToleranceAssumption
     DEF EndpointTypeOK, Expiry, Never, Acceptance, Message
<1>3. EndpointTypeOK'
  BY DEF EndpointTypeOK, endpoint
<1>4. UNCHANGED <<claims, claiming, accepted>> /\ \A m : Expiry(m)' = Expiry(m)
  BY DEF endpoint, Expiry, Never
<1>5. ReplayInv'
  BY <1>1, <1>2, <1>4 DEF ReplayInv
<1>. QED
  BY <1>3, <1>5

LEMMA VerifyForClaimKeeps ==
  ASSUME EnvironmentTypeOK, EndpointTypeOK, ReplayInv, NEW w \in Workers, NEW m \in sent, VerifyForClaim(w, m)
  PROVE  EndpointTypeOK' /\ ReplayInv'
<1>. DEFINE new == [message |-> m, verified |-> clock]
<1>1. new \in Verified /\ new # None /\ new.message = m /\ new.verified = clock
  BY NoneAssumption DEF Verified, EnvironmentTypeOK
<1>2. claiming' = [claiming EXCEPT ![w] = new] /\ Verifies(m) /\ UNCHANGED <<environment, expiring, claims, accepted>>
  BY DEF VerifyForClaim
<1>. HIDE DEF new
<1>3. EndpointTypeOK'
  BY <1>1, <1>2 DEF EndpointTypeOK
<1>4. ReplayInv'
  <2>1. \A n : Expiry(n)' = Expiry(n)
    BY <1>2 DEF Expiry
  <2>. QED
    BY <1>1, <1>2, <2>1 DEF ReplayInv, EndpointTypeOK, environment, Verifies
<1>. QED
  BY <1>3, <1>4

LEMMA ExpiryType ==
  ASSUME EndpointTypeOK, NEW m \in Message
  PROVE  Expiry(m) \in Times
BY MaxClockAssumption, SkewAssumption, ToleranceAssumption DEF EndpointTypeOK, Expiry, Never, Times, Message

(* What a claim finds and does. *)
LEMMA ClaimDoes ==
  ASSUME EnvironmentTypeOK, EndpointTypeOK, ReplayInv, NEW w \in Workers, Claim(w)
  PROVE  \E m \in sent, v \in Clock :
           /\ Distance(v, m.at) <= Tolerance
           /\ claiming' = [claiming EXCEPT ![w] = None]
           /\ UNCHANGED <<environment, expiring>>
           /\ \/ Live(m.id) /\ claims' = Purged /\ accepted' = accepted
              \/ /\ ~Live(m.id)
                 /\ claims' = [Purged EXCEPT ![m.id] = Expiry(m)]
                 /\ accepted' = [accepted EXCEPT ![m.id] = [message |-> m, verified |-> v, at |-> clock]]
<1>1. claiming[w] \in Verified /\ claiming[w].message \in sent /\ claiming[w].verified \in Clock
      /\ Distance(claiming[w].verified, claiming[w].message.at) <= Tolerance
  BY DEF Claim, EndpointTypeOK, ReplayInv, Verified
<1>2. PICK m \in sent, v \in Clock : m = claiming[w].message /\ v = claiming[w].verified
  BY <1>1
<1>. QED
  BY <1>1, <1>2 DEF Claim, Stop

LEMMA ClaimKeeps ==
  ASSUME EnvironmentTypeOK, EndpointTypeOK, ReplayInv, NEW w \in Workers, Claim(w)
  PROVE  EndpointTypeOK' /\ ReplayInv'
<1>1. PICK m \in sent, v \in Clock :
           /\ Distance(v, m.at) <= Tolerance
           /\ claiming' = [claiming EXCEPT ![w] = None]
           /\ UNCHANGED <<environment, expiring>>
           /\ \/ Live(m.id) /\ claims' = Purged /\ accepted' = accepted
              \/ /\ ~Live(m.id)
                 /\ claims' = [Purged EXCEPT ![m.id] = Expiry(m)]
                 /\ accepted' = [accepted EXCEPT ![m.id] = [message |-> m, verified |-> v, at |-> clock]]
  BY ClaimDoes
<1>. DEFINE new == [message |-> m, verified |-> v, at |-> clock]
<1>2. m \in Message /\ m.id \in Events /\ clock \in Clock /\ Expiry(m) \in Times
  BY ExpiryType DEF EnvironmentTypeOK, Message
<1>3. new \in Acceptance /\ new # None /\ new.message = m /\ new.verified = v
  BY <1>2, NoneAssumption DEF Acceptance
<1>4. Purged \in [Events -> Times] /\ \A e \in Events : Purged[e] = claims[e] \/ (Purged[e] = 0 /\ claims[e] <= clock)
  BY <1>2, MaxClockAssumption, SkewAssumption, ToleranceAssumption
     DEF Purged, EndpointTypeOK, Times, Never, Live, Clock
<1>5. \A n : Expiry(n)' = Expiry(n)
  BY <1>1 DEF Expiry
<1>6. clock' = clock /\ sent' = sent
  BY <1>1 DEF environment
<1>. HIDE DEF new, Purged
<1>7. EndpointTypeOK'
  BY <1>1, <1>2, <1>3, <1>4 DEF EndpointTypeOK, new
<1>8. ReplayInv'
  <2>1. \A x \in Workers : claiming'[x] # None => claiming'[x] = claiming[x]
    BY <1>1 DEF EndpointTypeOK
  <2>2. ASSUME NEW e \in Events, accepted'[e] # None
        PROVE  /\ accepted'[e].message \in sent
               /\ accepted'[e].message.id = e
               /\ Distance(accepted'[e].verified, accepted'[e].message.at) <= Tolerance
               /\ claims'[e] = Expiry(accepted'[e].message) \/ Expiry(accepted'[e].message) <= clock
    <3>1. CASE accepted'[e] = accepted[e] /\ claims'[e] = Purged[e]
      BY <1>4, <2>2, <3>1 DEF ReplayInv
    <3>2. CASE e = m.id /\ accepted'[e] = new /\ claims'[e] = Expiry(m)
      BY <1>1, <1>3, <3>2
    <3>. QED
      BY <1>1, <1>2, <1>4, <3>1, <3>2 DEF EndpointTypeOK, new
  <2>. QED
    BY <1>5, <1>6, <2>1, <2>2 DEF ReplayInv
<1>. QED
  BY <1>7, <1>8

LEMMA StopBeforeClaimKeeps ==
  ASSUME EnvironmentTypeOK, EndpointTypeOK, ReplayInv, NEW w \in Workers, StopBeforeClaim(w)
  PROVE  EndpointTypeOK' /\ ReplayInv'
<1>1. claiming' = [claiming EXCEPT ![w] = None] /\ UNCHANGED <<environment, expiring, claims, accepted>>
  BY DEF StopBeforeClaim, Stop
<1>2. EndpointTypeOK'
  BY <1>1 DEF EndpointTypeOK
<1>3. \A x \in Workers : claiming'[x] # None => claiming'[x] = claiming[x]
  BY <1>1 DEF EndpointTypeOK
<1>4. \A n : Expiry(n)' = Expiry(n)
  BY <1>1 DEF Expiry
<1>5. ReplayInv'
  BY <1>1, <1>3, <1>4 DEF ReplayInv, environment
<1>. QED
  BY <1>2, <1>5

LEMMA ReplayKeepsWhenIdle ==
  ASSUME EndpointTypeOK, ReplayInv, UNCHANGED <<environment, endpoint>>
  PROVE  EndpointTypeOK' /\ ReplayInv'
<1>1. \A n : Expiry(n)' = Expiry(n)
  BY DEF Expiry, endpoint
<1>. QED
  BY <1>1 DEF EndpointTypeOK, ReplayInv, endpoint, environment

LEMMA ReplayKeeps ==
  ASSUME EnvironmentTypeOK, EndpointTypeOK, ReplayInv, EndpointStep
  PROVE  EndpointTypeOK' /\ ReplayInv'
BY VerifyForClaimKeeps, ClaimKeeps, StopBeforeClaimKeeps DEF EndpointStep

(* A second acceptance comes after the window of the first. *)
LEMMA AcceptedAgain ==
  ASSUME EnvironmentTypeOK, EndpointTypeOK, ReplayInv, EndpointStep,
         NEW e \in Events, accepted'[e] # accepted[e], accepted[e] # None
  PROVE  LET a == accepted[e]
             b == accepted'[e]
         IN  /\ expiring
             /\ b.at > a.message.at + Tolerance
             /\ b.message = a.message => b.verified < b.at
<1>1. PICK w \in Workers : Claim(w)
  BY DEF EndpointStep, VerifyForClaim, StopBeforeClaim
<1>2. PICK m \in sent, v \in Clock :
        /\ Distance(v, m.at) <= Tolerance
        /\ \/ accepted' = accepted
           \/ ~Live(m.id) /\ accepted' = [accepted EXCEPT ![m.id] = [message |-> m, verified |-> v, at |-> clock]]
  BY <1>1, ClaimDoes
<1>3. e = m.id /\ ~Live(e) /\ accepted'[e] = [message |-> m, verified |-> v, at |-> clock]
  BY <1>2 DEF EndpointTypeOK
<1>4. PICK a \in Acceptance : a = accepted[e]
  BY DEF EndpointTypeOK
<1>5. a.message \in Message /\ m \in Message /\ claims[e] \in Times /\ clock \in Clock
  BY <1>4 DEF Acceptance, EndpointTypeOK, EnvironmentTypeOK
<1>6. Expiry(a.message) <= clock
  BY <1>3, <1>4, <1>5, ExpiryType, ToleranceAssumption, SkewAssumption, MaxClockAssumption
     DEF ReplayInv, Live, Times, Never, Clock
<1>7. expiring /\ clock > a.message.at + Tolerance
  BY <1>5, <1>6, ToleranceAssumption, SkewAssumption, MaxClockAssumption
     DEF Expiry, Never, Clock, Message, EndpointTypeOK
<1>8. v <= m.at + Tolerance
  BY <1>2, <1>5, Windows DEF Clock, Message
<1>9. m = a.message => v < clock
  BY <1>5, <1>7, <1>8, ToleranceAssumption DEF Clock, Message
<1>. QED
  BY <1>3, <1>4, <1>7, <1>9

LEMMA AcceptedStaysClaimed ==
  ASSUME EnvironmentTypeOK, EndpointTypeOK, ReplayInv
  PROVE  AcceptedIsClaimed
<1>. SUFFICES ASSUME NEW e \in Events, accepted[e] # None, Distance(clock, accepted[e].message.at) <= Tolerance
              PROVE  Live(e)
  BY DEF AcceptedIsClaimed, ReplayInv
<1>1. PICK m \in Message : m = accepted[e].message
  BY DEF EndpointTypeOK, Acceptance
<1>2. clock <= m.at + Tolerance /\ clock \in Clock /\ m.at \in Int
  BY <1>1, Windows DEF EnvironmentTypeOK, Clock, Message
<1>3. Expiry(m) > clock
  BY <1>2, ToleranceAssumption, SkewAssumption, MaxClockAssumption DEF Expiry, Never, Clock
<1>4. claims[e] = Expiry(m)
  BY <1>1, <1>2, <1>3, ExpiryType, ToleranceAssumption, SkewAssumption, MaxClockAssumption
     DEF ReplayInv, Clock, Times, Never
<1>. QED
  BY <1>3, <1>4 DEF Live

-----------------------------------------------------------------------------
(* The processing endpoint.                                                *)
LEMMA NoRecordType == NoRecord \in Record /\ NoRecord.state = "none"
BY DEF NoRecord, Record

LEMMA TaskTypes ==
  ASSUME ProcessingTypeOK, NEW w \in Workers
  PROVE  /\ pc[w] \in {"idle", "reserving", "handling", "succeeding", "failing"}
         /\ pc[w] = "idle" => task[w] = None
         /\ pc[w] = "reserving" => task[w] \in Message
         /\ Working(w) => task[w] \in Lease
<1>1. /\ pc[w] \in {"idle", "reserving", "handling", "succeeding", "failing"}
      /\ task[w] \in CASE pc[w] = "idle" -> {None}
                       [] pc[w] = "reserving" -> Message
                       [] OTHER -> Lease
  BY DEF ProcessingTypeOK
<1>. QED
  BY <1>1 DEF Working

(* What a change of one worker leaves of the types. *)
LEMMA TaskSteps ==
  ASSUME ProcessingTypeOK, NEW w \in Workers, NEW label \in {"idle", "reserving", "handling", "succeeding", "failing"},
         NEW t, pc' = [pc EXCEPT ![w] = label], task' = [task EXCEPT ![w] = t],
         \/ label = "idle" /\ t = None
         \/ label = "reserving" /\ t \in Message
         \/ label \in {"handling", "succeeding", "failing"} /\ t \in Lease
  PROVE  /\ pc' \in [Workers -> {"idle", "reserving", "handling", "succeeding", "failing"}]
         /\ task' \in [Workers -> {None} \cup Message \cup Lease]
         /\ \A x \in Workers : task'[x] \in CASE pc'[x] = "idle" -> {None}
                                              [] pc'[x] = "reserving" -> Message
                                              [] OTHER -> Lease
         /\ pc'[w] = label /\ task'[w] = t
         /\ Working(w)' <=> label \in {"handling", "succeeding", "failing"}
         /\ \A x \in Workers \ {w} : pc'[x] = pc[x] /\ task'[x] = task[x] /\ (Working(x)' <=> Working(x))
<1>1. /\ pc' \in [Workers -> {"idle", "reserving", "handling", "succeeding", "failing"}]
      /\ task' \in [Workers -> {None} \cup Message \cup Lease]
      /\ pc'[w] = label /\ task'[w] = t
      /\ \A x \in Workers \ {w} : pc'[x] = pc[x] /\ task'[x] = task[x]
  BY DEF ProcessingTypeOK
<1>2. ASSUME NEW x \in Workers PROVE task'[x] \in CASE pc'[x] = "idle" -> {None}
                                              [] pc'[x] = "reserving" -> Message
                                              [] OTHER -> Lease
  BY <1>1 DEF ProcessingTypeOK
<1>. QED
  BY <1>1, <1>2 DEF Working

LEMMA LeaseInitInv == ProcessingInit => ProcessingTypeOK /\ LeaseInv
<1>. SUFFICES ASSUME ProcessingInit PROVE ProcessingTypeOK /\ LeaseInv
  OBVIOUS
<1>1. /\ \A s \in Scopes : record[s] = NoRecord /\ drawn[s] = 0
      /\ \A w \in Workers : pc[w] = "idle" /\ task[w] = None
  BY DEF ProcessingInit
<1>2. ProcessingTypeOK
  BY <1>1, NoRecordType, MaxLeasesAssumption DEF ProcessingInit, ProcessingTypeOK, Tokens
<1>3. LeaseInv
  BY <1>1, NoRecordType DEF LeaseInv, Working
<1>. QED
  BY <1>2, <1>3

LEMMA LeaseKeepsWithNetwork ==
  ASSUME EnvironmentTypeOK, ProcessingTypeOK, LeaseInv, EnvironmentStep, UNCHANGED processing
  PROVE  ProcessingTypeOK' /\ LeaseInv'
<1>1. clock <= clock' /\ clock \in Int /\ clock' \in Int
  BY NetworkGrows DEF EnvironmentTypeOK, Clock
<1>2. ProcessingTypeOK'
  BY DEF ProcessingTypeOK, processing
<1>3. \A w \in Workers : Working(w) => task[w].expires \in Int
  BY TaskTypes DEF Lease, LeaseTimes
<1>4. UNCHANGED <<split, record, drawn, pc, task, handled>> /\ \A w \in Workers : Working(w)' = Working(w)
  BY DEF processing, Working
<1>5. LeaseInv'
  BY <1>1, <1>3, <1>4 DEF LeaseInv
<1>. QED
  BY <1>2, <1>5

LEMMA LeaseKeepsWhenIdle ==
  ASSUME ProcessingTypeOK, LeaseInv, UNCHANGED <<environment, processing>>
  PROVE  ProcessingTypeOK' /\ LeaseInv'
<1>1. UNCHANGED <<clock, split, record, drawn, pc, task, handled>> /\ \A w \in Workers : Working(w)' = Working(w)
  BY DEF processing, Working, environment
<1>2. ProcessingTypeOK'
  BY <1>1 DEF ProcessingTypeOK
<1>3. LeaseInv'
  BY <1>1 DEF LeaseInv
<1>. QED
  BY <1>2, <1>3

(* A step of a worker that leaves the store alone. *)
LEMMA WorkerMoves ==
  ASSUME ProcessingTypeOK, LeaseInv, NEW w \in Workers,
         NEW label \in {"idle", "reserving", "handling", "succeeding", "failing"}, NEW t,
         pc' = [pc EXCEPT ![w] = label], task' = [task EXCEPT ![w] = t],
         \/ label = "idle" /\ t = None
         \/ label = "reserving" /\ t \in Message
         \/ label \in {"succeeding", "failing"} /\ Working(w) /\ t = task[w],
         UNCHANGED <<environment, split, record, drawn>>,
         handled \subseteq handled', handled' \subseteq Lease, label = "succeeding" => t \in handled'
  PROVE  ProcessingTypeOK' /\ LeaseInv'
<1>1. /\ ProcessingTypeOK'
      /\ pc'[w] = label /\ task'[w] = t
      /\ Working(w)' => Working(w) /\ t = task[w]
      /\ \A x \in Workers \ {w} : pc'[x] = pc[x] /\ task'[x] = task[x] /\ (Working(x)' <=> Working(x))
  <2>1. t \in Lease \/ label \in {"idle", "reserving"}
    BY TaskTypes
  <2>. QED
    BY <2>1, TaskSteps DEF ProcessingTypeOK
<1>2. \A x \in Workers : Working(x)' => Working(x) /\ task'[x] = task[x]
  BY <1>1
<1>3. \A x \in Workers : pc'[x] = "succeeding" => task'[x] \in handled'
  BY <1>1, TaskTypes DEF LeaseInv, Working
<1>4. UNCHANGED <<clock, split, record, drawn>>
  BY DEF environment
<1>5. LeaseInv'
  <2>1. \A s \in Scopes :
       /\ record'[s].state = "none" => drawn'[s] = 0
       /\ record'[s].state = "processing" => record'[s].token = drawn'[s]
       /\ ~split' /\ s[1] # "current" => record'[s].state = "none"
       /\ record'[s].state = "processed" => \E l \in handled' : l.scope = s /\ l.token = drawn'[s]
    BY <1>4 DEF LeaseInv
  <2>2. ASSUME NEW x \in Workers, Working(x)'
        PROVE  /\ task'[x].token <= drawn'[task'[x].scope]
               /\ task'[x].token < drawn'[task'[x].scope] => task'[x].expires <= clock'
               /\ task'[x].token = drawn'[task'[x].scope] /\ record'[task'[x].scope].state = "processing"
                    => record'[task'[x].scope].expires = task'[x].expires
    BY <1>2, <1>4, <2>2 DEF LeaseInv
  <2>3. \A x, y \in Workers :
       x # y /\ Working(x)' /\ Working(y)' /\ task'[x].scope = task'[y].scope => task'[x].token # task'[y].token
    BY <1>2 DEF LeaseInv
  <2>. QED
    BY <1>3, <2>1, <2>2, <2>3 DEF LeaseInv
<1>. QED
  BY <1>1, <1>5

(* A verdict that the store takes. *)
LEMMA VerdictKeeps ==
  ASSUME ProcessingTypeOK, LeaseInv, NEW w \in Workers, NEW state \in {"processed", "failed"},
         Working(w), Holds(task[w]), Verdict(task[w].scope, state),
         state = "processed" => pc[w] = "succeeding",
         NEW label \in {"idle", "failing"}, NEW t,
         pc' = [pc EXCEPT ![w] = label], task' = [task EXCEPT ![w] = t],
         t = IF label = "idle" THEN None ELSE task[w],
         UNCHANGED <<environment, split, drawn, handled>>
  PROVE  ProcessingTypeOK' /\ LeaseInv'
<1>1. PICK l \in Lease : l = task[w]
  BY TaskTypes
<1>. DEFINE k == l.scope
            v == [state |-> state, token |-> 0, expires |-> 0]
<1>2. k \in Scopes /\ v \in Record /\ v.state = state
  BY <1>1 DEF Lease, Record
<1>3. record' = [record EXCEPT ![k] = v]
  BY <1>1 DEF Verdict
<1>4. record[k].state = "processing" /\ l.token = drawn[k]
  BY <1>1, <1>2 DEF Holds, LeaseInv
<1>5. state = "processed" => l \in handled
  BY <1>1 DEF LeaseInv
<1>. HIDE DEF v, k
<1>6. record'[k] = v /\ \A s \in Scopes \ {k} : record'[s] = record[s]
  BY <1>2, <1>3 DEF ProcessingTypeOK
<1>7. /\ ProcessingTypeOK'
      /\ pc'[w] = label /\ task'[w] = t
      /\ Working(w)' => Working(w) /\ t = task[w]
      /\ \A x \in Workers \ {w} : pc'[x] = pc[x] /\ task'[x] = task[x] /\ (Working(x)' <=> Working(x))
  <2>1. record' \in [Scopes -> Record]
    BY <1>2, <1>3 DEF ProcessingTypeOK
  <2>2. \/ label = "idle" /\ t = None
        \/ label = "failing" /\ t \in Lease /\ t = task[w]
    BY <1>1
  <2>. QED
    BY <2>1, <2>2, TaskSteps DEF ProcessingTypeOK
<1>8. \A x \in Workers : Working(x)' => Working(x) /\ task'[x] = task[x]
  BY <1>7
<1>9. \A x \in Workers : pc'[x] = "succeeding" => task'[x] \in handled'
  BY <1>7, TaskTypes DEF LeaseInv, Working
<1>10. UNCHANGED <<clock, split, drawn, handled>>
  BY DEF environment
<1>11. LeaseInv'
  <2>1. ASSUME NEW s \in Scopes
        PROVE  /\ record'[s].state = "none" => drawn'[s] = 0
               /\ record'[s].state = "processing" => record'[s].token = drawn'[s]
               /\ ~split' /\ s[1] # "current" => record'[s].state = "none"
               /\ record'[s].state = "processed" => \E h \in handled' : h.scope = s /\ h.token = drawn'[s]
    <3>1. CASE s = k
      BY <1>2, <1>4, <1>5, <1>6, <1>10, <3>1 DEF LeaseInv, k
    <3>2. CASE s # k
      BY <1>6, <1>10, <3>2 DEF LeaseInv
    <3>. QED
      BY <3>1, <3>2
  <2>2. ASSUME NEW x \in Workers, Working(x)'
        PROVE  /\ task'[x].token <= drawn'[task'[x].scope]
               /\ task'[x].token < drawn'[task'[x].scope] => task'[x].expires <= clock'
               /\ task'[x].token = drawn'[task'[x].scope] /\ record'[task'[x].scope].state = "processing"
                    => record'[task'[x].scope].expires = task'[x].expires
    <3>1. Working(x) /\ task'[x] = task[x]
      BY <1>8, <2>2
    <3>2. task[x].scope \in Scopes
      BY <3>1, TaskTypes DEF Lease
    <3>3. record'[task[x].scope].state = "processing" => record'[task[x].scope] = record[task[x].scope]
      BY <1>2, <1>6, <3>2
    <3>. QED
      BY <1>10, <3>1, <3>2, <3>3 DEF LeaseInv
  <2>3. \A x, y \in Workers :
       x # y /\ Working(x)' /\ Working(y)' /\ task'[x].scope = task'[y].scope => task'[x].token # task'[y].token
    BY <1>8 DEF LeaseInv
  <2>. QED
    BY <1>9, <2>1, <2>2, <2>3 DEF LeaseInv
<1>. QED
  BY <1>7, <1>11

LEMMA ScopeTypes ==
  ASSUME NEW m \in Message
  PROVE  ScopeOf(m) \in Scopes /\ ScopeOf(m)[2] = m.id /\ (~split => ScopeOf(m)[1] = "current")
BY DEF ScopeOf, Scopes, Message

(* What a grant finds and does. *)
LEMMA GrantDoes ==
  ASSUME ProcessingTypeOK, NEW w \in Workers, GrantLease(w)
  PROVE  \E s \in Scopes :
           /\ ~split => s[1] = "current"
           /\ Claimable(s) /\ drawn[s] + 1 \in Tokens \ {0}
           /\ drawn' = [drawn EXCEPT ![s] = drawn[s] + 1]
           /\ record' = [record EXCEPT ![s] =
                [state |-> "processing", token |-> drawn[s] + 1, expires |-> clock + ProcessingTtl]]
           /\ UNCHANGED <<environment, split, handled>>
           /\ \/ Drop(w)
              \/ /\ pc' = [pc EXCEPT ![w] = "handling"]
                 /\ task' = [task EXCEPT ![w] =
                      [scope |-> s, token |-> drawn[s] + 1, expires |-> clock + ProcessingTtl]]
<1>1. pc[w] = "reserving" /\ task[w] \in Message
  BY TaskTypes DEF GrantLease
<1>2. PICK s \in Scopes : s = ScopeOf(task[w]) /\ (~split => s[1] = "current")
  BY <1>1, ScopeTypes
<1>3. /\ Claimable(s) /\ drawn[s] + 1 <= MaxLeases
      /\ drawn' = [drawn EXCEPT ![s] = drawn[s] + 1]
      /\ record' = [record EXCEPT ![s] =
           [state |-> "processing", token |-> drawn[s] + 1, expires |-> clock + ProcessingTtl]]
      /\ UNCHANGED <<environment, split, handled>>
      /\ \/ Drop(w)
         \/ /\ pc' = [pc EXCEPT ![w] = "handling"]
            /\ task' = [task EXCEPT ![w] =
                 [scope |-> s, token |-> drawn[s] + 1, expires |-> clock + ProcessingTtl]]
  BY <1>2 DEF GrantLease, Goto
<1>4. drawn[s] + 1 \in Tokens \ {0}
  BY <1>3, MaxLeasesAssumption DEF ProcessingTypeOK, Tokens
<1>. QED
  BY <1>2, <1>3, <1>4

LEMMA GrantLeaseKeeps ==
  ASSUME EnvironmentTypeOK, ProcessingTypeOK, LeaseInv, NEW w \in Workers, GrantLease(w)
  PROVE  ProcessingTypeOK' /\ LeaseInv'
<1>1. PICK k \in Scopes :
           /\ ~split => k[1] = "current"
           /\ Claimable(k) /\ drawn[k] + 1 \in Tokens \ {0}
           /\ drawn' = [drawn EXCEPT ![k] = drawn[k] + 1]
           /\ record' = [record EXCEPT ![k] =
                [state |-> "processing", token |-> drawn[k] + 1, expires |-> clock + ProcessingTtl]]
           /\ UNCHANGED <<environment, split, handled>>
           /\ \/ Drop(w)
              \/ /\ pc' = [pc EXCEPT ![w] = "handling"]
                 /\ task' = [task EXCEPT ![w] =
                      [scope |-> k, token |-> drawn[k] + 1, expires |-> clock + ProcessingTtl]]
  BY GrantDoes
<1>. DEFINE token == drawn[k] + 1
            expires == clock + ProcessingTtl
            r == [state |-> "processing", token |-> token, expires |-> expires]
            l == [scope |-> k, token |-> token, expires |-> expires]
<1>2. token \in Tokens \ {0} /\ expires \in LeaseTimes /\ clock \in Int /\ expires > clock
  BY <1>1, MaxClockAssumption, ProcessingTtlAssumption DEF EnvironmentTypeOK, Clock, LeaseTimes
<1>3. r \in Record /\ r.state = "processing" /\ r.token = token /\ r.expires = expires
  BY <1>2 DEF Record
<1>4. l \in Lease /\ l.scope = k /\ l.token = token /\ l.expires = expires
  BY <1>2 DEF Lease
<1>. HIDE DEF r, l
<1>. DEFINE label == IF Drop(w) THEN "idle" ELSE "handling"
            t == IF Drop(w) THEN None ELSE l
<1>5. pc' = [pc EXCEPT ![w] = label] /\ task' = [task EXCEPT ![w] = t]
  <2>1. CASE Drop(w)
    BY <2>1 DEF Drop, Goto
  <2>2. CASE ~Drop(w)
    BY <1>1, <2>2 DEF l
  <2>. QED
    BY <2>1, <2>2
<1>6. label \in {"idle", "handling"} /\ (label = "idle" => t = None) /\ (label = "handling" => t = l)
  <2>1. CASE Drop(w)
    BY <2>1
  <2>2. CASE ~Drop(w)
    BY <2>2
  <2>. QED
    BY <2>1, <2>2
<1>. HIDE DEF label, t
<1>7. record' = [record EXCEPT ![k] = r] /\ drawn' = [drawn EXCEPT ![k] = token]
  BY <1>1 DEF r
<1>. HIDE DEF token, expires
<1>8. /\ record'[k] = r /\ drawn'[k] = token
      /\ \A s \in Scopes \ {k} : record'[s] = record[s] /\ drawn'[s] = drawn[s]
      /\ record' \in [Scopes -> Record] /\ drawn' \in [Scopes -> Tokens]
  BY <1>2, <1>3, <1>7 DEF ProcessingTypeOK
<1>9. /\ ProcessingTypeOK'
      /\ pc'[w] = label /\ task'[w] = t
      /\ Working(w)' => label = "handling" /\ t = l
      /\ \A x \in Workers \ {w} : pc'[x] = pc[x] /\ task'[x] = task[x] /\ (Working(x)' <=> Working(x))
  <2>1. /\ label \in {"idle", "reserving", "handling", "succeeding", "failing"}
        /\ \/ label = "idle" /\ t = None
           \/ label = "handling" /\ t \in Lease
        /\ t = l \/ label = "idle"
    BY <1>4, <1>6
  <2>. QED
    BY <1>1, <1>5, <1>8, <2>1, TaskSteps DEF ProcessingTypeOK
<1>10. clock' = clock /\ split' = split /\ handled' = handled
  BY <1>1 DEF environment
<1>11. drawn[k] \in Int /\ token = drawn[k] + 1
  BY <1>8 DEF ProcessingTypeOK, Tokens, token
<1>12. LeaseInv'
  <2>1. ASSUME NEW s \in Scopes
        PROVE  /\ record'[s].state = "none" => drawn'[s] = 0
               /\ record'[s].state = "processing" => record'[s].token = drawn'[s]
               /\ ~split' /\ s[1] # "current" => record'[s].state = "none"
               /\ record'[s].state = "processed" => \E h \in handled' : h.scope = s /\ h.token = drawn'[s]
    <3>1. CASE s = k
      BY <1>1, <1>3, <1>8, <1>10, <3>1
    <3>2. CASE s # k
      BY <1>8, <1>10, <3>2 DEF LeaseInv
    <3>. QED
      BY <3>1, <3>2
  (* The leases of the others are over, or of another scope. *)
  <2>2. ASSUME NEW x \in Workers \ {w}, Working(x)
        PROVE  /\ task'[x] = task[x] /\ task[x] \in Lease
               /\ task[x].scope = k => task[x].token < token /\ task[x].expires <= clock
    <3>1. PICK o \in Lease : o = task[x]
      BY <2>2, TaskTypes
    <3>2. CASE o.scope = k
      <4>1. o.token \in Int /\ o.token <= drawn[k]
        BY <2>2, <3>1, <3>2 DEF LeaseInv, Lease, Tokens
      <4>2. CASE o.token = drawn[k]
        <5>1. record[k].state = "processing" /\ record[k].expires <= clock
          <6>1. drawn[k] # 0
            BY <4>2 DEF Lease
          <6>. QED
            BY <1>1, <6>1 DEF LeaseInv, Claimable
        <5>2. record[k].expires = o.expires
          BY <2>2, <3>1, <3>2, <4>2, <5>1 DEF LeaseInv
        <5>. QED
          BY <1>9, <1>11, <3>1, <4>2, <5>1, <5>2
      <4>3. CASE o.token < drawn[k]
        BY <1>9, <1>11, <2>2, <3>1, <3>2, <4>1, <4>3 DEF LeaseInv
      <4>. QED
        BY <1>11, <4>1, <4>2, <4>3
    <3>. QED
      BY <1>9, <3>1, <3>2
  <2>3. ASSUME NEW x \in Workers, Working(x)'
        PROVE  /\ task'[x].token <= drawn'[task'[x].scope]
               /\ task'[x].token < drawn'[task'[x].scope] => task'[x].expires <= clock'
               /\ task'[x].token = drawn'[task'[x].scope] /\ record'[task'[x].scope].state = "processing"
                    => record'[task'[x].scope].expires = task'[x].expires
               /\ pc'[x] = "succeeding" => task'[x] \in handled'
    <3>1. CASE x = w
      BY <1>3, <1>4, <1>8, <1>9, <1>11, <2>3, <3>1
    <3>2. CASE x # w /\ task[x].scope = k
      <4>1. task[x].token \in Int
        BY <1>9, <2>2, <2>3, <3>2 DEF Lease, Tokens
      <4>2. pc'[x] = "succeeding" => task'[x] \in handled'
        BY <1>9, <1>10, <2>3, <3>2 DEF LeaseInv
      <4>. QED
        BY <1>8, <1>9, <1>10, <1>11, <2>2, <2>3, <3>2, <4>1, <4>2
    <3>3. CASE x # w /\ task[x].scope # k
      <4>1. task[x].scope \in Scopes \ {k} /\ Working(x) /\ task'[x] = task[x] /\ pc'[x] = pc[x]
        BY <1>9, <2>2, <2>3, <3>3 DEF Lease
      <4>. QED
        BY <1>8, <1>10, <4>1 DEF LeaseInv
    <3>. QED
      BY <3>1, <3>2, <3>3
  <2>4. ASSUME NEW x \in Workers, NEW y \in Workers, x # y, Working(x)', Working(y)', task'[x].scope = task'[y].scope
        PROVE  task'[x].token # task'[y].token
    <3>1. CASE x = w
      BY <1>4, <1>9, <1>11, <2>2, <2>4, <3>1 DEF Lease, Tokens
    <3>2. CASE y = w
      BY <1>4, <1>9, <1>11, <2>2, <2>4, <3>2 DEF Lease, Tokens
    <3>3. CASE x # w /\ y # w
      BY <1>9, <2>4, <3>3 DEF LeaseInv
    <3>. QED
      BY <3>1, <3>2, <3>3
  <2>. QED
    BY <2>1, <2>3, <2>4 DEF LeaseInv
<1>. QED
  BY <1>9, <1>12

LEMMA LeaseKeeps ==
  ASSUME EnvironmentTypeOK, ProcessingTypeOK, LeaseInv, ProcessingStep
  PROVE  ProcessingTypeOK' /\ LeaseInv'
<1>1. ASSUME NEW w \in Workers, NEW m \in sent, VerifyForLease(w, m) PROVE ProcessingTypeOK' /\ LeaseInv'
  <2>1. m \in Message /\ handled \subseteq Lease
    BY DEF EnvironmentTypeOK, ProcessingTypeOK
  <2>. QED
    BY <1>1, <2>1, WorkerMoves DEF VerifyForLease, Goto
<1>2. ASSUME NEW w \in Workers, RefuseLease(w) \/ WorkerCrashes(w) PROVE ProcessingTypeOK' /\ LeaseInv'
  <2>1. handled \subseteq Lease
    BY DEF ProcessingTypeOK
  <2>. QED
    BY <1>2, <2>1, WorkerMoves DEF RefuseLease, WorkerCrashes, Drop, Goto
<1>3. ASSUME NEW w \in Workers, GrantLease(w) PROVE ProcessingTypeOK' /\ LeaseInv'
  BY <1>3, GrantLeaseKeeps
<1>4. ASSUME NEW w \in Workers, HandlerEnds(w) PROVE ProcessingTypeOK' /\ LeaseInv'
  <2>1. Working(w) /\ task[w] \in Lease /\ handled \subseteq Lease /\ task' = [task EXCEPT ![w] = task[w]]
    BY <1>4, TaskTypes DEF HandlerEnds, Working, ProcessingTypeOK
  <2>2. CASE Goto(w, "succeeding") /\ handled' = handled \cup {task[w]}
    BY <1>4, <2>1, <2>2, WorkerMoves DEF HandlerEnds, Goto
  <2>3. CASE Goto(w, "failing") /\ handled' = handled
    BY <1>4, <2>1, <2>3, WorkerMoves DEF HandlerEnds, Goto
  <2>. QED
    BY <1>4, <2>2, <2>3 DEF HandlerEnds
<1>5. ASSUME NEW w \in Workers, MarkProcessed(w) PROVE ProcessingTypeOK' /\ LeaseInv'
  <2>1. pc[w] = "succeeding" /\ Working(w) /\ pc' = [pc EXCEPT ![w] = "idle"] /\ task' = [task EXCEPT ![w] = None]
    BY <1>5 DEF MarkProcessed, Working, Drop, Goto
  <2>. QED
    BY <1>5, <2>1, VerdictKeeps DEF MarkProcessed
<1>6. ASSUME NEW w \in Workers, MarkProcessedThrows(w) PROVE ProcessingTypeOK' /\ LeaseInv'
  <2>1. /\ pc[w] = "succeeding" /\ Working(w) /\ pc' = [pc EXCEPT ![w] = "failing"]
        /\ task' = [task EXCEPT ![w] = task[w]] /\ handled \subseteq Lease
        /\ UNCHANGED <<environment, split, drawn, handled>>
    BY <1>6 DEF MarkProcessedThrows, Working, Goto, ProcessingTypeOK
  <2>2. CASE Holds(task[w]) /\ Verdict(task[w].scope, "processed")
    BY <2>1, <2>2, VerdictKeeps
  <2>3. CASE record' = record
    BY <2>1, <2>3, WorkerMoves
  <2>. QED
    BY <1>6, <2>2, <2>3 DEF MarkProcessedThrows
<1>7. ASSUME NEW w \in Workers, MarkFailed(w) PROVE ProcessingTypeOK' /\ LeaseInv'
  <2>1. /\ Working(w) /\ pc' = [pc EXCEPT ![w] = "idle"]
        /\ task' = [task EXCEPT ![w] = None] /\ handled \subseteq Lease
        /\ UNCHANGED <<environment, split, drawn, handled>>
    BY <1>7 DEF MarkFailed, Working, Drop, Goto, ProcessingTypeOK
  <2>2. CASE Holds(task[w]) /\ Verdict(task[w].scope, "failed")
    BY <2>1, <2>2, VerdictKeeps
  <2>3. CASE record' = record
    BY <2>1, <2>3, WorkerMoves
  <2>. QED
    BY <1>7, <2>2, <2>3 DEF MarkFailed
<1>. QED
  BY <1>1, <1>2, <1>3, <1>4, <1>5, <1>6, <1>7 DEF ProcessingStep

(* Two workers on one scope have different leases, so one is not the last. *)
LEMMA LeasesOverlapLate ==
  ASSUME EnvironmentTypeOK, ProcessingTypeOK, LeaseInv
  PROVE  OverlapOnlyAfterExpiry
<1>. SUFFICES ASSUME NEW v \in Workers, NEW w \in Workers,
                     v # w, Working(v), Working(w), task[v].scope = task[w].scope
              PROVE  /\ task[v].expires <= clock \/ task[w].expires <= clock
                     /\ ~(Holds(task[v]) /\ Holds(task[w]))
  BY DEF OverlapOnlyAfterExpiry
<1>1. PICK k \in Scopes : k = task[v].scope /\ k = task[w].scope
  BY TaskTypes DEF Lease
<1>2. task[v].token \in Int /\ task[w].token \in Int /\ drawn[k] \in Int
  BY TaskTypes DEF Lease, Tokens, ProcessingTypeOK
<1>3. task[v].token # task[w].token
  BY DEF LeaseInv
<1>4. task[v].token < drawn[k] \/ task[w].token < drawn[k]
  BY <1>1, <1>2, <1>3 DEF LeaseInv
<1>. QED
  BY <1>1, <1>3, <1>4 DEF LeaseInv, Holds

(* No step touches a verdict, nor draws a lease behind it. *)
LEMMA VerdictStays ==
  ASSUME ProcessingTypeOK, LeaseInv, ProcessingStep \/ UNCHANGED processing,
         NEW s \in Scopes, record[s].state \in {"processed", "failed"}
  PROVE  /\ record'[s] = record[s]
         /\ drawn'[s] = drawn[s]
         /\ ~split => \A t \in Scopes : t[2] = s[2] => drawn'[t] = drawn[t]
<1>1. CASE UNCHANGED <<record, drawn>>
  BY <1>1
<1>2. ASSUME NEW w \in Workers, Holds(task[w]), NEW state, Verdict(task[w].scope, state), drawn' = drawn
      PROVE  record'[s] = record[s]
  BY <1>2 DEF Holds, Verdict, ProcessingTypeOK
<1>3. ASSUME NEW w \in Workers, GrantLease(w)
      PROVE  /\ record'[s] = record[s]
             /\ drawn'[s] = drawn[s]
             /\ ~split => \A t \in Scopes : t[2] = s[2] => drawn'[t] = drawn[t]
  <2>1. PICK k \in Scopes :
           /\ ~split => k[1] = "current"
           /\ Claimable(k)
           /\ drawn' = [drawn EXCEPT ![k] = drawn[k] + 1]
           /\ record' = [record EXCEPT ![k] =
                [state |-> "processing", token |-> drawn[k] + 1, expires |-> clock + ProcessingTtl]]
    BY <1>3, GrantDoes
  <2>2. s # k
    BY <2>1 DEF Claimable
  <2>3. ~split => s[1] = "current"
    BY DEF LeaseInv
  <2>4. ~split => s[2] # k[2]
    BY <2>1, <2>2, <2>3 DEF Scopes
  <2>. QED
    BY <2>1, <2>2, <2>4 DEF ProcessingTypeOK
<1>. QED
  BY <1>1, <1>2, <1>3 DEF ProcessingStep, VerifyForLease, RefuseLease, HandlerEnds, MarkProcessed,
     MarkProcessedThrows, MarkFailed, WorkerCrashes, processing

-----------------------------------------------------------------------------
(* The internal trigger.                                                   *)
(* A nonempty set of naturals has a least element. *)
LEMMA MinIsLeast ==
  ASSUME NEW S \in SUBSET Nat, S # {}
  PROVE  Min(S) \in S /\ \A n \in S : Min(S) <= n
<1>. DEFINE R == OpToRel(<, Nat)
<1>1. R = {ss \in Nat \X Nat : ss[1] < ss[2]}
  BY DEF OpToRel
<1>2. IsWellFoundedOn(R, Nat)
  BY NatLessThanWellFounded
<1>. HIDE DEF R
<1>3. PICK m \in S : \A n \in S : ~(<<n, m>> \in R)
  BY <1>2, WFMin
<1>4. ASSUME NEW n \in S PROVE m <= n
  <2>1. n \in Nat /\ m \in Nat
    OBVIOUS
  <2>2. n < m => <<n, m>> \in R
    BY <1>1, <2>1
  <2>. QED
    BY <1>3, <2>1, <2>2
<1>. QED
  BY <1>4 DEF Min

(* FirstFailure() answers "ok" of checks that all pass, and of no others. *)
LEMMA OkPasses ==
  ASSUME NEW n \in Nat, NEW checks, DOMAIN checks = 1..n, \A i \in 1..n : checks[i][2] # "ok", FirstFailure(checks) = "ok"
  PROVE  \A i \in 1..n : checks[i][1]
<1>. DEFINE failed == {i \in DOMAIN checks : ~checks[i][1]}
<1>1. ASSUME failed # {} PROVE FALSE
  <2>1. Min(failed) \in 1..n
    BY <1>1, MinIsLeast
  <2>2. FirstFailure(checks) = checks[Min(failed)][2]
    BY <1>1 DEF FirstFailure
  <2>. QED
    BY <2>1, <2>2
<1>. QED
  BY <1>1


(* What parseAndValidateCanonicalEvent() has seen of a valid event. *)
LEMMA EnvelopePasses ==
  ASSUME NEW e, NEW types, NEW sources, NEW tenant, EventFailure(e, types, sources, tenant) = "ok"
  PROVE  /\ Get(e.event, "tenantid") = tenant
         /\ Get(e.event, "type") \in types
         /\ Get(e.event, "source") \in sources
         /\ DataFailure(e, tenant) = "ok"
<1>. DEFINE event == e.event
            checks == <<
        <<DOMAIN event \subseteq EventKeys, "UNKNOWN_FIELD">>,
        <<Get(event, "specversion") = "1.0", "INVALID_EVENT_SPECVERSION">>,
        <<Get(event, "datacontenttype") = "application/json", "INVALID_EVENT_CONTENT_TYPE">>,
        <<IsOneOf(event, "tenantid", Uuids), "INVALID_UUID">>,
        <<IsText(event, "type"), "INVALID_STRING">>,
        <<IsText(event, "source"), "INVALID_STRING">>,
        <<Get(event, "tenantid") = tenant, "EVENT_TENANT_MISMATCH">>,
        <<Get(event, "type") \in types, "EVENT_TYPE_NOT_ALLOWED">>,
        <<Get(event, "source") \in sources, "EVENT_SOURCE_NOT_ALLOWED">>,
        <<IsOneOf(event, "id", Uuids), "INVALID_UUID">>,
        <<IsDate(event, "time"), "INVALID_DATETIME">>,
        <<Maybe(event, "subject", IsText(event, "subject")), "INVALID_STRING">>,
        <<Maybe(event, "dataschema", IsOneOf(event, "dataschema", AbsoluteUris)),
          "INVALID_URI">>,
        <<Get(event, "type") \in {SocialType, WebhookType}, "EVENT_SCHEMA_NOT_SUPPORTED">>,
        <<IsOneOf(event, "data", Objects), "INVALID_OBJECT">> >>
<1>1. FirstFailure(checks) = "ok" /\ DataFailure(e, tenant) = "ok"
  BY DEF EventFailure
<1>2. DOMAIN checks = 1..15
  OBVIOUS
<1>3. \A i \in 1..15 : checks[i][2] # "ok"
  OBVIOUS
<1>4. \A i \in 1..15 : checks[i][1]
  <2>. HIDE DEF checks
  <2>. QED
    BY <1>1, <1>2, <1>3, OkPasses
<1>5. /\ checks[7][1] => Get(event, "tenantid") = tenant
      /\ checks[8][1] => Get(event, "type") \in types
      /\ checks[9][1] => Get(event, "source") \in sources
  OBVIOUS
<1>. HIDE DEF checks
<1>6. checks[7][1] /\ checks[8][1] /\ checks[9][1]
  BY <1>4
<1>. QED
  BY <1>1, <1>5, <1>6

LEMMA SocialDataPasses ==
  ASSUME NEW e, NEW tenant, SocialDataFailure(e, tenant) = "ok"
  PROVE  Get(e.data, "tenantId") = tenant
<1>. DEFINE data == e.data
            checks == <<
    <<DOMAIN data \subseteq SocialKeys, "UNKNOWN_FIELD">>,
    <<IsOneOf(data, "tenantId", Uuids), "INVALID_UUID">>,
    <<Get(data, "tenantId") = tenant, "EVENT_TENANT_MISMATCH">>,
    <<IsOneOf(data, "postId", Uuids), "INVALID_UUID">>,
    <<Maybe(data, "previousStatus", IsOneOf(data, "previousStatus", SocialStatuses)),
      "INVALID_ENUM">>,
    <<IsOneOf(data, "status", SocialStatuses), "INVALID_ENUM">>,
    <<IsOneOf(data, "deliveries", Lists), "INVALID_ARRAY">>,
    <<\A i \in DOMAIN e.deliveries : DeliveryFailure(e.deliveries[i]) = "ok",
      "INVALID_DELIVERY">>,
    <<IsDate(data, "occurredAt"), "INVALID_DATETIME">> >>
<1>1. FirstFailure(checks) = "ok"
  BY DEF SocialDataFailure
<1>2. DOMAIN checks = 1..9
  OBVIOUS
<1>3. \A i \in 1..9 : checks[i][2] # "ok"
  OBVIOUS
<1>4. \A i \in 1..9 : checks[i][1]
  <2>. HIDE DEF checks
  <2>. QED
    BY <1>1, <1>2, <1>3, OkPasses
<1>5. checks[3][1] => Get(data, "tenantId") = tenant
  OBVIOUS
<1>. HIDE DEF checks
<1>6. checks[3][1]
  BY <1>4
<1>. QED
  BY <1>5, <1>6

(* A valid event is one for this trigger. *)
LEMMA ValidIsForUs ==
  ASSUME NEW e \in Events, Valid(e)
  PROVE  /\ content[e].event.id = e
         /\ content[e].event.tenantid = ExpectedTenant
         /\ content[e].event.type \in AllowedTypes
         /\ content[e].event.source \in AllowedSources
         /\ content[e].event.type = SocialType => content[e].data.tenantId = ExpectedTenant
<1>. DEFINE c == content[e]
<1>1. content[e].event.id = e /\ EventFailure(c, AllowedTypes, AllowedSources, ExpectedTenant) = "ok"
  BY DEF Valid
<1>2. /\ Get(c.event, "tenantid") = ExpectedTenant
      /\ Get(c.event, "type") \in AllowedTypes
      /\ Get(c.event, "source") \in AllowedSources
      /\ DataFailure(c, ExpectedTenant) = "ok"
  BY <1>1, EnvelopePasses
<1>3. /\ c.event.tenantid = ExpectedTenant
      /\ c.event.type \in AllowedTypes
      /\ c.event.source \in AllowedSources
  BY <1>2 DEF Get, ExpectedTenant, AllowedTypes, AllowedSources, SocialType, WebhookType
<1>4. ASSUME c.event.type = SocialType PROVE c.data.tenantId = ExpectedTenant
  <2>1. Get(c.data, "tenantId") = ExpectedTenant
    BY <1>2, <1>4, SocialDataPasses DEF DataFailure
  <2>. QED
    BY <2>1 DEF Get, ExpectedTenant
<1>. QED
  BY <1>1, <1>3, <1>4

LEMMA TriggerInitInv == TriggerInit => TriggerTypeOK /\ TriggerInv
BY MaxRunsAssumption, NoneIsNoEvent DEF TriggerInit, TriggerTypeOK, TriggerInv, DispatchedOnce, LostIsReported

LEMMA TriggerKeepsWithNetwork ==
  ASSUME TriggerTypeOK, TriggerInv, sent \subseteq sent', UNCHANGED trigger
  PROVE  TriggerTypeOK' /\ TriggerInv'
<1>1. UNCHANGED <<content, guard, late, asking, dispatched, told, abandoned>>
  BY DEF trigger
<1>2. TriggerTypeOK'
  BY <1>1 DEF TriggerTypeOK
<1>3. \A e : Valid(e)' <=> Valid(e)
  BY <1>1 DEF Valid
<1>4. \A e : Due(e) => Due(e)'
  BY <1>3 DEF Due
<1>5. TriggerInv'
  BY <1>1, <1>3, <1>4 DEF TriggerInv, DispatchedOnce, LostIsReported
<1>. QED
  BY <1>2, <1>5

(* A step of a worker that has a claim under way, and comes back from it. *)
LEMMA ClaimIsDue ==
  ASSUME TriggerTypeOK, TriggerInv, NEW w \in Workers, asking[w] # None, UNCHANGED <<environment, content>>
  PROVE  \E e \in Events : e = asking[w] /\ Due(e) /\ Due(e)' /\ \A o : (Due(o)' <=> Due(o)) /\ (Valid(o)' <=> Valid(o))
<1>1. asking[w] \in Events /\ Due(asking[w])
  BY DEF TriggerTypeOK, TriggerInv
<1>2. \A o : (Due(o)' <=> Due(o)) /\ (Valid(o)' <=> Valid(o))
  BY DEF Due, Valid, environment
<1>. QED
  BY <1>1, <1>2

LEMMA AskingSteps ==
  ASSUME TriggerTypeOK, NEW w \in Workers, NEW e \in Events \cup {None}, Ask(w, e)
  PROVE  /\ asking' \in [Workers -> Events \cup {None}]
         /\ asking'[w] = e /\ \A x \in Workers \ {w} : asking'[x] = asking[x]
BY DEF TriggerTypeOK, Ask

LEMMA TellType ==
  ASSUME TriggerTypeOK, NEW e \in Events, NEW answer \in Answers, Tell(e, answer)
  PROVE  told' \subseteq Events \X Answers /\ told \subseteq told' /\ told' = told \cup {<<e, answer>>}
BY DEF TriggerTypeOK, Tell

LEMMA DispatchKeeps ==
  ASSUME TriggerTypeOK, TriggerInv, NEW w \in Workers, Dispatch(w)
  PROVE  TriggerTypeOK' /\ TriggerInv'
<1>1. PICK e \in Events : e = asking[w] /\ Due(e) /\ \A o : (Due(o)' <=> Due(o)) /\ (Valid(o)' <=> Valid(o))
  BY NoneIsNoEvent, ClaimIsDue DEF Dispatch, TriggerTypeOK
<1>2. /\ e \notin guard /\ guard' = guard \cup {e} /\ dispatched[e] < MaxRuns
      /\ dispatched' = [dispatched EXCEPT ![e] = @ + 1] /\ Tell(e, "accepted") /\ Ask(w, None)
      /\ UNCHANGED <<environment, content, late, abandoned>>
  BY <1>1 DEF Dispatch
<1>3. /\ asking' \in [Workers -> Events \cup {None}]
      /\ asking'[w] = None /\ \A x \in Workers \ {w} : asking'[x] = asking[x]
  BY <1>2, AskingSteps
<1>4. told' \subseteq Events \X Answers /\ told' = told \cup {<<e, "accepted">>}
  BY <1>1, <1>2, TellType DEF Answers, TriggerTypeOK
<1>5. TriggerTypeOK'
  BY <1>1, <1>2, <1>3, <1>4, MaxRunsAssumption DEF TriggerTypeOK
<1>6. /\ \A o \in Events : o \in guard' \cup late' => Due(o)'
      /\ \A x \in Workers, o \in Events : asking'[x] = o => Due(o)'
      /\ \A o \in Events : <<o, "refused">> \in told' => ~Valid(o)'
  <2>1. \A o \in Events : o \in guard' \cup late' => Due(o)'
    BY <1>1, <1>2 DEF TriggerInv
  <2>2. \A x \in Workers, o \in Events : asking'[x] = o => Due(o)'
    BY <1>1, <1>3, NoneIsNoEvent DEF TriggerInv
  <2>3. \A o \in Events : <<o, "refused">> \in told' => ~Valid(o)'
    BY <1>1, <1>4 DEF TriggerInv
  <2>. QED
    BY <2>1, <2>2, <2>3
<1>7. \A o \in late' : <<o, "retry">> \in told' \/ o \in abandoned'
  BY <1>1, <1>2, <1>4 DEF TriggerInv
<1>8. DispatchedOnce'
  <2>. SUFFICES ASSUME NEW o \in Events
                PROVE  /\ dispatched'[o] <= 1
                       /\ dispatched'[o] = 1 <=> <<o, "accepted">> \in told'
                       /\ dispatched'[o] = 1 => o \in guard'
    BY DEF DispatchedOnce
  <2>1. CASE o = e
    <3>1. dispatched[e] = 0 /\ dispatched'[e] = 1
      <4>1. dispatched[e] \in 0..MaxRuns /\ dispatched'[e] = dispatched[e] + 1
        BY <1>2 DEF TriggerTypeOK
      <4>2. dispatched[e] <= 1 /\ dispatched[e] # 1
        BY <1>2 DEF TriggerInv, DispatchedOnce
      <4>. QED
        BY <4>1, <4>2, MaxRunsAssumption
    <3>. QED
      BY <1>2, <1>4, <2>1, <3>1
  <2>2. CASE o # e
    <3>1. dispatched'[o] = dispatched[o] /\ (<<o, "accepted">> \in told' <=> <<o, "accepted">> \in told)
      BY <1>2, <1>4, <2>2 DEF TriggerTypeOK
    <3>. QED
      BY <1>2, <3>1 DEF TriggerInv, DispatchedOnce
  <2>. QED
    BY <2>1, <2>2
<1>9. LostIsReported'
  BY <1>1, <1>2, <1>4 DEF TriggerInv, LostIsReported, DispatchedOnce, TriggerTypeOK
<1>. QED
  BY <1>5, <1>6, <1>7, <1>8, <1>9 DEF TriggerInv

LEMMA ReceiptUnreadKeeps ==
  ASSUME TriggerTypeOK, TriggerInv, NEW w \in Workers, ReceiptUnread(w)
  PROVE  TriggerTypeOK' /\ TriggerInv'
<1>1. PICK e \in Events : e = asking[w] /\ Due(e) /\ \A o : (Due(o)' <=> Due(o)) /\ (Valid(o)' <=> Valid(o))
  BY NoneIsNoEvent, ClaimIsDue DEF ReceiptUnread, TriggerTypeOK
<1>2. /\ guard' = guard \cup {e} /\ Tell(e, "retry") /\ Ask(w, None)
      /\ UNCHANGED <<environment, content, late, dispatched, abandoned>>
  BY <1>1 DEF ReceiptUnread
<1>3. /\ asking' \in [Workers -> Events \cup {None}]
      /\ asking'[w] = None /\ \A x \in Workers \ {w} : asking'[x] = asking[x]
  BY <1>2, AskingSteps
<1>4. told' \subseteq Events \X Answers /\ told' = told \cup {<<e, "retry">>}
  BY <1>1, <1>2, TellType DEF Answers, TriggerTypeOK
<1>5. TriggerTypeOK'
  BY <1>1, <1>2, <1>3, <1>4, MaxRunsAssumption DEF TriggerTypeOK
<1>6. /\ \A o \in Events : o \in guard' \cup late' => Due(o)'
      /\ \A x \in Workers, o \in Events : asking'[x] = o => Due(o)'
      /\ \A o \in Events : <<o, "refused">> \in told' => ~Valid(o)'
  <2>1. \A o \in Events : o \in guard' \cup late' => Due(o)'
    BY <1>1, <1>2 DEF TriggerInv
  <2>2. \A x \in Workers, o \in Events : asking'[x] = o => Due(o)'
    BY <1>1, <1>3, NoneIsNoEvent DEF TriggerInv
  <2>3. \A o \in Events : <<o, "refused">> \in told' => ~Valid(o)'
    BY <1>1, <1>4 DEF TriggerInv
  <2>. QED
    BY <2>1, <2>2, <2>3
<1>7. \A o \in late' : <<o, "retry">> \in told' \/ o \in abandoned'
  BY <1>1, <1>2, <1>4 DEF TriggerInv
<1>8. DispatchedOnce'
  BY <1>1, <1>2, <1>4 DEF TriggerInv, DispatchedOnce, TriggerTypeOK
<1>9. LostIsReported'
  BY <1>1, <1>2, <1>4 DEF TriggerInv, LostIsReported, DispatchedOnce, TriggerTypeOK
<1>. QED
  BY <1>5, <1>6, <1>7, <1>8, <1>9 DEF TriggerInv

LEMMA ReplayDetectedKeeps ==
  ASSUME TriggerTypeOK, TriggerInv, NEW w \in Workers, ReplayDetected(w)
  PROVE  TriggerTypeOK' /\ TriggerInv'
<1>1. PICK e \in Events : e = asking[w] /\ Due(e) /\ \A o : (Due(o)' <=> Due(o)) /\ (Valid(o)' <=> Valid(o))
  BY NoneIsNoEvent, ClaimIsDue DEF ReplayDetected, TriggerTypeOK
<1>2. /\ e \in guard /\ Tell(e, "replayed") /\ Ask(w, None)
      /\ UNCHANGED <<environment, content, guard, late, dispatched, abandoned>>
  BY <1>1 DEF ReplayDetected
<1>3. /\ asking' \in [Workers -> Events \cup {None}]
      /\ asking'[w] = None /\ \A x \in Workers \ {w} : asking'[x] = asking[x]
  BY <1>2, AskingSteps
<1>4. told' \subseteq Events \X Answers /\ told' = told \cup {<<e, "replayed">>}
  BY <1>1, <1>2, TellType DEF Answers, TriggerTypeOK
<1>5. TriggerTypeOK'
  BY <1>1, <1>2, <1>3, <1>4, MaxRunsAssumption DEF TriggerTypeOK
<1>6. /\ \A o \in Events : o \in guard' \cup late' => Due(o)'
      /\ \A x \in Workers, o \in Events : asking'[x] = o => Due(o)'
      /\ \A o \in Events : <<o, "refused">> \in told' => ~Valid(o)'
  <2>1. \A o \in Events : o \in guard' \cup late' => Due(o)'
    BY <1>1, <1>2 DEF TriggerInv
  <2>2. \A x \in Workers, o \in Events : asking'[x] = o => Due(o)'
    BY <1>1, <1>3, NoneIsNoEvent DEF TriggerInv
  <2>3. \A o \in Events : <<o, "refused">> \in told' => ~Valid(o)'
    BY <1>1, <1>4 DEF TriggerInv
  <2>. QED
    BY <2>1, <2>2, <2>3
<1>7. \A o \in late' : <<o, "retry">> \in told' \/ o \in abandoned'
  BY <1>1, <1>2, <1>4 DEF TriggerInv
<1>8. DispatchedOnce'
  BY <1>1, <1>2, <1>4 DEF TriggerInv, DispatchedOnce, TriggerTypeOK
<1>9. LostIsReported'
  BY <1>1, <1>2, <1>4 DEF TriggerInv, LostIsReported, DispatchedOnce, TriggerTypeOK
<1>. QED
  BY <1>5, <1>6, <1>7, <1>8, <1>9 DEF TriggerInv

LEMMA GuardFailsKeeps ==
  ASSUME TriggerTypeOK, TriggerInv, NEW w \in Workers, GuardFails(w)
  PROVE  TriggerTypeOK' /\ TriggerInv'
<1>1. PICK e \in Events : e = asking[w] /\ Due(e) /\ \A o : (Due(o)' <=> Due(o)) /\ (Valid(o)' <=> Valid(o))
  BY NoneIsNoEvent, ClaimIsDue DEF GuardFails, TriggerTypeOK
<1>2. /\ (Tell(e, "retry") \/ Tell(e, "rejected")) /\ Ask(w, None)
      /\ UNCHANGED <<environment, content, guard, late, dispatched, abandoned>>
  BY <1>1 DEF GuardFails
<1>3. /\ asking' \in [Workers -> Events \cup {None}]
      /\ asking'[w] = None /\ \A x \in Workers \ {w} : asking'[x] = asking[x]
  BY <1>2, AskingSteps
<1>4. told' \subseteq Events \X Answers /\ told' \in {told \cup {<<e, "retry">>}, told \cup {<<e, "rejected">>}}
  BY <1>1, <1>2, TellType DEF Answers, TriggerTypeOK
<1>5. TriggerTypeOK'
  BY <1>1, <1>2, <1>3, <1>4, MaxRunsAssumption DEF TriggerTypeOK
<1>6. /\ \A o \in Events : o \in guard' \cup late' => Due(o)'
      /\ \A x \in Workers, o \in Events : asking'[x] = o => Due(o)'
      /\ \A o \in Events : <<o, "refused">> \in told' => ~Valid(o)'
  <2>1. \A o \in Events : o \in guard' \cup late' => Due(o)'
    BY <1>1, <1>2 DEF TriggerInv
  <2>2. \A x \in Workers, o \in Events : asking'[x] = o => Due(o)'
    BY <1>1, <1>3, NoneIsNoEvent DEF TriggerInv
  <2>3. \A o \in Events : <<o, "refused">> \in told' => ~Valid(o)'
    BY <1>1, <1>4 DEF TriggerInv
  <2>. QED
    BY <2>1, <2>2, <2>3
<1>7. \A o \in late' : <<o, "retry">> \in told' \/ o \in abandoned'
  BY <1>1, <1>2, <1>4 DEF TriggerInv
<1>8. DispatchedOnce'
  <2>1. \A o \in Events : <<o, "accepted">> \in told' <=> <<o, "accepted">> \in told
    BY <1>4
  <2>. QED
    BY <1>2, <2>1 DEF TriggerInv, DispatchedOnce
<1>9. LostIsReported'
  BY <1>1, <1>2, <1>4 DEF TriggerInv, LostIsReported, DispatchedOnce, TriggerTypeOK
<1>. QED
  BY <1>5, <1>6, <1>7, <1>8, <1>9 DEF TriggerInv

LEMMA ClaimTimesOutKeeps ==
  ASSUME TriggerTypeOK, TriggerInv, NEW w \in Workers, ClaimTimesOut(w)
  PROVE  TriggerTypeOK' /\ TriggerInv'
<1>1. PICK e \in Events : e = asking[w] /\ Due(e) /\ \A o : (Due(o)' <=> Due(o)) /\ (Valid(o)' <=> Valid(o))
  BY NoneIsNoEvent, ClaimIsDue DEF ClaimTimesOut, TriggerTypeOK
<1>2. /\ late' = late \cup {e} /\ Tell(e, "retry") /\ Ask(w, None)
      /\ UNCHANGED <<environment, content, guard, dispatched, abandoned>>
  BY <1>1 DEF ClaimTimesOut
<1>3. /\ asking' \in [Workers -> Events \cup {None}]
      /\ asking'[w] = None /\ \A x \in Workers \ {w} : asking'[x] = asking[x]
  BY <1>2, AskingSteps
<1>4. told' \subseteq Events \X Answers /\ told' = told \cup {<<e, "retry">>}
  BY <1>1, <1>2, TellType DEF Answers, TriggerTypeOK
<1>5. TriggerTypeOK'
  BY <1>1, <1>2, <1>3, <1>4, MaxRunsAssumption DEF TriggerTypeOK
<1>6. /\ \A o \in Events : o \in guard' \cup late' => Due(o)'
      /\ \A x \in Workers, o \in Events : asking'[x] = o => Due(o)'
      /\ \A o \in Events : <<o, "refused">> \in told' => ~Valid(o)'
  <2>1. \A o \in Events : o \in guard' \cup late' => Due(o)'
    BY <1>1, <1>2 DEF TriggerInv
  <2>2. \A x \in Workers, o \in Events : asking'[x] = o => Due(o)'
    BY <1>1, <1>3, NoneIsNoEvent DEF TriggerInv
  <2>3. \A o \in Events : <<o, "refused">> \in told' => ~Valid(o)'
    BY <1>1, <1>4 DEF TriggerInv
  <2>. QED
    BY <2>1, <2>2, <2>3
<1>7. \A o \in late' : <<o, "retry">> \in told' \/ o \in abandoned'
  BY <1>1, <1>2, <1>4 DEF TriggerInv
<1>8. DispatchedOnce'
  BY <1>1, <1>2, <1>4 DEF TriggerInv, DispatchedOnce, TriggerTypeOK
<1>9. LostIsReported'
  BY <1>1, <1>2, <1>4 DEF TriggerInv, LostIsReported, DispatchedOnce, TriggerTypeOK
<1>. QED
  BY <1>5, <1>6, <1>7, <1>8, <1>9 DEF TriggerInv

LEMMA TriggerCrashesKeeps ==
  ASSUME TriggerTypeOK, TriggerInv, NEW w \in Workers, TriggerCrashes(w)
  PROVE  TriggerTypeOK' /\ TriggerInv'
<1>1. PICK e \in Events : e = asking[w] /\ Due(e) /\ \A o : (Due(o)' <=> Due(o)) /\ (Valid(o)' <=> Valid(o))
  BY NoneIsNoEvent, ClaimIsDue DEF TriggerCrashes, TriggerTypeOK
<1>2. /\ late' = late \cup {e} /\ abandoned' = abandoned \cup {e} /\ Ask(w, None)
      /\ UNCHANGED <<environment, content, guard, dispatched, told>>
  BY <1>1 DEF TriggerCrashes
<1>3. /\ asking' \in [Workers -> Events \cup {None}]
      /\ asking'[w] = None /\ \A x \in Workers \ {w} : asking'[x] = asking[x]
  BY <1>2, AskingSteps
<1>4. told' \subseteq Events \X Answers /\ told' = told
  BY <1>1, <1>2, TellType DEF Answers, TriggerTypeOK
<1>5. TriggerTypeOK'
  BY <1>1, <1>2, <1>3, <1>4, MaxRunsAssumption DEF TriggerTypeOK
<1>6. /\ \A o \in Events : o \in guard' \cup late' => Due(o)'
      /\ \A x \in Workers, o \in Events : asking'[x] = o => Due(o)'
      /\ \A o \in Events : <<o, "refused">> \in told' => ~Valid(o)'
  <2>1. \A o \in Events : o \in guard' \cup late' => Due(o)'
    BY <1>1, <1>2 DEF TriggerInv
  <2>2. \A x \in Workers, o \in Events : asking'[x] = o => Due(o)'
    BY <1>1, <1>3, NoneIsNoEvent DEF TriggerInv
  <2>3. \A o \in Events : <<o, "refused">> \in told' => ~Valid(o)'
    BY <1>1, <1>4 DEF TriggerInv
  <2>. QED
    BY <2>1, <2>2, <2>3
<1>7. \A o \in late' : <<o, "retry">> \in told' \/ o \in abandoned'
  BY <1>1, <1>2, <1>4 DEF TriggerInv
<1>8. DispatchedOnce'
  BY <1>1, <1>2, <1>4 DEF TriggerInv, DispatchedOnce, TriggerTypeOK
<1>9. LostIsReported'
  BY <1>1, <1>2, <1>4 DEF TriggerInv, LostIsReported, DispatchedOnce, TriggerTypeOK
<1>. QED
  BY <1>5, <1>6, <1>7, <1>8, <1>9 DEF TriggerInv

(* A claim is under way only for a valid event that was sent. *)
LEMMA ReceiveKeeps ==
  ASSUME EnvironmentTypeOK, TriggerTypeOK, TriggerInv, NEW w \in Workers, NEW m \in sent, NEW header, Receive(w, m, header)
  PROVE  TriggerTypeOK' /\ TriggerInv'
<1>1. UNCHANGED <<environment, content, guard, late, dispatched, abandoned>>
  BY DEF Receive
<1>2. PICK e \in Events : e = m.id /\ (Valid(e) => Due(e))
  BY DEF EnvironmentTypeOK, Message, Due
<1>3. \A o : (Due(o)' <=> Due(o)) /\ (Valid(o)' <=> Valid(o))
  BY <1>1 DEF Due, Valid, environment
<1>4. CASE UNCHANGED <<asking, told>>
  BY <1>1, <1>3, <1>4 DEF TriggerTypeOK, TriggerInv, DispatchedOnce, LostIsReported
<1>5. CASE ~Valid(e) /\ Tell(e, "refused") /\ asking' = asking
  <2>1. told' \subseteq Events \X Answers /\ told' = told \cup {<<e, "refused">>}
    BY <1>5, TellType DEF Answers
  <2>2. TriggerTypeOK'
    BY <1>1, <1>5, <2>1 DEF TriggerTypeOK
  <2>3. \A o \in Events : <<o, "accepted">> \in told' <=> <<o, "accepted">> \in told
    BY <2>1
  <2>4. DispatchedOnce' /\ LostIsReported'
    BY <1>1, <2>1, <2>3 DEF TriggerInv, DispatchedOnce, LostIsReported
  <2>5. TriggerInv'
    BY <1>1, <1>3, <1>5, <2>1, <2>4 DEF TriggerInv
  <2>. QED
    BY <2>2, <2>5
<1>6. CASE Valid(e) /\ Ask(w, e) /\ told' = told
  <2>1. /\ asking' \in [Workers -> Events \cup {None}]
        /\ asking'[w] = e /\ \A x \in Workers \ {w} : asking'[x] = asking[x]
    BY <1>6, AskingSteps
  <2>2. TriggerTypeOK'
    BY <1>1, <1>6, <2>1 DEF TriggerTypeOK
  <2>3. \A x \in Workers, o \in Events : asking'[x] = o => Due(o)'
    BY <1>2, <1>3, <1>6, <2>1 DEF TriggerInv
  <2>4. DispatchedOnce' /\ LostIsReported'
    BY <1>1, <1>6 DEF TriggerInv, DispatchedOnce, LostIsReported
  <2>5. TriggerInv'
    BY <1>1, <1>3, <1>6, <2>3, <2>4 DEF TriggerInv
  <2>. QED
    BY <2>2, <2>5
<1>. QED
  BY <1>2, <1>4, <1>5, <1>6 DEF Receive

LEMMA LateClaimKeeps ==
  ASSUME TriggerTypeOK, TriggerInv, NEW e \in Events, LateClaim(e)
  PROVE  TriggerTypeOK' /\ TriggerInv'
<1>1. /\ e \in late /\ late' = late \ {e} /\ guard' = guard \cup {e}
      /\ UNCHANGED <<environment, content, asking, dispatched, told, abandoned>>
  BY DEF LateClaim
<1>2. \A o : (Due(o)' <=> Due(o)) /\ (Valid(o)' <=> Valid(o))
  BY <1>1 DEF Due, Valid, environment
<1>3. TriggerTypeOK'
  BY <1>1 DEF TriggerTypeOK
<1>4. DispatchedOnce' /\ LostIsReported'
  BY <1>1 DEF TriggerInv, DispatchedOnce, LostIsReported
<1>5. TriggerInv'
  BY <1>1, <1>2, <1>4 DEF TriggerInv
<1>. QED
  BY <1>3, <1>5

LEMMA TriggerKeeps ==
  ASSUME EnvironmentTypeOK, TriggerTypeOK, TriggerInv, TriggerStep
  PROVE  TriggerTypeOK' /\ TriggerInv'
BY ReceiveKeeps, DispatchKeeps, ReceiptUnreadKeeps, ReplayDetectedKeeps, GuardFailsKeeps,
   ClaimTimesOutKeeps, TriggerCrashesKeeps, LateClaimKeeps DEF TriggerStep

(* The invariant says all of ClaimsSpentWell. *)
LEMMA ClaimsAreSpentWell ==
  ASSUME TriggerTypeOK, TriggerInv
  PROVE  ClaimsSpentWell
<1>1. ASSUME NEW e \in Events, e \in guard \cup late \/ dispatched[e] > 0
      PROVE  Due(e) /\ <<e, "refused">> \notin told
  <2>1. dispatched[e] > 0 => dispatched[e] = 1
    <3>1. dispatched[e] \in 0 .. MaxRuns
      BY DEF TriggerTypeOK
    <3>2. dispatched[e] <= 1
      BY DEF TriggerInv, DispatchedOnce
    <3>. QED
      BY <3>1, <3>2, MaxRunsAssumption
  <2>. QED
    BY <1>1, <2>1 DEF TriggerInv, DispatchedOnce, Due
<1>2. ClaimsAreDue
  BY <1>1, ValidIsForUs DEF ClaimsAreDue, Due
<1>. QED
  BY <1>2 DEF ClaimsSpentWell, TriggerInv

-----------------------------------------------------------------------------
(* The forms of a webhook.                                                 *)
LEMMA FormsInitInv == FormsInit => FormsInv
BY DEF FormsInit, FormsInv, AcceptedWasDue, RefusedForCause

(* What verifyWebhook() has seen of a message it lets pass. *)
LEMMA VerifyPasses ==
  ASSUME NEW p, NEW m, VerifyFailure(p, m) = "ok"
  PROVE  /\ Distance(clock, m.at) <= Tolerance
         /\ Stops(p, m) # {}
         /\ ~ StopsAt(p, m, {"unprefixed", "short"})
         /\ ~ StopsAt(p, m, {"undecodable"})
<1>. DEFINE checks == <<
    <<TakesText(Words[m.id], p.id), "INVALID_EVENT_ID">>,
    <<TakesTimestamp(p.timestamp), "INVALID_TIMESTAMP">>,
    <<TakesTolerance(p.tolerance), "INVALID_TOLERANCE">>,
    <<Distance(clock, m.at) <= Tolerance, "TIMESTAMP_OUT_OF_RANGE">>,
    <<p.secrets # << >>, "NO_SECRETS">>,
    <<Candidates(p) # {}, "INVALID_SIGNATURE_HEADER">>,
    <<Stops(p, m) # {}, "INVALID_SIGNATURE">>,
    <<~ StopsAt(p, m, {"unprefixed", "short"}), "INVALID_SECRET_FORMAT">>,
    <<~ StopsAt(p, m, {"undecodable"}), "INVALID_BASE64">> >>
<1>1. FirstFailure(checks) = "ok"
  BY DEF VerifyFailure
<1>2. DOMAIN checks = 1..9
  OBVIOUS
<1>3. \A i \in 1..9 : checks[i][2] # "ok"
  OBVIOUS
<1>4. \A i \in 1..9 : checks[i][1]
  <2>. HIDE DEF checks
  <2>. QED
    BY <1>1, <1>2, <1>3, OkPasses
<1>5. /\ checks[4][1] => Distance(clock, m.at) <= Tolerance
      /\ checks[7][1] => Stops(p, m) # {}
      /\ checks[8][1] => ~ StopsAt(p, m, {"unprefixed", "short"})
      /\ checks[9][1] => ~ StopsAt(p, m, {"undecodable"})
  OBVIOUS
<1>. HIDE DEF checks
<1>6. checks[4][1] /\ checks[7][1] /\ checks[8][1] /\ checks[9][1]
  BY <1>4
<1>. QED
  BY <1>5, <1>6

(* And what it may have thrown at. *)
LEMMA VerifyFails ==
  ASSUME NEW p, NEW m, VerifyFailure(p, m) # "ok"
  PROVE  \/ ~TakesText(Words[m.id], p.id)
         \/ ~TakesTimestamp(p.timestamp)
         \/ ~TakesTolerance(p.tolerance)
         \/ ~(Distance(clock, m.at) <= Tolerance)
         \/ p.secrets = << >>
         \/ Candidates(p) = {}
         \/ Stops(p, m) = {}
         \/ StopsAt(p, m, {"unprefixed", "short"})
         \/ StopsAt(p, m, {"undecodable"})
<1>. DEFINE checks == <<
    <<TakesText(Words[m.id], p.id), "INVALID_EVENT_ID">>,
    <<TakesTimestamp(p.timestamp), "INVALID_TIMESTAMP">>,
    <<TakesTolerance(p.tolerance), "INVALID_TOLERANCE">>,
    <<Distance(clock, m.at) <= Tolerance, "TIMESTAMP_OUT_OF_RANGE">>,
    <<p.secrets # << >>, "NO_SECRETS">>,
    <<Candidates(p) # {}, "INVALID_SIGNATURE_HEADER">>,
    <<Stops(p, m) # {}, "INVALID_SIGNATURE">>,
    <<~ StopsAt(p, m, {"unprefixed", "short"}), "INVALID_SECRET_FORMAT">>,
    <<~ StopsAt(p, m, {"undecodable"}), "INVALID_BASE64">> >>
<1>1. FirstFailure(checks) # "ok"
  BY DEF VerifyFailure
<1>2. \E i \in 1..9 : ~checks[i][1]
  <2>1. DOMAIN checks = 1..9
    OBVIOUS
  <2>. HIDE DEF checks
  <2>. QED
    BY <1>1, <2>1 DEF FirstFailure
<1>3. /\ ~checks[1][1] => ~TakesText(Words[m.id], p.id)
      /\ ~checks[2][1] => ~TakesTimestamp(p.timestamp)
      /\ ~checks[3][1] => ~TakesTolerance(p.tolerance)
      /\ ~checks[4][1] => ~(Distance(clock, m.at) <= Tolerance)
      /\ ~checks[5][1] => p.secrets = << >>
      /\ ~checks[6][1] => Candidates(p) = {}
      /\ ~checks[7][1] => Stops(p, m) = {}
      /\ ~checks[8][1] => StopsAt(p, m, {"unprefixed", "short"})
      /\ ~checks[9][1] => StopsAt(p, m, {"undecodable"})
  OBVIOUS
<1>. HIDE DEF checks
<1>4. \A i \in 1..9 : i \in {1, 2, 3, 4, 5, 6, 7, 8, 9}
  OBVIOUS
<1>. QED
  BY <1>2, <1>3, <1>4

(* The same of verifyAndClaimWebhookProcessing(). *)
LEMMA ProcessingPasses ==
  ASSUME NEW o, NEW m, ProcessingFailure(o, m) = "ok"
  PROVE  TakesPart(o.tenant) /\ TakesPart(o.endpoint) /\ IsCanonical(ScopeWords(o, m))
<1>. DEFINE checks == <<
    <<o.event = "plain", "SCOPE_EVENT_MISMATCH">>,
    <<TakesTtl(o.ttl), "INVALID_PROCESSING_TTL">>,
    <<TakesPart(o.tenant) /\ TakesPart(o.endpoint), "INVALID_PROCESSING_SCOPE">>,
    <<TakesSigner(o.signer), "INVALID_SIGNER_TYPE">>,
    <<IsCanonical(ScopeWords(o, m)), "INVALID_PROCESSING_SCOPE">> >>
<1>1. FirstFailure(checks) = "ok"
  BY DEF ProcessingFailure
<1>2. DOMAIN checks = 1..5
  OBVIOUS
<1>3. \A i \in 1..5 : checks[i][2] # "ok"
  OBVIOUS
<1>4. \A i \in 1..5 : checks[i][1]
  <2>. HIDE DEF checks
  <2>. QED
    BY <1>1, <1>2, <1>3, OkPasses
<1>5. /\ checks[3][1] => TakesPart(o.tenant) /\ TakesPart(o.endpoint)
      /\ checks[5][1] => IsCanonical(ScopeWords(o, m))
  OBVIOUS
<1>. HIDE DEF checks
<1>6. checks[3][1] /\ checks[5][1]
  BY <1>4
<1>. QED
  BY <1>5, <1>6

LEMMA ProcessingFails ==
  ASSUME NEW o, NEW m, ProcessingFailure(o, m) # "ok"
  PROVE  \/ o.event # "plain"
         \/ ~TakesTtl(o.ttl)
         \/ ~(TakesPart(o.tenant) /\ TakesPart(o.endpoint))
         \/ ~TakesSigner(o.signer)
         \/ ~IsCanonical(ScopeWords(o, m))
<1>. DEFINE checks == <<
    <<o.event = "plain", "SCOPE_EVENT_MISMATCH">>,
    <<TakesTtl(o.ttl), "INVALID_PROCESSING_TTL">>,
    <<TakesPart(o.tenant) /\ TakesPart(o.endpoint), "INVALID_PROCESSING_SCOPE">>,
    <<TakesSigner(o.signer), "INVALID_SIGNER_TYPE">>,
    <<IsCanonical(ScopeWords(o, m)), "INVALID_PROCESSING_SCOPE">> >>
<1>1. FirstFailure(checks) # "ok"
  BY DEF ProcessingFailure
<1>2. \E i \in 1..5 : ~checks[i][1]
  <2>1. DOMAIN checks = 1..5
    OBVIOUS
  <2>. HIDE DEF checks
  <2>. QED
    BY <1>1, <2>1 DEF FirstFailure
<1>3. /\ ~checks[1][1] => o.event # "plain"
      /\ ~checks[2][1] => ~TakesTtl(o.ttl)
      /\ ~checks[3][1] => ~(TakesPart(o.tenant) /\ TakesPart(o.endpoint))
      /\ ~checks[4][1] => ~TakesSigner(o.signer)
      /\ ~checks[5][1] => ~IsCanonical(ScopeWords(o, m))
  OBVIOUS
<1>. HIDE DEF checks
<1>4. \A i \in 1..5 : i \in {1, 2, 3, 4, 5}
  OBVIOUS
<1>. QED
  BY <1>2, <1>3, <1>4

(* The first secret the loop ends at. *)
LEMMA StopsAreOrdered ==
  ASSUME NEW p \in Showings, NEW m, Stops(p, m) # {}
  PROVE  /\ FirstStop(p, m) \in Stops(p, m)
         /\ \A j \in Stops(p, m) : FirstStop(p, m) <= j
<1>1. Stops(p, m) \in SUBSET Nat
  BY ShowingsAssumption DEF Stops
<1>2. \E i \in Stops(p, m) : \A j \in Stops(p, m) : i <= j
  BY <1>1, MinIsLeast
<1>. QED
  BY <1>2 DEF FirstStop

(* An accepted showing: the message verifies, and the secret it is put     *)
(* down to made it.                                                        *)
LEMMA OkWasDue ==
  ASSUME EnvironmentTypeOK, NEW p \in Showings, NEW m \in Message, Failure(p, m) = "ok"
  PROVE  Verifies(m) /\ FirstStop(p, m) \in 1 .. Len(p.secrets) /\ Made(p.secrets[FirstStop(p, m)], m)
<1>. DEFINE i == FirstStop(p, m)
<1>1. VerifyFailure(p, m) = "ok"
  BY DEF Failure
<1>2. i \in Stops(p, m)
  BY <1>1, VerifyPasses, StopsAreOrdered
<1>3. ~ Malformed(p.secrets[i])
  BY <1>1, VerifyPasses DEF StopsAt, Malformed
<1>4. i \in 1 .. Len(p.secrets) /\ Made(p.secrets[i], m)
  BY <1>2, <1>3 DEF Stops
<1>. HIDE DEF i
<1>5. m.key \in ActiveSecrets
  <2>1. m.key # 0
    BY MaxSecretAssumption DEF Message, Secrets
  <2>. QED
    BY <1>4, <2>1 DEF Made, Named, ActiveSecrets
<1>. QED
  BY <1>1, <1>4, <1>5, VerifyPasses DEF Verifies, i

(* The words of an id and of a scope's parts. *)
LEMMA WordsTypes ==
  ASSUME NEW p \in Showings, NEW m \in Message
  PROVE  /\ Words[m.id] \in Seq(STRING) /\ Words[m.id] # << >> /\ Len(Words[m.id]) \in Nat \ {0}
         /\ p.options.tenant \in Texts /\ p.options.tenant.words \in Seq(STRING)
         /\ p.options.endpoint \in Texts /\ p.options.endpoint.words \in Seq(STRING)
<1>1. Words[m.id] \in Seq(STRING) /\ Words[m.id] # << >>
  BY WordsAssumption DEF Message
<1>2. Len(Words[m.id]) \in Nat \ {0}
  BY <1>1, EmptySeq, Zenon
<1>3. p.options.tenant \in Texts /\ p.options.endpoint \in Texts
  BY ShowingsAssumption
<1>. QED
  BY <1>1, <1>2, <1>3 DEF Texts

(* The words of a scope of two parts of one word. *)
LEMMA ScopeWordsParts ==
  ASSUME NEW p \in Showings, NEW m \in Message,
         Len(p.options.tenant.words) = 1, Len(p.options.endpoint.words) = 1
  PROVE  /\ Len(ScopeWords(p.options, m)) = 3 + Len(Words[m.id])
         /\ ScopeWords(p.options, m)[1] = p.options.tenant.words[1]
         /\ ScopeWords(p.options, m)[2] = p.options.endpoint.words[1]
         /\ ScopeWords(p.options, m)[3] = p.options.signer
         /\ \A i \in 1..Len(Words[m.id]) : ScopeWords(p.options, m)[3 + i] = Words[m.id][i]
         /\ IsCanonical(ScopeWords(p.options, m)) => Len(Words[m.id]) = 1
<1>. DEFINE t == p.options.tenant.words
            e == p.options.endpoint.words
            w == Words[m.id]
            s == p.options.signer
            c == ScopeWords(p.options, m)
            U == STRING \cup {s}
            b == t \o e
            d == b \o <<s>>
<1>1. t \in Seq(STRING) /\ e \in Seq(STRING) /\ w \in Seq(STRING) /\ Len(t) = 1 /\ Len(e) = 1
  BY WordsTypes
<1>2. c = t \o e \o <<s>> \o w
  BY DEF ScopeWords
<1>3. IsCanonical(c) <=> Len(c) = 4
  BY DEF IsCanonical
<1>. HIDE DEF t, e, w, s, c, U, b, d
<1>4. t \in Seq(U) /\ e \in Seq(U) /\ w \in Seq(U) /\ s \in U
  BY <1>1, SeqMonotonic DEF U
<1>5. b \in Seq(U) /\ Len(b) = 2 /\ b[1] = t[1] /\ b[2] = e[1]
  <2>. /\ Len(b) = Len(t) + Len(e) /\ b \in Seq(U)
       /\ \A i \in 1..(Len(t) + Len(e)) : b[i] = IF i <= Len(t) THEN t[i] ELSE e[i - Len(t)]
    BY <1>4, ConcatProperties, Zenon DEF b
  <2>. QED
    BY <1>1
<1>6. d \in Seq(U) /\ Len(d) = 3 /\ d[1] = t[1] /\ d[2] = e[1] /\ d[3] = s
  <2>. DEFINE l == <<s>>
  <2>1. l \in Seq(U) /\ Len(l) = 1 /\ l[1] = s
    <3>1. l \in Seq(U)
      BY <1>4
    <3>2. Len(l) = 1
      OBVIOUS
    <3>3. l[1] = s
      OBVIOUS
    <3>. QED
      BY <3>1, <3>2, <3>3
  <2>. HIDE DEF l
  <2>2. d = b \o l
    BY DEF d, l
  <2>3. /\ Len(d) = Len(b) + Len(l) /\ d \in Seq(U)
        /\ \A i \in 1..(Len(b) + Len(l)) : d[i] = IF i <= Len(b) THEN b[i] ELSE l[i - Len(b)]
    BY <1>5, <2>1, <2>2, ConcatProperties, Zenon
  <2>4. Len(d) = 3 /\ 1 \in 1..(Len(b) + Len(l)) /\ 2 \in 1..(Len(b) + Len(l)) /\ 3 \in 1..(Len(b) + Len(l))
    BY <1>5, <2>1, <2>3
  <2>5. d[1] = b[1]
    BY <1>5, <2>3, <2>4
  <2>6. d[2] = b[2]
    BY <1>5, <2>3, <2>4
  <2>7. d[3] = l[1]
    BY <1>5, <2>3, <2>4
  <2>. QED
    BY <1>5, <2>1, <2>3, <2>4, <2>5, <2>6, <2>7
<1>7. /\ Len(d \o w) = Len(d) + Len(w)
      /\ \A i \in 1..(Len(d) + Len(w)) : (d \o w)[i] = IF i <= Len(d) THEN d[i] ELSE w[i - Len(d)]
  BY <1>4, <1>6, ConcatProperties, Zenon
<1>8. c = d \o w
  BY <1>2 DEF b, d
<1>9. Len(w) \in Nat
  BY <1>1
<1>10. Len(c) = 3 + Len(w) /\ \A i \in 1..(3 + Len(w)) : c[i] = IF i <= 3 THEN d[i] ELSE w[i - 3]
  BY <1>6, <1>7, <1>8
<1>11. c[1] = t[1] /\ c[2] = e[1] /\ c[3] = s
  <2>1. \A i \in 1..3 : i \in 1..(3 + Len(w)) /\ i <= 3
    BY <1>9
  <2>. QED
    BY <1>6, <1>10, <2>1
<1>12. ASSUME NEW i \in 1..Len(w) PROVE c[3 + i] = w[i]
  <2>1. 3 + i \in 1..(3 + Len(w)) /\ ~(3 + i <= 3) /\ (3 + i) - 3 = i
    BY <1>9
  <2>. QED
    BY <1>10, <2>1
<1>13. IsCanonical(c) => Len(w) = 1
  <2>1. Len(c) = 3 + Len(w)
    BY <1>10
  <2>2. \A k \in Nat : 3 + k = 4 => k = 1
    OBVIOUS
  <2>3. Len(c) = 4 => Len(w) = 1
    BY <1>9, <2>1, <2>2, Zenon
  <2>. QED
    BY <1>3, <2>3
<1>. QED
  BY <1>10, <1>11, <1>12, <1>13 DEF t, e, w, s, c

(* A refused showing of a message that verifies. *)
LEMMA RefusalHasCause ==
  ASSUME NEW p \in Showings, NEW m \in Message, Failure(p, m) # "ok", Verifies(m)
  PROVE  LET o == p.options
             made == {i \in 1 .. Len(p.secrets) : Made(p.secrets[i], m)}
         IN \/ p.id = "broken" \/ p.timestamp \in {"fraction", "zero"} \/ p.tolerance # "fit"
            \/ \A t \in 1 .. Len(p.tokens) : p.tokens[t] # "match"
            \/ \A i \in made : \E j \in 1 .. i : Malformed(p.secrets[j])
            \/ /\ p.purpose = "processing"
               /\ \/ o.event # "plain" \/ o.ttl # "fit" \/ o.signer = "unknown"
                  \/ \E text \in {o.tenant, o.endpoint} : Len(text.words) # 1 \/ text.written = "broken"
                  \/ Len(Words[m.id]) > 1
<1>. DEFINE o == p.options
            made == {i \in 1 .. Len(p.secrets) : Made(p.secrets[i], m)}
            Cause == \/ p.id = "broken" \/ p.timestamp \in {"fraction", "zero"} \/ p.tolerance # "fit"
                     \/ \A t \in 1 .. Len(p.tokens) : p.tokens[t] # "match"
                     \/ \A i \in made : \E j \in 1 .. i : Malformed(p.secrets[j])
<1>1. ASSUME VerifyFailure(p, m) # "ok" PROVE Cause
  <2>1. ~TakesText(Words[m.id], p.id) => p.id = "broken"
    BY WordsAssumption, ShowingsAssumption DEF TakesText, Message
  <2>2. ~TakesTimestamp(p.timestamp) => p.timestamp \in {"fraction", "zero"}
    BY ShowingsAssumption DEF TakesTimestamp
  <2>3. ~TakesTolerance(p.tolerance) => p.tolerance # "fit"
    BY DEF TakesTolerance
  <2>4. p.secrets = << >> => made = {}
    OBVIOUS
  <2>5. Candidates(p) = {} => \A t \in 1 .. Len(p.tokens) : p.tokens[t] # "match"
    BY DEF Candidates
  <2>6. ASSUME NEW t \in 1 .. Len(p.tokens), p.tokens[t] = "match" PROVE made \subseteq Stops(p, m)
    BY <2>6 DEF Stops, Candidates
  <2>7. ASSUME NEW kinds, kinds \subseteq {"unprefixed", "undecodable", "short"}, StopsAt(p, m, kinds), made \subseteq Stops(p, m)
        PROVE  \A i \in made : \E j \in 1 .. i : Malformed(p.secrets[j])
    <3>1. FirstStop(p, m) \in 1 .. Len(p.secrets) /\ Malformed(p.secrets[FirstStop(p, m)])
      BY <2>7, StopsAreOrdered DEF StopsAt, Malformed, Stops
    <3>2. ASSUME NEW i \in made PROVE FirstStop(p, m) \in 1 .. i
      <4>1. FirstStop(p, m) <= i
        BY <2>7, <3>2, StopsAreOrdered
      <4>. QED
        BY <3>1, <4>1
    <3>. QED
      BY <3>1, <3>2
  <2>8. {"unprefixed", "short"} \subseteq {"unprefixed", "undecodable", "short"}
        /\ {"undecodable"} \subseteq {"unprefixed", "undecodable", "short"}
    OBVIOUS
  <2>9. Distance(clock, m.at) <= Tolerance
    BY DEF Verifies
  <2>. HIDE DEF made
  <2>10. CASE \A t \in 1 .. Len(p.tokens) : p.tokens[t] # "match"
    BY <2>10
  <2>11. CASE \E t \in 1 .. Len(p.tokens) : p.tokens[t] = "match"
    <3>1. made \subseteq Stops(p, m)
      BY <2>6, <2>11
    <3>2. StopsAt(p, m, {"unprefixed", "short"}) \/ StopsAt(p, m, {"undecodable"}) =>
            \A i \in made : \E j \in 1 .. i : Malformed(p.secrets[j])
      BY <2>7, <2>8, <3>1
    <3>3. Stops(p, m) = {} => made = {}
      BY <3>1
    <3>. QED
      BY <1>1, VerifyFails, <2>1, <2>2, <2>3, <2>4, <2>5, <2>9, <2>11, <3>2, <3>3
  <2>. QED
    BY <2>10, <2>11
<1>2. ASSUME VerifyFailure(p, m) = "ok"
      PROVE  /\ p.purpose = "processing"
             /\ \/ o.event # "plain" \/ o.ttl # "fit" \/ o.signer = "unknown"
                \/ \E text \in {o.tenant, o.endpoint} : Len(text.words) # 1 \/ text.written = "broken"
                \/ Len(Words[m.id]) > 1
  <2>1. p.purpose = "processing" /\ ProcessingFailure(o, m) # "ok"
    BY <1>2 DEF Failure
  <2>2. ASSUME NEW text \in Texts, ~TakesPart(text) PROVE Len(text.words) # 1 \/ text.written = "broken"
    <3>1. text.words \in Seq(STRING) /\ text.written \in {"plain", "padded", "broken"}
      BY DEF Texts
    <3>2. Len(text.words) = 1 => text.words # << >>
      <4>1. Len(<< >>) = 0
        OBVIOUS
      <4>. QED
        BY <4>1
    <3>. QED
      BY <2>2, <3>1, <3>2 DEF TakesPart, TakesText
  <2>3. ~TakesSigner(o.signer) => o.signer = "unknown"
    BY ShowingsAssumption DEF TakesSigner
  <2>4. ~TakesTtl(o.ttl) => o.ttl # "fit"
    BY DEF TakesTtl
  <2>5. o.tenant \in Texts /\ o.endpoint \in Texts
    BY ShowingsAssumption
  <2>6. ASSUME Len(o.tenant.words) = 1, Len(o.endpoint.words) = 1, ~IsCanonical(ScopeWords(o, m))
        PROVE  Len(Words[m.id]) > 1
    <3>1. Words[m.id] \in Seq(STRING) /\ Words[m.id] # << >>
      BY WordsTypes
    <3>2. Len(ScopeWords(o, m)) = 3 + Len(Words[m.id])
      BY <2>6, ScopeWordsParts
    <3>3. Len(Words[m.id]) \in Nat /\ Len(Words[m.id]) # 0
      BY WordsTypes
    <3>. QED
      BY <2>6, <3>2, <3>3 DEF IsCanonical
  <2>. HIDE DEF o
  <2>. QED
    BY <2>1, <2>2, <2>3, <2>4, <2>5, <2>6, ProcessingFails
<1>. QED
  BY <1>1, <1>2

(* Claims of one purpose, in the words that were accepted. *)
LEMMA SameClaimSameSubject ==
  ASSUME NEW p \in Showings, NEW m \in Message, NEW q \in Showings, NEW n \in Message, p.purpose = q.purpose,
         p.purpose = "processing" =>
           \A r \in {p, q} : Len(r.options.tenant.words) = 1 /\ Len(r.options.endpoint.words) = 1,
         p.purpose = "processing" => IsCanonical(ScopeWords(p.options, m)) /\ IsCanonical(ScopeWords(q.options, n))
  PROVE  ClaimOf(p, m) = ClaimOf(q, n) <=> Subject(p, m) = Subject(q, n)
<1>1. m.id \in Events /\ n.id \in Events /\ (Words[m.id] = Words[n.id] <=> m.id = n.id)
  BY WordsAssumption DEF Message
<1>2. CASE p.purpose # "processing"
  BY <1>1, <1>2 DEF ClaimOf, Subject
<1>3. CASE p.purpose = "processing"
  <2>. DEFINE a == p.options
              b == q.options
  <2>1. /\ a.tenant.words \in Seq(STRING) /\ a.endpoint.words \in Seq(STRING)
        /\ b.tenant.words \in Seq(STRING) /\ b.endpoint.words \in Seq(STRING)
        /\ Words[m.id] \in Seq(STRING) /\ Words[n.id] \in Seq(STRING)
    BY WordsTypes
  <2>2. /\ Len(a.tenant.words) = 1 /\ Len(a.endpoint.words) = 1
        /\ Len(b.tenant.words) = 1 /\ Len(b.endpoint.words) = 1
    BY <1>3
  <2>3. /\ ScopeWords(a, m)[1] = a.tenant.words[1] /\ ScopeWords(a, m)[2] = a.endpoint.words[1]
        /\ ScopeWords(a, m)[3] = a.signer
        /\ \A i \in 1..Len(Words[m.id]) : ScopeWords(a, m)[3 + i] = Words[m.id][i]
        /\ Len(Words[m.id]) = 1
    BY <1>3, <2>2, ScopeWordsParts
  <2>4. /\ ScopeWords(b, n)[1] = b.tenant.words[1] /\ ScopeWords(b, n)[2] = b.endpoint.words[1]
        /\ ScopeWords(b, n)[3] = b.signer
        /\ \A i \in 1..Len(Words[n.id]) : ScopeWords(b, n)[3 + i] = Words[n.id][i]
        /\ Len(Words[n.id]) = 1
    BY <1>3, <2>2, ScopeWordsParts
  <2>5. Len(Words[m.id]) = 1 /\ Len(Words[n.id]) = 1
    BY <2>3, <2>4
  <2>. HIDE DEF a, b
  <2>6. ASSUME NEW v \in Seq(STRING), NEW w \in Seq(STRING), Len(v) = 1, Len(w) = 1, v[1] = w[1] PROVE v = w
    BY <2>6, SeqEqual
  <2>7. ASSUME ScopeWords(a, m) = ScopeWords(b, n)
        PROVE  a.tenant.words = b.tenant.words /\ a.endpoint.words = b.endpoint.words /\ a.signer = b.signer /\ m.id = n.id
    <3>1. a.tenant.words[1] = b.tenant.words[1] /\ a.endpoint.words[1] = b.endpoint.words[1] /\ a.signer = b.signer
      BY <2>3, <2>4, <2>7
    <3>2. Words[m.id][1] = Words[n.id][1]
      <4>1. 1 \in 1..Len(Words[m.id]) /\ 1 \in 1..Len(Words[n.id])
        BY <2>5
      <4>. QED
        BY <2>3, <2>4, <2>7, <4>1
    <3>. QED
      BY <1>1, <2>1, <2>2, <2>5, <2>6, <3>1, <3>2
  <2>8. ASSUME a.tenant.words = b.tenant.words, a.endpoint.words = b.endpoint.words, a.signer = b.signer, m.id = n.id
        PROVE  ScopeWords(a, m) = ScopeWords(b, n)
    BY <2>8 DEF ScopeWords
  <2>9. ClaimOf(p, m) = ClaimOf(q, n) <=> ScopeWords(a, m) = ScopeWords(b, n)
    BY <1>3 DEF ClaimOf, a, b
  <2>10. Subject(p, m) = Subject(q, n) <=>
           a.tenant.words = b.tenant.words /\ a.endpoint.words = b.endpoint.words /\ a.signer = b.signer /\ m.id = n.id
    BY <1>3 DEF Subject, a, b
  <2>. QED
    BY <2>7, <2>8, <2>9, <2>10
<1>. QED
  BY <1>2, <1>3

LEMMA ShowKeeps ==
  ASSUME EnvironmentTypeOK, FormsInv, NEW p \in Showings, NEW m \in sent, Show(p, m)
  PROVE  FormsInv'
<1>. DEFINE code == Failure(p, m)
            due == Verifies(m)
            made == {i \in 1 .. Len(p.secrets) : Made(p.secrets[i], m)}
            matched == IF Failure(p, m) = "ok" THEN FirstStop(p, m) ELSE 0
            new == [purpose |-> p.purpose, claim |-> ClaimOf(p, m), of |-> Subject(p, m)]
<1>1. m \in Message
  BY DEF EnvironmentTypeOK
<1>2. /\ shown' = [code |-> code, showing |-> p, message |-> m, due |-> due, made |-> made, matched |-> matched]
      /\ granted' \subseteq granted \cup {new} /\ (Failure(p, m) # "ok" => granted' = granted)
  BY DEF Show
<1>3. AcceptedWasDue'
  <2>1. Failure(p, m) = "ok" => due /\ matched \in made
    BY <1>1, OkWasDue
  <2>. HIDE DEF due, made, matched
  <2>. QED
    BY <1>2, <2>1 DEF AcceptedWasDue
<1>4. RefusedForCause'
  <2>1. Failure(p, m) # "ok" /\ due =>
          LET o == p.options
          IN \/ p.id = "broken" \/ p.timestamp \in {"fraction", "zero"} \/ p.tolerance # "fit"
             \/ \A t \in 1 .. Len(p.tokens) : p.tokens[t] # "match"
             \/ \A i \in made : \E j \in 1 .. i : Malformed(p.secrets[j])
             \/ /\ p.purpose = "processing"
                /\ \/ o.event # "plain" \/ o.ttl # "fit" \/ o.signer = "unknown"
                   \/ \E text \in {o.tenant, o.endpoint} : Len(text.words) # 1 \/ text.written = "broken"
                   \/ Len(Words[m.id]) > 1
    BY <1>1, RefusalHasCause
  <2>. HIDE DEF due, made, matched
  <2>2. shown'.code = Failure(p, m) /\ shown'.due = due /\ shown'.made = made /\ shown'.showing = p /\ shown'.message = m
    BY <1>2
  <2>. QED
    BY <2>1, <2>2 DEF RefusedForCause, Malformed
<1>5. ASSUME NEW g \in granted'
      PROVE  \E q \in Showings, n \in Message :
               /\ g = [purpose |-> q.purpose, claim |-> ClaimOf(q, n), of |-> Subject(q, n)]
               /\ q.purpose = "processing" =>
                    /\ Len(q.options.tenant.words) = 1 /\ Len(q.options.endpoint.words) = 1
                    /\ IsCanonical(ScopeWords(q.options, n))
  <2>1. CASE g \in granted
    BY <2>1 DEF FormsInv
  <2>2. CASE g \notin granted
    <3>1. g = new /\ Failure(p, m) = "ok"
      BY <1>2, <1>5, <2>2
    <3>2. p.purpose = "processing" =>
            /\ Len(p.options.tenant.words) = 1 /\ Len(p.options.endpoint.words) = 1
            /\ IsCanonical(ScopeWords(p.options, m))
      BY <3>1, ProcessingPasses DEF Failure, TakesPart
    <3>. QED
      BY <1>1, <3>1, <3>2
  <2>. QED
    BY <2>1, <2>2
<1>6. \A q, n : ClaimOf(q, n)' = ClaimOf(q, n) /\ Subject(q, n)' = Subject(q, n)
  BY DEF ClaimOf, Subject, ScopeWords
<1>. QED
  BY <1>3, <1>4, <1>5, <1>6 DEF FormsInv, ClaimOf, Subject, IsCanonical, ScopeWords

LEMMA FormsKeepWhenIdle ==
  ASSUME FormsInv, UNCHANGED forms
  PROVE  FormsInv'
BY DEF FormsInv, forms, AcceptedWasDue, RefusedForCause, ClaimOf, Subject, IsCanonical, ScopeWords, Malformed

(* The invariant says all of FormsAgree. *)
LEMMA FormsDoAgree ==
  ASSUME FormsInv
  PROVE  FormsAgree
<1>1. ASSUME NEW g \in granted, NEW h \in granted, g.purpose = h.purpose PROVE g.claim = h.claim <=> g.of = h.of
  <2>1. PICK p \in Showings, m \in Message :
               /\ g = [purpose |-> p.purpose, claim |-> ClaimOf(p, m), of |-> Subject(p, m)]
               /\ p.purpose = "processing" =>
                    /\ Len(p.options.tenant.words) = 1 /\ Len(p.options.endpoint.words) = 1
                    /\ IsCanonical(ScopeWords(p.options, m))
    BY DEF FormsInv
  <2>2. PICK q \in Showings, n \in Message :
               /\ h = [purpose |-> q.purpose, claim |-> ClaimOf(q, n), of |-> Subject(q, n)]
               /\ q.purpose = "processing" =>
                    /\ Len(q.options.tenant.words) = 1 /\ Len(q.options.endpoint.words) = 1
                    /\ IsCanonical(ScopeWords(q.options, n))
    BY DEF FormsInv
  <2>3. p.purpose = q.purpose
    BY <1>1, <2>1, <2>2
  <2>4. ClaimOf(p, m) = ClaimOf(q, n) <=> Subject(p, m) = Subject(q, n)
    BY <2>1, <2>2, <2>3, SameClaimSameSubject
  <2>. QED
    BY <2>1, <2>2, <2>4
<1>. QED
  BY <1>1 DEF FormsAgree, FormsInv, ClaimsAreDistinct

-----------------------------------------------------------------------------
(* All of them together. *)
THEOREM InitIInv == ReceiversInit => IInv
BY EnvironmentInitTypes, ReplayInitInv, LeaseInitInv, TriggerInitInv, FormsInitInv DEF ReceiversInit, IInv, TypeInv

THEOREM NextKeepsIInv == IInv /\ [ReceiversNext]_receivers => IInv'
<1>. SUFFICES ASSUME IInv, [ReceiversNext]_receivers PROVE IInv'
  OBVIOUS
<1>. USE DEF IInv, TypeInv
<1>1. CASE NetworkStep
  BY <1>1, NetworkGrows, ReplayKeepsWithNetwork, LeaseKeepsWithNetwork, TriggerKeepsWithNetwork,
     FormsKeepWhenIdle DEF NetworkStep
<1>2. ASSUME UNCHANGED environment PROVE EnvironmentTypeOK' /\ sent \subseteq sent'
  BY <1>2 DEF EnvironmentTypeOK, environment
<1>3. CASE ReplayStep
  <2>1. UNCHANGED <<environment, processing, trigger, forms>> /\ EndpointStep
    BY <1>3 DEF ReplayStep, EndpointStep, VerifyForClaim, Claim, StopBeforeClaim
  <2>. QED
    BY <1>2, <2>1, ReplayKeeps, LeaseKeepsWhenIdle, TriggerKeepsWithNetwork, FormsKeepWhenIdle
<1>4. CASE LeaseStep
  <2>1. UNCHANGED <<environment, endpoint, trigger, forms>> /\ ProcessingStep
    BY <1>4 DEF LeaseStep, ProcessingStep, VerifyForLease, RefuseLease, GrantLease, HandlerEnds, MarkProcessed,
       MarkProcessedThrows, MarkFailed, WorkerCrashes
  <2>. QED
    BY <1>2, <2>1, LeaseKeeps, ReplayKeepsWhenIdle, TriggerKeepsWithNetwork, FormsKeepWhenIdle
<1>5. CASE EventStep
  <2>1. UNCHANGED <<environment, endpoint, processing, forms>> /\ TriggerStep
    BY <1>5 DEF EventStep, TriggerStep, Receive, Dispatch, ReceiptUnread, ReplayDetected, GuardFails,
       ClaimTimesOut, TriggerCrashes, LateClaim
  <2>. QED
    BY <1>2, <2>1, TriggerKeeps, ReplayKeepsWhenIdle, LeaseKeepsWhenIdle, FormsKeepWhenIdle
<1>6. CASE FormStep
  <2>1. UNCHANGED <<environment, endpoint, processing, trigger>> /\ FormsStep
    BY <1>6 DEF FormStep, FormsStep, Show
  <2>2. FormsInv'
    BY <2>1, ShowKeeps DEF FormsStep
  <2>. QED
    BY <1>2, <2>1, <2>2, ReplayKeepsWhenIdle, LeaseKeepsWhenIdle, TriggerKeepsWithNetwork
<1>7. CASE UNCHANGED receivers
  <2>1. UNCHANGED <<environment, endpoint, processing, trigger, forms>>
    BY <1>7 DEF receivers
  <2>. QED
    BY <1>2, <2>1, ReplayKeepsWhenIdle, LeaseKeepsWhenIdle, TriggerKeepsWithNetwork, FormsKeepWhenIdle
<1>. QED
  BY <1>1, <1>3, <1>4, <1>5, <1>6, <1>7 DEF ReceiversNext

THEOREM Invariance == ReceiversSpec => []IInv
BY InitIInv, NextKeepsIInv, PTL DEF ReceiversSpec

(* An accepted event is claimed as long as its message verifies, of two    *)
(* workers on one scope one has outlived its lease, and what is marked     *)
(* processed was handled under the last lease (the two stores of           *)
(* webhook-sdk).                                                           *)
THEOREM StoresAreTrue == ReceiversSpec => []StoresHold
<1>1. IInv => StoresHold
  BY AcceptedStaysClaimed, LeasesOverlapLate DEF IInv, TypeInv, StoresHold, LeaseInv, ProcessedWasHandled
<1>. QED
  BY <1>1, Invariance, PTL

(* The internal trigger spends no claim on an event that is not due, none  *)
(* twice, and tells of one that is lost (acceptSignedInternalEvent()).     *)
THEOREM ClaimsAreWellSpent == ReceiversSpec => []ClaimsSpentWell
<1>1. IInv => ClaimsSpentWell
  BY ClaimsAreSpentWell DEF IInv, TypeInv
<1>. QED
  BY <1>1, Invariance, PTL

(* What is accepted was due and is put down to the secret that made it,    *)
(* what is refused has its cause in the showing, and two claims are one    *)
(* exactly when they are about the same (verifyWebhook(),                  *)
(* buildWebhookProcessingScope()).                                         *)
THEOREM ShowingsAreTrue == ReceiversSpec => []FormsAgree
<1>1. IInv => FormsAgree
  BY FormsDoAgree DEF IInv
<1>. QED
  BY <1>1, Invariance, PTL

(* A replay endpoint lets an event through again only behind the window of *)
(* the message before, and never when claims do not expire                 *)
(* (verifyAndClaimWebhook(), verify_hmac_sha256()).                        *)
THEOREM NoReplayInWindow == ReceiversSpec => AcceptedOncePerWindow
<1>1. ASSUME IInv, [ReceiversNext]_receivers, NEW e \in Events, accepted'[e] # accepted[e], accepted[e] # None
      PROVE  LET a == accepted[e]
                 b == accepted'[e]
             IN  /\ expiring
                 /\ b.at > a.message.at + Tolerance
                 /\ b.message = a.message => b.verified < b.at
  <2>1. EndpointStep
    BY <1>1 DEF ReceiversNext, NetworkStep, ReplayStep, LeaseStep, EventStep, FormStep, receivers, endpoint
  <2>. QED
    BY <1>1, <2>1, AcceptedAgain DEF IInv, TypeInv
<1>2. IInv /\ [ReceiversNext]_receivers =>
        [\A e \in Events : accepted'[e] # accepted[e] /\ accepted[e] # None =>
           LET a == accepted[e]
               b == accepted'[e]
           IN  /\ expiring
               /\ b.at > a.message.at + Tolerance
               /\ b.message = a.message => b.verified < b.at]_<<environment, endpoint>>
  BY <1>1
<1>. QED
  BY <1>2, Invariance, PTL DEF ReceiversSpec, AcceptedOncePerWindow

(* No step changes a verdict or draws a lease behind it                    *)
(* (claimProcessing(), markProcessed(), markFailed()).                     *)
THEOREM VerdictsAreFinal == ReceiversSpec => VerdictIsFinal
<1>1. ASSUME IInv, [ReceiversNext]_receivers, NEW s \in Scopes, record[s].state \in {"processed", "failed"}
      PROVE  /\ record'[s] = record[s]
             /\ drawn'[s] = drawn[s]
             /\ ~split => \A t \in Scopes : t[2] = s[2] => drawn'[t] = drawn[t]
  <2>1. ProcessingStep \/ UNCHANGED processing
    BY <1>1 DEF ReceiversNext, NetworkStep, ReplayStep, LeaseStep, EventStep, FormStep, receivers
  <2>. QED
    BY <1>1, <2>1, VerdictStays DEF IInv, TypeInv
<1>2. IInv /\ [ReceiversNext]_receivers =>
        [\A s \in Scopes : record[s].state \in {"processed", "failed"} =>
           /\ record'[s] = record[s]
           /\ drawn'[s] = drawn[s]
           /\ ~split => \A t \in Scopes : t[2] = s[2] => drawn'[t] = drawn[t]]_<<environment, processing>>
  BY <1>1
<1>. QED
  BY <1>2, Invariance, PTL DEF ReceiversSpec, VerdictIsFinal
=============================================================================
