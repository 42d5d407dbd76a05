--------------------- MODULE WebhookSubscriptions_proofs ---------------------
(***************************************************************************)
(* Theorems about WebhookSubscriptions, for any subscriptions, keys,       *)
(* requests and random values: type correctness, that only a subscription  *)
(* whose receiver answered its challenge is ever active, that no late      *)
(* write brings a deleted one back, that test events are accounted for     *)
(* and that a secret in use has its key.                                   *)
(*                                                                         *)
(* A handler at a step works for a call that leads there (CallFits), and   *)
(* what was read or concluded before an await still holds after it,        *)
(* because nothing takes a verification back (Concluded).                  *)
(*                                                                         *)
(* The last two rest on what the ledger gives a handler, a key that no     *)
(* other has (KeyIsHeld): so the key gets one secret at most               *)
(* (SecretIsKept), and its event goes out at most once, after its delivery *)
(* was recorded under an id of its own (IdsAreOwn, HandlersKnow,           *)
(* HeardIsKept).                                                           *)
(***************************************************************************)
EXTENDS WebhookSubscriptions, TLAPS

AfterCreate == {"inserting", "challenging", "recording"}
AfterTest == {"resolving", "rejecting", "queueing", "dispatching", "reporting"}

CallFits ==
  \A r \in Requests :
    /\ pc[r] # "idle" => call[r] \in Call
    /\ pc[r] \in {"beginning", "completing", "rotating"} \cup AfterCreate \cup AfterTest
         => call[r].operation \in Keyed
    /\ pc[r] \in AfterCreate => call[r].operation = "create"
    /\ pc[r] = "recording" => work[r].outcome # "none"

Concluded ==
  /\ \A s \in Subscriptions :
       sub[s].verification = "verified" \/ sub[s].status = "active" => s \in proven
  /\ \A r \in Requests :
       /\ pc[r] = "enabling" => TargetOf(r) \in proven
       /\ pc[r] = "recording" /\ work[r].outcome = "ok" => TargetOf(r) \in proven

IInv == TypeOK /\ CallFits /\ Concluded

(* Every call has a target, and a key where it is idempotent. *)
LEMMA CallKinds ==
  ASSUME NEW c \in Call
  PROVE  /\ c.operation \in Operations
         /\ c.of \in Subscriptions
         /\ c.operation \in Keyed => c.key \in Keys
  BY DEF Call, Operations, Keyed

(* The rows that the handlers write are rows. *)
LEMMA RowUpdates ==
  /\ NoRow \in Row
  /\ \A row \in Row, new, old \in Drawn :
       /\ [row EXCEPT !.status = "active"] \in Row
       /\ [row EXCEPT !.status = "disabled"] \in Row
       /\ [row EXCEPT !.status = "pending_verification", !.current = new] \in Row
       /\ [row EXCEPT !.previous = old, !.current = new] \in Row
<1>1. NoRow \in Row
  BY MaxDrawnAssumption DEF Row, Live, NoRow, Drawn
<1>2. ASSUME NEW row \in Row, NEW status \in Live
      PROVE  [row EXCEPT !.status = status] \in Row
  BY DEF Row
<1>3. ASSUME NEW row \in Row, NEW new \in Drawn
      PROVE  [row EXCEPT !.current = new] \in Row
  BY DEF Row
<1>4. ASSUME NEW row \in Row, NEW old \in Drawn
      PROVE  [row EXCEPT !.previous = old] \in Row
  BY DEF Row
<1>. QED
  BY <1>1, <1>2, <1>3, <1>4 DEF Live

(* Initially no row is there and no request runs. *)
THEOREM InitIInv == Init => IInv
<1>. SUFFICES ASSUME Init PROVE IInv
  OBVIOUS
<1>1. TypeOK
  BY MaxDrawnAssumption DEF Init, TypeOK, Drawn, Row, NoRow, Entry, OpenEntry, Pcs, NoWork, Outcomes
<1>2. CallFits
  BY DEF Init, CallFits, AfterCreate, AfterTest
<1>3. Concluded
  BY DEF Init, Concluded, NoRow
<1>. QED
  BY <1>1, <1>2, <1>3 DEF IInv

-----------------------------------------------------------------------------
(* Every action keeps the invariant. *)
LEMMA SendKeeps ==
  ASSUME IInv, NEW r \in Requests, NEW c \in Call, Send(r, c)
  PROVE  IInv'
<1>. USE DEF IInv, Send, Goto, TargetOf, RowOf, EntryOf, Exists, tables, receivers
<1>1. TypeOK'
  BY CallKinds, MaxDrawnAssumption DEF TypeOK, Drawn, Row, NoRow, Live, Delivery, Entry, OpenEntry, Pcs, NoWork, Outcomes, Operations, Keyed, CallFits, AfterCreate, AfterTest
<1>2. CallFits'
  BY CallKinds DEF TypeOK, CallFits, AfterCreate, AfterTest, Outcomes, Keyed, Call
<1>3. Concluded'
  BY DEF TypeOK, CallFits, AfterCreate, AfterTest, Concluded, NoRow, Row, Live
<1>. QED
  BY <1>1, <1>2, <1>3

LEMMA LoadKeeps ==
  ASSUME IInv, NEW r \in Requests, Load(r)
  PROVE  IInv'
<1>. USE DEF IInv, Load, LoadRow, Goto, TargetOf, RowOf, EntryOf, Exists, tables, receivers
<1>1. TypeOK'
  BY CallKinds, MaxDrawnAssumption DEF TypeOK, Drawn, Row, NoRow, Live, Delivery, Entry, OpenEntry, Pcs, NoWork, Outcomes, Operations, Keyed, CallFits, AfterCreate, AfterTest
<1>2. CallFits'
  BY CallKinds DEF TypeOK, CallFits, AfterCreate, AfterTest, Outcomes, Keyed, Call, Operations
<1>3. Concluded'
  <2>1. \A q \in Requests : pc'[q] = "enabling" =>
          \/ pc[q] = "enabling"
          \/ q = r /\ call[r].operation = "enable"
    BY DEF TypeOK
  <2>. QED
    BY <2>1, CallKinds DEF TypeOK, CallFits, Concluded
<1>. QED
  BY <1>1, <1>2, <1>3

LEMMA BeginKeeps ==
  ASSUME IInv, NEW r \in Requests, Begin(r)
  PROVE  IInv'
<1>. USE DEF IInv, Begin, Goto, TargetOf, RowOf, EntryOf, Exists, tables, receivers
<1>1. TypeOK'
  <2>. call[r] \in Call /\ TargetOf(r) \in Subscriptions /\ call[r].operation \in Keyed /\ EntryOf(r) \in Keyed \X Keys
    BY CallKinds DEF TypeOK, CallFits, AfterCreate, AfterTest
  <2>1. pc' \in [Requests -> Pcs]
    BY DEF TypeOK, Pcs, Keyed
  <2>2. drawn' \in Drawn /\ seen' \in [Requests -> Drawn]
    BY MaxDrawnAssumption DEF TypeOK, Drawn, Row
  <2>3. sub' \in [Subscriptions -> Row]
    BY <2>2, MaxDrawnAssumption DEF TypeOK, Drawn, Row, NoRow, Live
  <2>4. ledger' \in [Keyed \X Keys -> Entry]
    BY <2>2, MaxDrawnAssumption DEF TypeOK, Drawn, Entry, OpenEntry
  <2>5. call' \in [Requests -> Call \cup {NoCall}]
    BY DEF TypeOK, Call, Keyed, Operations
  <2>6. work' \in [Requests -> [id : Drawn, outcome : Outcomes]]
    BY <2>2, MaxDrawnAssumption DEF TypeOK, Drawn, NoWork, Outcomes
  <2>7. delivery' \subseteq Delivery
    BY <2>2 DEF TypeOK, Delivery
  <2>8. proven' \subseteq Subscriptions /\ heard' \subseteq [id : Drawn, of : Subscriptions, key : Keys, ok : BOOLEAN]
    BY DEF TypeOK
  <2>. QED
    BY <2>1, <2>2, <2>3, <2>4, <2>5, <2>6, <2>7, <2>8 DEF TypeOK
<1>2. CallFits'
  BY CallKinds DEF TypeOK, CallFits, AfterCreate, AfterTest, Outcomes, Keyed, Call
<1>3. Concluded'
  BY DEF TypeOK, CallFits, AfterCreate, AfterTest, Concluded, Keyed
<1>. QED
  BY <1>1, <1>2, <1>3

LEMMA CompleteKeeps ==
  ASSUME IInv, NEW r \in Requests, Complete(r)
  PROVE  IInv'
<1>. USE DEF IInv, Complete, Return, Goto, TargetOf, RowOf, EntryOf, Exists, tables, receivers
<1>1. TypeOK'
  BY CallKinds, MaxDrawnAssumption DEF TypeOK, Drawn, Row, NoRow, Live, Delivery, Entry, OpenEntry, Pcs, NoWork, Outcomes, Operations, Keyed, CallFits, AfterCreate, AfterTest
<1>2. CallFits'
  BY CallKinds DEF TypeOK, CallFits, AfterCreate, AfterTest, Outcomes, Keyed, Call
<1>3. Concluded'
  BY DEF TypeOK, CallFits, AfterCreate, AfterTest, Concluded, NoRow, Row, Live
<1>. QED
  BY <1>1, <1>2, <1>3

LEMMA FailKeeps ==
  ASSUME IInv, NEW r \in Requests, Fail(r)
  PROVE  IInv'
<1>. USE DEF IInv, Fail, Return, Goto, TargetOf, RowOf, EntryOf, Exists, tables, receivers
<1>1. TypeOK'
  BY CallKinds, MaxDrawnAssumption DEF TypeOK, Drawn, Row, NoRow, Live, Delivery, Entry, OpenEntry, Pcs, NoWork, Outcomes, Operations, Keyed, CallFits, AfterCreate, AfterTest
<1>2. CallFits'
  BY CallKinds DEF TypeOK, CallFits, AfterCreate, AfterTest, Outcomes, Keyed, Call
<1>3. Concluded'
  BY DEF TypeOK, CallFits, AfterCreate, AfterTest, Concluded, NoRow, Row, Live
<1>. QED
  BY <1>1, <1>2, <1>3

LEMMA InsertKeeps ==
  ASSUME IInv, NEW r \in Requests, NEW s \in Subscriptions, Insert(r, s)
  PROVE  IInv'
<1>. USE DEF IInv, Insert, Goto, TargetOf, RowOf, EntryOf, Exists, tables, receivers
<1>1. TypeOK'
  <2>. call[r] \in Call /\ TargetOf(r) \in Subscriptions /\ call[r].operation \in Keyed /\ EntryOf(r) \in Keyed \X Keys
    BY CallKinds DEF TypeOK, CallFits, AfterCreate, AfterTest
  <2>1. pc' \in [Requests -> Pcs]
    BY DEF TypeOK, Pcs, Keyed
  <2>2. drawn' \in Drawn /\ seen' \in [Requests -> Drawn]
    BY MaxDrawnAssumption DEF TypeOK, Drawn, Row
  <2>3. sub' \in [Subscriptions -> Row]
    <3>1. [NoRow EXCEPT !.status = "pending_verification", !.current = drawn + 1] \in Row
      BY <2>2, RowUpdates DEF TypeOK
    <3>. QED
      BY <3>1 DEF TypeOK
  <2>4. ledger' \in [Keyed \X Keys -> Entry]
    BY <2>2, MaxDrawnAssumption DEF TypeOK, Drawn, Entry, OpenEntry
  <2>5. call' \in [Requests -> Call \cup {NoCall}]
    BY DEF TypeOK, Call, Keyed, Operations
  <2>6. work' \in [Requests -> [id : Drawn, outcome : Outcomes]]
    BY <2>2, MaxDrawnAssumption DEF TypeOK, Drawn, NoWork, Outcomes
  <2>7. delivery' \subseteq Delivery
    BY <2>2 DEF TypeOK, Delivery
  <2>8. proven' \subseteq Subscriptions /\ heard' \subseteq [id : Drawn, of : Subscriptions, key : Keys, ok : BOOLEAN]
    BY DEF TypeOK
  <2>. QED
    BY <2>1, <2>2, <2>3, <2>4, <2>5, <2>6, <2>7, <2>8 DEF TypeOK
<1>2. CallFits'
  BY CallKinds DEF TypeOK, CallFits, AfterCreate, AfterTest, Outcomes, Keyed, Call
<1>3. Concluded'
  BY DEF TypeOK, CallFits, AfterCreate, AfterTest, Concluded, NoRow, Row, Live
<1>. QED
  BY <1>1, <1>2, <1>3

LEMMA ChallengeKeeps ==
  ASSUME IInv, NEW r \in Requests, Challenge(r)
  PROVE  IInv'
<1>. USE DEF IInv, Challenge, Goto, TargetOf, RowOf, EntryOf, Exists, tables, receivers
<1>1. TypeOK'
  BY CallKinds, MaxDrawnAssumption DEF TypeOK, Drawn, Row, NoRow, Live, Delivery, Entry, OpenEntry, Pcs, NoWork, Outcomes, Operations, Keyed, CallFits, AfterCreate, AfterTest
<1>2. CallFits'
  BY CallKinds DEF TypeOK, CallFits, AfterCreate, AfterTest, Outcomes, Keyed, Call
<1>3. Concluded'
  BY DEF TypeOK, CallFits, AfterCreate, AfterTest, Concluded, NoRow, Row, Live
<1>. QED
  BY <1>1, <1>2, <1>3

LEMMA RecordVerificationKeeps ==
  ASSUME IInv, NEW r \in Requests, RecordVerification(r)
  PROVE  IInv'
<1>. USE DEF IInv, RecordVerification, Update, Verdict, Goto, TargetOf, RowOf, EntryOf, Exists, tables, receivers
<1>1. TypeOK'
  BY CallKinds, MaxDrawnAssumption DEF TypeOK, Drawn, Row, NoRow, Live, Delivery, Entry, OpenEntry, Pcs, NoWork, Outcomes, Operations, Keyed, CallFits, AfterCreate, AfterTest
<1>2. CallFits'
  BY CallKinds DEF TypeOK, CallFits, AfterCreate, AfterTest, Outcomes, Keyed, Call
<1>3. Concluded'
  BY DEF TypeOK, CallFits, AfterCreate, AfterTest, Concluded, Row, Live, Outcomes
<1>. QED
  BY <1>1, <1>2, <1>3

LEMMA RotateKeeps ==
  ASSUME IInv, NEW r \in Requests, Rotate(r)
  PROVE  IInv'
<1>. USE DEF IInv, Rotate, Update, Goto, TargetOf, RowOf, EntryOf, Exists, tables, receivers
<1>1. TypeOK'
  <2>. call[r] \in Call /\ TargetOf(r) \in Subscriptions /\ call[r].operation \in Keyed /\ EntryOf(r) \in Keyed \X Keys
    BY CallKinds DEF TypeOK, CallFits, AfterCreate, AfterTest
  <2>1. pc' \in [Requests -> Pcs]
    BY DEF TypeOK, Pcs, Keyed
  <2>2. drawn' \in Drawn /\ seen' \in [Requests -> Drawn]
    BY MaxDrawnAssumption DEF TypeOK, Drawn, Row
  <2>3. sub' \in [Subscriptions -> Row]
    <3>1. [RowOf(r) EXCEPT !.previous = seen[r], !.current = drawn + 1] \in Row
      BY <2>2, RowUpdates DEF TypeOK
    <3>. QED
      BY <3>1 DEF TypeOK
  <2>4. ledger' \in [Keyed \X Keys -> Entry]
    BY <2>2, MaxDrawnAssumption DEF TypeOK, Drawn, Entry, OpenEntry
  <2>5. call' \in [Requests -> Call \cup {NoCall}]
    BY DEF TypeOK, Call, Keyed, Operations
  <2>6. work' \in [Requests -> [id : Drawn, outcome : Outcomes]]
    BY <2>2, MaxDrawnAssumption DEF TypeOK, Drawn, NoWork, Outcomes
  <2>7. delivery' \subseteq Delivery
    BY <2>2 DEF TypeOK, Delivery
  <2>8. proven' \subseteq Subscriptions /\ heard' \subseteq [id : Drawn, of : Subscriptions, key : Keys, ok : BOOLEAN]
    BY DEF TypeOK
  <2>. QED
    BY <2>1, <2>2, <2>3, <2>4, <2>5, <2>6, <2>7, <2>8 DEF TypeOK
<1>2. CallFits'
  BY CallKinds DEF TypeOK, CallFits, AfterCreate, AfterTest, Outcomes, Keyed, Call
<1>3. Concluded'
  BY DEF TypeOK, CallFits, AfterCreate, AfterTest, Concluded, NoRow, Row, Live
<1>. QED
  BY <1>1, <1>2, <1>3

LEMMA ResolveKeeps ==
  ASSUME IInv, NEW r \in Requests, Resolve(r)
  PROVE  IInv'
<1>. USE DEF IInv, Resolve, Goto, TargetOf, RowOf, EntryOf, Exists, tables, receivers
<1>1. TypeOK'
  <2>. call[r] \in Call /\ TargetOf(r) \in Subscriptions /\ call[r].operation \in Keyed /\ EntryOf(r) \in Keyed \X Keys
    BY CallKinds DEF TypeOK, CallFits, AfterCreate, AfterTest
  <2>1. pc' \in [Requests -> Pcs]
    BY DEF TypeOK, Pcs, Keyed
  <2>2. drawn' \in Drawn /\ seen' \in [Requests -> Drawn]
    BY MaxDrawnAssumption DEF TypeOK, Drawn, Row
  <2>3. sub' \in [Subscriptions -> Row]
    BY <2>2, MaxDrawnAssumption DEF TypeOK, Drawn, Row, NoRow, Live
  <2>4. ledger' \in [Keyed \X Keys -> Entry]
    BY <2>2, MaxDrawnAssumption DEF TypeOK, Drawn, Entry, OpenEntry
  <2>5. call' \in [Requests -> Call \cup {NoCall}]
    BY DEF TypeOK, Call, Keyed, Operations
  <2>6. work' \in [Requests -> [id : Drawn, outcome : Outcomes]]
    BY <2>2, MaxDrawnAssumption DEF TypeOK, Drawn, NoWork, Outcomes
  <2>7. delivery' \subseteq Delivery
    BY <2>2 DEF TypeOK, Delivery
  <2>8. proven' \subseteq Subscriptions /\ heard' \subseteq [id : Drawn, of : Subscriptions, key : Keys, ok : BOOLEAN]
    BY DEF TypeOK
  <2>. QED
    BY <2>1, <2>2, <2>3, <2>4, <2>5, <2>6, <2>7, <2>8 DEF TypeOK
<1>2. CallFits'
  BY CallKinds DEF TypeOK, CallFits, AfterCreate, AfterTest, Outcomes, Keyed, Call
<1>3. Concluded'
  BY DEF TypeOK, CallFits, AfterCreate, AfterTest, Concluded, NoRow, Row, Live
<1>. QED
  BY <1>1, <1>2, <1>3

LEMMA QueueKeeps ==
  ASSUME IInv, NEW r \in Requests, Queue(r)
  PROVE  IInv'
<1>. USE DEF IInv, Queue, DeliveryOf, Goto, TargetOf, RowOf, EntryOf, Exists, tables, receivers
<1>1. TypeOK'
  BY CallKinds, MaxDrawnAssumption DEF TypeOK, Drawn, Row, NoRow, Live, Delivery, Entry, OpenEntry, Pcs, NoWork, Outcomes, Operations, Keyed, CallFits, AfterCreate, AfterTest
<1>2. CallFits'
  BY CallKinds DEF TypeOK, CallFits, AfterCreate, AfterTest, Outcomes, Keyed, Call
<1>3. Concluded'
  BY DEF TypeOK, CallFits, AfterCreate, AfterTest, Concluded, NoRow, Row, Live
<1>. QED
  BY <1>1, <1>2, <1>3

LEMMA DispatchKeeps ==
  ASSUME IInv, NEW r \in Requests, Dispatch(r)
  PROVE  IInv'
<1>. USE DEF IInv, Dispatch, Goto, TargetOf, RowOf, EntryOf, Exists, tables, receivers
<1>1. TypeOK'
  <2>. call[r] \in Call /\ TargetOf(r) \in Subscriptions /\ call[r].operation \in Keyed /\ EntryOf(r) \in Keyed \X Keys /\ call[r].key \in Keys
    BY CallKinds DEF TypeOK, CallFits, AfterCreate, AfterTest
  <2>1. pc' \in [Requests -> Pcs]
    BY DEF TypeOK, Pcs, Keyed
  <2>2. drawn' \in Drawn /\ seen' \in [Requests -> Drawn]
    BY MaxDrawnAssumption DEF TypeOK, Drawn, Row
  <2>3. sub' \in [Subscriptions -> Row]
    BY <2>2, MaxDrawnAssumption DEF TypeOK, Drawn, Row, NoRow, Live
  <2>4. ledger' \in [Keyed \X Keys -> Entry]
    BY <2>2, MaxDrawnAssumption DEF TypeOK, Drawn, Entry, OpenEntry
  <2>5. call' \in [Requests -> Call \cup {NoCall}]
    BY DEF TypeOK, Call, Keyed, Operations
  <2>6. work' \in [Requests -> [id : Drawn, outcome : Outcomes]]
    BY <2>2, MaxDrawnAssumption DEF TypeOK, Drawn, NoWork, Outcomes
  <2>7. delivery' \subseteq Delivery
    BY <2>2 DEF TypeOK, Delivery
  <2>8. proven' \subseteq Subscriptions /\ heard' \subseteq [id : Drawn, of : Subscriptions, key : Keys, ok : BOOLEAN]
    <3>1. \A outcome : [id |-> work[r].id, of |-> TargetOf(r), key |-> call[r].key, ok |-> outcome = "ok"]
                          \in [id : Drawn, of : Subscriptions, key : Keys, ok : BOOLEAN]
      BY DEF TypeOK
    <3>. QED
      BY <3>1 DEF TypeOK
  <2>. QED
    BY <2>1, <2>2, <2>3, <2>4, <2>5, <2>6, <2>7, <2>8 DEF TypeOK
<1>2. CallFits'
  BY CallKinds DEF TypeOK, CallFits, AfterCreate, AfterTest, Outcomes, Keyed, Call
<1>3. Concluded'
  BY DEF TypeOK, CallFits, AfterCreate, AfterTest, Concluded, NoRow, Row, Live
<1>. QED
  BY <1>1, <1>2, <1>3

LEMMA ReportKeeps ==
  ASSUME IInv, NEW r \in Requests, Report(r)
  PROVE  IInv'
<1>. USE DEF IInv, Report, DeliveryOf, Goto, TargetOf, RowOf, EntryOf, Exists, tables, receivers
<1>1. TypeOK'
  BY CallKinds, MaxDrawnAssumption DEF TypeOK, Drawn, Row, NoRow, Live, Delivery, Entry, OpenEntry, Pcs, NoWork, Outcomes, Operations, Keyed, CallFits, AfterCreate, AfterTest
<1>2. CallFits'
  BY CallKinds DEF TypeOK, CallFits, AfterCreate, AfterTest, Outcomes, Keyed, Call
<1>3. Concluded'
  BY DEF TypeOK, CallFits, AfterCreate, AfterTest, Concluded, NoRow, Row, Live
<1>. QED
  BY <1>1, <1>2, <1>3

LEMMA EnableKeeps ==
  ASSUME IInv, NEW r \in Requests, Enable(r)
  PROVE  IInv'
<1>. USE DEF IInv, Enable, Update, Return, Goto, TargetOf, RowOf, EntryOf, Exists, tables, receivers
<1>1. TypeOK'
  <2>. call[r] \in Call /\ TargetOf(r) \in Subscriptions
    BY CallKinds DEF TypeOK, CallFits, AfterCreate, AfterTest
  <2>1. pc' \in [Requests -> Pcs]
    BY DEF TypeOK, Pcs, Keyed
  <2>2. drawn' \in Drawn /\ seen' \in [Requests -> Drawn]
    BY MaxDrawnAssumption DEF TypeOK, Drawn, Row
  <2>3. sub' \in [Subscriptions -> Row]
    <3>1. [RowOf(r) EXCEPT !.status = "active"] \in Row
      BY <2>2, RowUpdates DEF TypeOK
    <3>. QED
      BY <3>1 DEF TypeOK
  <2>4. ledger' \in [Keyed \X Keys -> Entry]
    BY <2>2, MaxDrawnAssumption DEF TypeOK, Drawn, Entry, OpenEntry
  <2>5. call' \in [Requests -> Call \cup {NoCall}]
    BY DEF TypeOK, Call, Keyed, Operations
  <2>6. work' \in [Requests -> [id : Drawn, outcome : Outcomes]]
    BY <2>2, MaxDrawnAssumption DEF TypeOK, Drawn, NoWork, Outcomes
  <2>7. delivery' \subseteq Delivery
    BY <2>2 DEF TypeOK, Delivery
  <2>8. proven' \subseteq Subscriptions /\ heard' \subseteq [id : Drawn, of : Subscriptions, key : Keys, ok : BOOLEAN]
    BY DEF TypeOK
  <2>. QED
    BY <2>1, <2>2, <2>3, <2>4, <2>5, <2>6, <2>7, <2>8 DEF TypeOK
<1>2. CallFits'
  BY CallKinds DEF TypeOK, CallFits, AfterCreate, AfterTest, Outcomes, Keyed, Call
<1>3. Concluded'
  BY DEF TypeOK, CallFits, AfterCreate, AfterTest, Concluded, NoRow, Row, Live
<1>. QED
  BY <1>1, <1>2, <1>3

LEMMA DisableKeeps ==
  ASSUME IInv, NEW r \in Requests, Disable(r)
  PROVE  IInv'
<1>. USE DEF IInv, Disable, Update, Return, Goto, TargetOf, RowOf, EntryOf, Exists, tables, receivers
<1>1. TypeOK'
  <2>. call[r] \in Call /\ TargetOf(r) \in Subscriptions
    BY CallKinds DEF TypeOK, CallFits, AfterCreate, AfterTest
  <2>1. pc' \in [Requests -> Pcs]
    BY DEF TypeOK, Pcs, Keyed
  <2>2. drawn' \in Drawn /\ seen' \in [Requests -> Drawn]
    BY MaxDrawnAssumption DEF TypeOK, Drawn, Row
  <2>3. sub' \in [Subscriptions -> Row]
    <3>1. [RowOf(r) EXCEPT !.status = "disabled"] \in Row
      BY <2>2, RowUpdates DEF TypeOK
    <3>. QED
      BY <3>1 DEF TypeOK
  <2>4. ledger' \in [Keyed \X Keys -> Entry]
    BY <2>2, MaxDrawnAssumption DEF TypeOK, Drawn, Entry, OpenEntry
  <2>5. call' \in [Requests -> Call \cup {NoCall}]
    BY DEF TypeOK, Call, Keyed, Operations
  <2>6. work' \in [Requests -> [id : Drawn, outcome : Outcomes]]
    BY <2>2, MaxDrawnAssumption DEF TypeOK, Drawn, NoWork, Outcomes
  <2>7. delivery' \subseteq Delivery
    BY <2>2 DEF TypeOK, Delivery
  <2>8. proven' \subseteq Subscriptions /\ heard' \subseteq [id : Drawn, of : Subscriptions, key : Keys, ok : BOOLEAN]
    BY DEF TypeOK
  <2>. QED
    BY <2>1, <2>2, <2>3, <2>4, <2>5, <2>6, <2>7, <2>8 DEF TypeOK
<1>2. CallFits'
  BY CallKinds DEF TypeOK, CallFits, AfterCreate, AfterTest, Outcomes, Keyed, Call
<1>3. Concluded'
  BY DEF TypeOK, CallFits, AfterCreate, AfterTest, Concluded, NoRow, Row, Live
<1>. QED
  BY <1>1, <1>2, <1>3

LEMMA DeleteKeeps ==
  ASSUME IInv, NEW r \in Requests, Delete(r)
  PROVE  IInv'
<1>. USE DEF IInv, Delete, Return, Goto, TargetOf, RowOf, EntryOf, Exists, tables, receivers
<1>1. TypeOK'
  BY CallKinds, MaxDrawnAssumption DEF TypeOK, Drawn, Row, NoRow, Live, Delivery, Entry, OpenEntry, Pcs, NoWork, Outcomes, Operations, Keyed, CallFits, AfterCreate, AfterTest
<1>2. CallFits'
  BY CallKinds DEF TypeOK, CallFits, AfterCreate, AfterTest, Outcomes, Keyed, Call
<1>3. Concluded'
  BY DEF TypeOK, CallFits, AfterCreate, AfterTest, Concluded, NoRow, Row, Live
<1>. QED
  BY <1>1, <1>2, <1>3

-----------------------------------------------------------------------------
(* The invariant is inductive. *)
THEOREM NextKeepsIInv == IInv /\ [Next]_vars => IInv'
<1>. SUFFICES ASSUME IInv, [Next]_vars PROVE IInv'
  OBVIOUS
<1>1. CASE UNCHANGED vars
  BY <1>1 DEF IInv, TypeOK, CallFits, Concluded, TargetOf, vars
<1>2. ASSUME NEW r \in Requests, Step(r) PROVE IInv'
  BY <1>2, LoadKeeps, BeginKeeps, CompleteKeeps, FailKeeps, InsertKeeps, ChallengeKeeps,
     RecordVerificationKeeps, RotateKeeps, ResolveKeeps, QueueKeeps, DispatchKeeps,
     ReportKeeps, EnableKeeps, DisableKeeps, DeleteKeeps
  DEF Step
<1>3. ASSUME NEW r \in Requests, NEW c \in Call, Send(r, c) PROVE IInv'
  BY <1>3, SendKeeps
<1>. QED
  BY <1>1, <1>2, <1>3 DEF Next

(* The strengthened invariant holds of every behaviour of the routes. *)
THEOREM Invariance == Spec => []IInv
  BY InitIInv, NextKeepsIInv, PTL DEF Spec

(* The type invariant of the subscription routes. *)
THEOREM TypeCorrect == Spec => []TypeOK
<1>1. IInv => TypeOK
  BY DEF IInv
<1>. QED
  BY Invariance, <1>1, PTL

(* enable writes "active" after an await, over whatever the row became:    *)
(* only a subscription whose receiver answered its challenge with 2xx is   *)
(* ever active.                                                            *)
THEOREM OnlyProvenIsActive == Spec => []ActiveIsProven
<1>1. IInv => ActiveIsProven
  BY DEF IInv, Concluded, ActiveIsProven
<1>. QED
  BY Invariance, <1>1, PTL

-----------------------------------------------------------------------------
(* Every write of a row but an insert and a delete needs the row. *)
LEMMA StepLeavesDeleted ==
  ASSUME TypeOK, NEW r \in Requests, Step(r), NEW t \in Subscriptions,
         sub[t].status = "deleted"
  PROVE  sub'[t].status = "deleted"
<1>1. CASE Load(r) \/ Begin(r) \/ Complete(r) \/ Fail(r)
  BY <1>1 DEF Load, LoadRow, Begin, Complete, Fail, tables
<1>2. CASE Challenge(r) \/ Resolve(r) \/ Queue(r) \/ Dispatch(r) \/ Report(r)
  BY <1>2 DEF Challenge, Resolve, Queue, Dispatch, Report, tables
<1>3. ASSUME NEW s \in Subscriptions, Insert(r, s) PROVE sub'[t].status = "deleted"
  BY <1>3 DEF Insert, TypeOK
<1>4. CASE RecordVerification(r) \/ Rotate(r) \/ Enable(r) \/ Disable(r)
  <2>1. TargetOf(r) # t
    BY <1>4 DEF RecordVerification, Rotate, Enable, Disable, Update, Exists, Live
  <2>. QED
    BY <1>4, <2>1 DEF RecordVerification, Rotate, Enable, Disable, Update, TypeOK
<1>5. CASE Delete(r)
  BY <1>5 DEF Delete, TypeOK, NoRow, Row
<1>. QED
  BY <1>1, <1>2, <1>3, <1>4, <1>5 DEF Step

(* No late write of a handler that read the row before a delete brings the *)
(* subscription back, for any number of handlers.                          *)
THEOREM DeletedStaysDeleted == Spec => DeletedForGood
<1>1. IInv /\ [Next]_vars =>
        [\A s \in Subscriptions : sub[s].status = "deleted" => sub'[s].status = "deleted"]_vars
  <2>. SUFFICES ASSUME IInv, Next, NEW t \in Subscriptions, sub[t].status = "deleted"
               PROVE  sub'[t].status = "deleted"
    BY DEF vars
  <2>1. ASSUME NEW r \in Requests, Step(r) PROVE sub'[t].status = "deleted"
    BY <2>1, StepLeavesDeleted DEF IInv
  <2>2. ASSUME NEW r \in Requests, NEW c \in Call, Send(r, c) PROVE sub'[t].status = "deleted"
    BY <2>2 DEF Send, tables
  <2>. QED
    BY <2>1, <2>2 DEF Next
<1>. QED
  BY Invariance, <1>1, PTL DEF Spec, DeletedForGood

-----------------------------------------------------------------------------
(* A handler that got its key from the ledger holds it until it returns. *)
Holding == AfterCreate \cup AfterTest \cup {"rotating", "completing"}

KeyIsHeld ==
  /\ \A r \in Requests : pc[r] \in Holding => ledger[EntryOf(r)].stage = "started"
  /\ \A r, q \in Requests :
       r # q /\ pc[r] \in Holding /\ pc[q] \in Holding => EntryOf(r) # EntryOf(q)

(* Every step by itself: what it leaves of the other handlers. *)
LEMMA OthersStand ==
  ASSUME IInv, NEW r \in Requests, Step(r), NEW q \in Requests, q # r
  PROVE  pc'[q] = pc[q] /\ call'[q] = call[q] /\ work'[q] = work[q] /\ seen'[q] = seen[q]
<1>. USE DEF Goto, Return, IInv, TypeOK
<1>1. CASE Load(r) \/ Begin(r) \/ Complete(r) \/ Fail(r)
  BY <1>1 DEF Load, LoadRow, Begin, Complete, Fail
<1>2. CASE \E s \in Subscriptions : Insert(r, s)
  BY <1>2 DEF Insert
<1>3. CASE Challenge(r) \/ RecordVerification(r) \/ Rotate(r) \/ Resolve(r)
  BY <1>3 DEF Challenge, RecordVerification, Rotate, Resolve
<1>4. CASE Queue(r) \/ Dispatch(r) \/ Report(r)
  BY <1>4 DEF Queue, Dispatch, Report
<1>5. CASE Enable(r) \/ Disable(r) \/ Delete(r)
  BY <1>5 DEF Enable, Disable, Delete
<1>. QED
  BY <1>1, <1>2, <1>3, <1>4, <1>5 DEF Step

LEMMA EntryOfKeyed ==
  ASSUME IInv, NEW r \in Requests, pc[r] \in Holding \cup {"beginning"}
  PROVE  EntryOf(r) \in Keyed \X Keys
  BY CallKinds DEF IInv, CallFits, Holding, AfterCreate, AfterTest, EntryOf

(* What a step may do to the entry of its key: take it when it is open,    *)
(* write the secret, or close it on the way out.                           *)
LEMMA StepOnLedger ==
  ASSUME IInv, NEW r \in Requests, Step(r)
  PROVE  \/ /\ ledger' = ledger
            /\ pc'[r] \in Holding => pc[r] \in Holding /\ EntryOf(r)' = EntryOf(r)
         \/ /\ pc[r] = "beginning" /\ ledger[EntryOf(r)].stage = "open"
            /\ EntryOf(r)' = EntryOf(r)
            /\ ledger' = [ledger EXCEPT ![EntryOf(r)].stage = "started"]
         \/ /\ pc[r] = "completing" /\ pc'[r] = "idle"
            /\ ledger' = [ledger EXCEPT ![EntryOf(r)].stage = "done"]
         \/ /\ pc[r] \in {"inserting", "rotating"}
            /\ pc'[r] \in {"challenging", "completing"}
            /\ EntryOf(r)' = EntryOf(r)
            /\ ledger' = [ledger EXCEPT ![EntryOf(r)].secret = drawn + 1]
<1>. USE DEF Goto, Return, IInv, TypeOK, EntryOf
<1>1. CASE Load(r) \/ Fail(r)
  BY <1>1 DEF Load, LoadRow, Fail, Holding, AfterCreate, AfterTest
<1>2. CASE Begin(r)
  BY <1>2 DEF Begin
<1>3. CASE Complete(r)
  BY <1>3 DEF Complete
<1>4. ASSUME NEW s \in Subscriptions, Insert(r, s)
      PROVE  /\ pc[r] = "inserting" /\ pc'[r] = "challenging"
             /\ EntryOf(r)' = EntryOf(r)
             /\ ledger' = [ledger EXCEPT ![EntryOf(r)].secret = drawn + 1]
  <2>. call[r] \in Call /\ call[r].operation \in Keyed
    BY <1>4 DEF Insert, CallFits, AfterCreate
  <2>. QED
    BY <1>4 DEF Insert, Call
<1>5. CASE Challenge(r) \/ RecordVerification(r) \/ Resolve(r)
  BY <1>5 DEF Challenge, RecordVerification, Resolve, Holding, AfterCreate, AfterTest
<1>6. CASE Rotate(r)
  BY <1>6 DEF Rotate
<1>7. CASE Queue(r) \/ Dispatch(r) \/ Report(r)
  BY <1>7 DEF Queue, Dispatch, Report, Holding, AfterCreate, AfterTest
<1>8. CASE Enable(r) \/ Disable(r) \/ Delete(r)
  BY <1>8 DEF Enable, Disable, Delete, Holding, AfterCreate, AfterTest
<1>. QED
  BY <1>1, <1>2, <1>3, <1>4, <1>5, <1>6, <1>7, <1>8 DEF Step

LEMMA KeyStaysHeld ==
  ASSUME IInv, KeyIsHeld, NEW r \in Requests, Step(r)
  PROVE  KeyIsHeld'
<1>1. \A q \in Requests \ {r} : pc'[q] = pc[q] /\ EntryOf(q)' = EntryOf(q)
  BY OthersStand DEF EntryOf
<1>2. \A q \in Requests : pc[q] \in Holding \cup {"beginning"} => EntryOf(q) \in Keyed \X Keys
  BY EntryOfKeyed
<1>3. ledger \in [Keyed \X Keys -> Entry]
  BY DEF IInv, TypeOK
<1>4. CASE /\ ledger' = ledger
           /\ pc'[r] \in Holding => pc[r] \in Holding /\ EntryOf(r)' = EntryOf(r)
  BY <1>1, <1>4 DEF KeyIsHeld
<1>5. CASE /\ pc[r] = "beginning" /\ ledger[EntryOf(r)].stage = "open"
           /\ EntryOf(r)' = EntryOf(r)
           /\ ledger' = [ledger EXCEPT ![EntryOf(r)].stage = "started"]
  BY <1>1, <1>2, <1>3, <1>5 DEF KeyIsHeld, Entry
<1>6. CASE /\ pc[r] = "completing" /\ pc'[r] = "idle"
           /\ ledger' = [ledger EXCEPT ![EntryOf(r)].stage = "done"]
  <2>. pc[r] \in Holding /\ pc'[r] \notin Holding
    BY <1>6 DEF Holding, AfterCreate, AfterTest
  <2>. QED
    BY <1>1, <1>2, <1>3, <1>6 DEF KeyIsHeld, Entry
<1>7. CASE /\ pc[r] \in {"inserting", "rotating"}
           /\ EntryOf(r)' = EntryOf(r)
           /\ ledger' = [ledger EXCEPT ![EntryOf(r)].secret = drawn + 1]
  <2>. pc[r] \in Holding
    BY <1>7 DEF Holding, AfterCreate
  <2>. QED
    BY <1>1, <1>2, <1>3, <1>7 DEF KeyIsHeld, Entry
<1>. QED
  BY <1>4, <1>5, <1>6, <1>7, StepOnLedger

-----------------------------------------------------------------------------
(* A secret in use is that of a key that was begun, and a key gets one     *)
(* secret at most.                                                         *)
SecretIsKept ==
  /\ \A e \in Keyed \X Keys : ledger[e].stage = "open" => ledger[e].secret = 0
  /\ \A r \in Requests : pc[r] \in {"inserting", "rotating"} => ledger[EntryOf(r)].secret = 0
  /\ \A s \in Subscriptions : Exists(s) =>
       /\ sub[s].current # 0
       /\ \E e \in Keyed \X Keys : ledger[e].secret = sub[s].current

(* A row comes with the secret just drawn, is given it by a rotation, or   *)
(* keeps its secret.                                                       *)
LEMMA StepOnSecrets ==
  ASSUME IInv, NEW r \in Requests, Step(r), NEW s \in Subscriptions, Exists(s)'
  PROVE  \/ Exists(s) /\ sub'[s].current = sub[s].current
         \/ /\ pc[r] \in {"inserting", "rotating"}
            /\ ledger' = [ledger EXCEPT ![EntryOf(r)].secret = drawn + 1]
            /\ sub'[s].current = drawn + 1
<1>. USE DEF IInv, TypeOK, Exists, Live, TargetOf, RowOf, Row, NoRow
<1>1. CASE Load(r) \/ Begin(r) \/ Complete(r) \/ Fail(r)
  BY <1>1 DEF Load, LoadRow, Begin, Complete, Fail, tables
<1>2. ASSUME NEW t \in Subscriptions, Insert(r, t)
      PROVE  \/ Exists(s) /\ sub'[s].current = sub[s].current
             \/ /\ pc[r] = "inserting"
                /\ ledger' = [ledger EXCEPT ![EntryOf(r)].secret = drawn + 1]
                /\ sub'[s].current = drawn + 1
  BY <1>2 DEF Insert
<1>3. CASE Challenge(r) \/ Resolve(r) \/ Queue(r) \/ Dispatch(r) \/ Report(r)
  BY <1>3 DEF Challenge, Resolve, Queue, Dispatch, Report, tables
<1>4. CASE RecordVerification(r)
  BY <1>4 DEF RecordVerification, Update
<1>5. CASE Rotate(r)
  BY <1>5 DEF Rotate, Update
<1>6. CASE Enable(r) \/ Disable(r)
  BY <1>6 DEF Enable, Disable, Update
<1>7. CASE Delete(r)
  BY <1>7 DEF Delete
<1>. QED
  BY <1>1, <1>2, <1>3, <1>4, <1>5, <1>6, <1>7 DEF Step

LEMMA SecretStaysKept ==
  ASSUME IInv, KeyIsHeld, SecretIsKept, NEW r \in Requests, Step(r)
  PROVE  SecretIsKept'
<1>1. \A q \in Requests \ {r} : pc'[q] = pc[q] /\ EntryOf(q)' = EntryOf(q)
  BY OthersStand DEF EntryOf
<1>2. \A q \in Requests : pc[q] \in Holding \cup {"beginning"} => EntryOf(q) \in Keyed \X Keys
  BY EntryOfKeyed
<1>3. ledger \in [Keyed \X Keys -> Entry] /\ drawn \in Nat
  BY MaxDrawnAssumption DEF IInv, TypeOK, Drawn
<1>4. {"inserting", "rotating"} \subseteq Holding
  BY DEF Holding, AfterCreate
<1>5. pc'[r] \in {"inserting", "rotating"} => pc[r] = "beginning" /\ EntryOf(r)' = EntryOf(r)
  BY DEF Step, Load, LoadRow, Begin, Complete, Fail, Insert, Challenge, RecordVerification, Rotate,
     Resolve, Queue, Dispatch, Report, Enable, Disable, Delete, Goto, Return, EntryOf, IInv, TypeOK
<1>6. \A e \in Keyed \X Keys : ledger'[e].stage = "open" => ledger'[e].secret = 0
  <2>. SUFFICES ASSUME NEW e \in Keyed \X Keys, ledger'[e].stage = "open" PROVE ledger'[e].secret = 0
    OBVIOUS
  <2>1. CASE ledger' = ledger
    BY <2>1 DEF SecretIsKept
  <2>2. CASE \E stage \in {"started", "done"} : ledger' = [ledger EXCEPT ![EntryOf(r)].stage = stage]
    BY <1>3, <2>2 DEF SecretIsKept, Entry
  <2>3. CASE /\ pc[r] \in {"inserting", "rotating"}
             /\ ledger' = [ledger EXCEPT ![EntryOf(r)].secret = drawn + 1]
    BY <1>3, <1>4, <2>3 DEF SecretIsKept, KeyIsHeld, Entry
  <2>. QED
    BY <2>1, <2>2, <2>3, StepOnLedger
<1>7. \A q \in Requests : pc'[q] \in {"inserting", "rotating"} => ledger'[EntryOf(q)'].secret = 0
  <2>. SUFFICES ASSUME NEW q \in Requests, pc'[q] \in {"inserting", "rotating"}
               PROVE  ledger'[EntryOf(q)'].secret = 0
    OBVIOUS
  <2>1. /\ EntryOf(q)' = EntryOf(q)
        /\ EntryOf(q) \in Keyed \X Keys
        /\ ledger[EntryOf(q)].secret = 0
        /\ q # r /\ pc[r] \in Holding => EntryOf(q) # EntryOf(r)
    <3>1. CASE q = r
      BY <1>2, <1>5, <3>1, StepOnLedger DEF SecretIsKept, Holding, AfterCreate, AfterTest
    <3>2. CASE q # r
      BY <1>1, <1>2, <1>4, <3>2 DEF SecretIsKept, KeyIsHeld
    <3>. QED
      BY <3>1, <3>2
  <2>2. CASE ledger' = ledger \/ \E stage \in {"started", "done"} : ledger' = [ledger EXCEPT ![EntryOf(r)].stage = stage]
    BY <1>3, <2>1, <2>2 DEF Entry
  <2>3. CASE /\ pc[r] \in {"inserting", "rotating"}
             /\ pc'[r] \in {"challenging", "completing"}
             /\ ledger' = [ledger EXCEPT ![EntryOf(r)].secret = drawn + 1]
    BY <1>3, <1>4, <2>1, <2>3
  <2>. QED
    BY <2>2, <2>3, StepOnLedger
<1>8. ASSUME NEW s \in Subscriptions, Exists(s)'
      PROVE  /\ sub'[s].current # 0
             /\ \E e \in Keyed \X Keys : ledger'[e].secret = sub'[s].current
  <2>1. CASE Exists(s) /\ sub'[s].current = sub[s].current
    <3>1. PICK e \in Keyed \X Keys : ledger[e].secret = sub[s].current
      BY <2>1 DEF SecretIsKept
    <3>2. ledger'[e].secret = ledger[e].secret
      <4>1. CASE ledger' = ledger \/ \E stage \in {"started", "done"} : ledger' = [ledger EXCEPT ![EntryOf(r)].stage = stage]
        BY <1>3, <4>1 DEF Entry
      <4>2. CASE /\ pc[r] \in {"inserting", "rotating"}
                 /\ ledger' = [ledger EXCEPT ![EntryOf(r)].secret = drawn + 1]
        BY <1>3, <2>1, <3>1, <4>2 DEF SecretIsKept
      <4>. QED
        BY <4>1, <4>2, StepOnLedger
    <3>. QED
      BY <2>1, <3>1, <3>2 DEF SecretIsKept
  <2>2. CASE /\ pc[r] \in {"inserting", "rotating"}
             /\ ledger' = [ledger EXCEPT ![EntryOf(r)].secret = drawn + 1]
             /\ sub'[s].current = drawn + 1
    BY <1>2, <1>3, <1>4, <2>2 DEF Entry
  <2>. QED
    BY <1>8, <2>1, <2>2, StepOnSecrets
<1>. QED
  BY <1>6, <1>7, <1>8 DEF SecretIsKept

-----------------------------------------------------------------------------
(* The ids that handlers work with are their own. *)
Sending == {"rejecting", "queueing", "dispatching", "reporting"}

IdsAreOwn ==
  /\ \A r \in Requests : pc[r] \in Sending => work[r].id \in 1..drawn
  /\ \A r, q \in Requests :
       r # q /\ pc[r] \in Sending /\ pc[q] \in Sending => work[r].id # work[q].id

(* Of an event that is or was on its way: its delivery is recorded before, *)
(* under a key that no other handler has.                                  *)
HandlersKnow ==
  \A r \in Requests :
    /\ pc[r] \in AfterTest \/ (pc[r] = "beginning" /\ call[r].operation = "test") =>
         call[r].operation = "test" /\ sub[TargetOf(r)].status # "absent"
    /\ pc[r] = "dispatching" /\ Exists(TargetOf(r)) => DeliveryOf(r, "queued") \in delivery
    /\ pc[r] \in {"resolving", "queueing", "dispatching"} => \A e \in heard : e.key # call[r].key
    /\ pc[r] = "reporting" /\ work[r].outcome = "ok" => \E e \in heard : e.id = work[r].id /\ e.ok

HeardIsKept ==
  /\ \A e \in heard :
       /\ sub[e.of].status # "absent"
       /\ Exists(e.of) => \E d \in delivery : d.id = e.id /\ d.of = e.of /\ d.status # "rejected"
       /\ ledger[<<"test", e.key>>].stage # "open"
  /\ \A d \in delivery : d.status = "delivered" => \E e \in heard : e.id = d.id /\ e.ok
  /\ \A e, f \in heard : e.key = f.key => e.id = f.id

LEMMA IdsStayOwn ==
  ASSUME IInv, IdsAreOwn, NEW r \in Requests, Step(r)
  PROVE  IdsAreOwn'
<1>1. \A q \in Requests \ {r} : pc'[q] = pc[q] /\ work'[q] = work[q]
  BY OthersStand
<1>2. drawn \in Nat /\ drawn' \in Nat /\ drawn' >= drawn
  BY MaxDrawnAssumption
  DEF IInv, TypeOK, Drawn, Step, Load, LoadRow, Begin, Complete, Fail, Insert, Challenge, RecordVerification,
      Rotate, Resolve, Queue, Dispatch, Report, Enable, Disable, Delete, tables
<1>3. pc'[r] \in Sending =>
        \/ pc[r] \in Sending /\ work'[r].id = work[r].id
        \/ drawn' = drawn + 1 /\ work'[r].id = drawn + 1
  <2>. USE DEF Sending, Goto, Return, IInv, TypeOK
  <2>1. CASE Resolve(r)
    BY <2>1 DEF Resolve
  <2>2. CASE Queue(r) \/ Dispatch(r) \/ Report(r)
    BY <2>2 DEF Queue, Dispatch, Report
  <2>3. CASE Load(r) \/ Begin(r)
    BY <2>3, CallKinds DEF Load, LoadRow, Begin, CallFits, Keyed
  <2>4. CASE Complete(r) \/ Fail(r) \/ Enable(r) \/ Disable(r) \/ Delete(r)
    BY <2>4 DEF Complete, Fail, Enable, Disable, Delete
  <2>5. CASE Challenge(r) \/ RecordVerification(r) \/ Rotate(r) \/ \E s \in Subscriptions : Insert(r, s)
    BY <2>5 DEF Challenge, RecordVerification, Rotate, Insert
  <2>. QED
    BY <2>1, <2>2, <2>3, <2>4, <2>5 DEF Step
<1>. QED
  BY <1>1, <1>2, <1>3 DEF IdsAreOwn

(* A row that was there may go, and never comes back. *)
LEMMA StepOnStatus ==
  ASSUME IInv, NEW r \in Requests, Step(r), NEW s \in Subscriptions, sub[s].status # "absent"
  PROVE  sub'[s].status # "absent" /\ (Exists(s)' => Exists(s))
<1>. USE DEF IInv, TypeOK, Exists, Live, TargetOf, RowOf, Row, NoRow
<1>1. CASE Load(r) \/ Begin(r) \/ Complete(r) \/ Fail(r)
  BY <1>1 DEF Load, LoadRow, Begin, Complete, Fail, tables
<1>2. ASSUME NEW t \in Subscriptions, Insert(r, t)
      PROVE  sub'[s].status # "absent" /\ (Exists(s)' => Exists(s))
  BY <1>2 DEF Insert
<1>3. CASE Challenge(r) \/ Resolve(r) \/ Queue(r) \/ Dispatch(r) \/ Report(r)
  BY <1>3 DEF Challenge, Resolve, Queue, Dispatch, Report, tables
<1>4. CASE RecordVerification(r)
  BY <1>4 DEF RecordVerification, Update
<1>5. CASE Rotate(r)
  BY <1>5 DEF Rotate, Update
<1>6. CASE Enable(r) \/ Disable(r)
  BY <1>6 DEF Enable, Disable, Update
<1>7. CASE Delete(r)
  BY <1>7 DEF Delete
<1>. QED
  BY <1>1, <1>2, <1>3, <1>4, <1>5, <1>6, <1>7 DEF Step

(* Only a dispatch makes an event heard. *)
LEMMA StepOnHeard ==
  ASSUME IInv, NEW r \in Requests, Step(r)
  PROVE  /\ heard \subseteq heard'
         /\ \A e \in heard' \ heard :
              /\ pc[r] = "dispatching" /\ pc'[r] = "reporting"
              /\ e.id = work[r].id /\ e.of = TargetOf(r) /\ e.key = call[r].key
<1>1. CASE Dispatch(r)
  BY <1>1 DEF Dispatch, Goto, IInv, TypeOK
<1>2. CASE Load(r) \/ Begin(r) \/ Complete(r) \/ Fail(r) \/ Challenge(r) \/ RecordVerification(r) \/ Rotate(r)
           \/ Resolve(r) \/ Queue(r) \/ Report(r)
           \/ Enable(r) \/ Disable(r) \/ Delete(r) \/ \E s \in Subscriptions : Insert(r, s)
  BY <1>2 DEF Load, LoadRow, Begin, Complete, Fail, Insert, Challenge, RecordVerification, Rotate,
              Resolve, Queue, Report, Enable, Disable, Delete, receivers
<1>. QED
  BY <1>1, <1>2 DEF Step

(* A delivery stays as long as its row is there, but that its report       *)
(* replaces it; and it is told "delivered" of one that was answered.       *)
LEMMA StepOnDeliveries ==
  ASSUME IInv, NEW r \in Requests, Step(r)
  PROVE  /\ \A d \in delivery : Exists(d.of)' =>
              \/ d \in delivery'
              \/ /\ pc[r] = "reporting" /\ d.id = work[r].id
                 /\ \E f \in delivery' : f.id = d.id /\ f.of = d.of /\ f.status # "rejected"
         /\ \A d \in delivery' \ delivery : d.status = "delivered" =>
              pc[r] = "reporting" /\ work[r].outcome = "ok" /\ d.id = work[r].id
<1>1. CASE Queue(r)
  BY <1>1 DEF Queue, DeliveryOf
<1>2. CASE Report(r)
  <2>. DEFINE told == DeliveryOf(r, IF work[r].outcome = "ok" THEN "delivered" ELSE "failed")
  <2>1. /\ told.id = work[r].id /\ told.of = TargetOf(r) /\ told.status # "rejected"
        /\ told.status = "delivered" => work[r].outcome = "ok"
    BY DEF DeliveryOf
  <2>2. DeliveryOf(r, "queued").id = work[r].id /\ DeliveryOf(r, "queued").of = TargetOf(r)
    BY DEF DeliveryOf
  <2>3. pc[r] = "reporting" /\ delivery' = (delivery \ {DeliveryOf(r, "queued")}) \cup {told}
    BY <1>2 DEF Report
  <2>. HIDE DEF told
  <2>. QED
    BY <2>1, <2>2, <2>3
<1>3. CASE Delete(r)
  <2>1. sub' = [sub EXCEPT ![TargetOf(r)] = [NoRow EXCEPT !.status = "deleted"]]
        /\ delivery' = {d \in delivery : d.of # TargetOf(r)}
    BY <1>3 DEF Delete
  <2>2. \A d \in delivery : d.of = TargetOf(r) => ~Exists(d.of)'
    BY <2>1 DEF Exists, Live, NoRow, IInv, TypeOK, Delivery
  <2>. QED
    BY <2>1, <2>2
<1>4. CASE Load(r) \/ Begin(r) \/ Complete(r) \/ Fail(r) \/ Challenge(r) \/ RecordVerification(r) \/ Rotate(r)
           \/ Resolve(r) \/ Dispatch(r)
           \/ Enable(r) \/ Disable(r) \/ \E s \in Subscriptions : Insert(r, s)
  BY <1>4 DEF Load, LoadRow, Begin, Complete, Fail, Insert, Challenge, RecordVerification, Rotate,
              Resolve, Dispatch, Enable, Disable, tables
<1>. QED
  BY <1>1, <1>2, <1>3, <1>4 DEF Step

LEMMA HandlersStillKnow ==
  ASSUME IInv, KeyIsHeld, IdsAreOwn, HandlersKnow, HeardIsKept, NEW r \in Requests, Step(r)
  PROVE  HandlersKnow'
<1>. SUFFICES ASSUME NEW q \in Requests
     PROVE  /\ pc'[q] \in AfterTest \/ (pc'[q] = "beginning" /\ call'[q].operation = "test") =>
                 call'[q].operation = "test" /\ sub'[TargetOf(q)'].status # "absent"
            /\ pc'[q] = "dispatching" /\ Exists(TargetOf(q))' => DeliveryOf(q, "queued")' \in delivery'
            /\ pc'[q] \in {"resolving", "queueing", "dispatching"} => \A e \in heard' : e.key # call'[q].key
            /\ pc'[q] = "reporting" /\ work'[q].outcome = "ok" => \E e \in heard' : e.id = work'[q].id /\ e.ok
  BY DEF HandlersKnow
<1>1. CASE q # r
  <2>1. pc'[q] = pc[q] /\ call'[q] = call[q] /\ work'[q] = work[q] /\ TargetOf(q)' = TargetOf(q)
    BY <1>1, OthersStand DEF TargetOf
  <2>2. pc[q] \in AfterTest \/ pc[q] = "beginning" => TargetOf(q) \in Subscriptions
    BY CallKinds DEF IInv, CallFits, AfterTest, TargetOf
  <2>3. DeliveryOf(q, "queued")' = DeliveryOf(q, "queued")
        /\ DeliveryOf(q, "queued").of = TargetOf(q) /\ DeliveryOf(q, "queued").id = work[q].id
    BY <2>1 DEF DeliveryOf
  <2>4. pc[q] \in AfterTest \/ (pc[q] = "beginning" /\ call[q].operation = "test") =>
          /\ call[q].operation = "test"
          /\ sub[TargetOf(q)].status # "absent" /\ sub'[TargetOf(q)].status # "absent"
          /\ Exists(TargetOf(q))' => Exists(TargetOf(q))
    BY <2>1, <2>2, StepOnStatus DEF HandlersKnow, Exists
  <2>5. pc'[q] = "dispatching" /\ Exists(TargetOf(q))' => DeliveryOf(q, "queued")' \in delivery'
    <3>. SUFFICES ASSUME pc[q] = "dispatching", Exists(TargetOf(q))' PROVE DeliveryOf(q, "queued") \in delivery'
      BY <2>1, <2>3
    <3>1. DeliveryOf(q, "queued") \in delivery
      BY <2>1, <2>4 DEF HandlersKnow, AfterTest
    <3>2. pc[r] = "reporting" => work[r].id # work[q].id
      BY <1>1 DEF IdsAreOwn, Sending
    <3>3. Exists(DeliveryOf(q, "queued").of)'
      BY <2>1, <2>3
    <3>. QED
      BY <2>3, <3>1, <3>2, <3>3, StepOnDeliveries
  <2>6. pc'[q] \in {"resolving", "queueing", "dispatching"} => \A e \in heard' : e.key # call'[q].key
    <3>. SUFFICES ASSUME pc[q] \in {"resolving", "queueing", "dispatching"}, NEW e \in heard'
                 PROVE  e.key # call[q].key
      BY <2>1
    <3>1. pc[r] = "dispatching" => call[r].operation = "test" /\ EntryOf(r) # EntryOf(q)
      BY <1>1 DEF HandlersKnow, KeyIsHeld, Holding, AfterTest
    <3>. QED
      BY <2>4, <3>1, StepOnHeard DEF HandlersKnow, EntryOf, AfterTest
  <2>7. pc'[q] = "reporting" /\ work'[q].outcome = "ok" => \E e \in heard' : e.id = work'[q].id /\ e.ok
    <3>. SUFFICES ASSUME pc[q] = "reporting", work[q].outcome = "ok"
                 PROVE  \E e \in heard' : e.id = work[q].id /\ e.ok
      BY <2>1
    <3>1. PICK e \in heard : e.id = work[q].id /\ e.ok
      BY DEF HandlersKnow
    <3>. QED
      BY <3>1, StepOnHeard
  <2>. QED
    BY <2>1, <2>4, <2>5, <2>6, <2>7
<1>2. CASE q = r
  <2>. USE DEF IInv, TypeOK, Goto, Return, TargetOf
  <2>. pc[r] # "idle" => call[r] \in Call /\ TargetOf(r) \in Subscriptions
    BY CallKinds DEF CallFits
  <2>1. CASE Load(r)
    BY <1>2, <2>1 DEF Load, LoadRow, HandlersKnow, AfterTest, Exists, Live, tables
  <2>2. CASE Begin(r)
    <3>1. pc'[r] \notin AfterTest \ {"resolving"} /\ pc'[r] # "beginning"
      BY <2>2, CallKinds DEF Begin, CallFits, Keyed, AfterTest
    <3>2. pc'[r] = "resolving" => call[r].operation = "test"
      BY <2>2, CallKinds DEF Begin, CallFits, Keyed, AfterTest
    <3>3. call[r].operation = "test" => \A e \in heard : e.key # call[r].key
      BY <2>2 DEF Begin, HeardIsKept, EntryOf
    <3>. QED
      BY <1>2, <2>2, <3>1, <3>2, <3>3 DEF Begin, HandlersKnow, AfterTest, tables, receivers
  <2>3. CASE Complete(r) \/ Fail(r) \/ Enable(r) \/ Disable(r) \/ Delete(r)
    BY <1>2, <2>3 DEF Complete, Fail, Enable, Disable, Delete, AfterTest
  <2>4. CASE Challenge(r) \/ RecordVerification(r) \/ Rotate(r) \/ \E s \in Subscriptions : Insert(r, s)
    BY <1>2, <2>4 DEF Challenge, RecordVerification, Rotate, Insert, AfterTest
  <2>5. CASE Resolve(r)
    BY <1>2, <2>5 DEF Resolve, HandlersKnow, AfterTest, receivers
  <2>6. CASE Queue(r)
    BY <1>2, <2>6 DEF Queue, HandlersKnow, AfterTest, DeliveryOf, receivers
  <2>7. CASE Dispatch(r)
    <3>. SUFFICES /\ call[r].operation = "test" /\ sub[TargetOf(r)].status # "absent"
                  /\ work'[r].outcome = "ok" => \E e \in heard' : e.id = work'[r].id /\ e.ok
      BY <1>2, <2>7 DEF Dispatch, AfterTest, tables
    <3>1. call[r].operation = "test" /\ sub[TargetOf(r)].status # "absent"
      BY <2>7 DEF Dispatch, HandlersKnow, AfterTest
    <3>2. ASSUME work'[r].outcome = "ok" PROVE \E e \in heard' : e.id = work'[r].id /\ e.ok
      <4>1. work'[r].id = work[r].id
        BY <2>7 DEF Dispatch
      <4>2. heard' = heard \cup {[id |-> work[r].id, of |-> TargetOf(r), key |-> call[r].key, ok |-> TRUE]}
        BY <2>7, <3>2 DEF Dispatch
      <4>3. [id |-> work[r].id, of |-> TargetOf(r), key |-> call[r].key, ok |-> TRUE].ok
        OBVIOUS
      <4>. QED
        BY <4>1, <4>2, <4>3
    <3>. QED
      BY <3>1, <3>2
  <2>8. CASE Report(r)
    BY <1>2, <2>8 DEF Report, AfterTest
  <2>. QED
    BY <2>1, <2>2, <2>3, <2>4, <2>5, <2>6, <2>7, <2>8 DEF Step
<1>. QED
  BY <1>1, <1>2

LEMMA HeardStaysKept ==
  ASSUME IInv, KeyIsHeld, HandlersKnow, HeardIsKept, NEW r \in Requests, Step(r)
  PROVE  HeardIsKept'
<1>1. ASSUME NEW e \in heard'
      PROVE  /\ sub'[e.of].status # "absent"
             /\ Exists(e.of)' => \E d \in delivery' : d.id = e.id /\ d.of = e.of /\ d.status # "rejected"
             /\ ledger'[<<"test", e.key>>].stage # "open"
  <2>1. /\ e.key \in Keys /\ e.of \in Subscriptions /\ sub[e.of].status # "absent"
        /\ Exists(e.of) => \E d \in delivery : d.id = e.id /\ d.of = e.of /\ d.status # "rejected"
        /\ ledger[<<"test", e.key>>].stage # "open"
    <3>1. CASE e \in heard
      BY <3>1 DEF HeardIsKept, IInv, TypeOK
    <3>2. CASE e \notin heard
      <4>1. /\ pc[r] = "dispatching"
            /\ e.id = work[r].id /\ e.of = TargetOf(r) /\ e.key = call[r].key
        BY <3>2, StepOnHeard
      <4>2. /\ call[r].operation = "test" /\ sub[TargetOf(r)].status # "absent"
            /\ Exists(TargetOf(r)) => DeliveryOf(r, "queued") \in delivery
        BY <4>1 DEF HandlersKnow, AfterTest
      <4>3. ledger[<<"test", e.key>>].stage = "started"
        BY <4>1, <4>2 DEF KeyIsHeld, Holding, AfterTest, EntryOf
      <4>4. TargetOf(r) \in Subscriptions /\ call[r].key \in Keys
        BY <4>1, <4>2, CallKinds DEF IInv, CallFits, TargetOf, Keyed
      <4>. QED
        BY <4>1, <4>2, <4>3, <4>4 DEF DeliveryOf
    <3>. QED
      BY <3>1, <3>2
  <2>2. sub'[e.of].status # "absent" /\ (Exists(e.of)' => Exists(e.of))
    BY <2>1, StepOnStatus
  <2>3. Exists(e.of)' => \E d \in delivery' : d.id = e.id /\ d.of = e.of /\ d.status # "rejected"
    BY <2>1, <2>2, StepOnDeliveries
  <2>4. ledger'[<<"test", e.key>>].stage # "open"
    <3>1. <<"test", e.key>> \in Keyed \X Keys
      BY <2>1 DEF Keyed
    <3>. QED
      BY <2>1, <3>1, StepOnLedger DEF IInv, TypeOK, Entry
  <2>. QED
    BY <2>2, <2>3, <2>4
<1>2. ASSUME NEW d \in delivery', d.status = "delivered"
      PROVE  \E e \in heard' : e.id = d.id /\ e.ok
  BY <1>2, StepOnDeliveries, StepOnHeard DEF HeardIsKept, HandlersKnow
<1>3. ASSUME NEW e \in heard', NEW f \in heard', e.key = f.key
      PROVE  e.id = f.id
  BY <1>3, StepOnHeard DEF HeardIsKept, HandlersKnow
<1>. QED
  BY <1>1, <1>2, <1>3 DEF HeardIsKept

-----------------------------------------------------------------------------
Kept == KeyIsHeld /\ SecretIsKept /\ IdsAreOwn /\ HandlersKnow /\ HeardIsKept

(* A request that comes holds nothing yet. *)
LEMMA SendLeavesKept ==
  ASSUME IInv, Kept, NEW r \in Requests, NEW c \in Call, Send(r, c)
  PROVE  Kept'
<1>1. /\ pc[r] = "idle" /\ pc'[r] \in {"beginning", "loading"}
      /\ pc'[r] = "beginning" => c.operation # "test" /\ call'[r] = c
      /\ \A q \in Requests \ {r} : pc'[q] = pc[q] /\ call'[q] = call[q]
      /\ UNCHANGED <<tables, ledger, seen, work, receivers>>
  BY DEF Send, Goto, IInv, TypeOK
<1>2. {"beginning", "loading"} \cap (Holding \cup Sending \cup AfterTest) = {}
  BY DEF Holding, Sending, AfterCreate, AfterTest
<1>3. \A q \in Requests \ {r} : EntryOf(q)' = EntryOf(q) /\ TargetOf(q)' = TargetOf(q)
                                 /\ DeliveryOf(q, "queued")' = DeliveryOf(q, "queued")
  BY <1>1 DEF EntryOf, TargetOf, DeliveryOf
<1>4. KeyIsHeld'
  BY <1>1, <1>2, <1>3 DEF Kept, KeyIsHeld
<1>5. SecretIsKept'
  BY <1>1, <1>3 DEF Kept, SecretIsKept, Exists, tables
<1>6. IdsAreOwn'
  BY <1>1, <1>2 DEF Kept, IdsAreOwn, tables
<1>7. HandlersKnow'
  BY <1>1, <1>2, <1>3 DEF Kept, HandlersKnow, Exists, tables, receivers
<1>8. HeardIsKept'
  BY <1>1 DEF Kept, HeardIsKept, Exists, tables, receivers
<1>. QED
  BY <1>4, <1>5, <1>6, <1>7, <1>8 DEF Kept

THEOREM InitKept == Init => Kept
<1>. SUFFICES ASSUME Init PROVE Kept
  OBVIOUS
<1>1. KeyIsHeld /\ SecretIsKept
  BY DEF Init, KeyIsHeld, SecretIsKept, Holding, AfterCreate, AfterTest, OpenEntry, Exists, Live, NoRow
<1>2. IdsAreOwn /\ HandlersKnow /\ HeardIsKept
  BY DEF Init, IdsAreOwn, HandlersKnow, HeardIsKept, Sending, AfterTest
<1>. QED
  BY <1>1, <1>2 DEF Kept

(* Together with IInv it is inductive. *)
THEOREM NextKeepsKept == IInv /\ Kept /\ [Next]_vars => Kept'
<1>. SUFFICES ASSUME IInv, Kept, [Next]_vars PROVE Kept'
  OBVIOUS
<1>1. CASE UNCHANGED vars
  BY <1>1 DEF Kept, KeyIsHeld, SecretIsKept, IdsAreOwn, HandlersKnow, HeardIsKept, Exists, EntryOf, TargetOf,
              DeliveryOf, vars
<1>2. ASSUME NEW r \in Requests, Step(r) PROVE Kept'
  BY <1>2, KeyStaysHeld, SecretStaysKept, IdsStayOwn, HandlersStillKnow, HeardStaysKept DEF Kept
<1>3. ASSUME NEW r \in Requests, NEW c \in Call, Send(r, c) PROVE Kept'
  BY <1>3, SendLeavesKept
<1>. QED
  BY <1>1, <1>2, <1>3 DEF Next

THEOREM KeptAlways == Spec => []Kept
  BY InitIInv, NextKeepsIInv, InitKept, NextKeepsKept, PTL DEF Spec

(* Wherever a handler of the test route stops, an event that reached a     *)
(* receiver is on record for as long as its subscription is there, is told *)
(* delivered only if it was answered with 2xx, and went out once per key.  *)
THEOREM EventsAreOnRecord == Spec => []EventsAreAccountedFor
<1>1. Kept => EventsAreAccountedFor
  BY DEF Kept, HeardIsKept, EventsAreAccountedFor
<1>. QED
  BY KeptAlways, <1>1, PTL

(* The key under which the current secret of a subscription was drawn is   *)
(* never open again, so that no retry silently changes the secret a second *)
(* time, wherever create and rotate-secret stop.                           *)
THEOREM SecretsHaveKeys == Spec => []SecretHasItsKey
<1>1. TypeOK /\ Kept => SecretHasItsKey
  BY DEF TypeOK, Kept, SecretIsKept, SecretHasItsKey
<1>. QED
  BY TypeCorrect, KeptAlways, <1>1, PTL
=============================================================================
