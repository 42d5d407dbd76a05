--------------------------- MODULE Intake_proofs ----------------------------
(***************************************************************************)
(* Theorems about the two intake clients, each for every value of its      *)
(* constants: the voice controls of a page (VoiceControl) and the lead     *)
(* form with its gateway adapter (Intake).  The two share no state.        *)
(*                                                                         *)
(* VoiceControl: type correctness for any number of pending calls and      *)
(* either kind of host, and what end(), dispose(), setMuted() and the      *)
(* failures that overlap one start() leave behind.  The latter hold as     *)
(* long as start() was called once: a second start() replaces the session  *)
(* id and the stream of the first, and TLC shows each of them violated     *)
(* then; so they are stated of OneLife.  The argument: the one call of     *)
(* start() is the only one that may bring a stream or a session            *)
(* (OneStart), it does not miss an end() it was overtaken by               *)
(* (StartKnowsEnd), and as long as a session lives behind "ended" it has a *)
(* stop() ahead (EndWaitsForStop).                                         *)
(*                                                                         *)
(* Intake: a lead is recorded under the submission's own key (LeadsInv);   *)
(* the cache never keeps a token for longer than it lasts (TokensInv), so  *)
(* that a token which is forwarded had Skew left (Holds); a request on its *)
(* way is of an attempt there has been (Sent); and a page whose button is  *)
(* disabled waits for an answer (PageInv).                                 *)
(***************************************************************************)
EXTENDS VoiceControl, Intake, FiniteSetTheorems, TLAPS

Starting == {"permission", "start", "lateStop", "attach", "failedStop"}

(* What a call works on has been started. *)
IdsAreStarted ==
  /\ sessionId <= starts /\ stream <= starts
  /\ mic \cup live \cup late \cup stopped \subseteq 1..starts
  /\ \A c \in Calls :
       /\ call[c].id <= starts
       /\ call[c].at \in Starting \cup {"stop"} => call[c].id # 0

TypeInv == TypeOK /\ IdsAreStarted

OneStart ==
  /\ starts = 0 => state \in {"idle", "ended"} /\ \A c \in Calls : call[c].at \notin Starting
  /\ starts # 0 => state # "idle"
  /\ \A c, d \in Calls : call[c].at \in Starting /\ call[d].at \in Starting => c = d
  /\ \A c \in Calls :
       /\ call[c].at \in {"permission", "start"} => sessionId = 0
       /\ call[c].at \in {"mute", "stop"} => sessionId # 0

StartKnowsEnd ==
  \A c \in Calls :
    /\ call[c].at = "start" => /\ state \in {"connecting", "ended"}
                               /\ state = "ended" \/ call[c].overtaken => endRequested
    /\ call[c].at = "permission" => ~call[c].overtaken

EndWaitsForStop ==
  /\ state = "ended" =>
       mic = {} /\ (live = {} \/ \E c \in Calls : call[c].at \in {"lateStop", "failedStop"})
  /\ late \subseteq stopped \/ \E c \in Calls : call[c].at = "lateStop"

WithinOneLife == OneLife => OneStart /\ StartKnowsEnd /\ NothingEscapes /\ EndWaitsForStop

IInv == TypeInv /\ WithinOneLife

(* The type invariant, variable by variable. *)
Typed ==
  /\ state \in States
  /\ muted \in BOOLEAN /\ endRequested \in BOOLEAN /\ enabled \in BOOLEAN /\ disposed \in BOOLEAN
  /\ stream \in Ids /\ sessionId \in Ids /\ starts \in Ids
  /\ call \in [Calls -> Call]
  /\ mic \subseteq 1..MaxStarts /\ live \subseteq 1..MaxStarts
  /\ late \subseteq 1..MaxStarts /\ stopped \subseteq 1..MaxStarts

LEMMA TypedIsTypeOK == Typed <=> TypeOK
<1>1. {muted, endRequested, enabled, disposed} \subseteq BOOLEAN
      <=> muted \in BOOLEAN /\ endRequested \in BOOLEAN /\ enabled \in BOOLEAN /\ disposed \in BOOLEAN
  OBVIOUS
<1>2. {stream, sessionId, starts} \subseteq Ids <=> stream \in Ids /\ sessionId \in Ids /\ starts \in Ids
  OBVIOUS
<1>3. UNION {mic, live, late, stopped} \subseteq 1..MaxStarts
      <=> /\ mic \subseteq 1..MaxStarts /\ live \subseteq 1..MaxStarts
          /\ late \subseteq 1..MaxStarts /\ stopped \subseteq 1..MaxStarts
  OBVIOUS
<1>. QED
  BY <1>1, <1>2, <1>3, Zenon DEF TypeOK, Typed

LEMMA TypedIsTypeOKNext == Typed' <=> TypeOK'
BY TypedIsTypeOK, PTL

-----------------------------------------------------------------------------
(* What becomes of the pending calls.                                      *)
LEMMA NoCallType ==
  NoCall \in Call /\ NoCall.at = "nothing" /\ NoCall.id = 0 /\ ~NoCall.overtaken
<1>1. NoCall.at = "nothing" /\ NoCall.id = 0 /\ ~NoCall.overtaken
  BY DEF NoCall
<1>2. NoCall \in Call
  BY VoiceAssumption DEF NoCall, Call, Waits, Ids
<1>. QED
  BY <1>1, <1>2

(* A call that awaits something. *)
LEMMA CallAwaits ==
  ASSUME call \in [Calls -> Call], NEW c \in Calls, NEW wait \in Waits, NEW id \in Ids, Awaits(c, wait, id)
  PROVE  /\ call' \in [Calls -> Call]
         /\ call'[c].at = wait /\ call'[c].id = id /\ ~call'[c].overtaken
         /\ \A d \in Calls \ {c} : call'[d] = call[d]
<1>. DEFINE new == [NoCall EXCEPT !.at = wait, !.id = id]
<1>1. new \in Call
  <2>1. [NoCall EXCEPT !.at = wait] \in Call
    BY NoCallType DEF Call
  <2>2. new = [[NoCall EXCEPT !.at = wait] EXCEPT !.id = id]
    OBVIOUS
  <2>. QED
    BY <2>1, <2>2 DEF Call
<1>2. new.at = wait /\ new.id = id /\ ~new.overtaken
  BY DEF NoCall
<1>3. call' = [call EXCEPT ![c] = new]
  BY DEF Awaits
<1>. HIDE DEF new
<1>. QED
  BY <1>1, <1>2, <1>3

(* A call that has settled. *)
LEMMA CallSettles ==
  ASSUME call \in [Calls -> Call], NEW c \in Calls, Settles(c)
  PROVE  /\ call' \in [Calls -> Call]
         /\ call'[c].at = "nothing" /\ call'[c].id = 0 /\ ~call'[c].overtaken
         /\ \A d \in Calls \ {c} : call'[d] = call[d]
BY NoCallType DEF Settles

(* A call that moves on to its next await. *)
LEMMA CallMoves ==
  ASSUME call \in [Calls -> Call], NEW c \in Calls, NEW wait \in Waits, call' = [call EXCEPT ![c].at = wait]
  PROVE  /\ call' \in [Calls -> Call]
         /\ call'[c].at = wait /\ call'[c].id = call[c].id /\ (call'[c].overtaken <=> call[c].overtaken)
         /\ \A d \in Calls \ {c} : call'[d] = call[d]
<1>. DEFINE new == [call[c] EXCEPT !.at = wait]
<1>1. new \in Call /\ new.at = wait /\ new.id = call[c].id /\ new.overtaken = call[c].overtaken
  BY DEF Call
<1>2. call' = [call EXCEPT ![c] = new]
  OBVIOUS
<1>. HIDE DEF new
<1>. QED
  BY <1>1, <1>2


(* The calls that an end() overtakes. *)
LEMMA CallsOvertaken ==
  ASSUME call \in [Calls -> Call],
         call' = [d \in Calls |-> [call[d] EXCEPT !.overtaken = @ \/ call[d].at = "start"]]
  PROVE  /\ call' \in [Calls -> Call]
         /\ \A d \in Calls : /\ call'[d].at = call[d].at /\ call'[d].id = call[d].id
                             /\ call'[d].overtaken => call[d].overtaken \/ call[d].at = "start"
<1>. DEFINE new(d) == [call[d] EXCEPT !.overtaken = @ \/ call[d].at = "start"]
<1>1. ASSUME NEW d \in Calls
      PROVE  /\ new(d) \in Call /\ new(d).at = call[d].at /\ new(d).id = call[d].id
             /\ new(d).overtaken => call[d].overtaken \/ call[d].at = "start"
  BY DEF Call
<1>2. call' = [d \in Calls |-> new(d)]
  OBVIOUS
<1>. HIDE DEF new
<1>. QED
  BY <1>1, <1>2

(* And those that it overtakes while it awaits its own stop(). *)
LEMMA CallsOvertakenByStop ==
  ASSUME call \in [Calls -> Call], NEW c \in Calls, NEW id \in Ids,
         call' = [d \in Calls |-> IF d = c THEN [NoCall EXCEPT !.at = "stop", !.id = id]
                                  ELSE [call[d] EXCEPT !.overtaken = @ \/ call[d].at = "start"]]
  PROVE  /\ call' \in [Calls -> Call]
         /\ call'[c].at = "stop" /\ call'[c].id = id /\ ~call'[c].overtaken
         /\ \A d \in Calls \ {c} : /\ call'[d].at = call[d].at /\ call'[d].id = call[d].id
                                   /\ call'[d].overtaken => call[d].overtaken \/ call[d].at = "start"
<1>. DEFINE new(d) == [call[d] EXCEPT !.overtaken = @ \/ call[d].at = "start"]
            stop == [NoCall EXCEPT !.at = "stop", !.id = id]
<1>1. ASSUME NEW d \in Calls
      PROVE  /\ new(d) \in Call /\ new(d).at = call[d].at /\ new(d).id = call[d].id
             /\ new(d).overtaken => call[d].overtaken \/ call[d].at = "start"
  BY DEF Call
<1>2. stop \in Call /\ stop.at = "stop" /\ stop.id = id /\ ~stop.overtaken
  <2>1. stop.at = "stop" /\ stop.id = id /\ ~stop.overtaken
    BY DEF NoCall
  <2>2. "stop" \in Waits
    BY DEF Waits
  <2>3. [NoCall EXCEPT !.at = "stop"] \in Call
    BY NoCallType, <2>2 DEF Call
  <2>4. stop = [[NoCall EXCEPT !.at = "stop"] EXCEPT !.id = id]
    OBVIOUS
  <2>. QED
    BY <2>1, <2>3, <2>4 DEF Call
<1>3. call' = [d \in Calls |-> IF d = c THEN stop ELSE new(d)]
  OBVIOUS
<1>. HIDE DEF new, stop
<1>. QED
  BY <1>1, <1>2, <1>3

(* A call of setMuted(). *)
LEMMA CallMutes ==
  ASSUME call \in [Calls -> Call], NEW c \in Calls, NEW id \in Ids, NEW to \in BOOLEAN, NEW before \in BOOLEAN,
         call' = [call EXCEPT ![c] = [NoCall EXCEPT !.at = "mute", !.id = id, !.to = to, !.before = before]]
  PROVE  /\ call' \in [Calls -> Call]
         /\ call'[c].at = "mute" /\ call'[c].id = id /\ ~call'[c].overtaken
         /\ \A d \in Calls \ {c} : call'[d] = call[d]
<1>. DEFINE mute == [NoCall EXCEPT !.at = "mute", !.id = id, !.to = to, !.before = before]
<1>1. mute.at = "mute" /\ mute.id = id /\ ~mute.overtaken
  BY DEF NoCall
<1>2. mute \in Call
  <2>1. NoCall \in Call /\ "mute" \in Waits
    BY NoCallType DEF Waits
  <2>2. [NoCall EXCEPT !.at = "mute"] \in Call
    BY <2>1 DEF Call
  <2>3. [[NoCall EXCEPT !.at = "mute"] EXCEPT !.id = id] \in Call
    BY <2>2 DEF Call
  <2>4. [[[NoCall EXCEPT !.at = "mute"] EXCEPT !.id = id] EXCEPT !.to = to] \in Call
    BY <2>3 DEF Call
  <2>5. [[[[NoCall EXCEPT !.at = "mute"] EXCEPT !.id = id] EXCEPT !.to = to] EXCEPT !.before = before] \in Call
    BY <2>4 DEF Call
  <2>. QED
    BY <2>5, Zenon
<1>3. call' = [call EXCEPT ![c] = mute]
  OBVIOUS
<1>. HIDE DEF mute
<1>. QED
  BY <1>1, <1>2, <1>3

-----------------------------------------------------------------------------
(* At first there is nothing. *)
THEOREM InitIInv == Init => IInv
<1>. SUFFICES ASSUME Init PROVE IInv
  OBVIOUS
<1>1. call = [c \in Calls |-> NoCall] /\ \A c \in Calls : call[c] = NoCall
  BY DEF Init
<1>2. TypeOK
  <2>1. 0 \in Ids /\ "idle" \in States
    BY VoiceAssumption DEF Ids, States
  <2>2. Typed
    BY <1>1, <2>1, NoCallType DEF Init, Typed
  <2>. QED
    BY <2>2, TypedIsTypeOK
<1>3. IdsAreStarted
  BY <1>1, NoCallType DEF Init, IdsAreStarted, Starting
<1>4. WithinOneLife
  BY <1>1, NoCallType DEF Init, WithinOneLife, OneLife, OneStart, StartKnowsEnd, NothingEscapes,
     EndWaitsForStop, Starting
<1>. QED
  BY <1>2, <1>3, <1>4 DEF IInv, TypeInv

-----------------------------------------------------------------------------
(* Each step keeps the invariant. *)
LEMMA StartKeeps ==
  ASSUME IInv, NEW c \in Calls, Start(c)
  PROVE  IInv'
<1>. DEFINE wait == IF stream = 0 THEN "permission" ELSE "start"
<1>1. /\ call[c].at = "nothing" /\ starts < MaxStarts /\ endRequested' = FALSE /\ starts' = starts + 1
      /\ state' = IF stream = 0 THEN "requesting_permission" ELSE "connecting"
      /\ Awaits(c, wait, starts + 1)
      /\ UNCHANGED <<muted, stream, enabled, mic, sessionId, live, late, stopped, disposed>>
  BY DEF Start, Free, track, remote
<1>2. Typed /\ starts \in Nat /\ starts + 1 \in Ids /\ wait \in Waits /\ starts' # 0
  BY <1>1, VoiceAssumption, TypedIsTypeOK DEF IInv, TypeInv, Typed, Ids, Waits
<1>3. /\ call' \in [Calls -> Call]
      /\ call'[c].at = wait /\ call'[c].id = starts + 1 /\ ~call'[c].overtaken
      /\ \A d \in Calls \ {c} : call'[d] = call[d]
  BY <1>1, <1>2, CallAwaits DEF Typed
<1>4. TypeOK'
  <2>1. Typed'
    BY <1>1, <1>2, <1>3 DEF Typed, States
  <2>. QED
    BY <2>1, TypedIsTypeOKNext
<1>5. IdsAreStarted'
  BY <1>1, <1>2, <1>3 DEF IInv, TypeInv, IdsAreStarted, Typed, Starting, Ids, Call
<1>6. WithinOneLife'
  <2>. SUFFICES ASSUME OneLife' PROVE (OneStart /\ StartKnowsEnd /\ NothingEscapes /\ EndWaitsForStop)'
    BY DEF WithinOneLife
  <2>1. starts = 0 /\ sessionId = 0 /\ stream = 0 /\ mic = {} /\ live = {} /\ late = {}
    BY <1>1, <1>2 DEF IInv, TypeInv, IdsAreStarted, OneLife, Typed, Ids
  <2>2. OneStart /\ StartKnowsEnd /\ NothingEscapes /\ EndWaitsForStop
    BY <2>1 DEF IInv, WithinOneLife, OneLife
  <2>3. OneStart'
    BY <1>1, <1>3, <2>1, <2>2 DEF OneStart, Starting
  <2>4. StartKnowsEnd'
    BY <1>1, <1>3, <2>1, <2>2 DEF OneStart, StartKnowsEnd, Starting
  <2>5. NothingEscapes'
    BY <1>1, <2>1, <2>2 DEF NothingEscapes, IInv, WithinOneLife, OneLife
  <2>6. EndWaitsForStop'
    BY <1>1, <1>3, <2>1 DEF OneStart, EndWaitsForStop, Starting
  <2>. QED
    BY <2>3, <2>4, <2>5, <2>6
<1>. QED
  BY <1>4, <1>5, <1>6 DEF IInv, TypeInv

LEMMA MicrophoneGrantedKeeps ==
  ASSUME IInv, NEW c \in Calls, MicrophoneGranted(c)
  PROVE  IInv'
<1>1. /\ call[c].at = "permission" /\ stream' = call[c].id /\ mic' = mic \cup {call[c].id}
      /\ enabled' = TRUE /\ state' = "connecting" /\ call' = [call EXCEPT ![c].at = "start"]
      /\ UNCHANGED <<muted, endRequested, sessionId, live, late, stopped, starts, disposed>>
  BY DEF MicrophoneGranted, remote, once
<1>2. Typed /\ call[c].id \in 1..starts /\ starts \in 0..MaxStarts
  BY <1>1, VoiceAssumption, TypedIsTypeOK DEF IInv, TypeInv, IdsAreStarted, Typed, Ids, Starting, Call
<1>3. /\ call' \in [Calls -> Call]
      /\ call'[c].at = "start" /\ call'[c].id = call[c].id /\ (call'[c].overtaken <=> call[c].overtaken)
      /\ \A d \in Calls \ {c} : call'[d] = call[d]
  BY <1>1, <1>2, CallMoves DEF Typed, Waits
<1>4. TypeOK'
  <2>1. Typed'
    BY <1>1, <1>2, <1>3, VoiceAssumption DEF Typed, States, Ids
  <2>. QED
    BY <2>1, TypedIsTypeOKNext
<1>5. IdsAreStarted'
  BY <1>1, <1>2, <1>3, VoiceAssumption DEF IInv, TypeInv, IdsAreStarted, Typed, Starting, Ids, Call
<1>6. WithinOneLife'
  <2>. SUFFICES ASSUME OneLife' PROVE (OneStart /\ StartKnowsEnd /\ NothingEscapes /\ EndWaitsForStop)'
    BY DEF WithinOneLife
  <2>1. OneStart /\ StartKnowsEnd /\ NothingEscapes /\ EndWaitsForStop /\ sessionId = 0
    BY <1>1 DEF IInv, WithinOneLife, OneLife, OneStart
  <2>2. mic \subseteq {call[c].id} /\ starts # 0
    BY <1>1, <1>2 DEF IInv, TypeInv, IdsAreStarted, OneLife
  <2>3. OneStart'
    BY <1>1, <1>3, <2>1, <2>2 DEF OneStart, Starting
  <2>4. StartKnowsEnd'
    BY <1>1, <1>3, <2>1 DEF OneStart, StartKnowsEnd, Starting
  <2>5. NothingEscapes'
    BY <1>1, <2>1, <2>2 DEF NothingEscapes, IInv, WithinOneLife, OneLife
  <2>6. EndWaitsForStop'
    BY <1>1, <1>3, <2>1 DEF OneStart, EndWaitsForStop, Starting
  <2>. QED
    BY <2>3, <2>4, <2>5, <2>6
<1>. QED
  BY <1>4, <1>5, <1>6 DEF IInv, TypeInv

LEMMA MicrophoneDeniedKeeps ==
  ASSUME IInv, NEW c \in Calls, MicrophoneDenied(c)
  PROVE  IInv'
<1>1. /\ call[c].at = "permission" /\ state' = "error" /\ Settles(c)
      /\ UNCHANGED <<muted, endRequested, stream, enabled, mic, sessionId, live, late, stopped, starts, disposed>>
  BY DEF MicrophoneDenied, track, remote, once
<1>2. Typed /\ starts \in 0..MaxStarts /\ call[c].id \in 1..starts
  BY <1>1, VoiceAssumption, TypedIsTypeOK DEF IInv, TypeInv, IdsAreStarted, Typed, Ids, Starting, Call
<1>3. /\ call' \in [Calls -> Call]
      /\ call'[c].at = "nothing" /\ call'[c].id = 0 /\ ~call'[c].overtaken
      /\ \A d \in Calls \ {c} : call'[d] = call[d]
  BY <1>1, <1>2, CallSettles DEF Typed
<1>4. TypeOK'
  <2>1. Typed'
    BY <1>1, <1>2, <1>3, VoiceAssumption DEF Typed, States, Ids
  <2>. QED
    BY <2>1, TypedIsTypeOKNext
<1>5. IdsAreStarted'
  BY <1>1, <1>2, <1>3, VoiceAssumption DEF IInv, TypeInv, IdsAreStarted, Typed, Starting, Ids, Call
<1>6. WithinOneLife'
  <2>. SUFFICES ASSUME OneLife' PROVE (OneStart /\ StartKnowsEnd /\ NothingEscapes /\ EndWaitsForStop)'
    BY DEF WithinOneLife
  <2>1. OneStart /\ StartKnowsEnd /\ NothingEscapes /\ EndWaitsForStop
    BY <1>1 DEF IInv, WithinOneLife, OneLife
  <2>2. starts = 1 /\ mic \cup live \cup late \subseteq {call[c].id}
    BY <1>1, <1>2 DEF IInv, TypeInv, IdsAreStarted, OneLife
  <2>3. OneStart'
    BY <1>1, <1>2, <1>3, <2>1, <2>2 DEF OneStart, Starting
  <2>4. StartKnowsEnd'
    BY <1>1, <1>2, <1>3, <2>1, <2>2 DEF OneStart, StartKnowsEnd, Starting
  <2>5. NothingEscapes'
    BY <1>1, <1>2, <1>3, <2>1, <2>2 DEF NothingEscapes, IInv, WithinOneLife, OneLife
  <2>6. EndWaitsForStop'
    BY <1>1, <1>2, <1>3, <2>1, <2>2
       DEF OneStart, NothingEscapes, EndWaitsForStop, Starting, IInv, WithinOneLife, OneLife
  <2>. QED
    BY <2>3, <2>4, <2>5, <2>6
<1>. QED
  BY <1>4, <1>5, <1>6 DEF IInv, TypeInv

LEMMA StartedKeeps ==
  ASSUME IInv, NEW c \in Calls, Started(c)
  PROVE  IInv'
<1>1. /\ call[c].at = "start" /\ sessionId' = call[c].id /\ live' = live \cup {call[c].id}
      /\ late' = IF call[c].overtaken THEN late \cup {call[c].id} ELSE late
      /\ \/ endRequested /\ Awaits(c, "lateStop", call[c].id) /\ state' = state
         \/ ~endRequested /\ Awaits(c, "attach", call[c].id) /\ state' = state
         \/ ~endRequested /\ Settles(c) /\ state' = "connected"
      /\ UNCHANGED <<muted, endRequested, stream, enabled, mic, stopped, starts, disposed>>
  BY DEF Started, StartedOn, track, once
<1>2. Typed /\ starts \in 0..MaxStarts /\ call[c].id \in 1..starts /\ call[c].id \in Ids
  BY <1>1, VoiceAssumption, TypedIsTypeOK DEF IInv, TypeInv, IdsAreStarted, Typed, Ids, Starting, Call
<1>3. /\ call' \in [Calls -> Call] /\ call'[c].id \in {0, call[c].id} /\ ~call'[c].overtaken
      /\ call'[c].at \in {"lateStop", "attach", "nothing"} /\ (call'[c].at # "nothing" => call'[c].id # 0)
      /\ (endRequested => call'[c].at = "lateStop" /\ state' = state)
      /\ \A d \in Calls \ {c} : call'[d] = call[d]
  <2>1. CASE endRequested
    BY <1>1, <1>2, <2>1, CallAwaits DEF Typed, Waits
  <2>2. CASE ~endRequested /\ Awaits(c, "attach", call[c].id)
    BY <1>1, <1>2, <2>2, CallAwaits DEF Typed, Waits
  <2>3. CASE ~endRequested /\ Settles(c)
    BY <1>1, <1>2, <2>3, CallSettles DEF Typed
  <2>. QED
    BY <1>1, <2>1, <2>2, <2>3
<1>4. /\ mic' \cup live' \cup late' \cup stopped' \subseteq 1..starts
      /\ 1..starts \subseteq 1..MaxStarts
  BY <1>1, <1>2, VoiceAssumption DEF IInv, TypeInv, IdsAreStarted
<1>5. TypeOK'
  <2>1. Typed'
    BY <1>1, <1>2, <1>3, <1>4, VoiceAssumption DEF Typed, States, Ids
  <2>. QED
    BY <2>1, TypedIsTypeOKNext
<1>6. IdsAreStarted'
  BY <1>1, <1>2, <1>3, <1>4, VoiceAssumption DEF IInv, TypeInv, IdsAreStarted, Typed, Starting, Ids, Call
<1>7. WithinOneLife'
  <2>. SUFFICES ASSUME OneLife' PROVE (OneStart /\ StartKnowsEnd /\ NothingEscapes /\ EndWaitsForStop)'
    BY DEF WithinOneLife
  <2>1. OneStart /\ StartKnowsEnd /\ NothingEscapes /\ EndWaitsForStop
    BY <1>1 DEF IInv, WithinOneLife, OneLife
  <2>2. starts = 1 /\ mic \cup live \cup late \subseteq {call[c].id}
    BY <1>1, <1>2 DEF IInv, TypeInv, IdsAreStarted, OneLife
  <2>3. OneStart'
    BY <1>1, <1>2, <1>3, <2>1, <2>2 DEF OneStart, Starting
  <2>4. StartKnowsEnd'
    BY <1>1, <1>2, <1>3, <2>1, <2>2 DEF OneStart, StartKnowsEnd, Starting
  <2>5. NothingEscapes'
    BY <1>1, <1>2, <1>3, <2>1, <2>2 DEF NothingEscapes, IInv, WithinOneLife, OneLife
  <2>6. EndWaitsForStop'
    <3>1. CASE endRequested
      BY <1>1, <1>2, <1>3, <2>1, <2>2, <3>1 DEF EndWaitsForStop
    <3>2. CASE ~endRequested
      <4>1. state = "connecting" /\ ~call[c].overtaken /\ late' = late /\ state' # "ended"
        BY <1>1, <2>1, <3>2 DEF StartKnowsEnd
      <4>2. \A d \in Calls : call[d].at # "lateStop"
        BY <1>1, <2>1 DEF OneStart, Starting
      <4>. QED
        BY <1>1, <2>1, <4>1, <4>2 DEF EndWaitsForStop
    <3>. QED
      BY <3>1, <3>2
  <2>. QED
    BY <2>3, <2>4, <2>5, <2>6
<1>. QED
  BY <1>5, <1>6, <1>7 DEF IInv, TypeInv

LEMMA StartFailsKeeps ==
  ASSUME IInv, NEW c \in Calls, StartFails(c)
  PROVE  IInv'
<1>1. /\ call[c].at = "start" /\ mic' = mic \ {stream} /\ stream' = 0 /\ state' = "error" /\ Settles(c)
      /\ UNCHANGED <<muted, endRequested, enabled, sessionId, live, late, stopped, starts, disposed>>
  BY DEF StartFails, StopTracks, remote, once
<1>2. Typed /\ starts \in 0..MaxStarts /\ call[c].id \in 1..starts
  BY <1>1, VoiceAssumption, TypedIsTypeOK DEF IInv, TypeInv, IdsAreStarted, Typed, Ids, Starting, Call
<1>3. /\ call' \in [Calls -> Call]
      /\ call'[c].at = "nothing" /\ call'[c].id = 0 /\ ~call'[c].overtaken
      /\ \A d \in Calls \ {c} : call'[d] = call[d]
  BY <1>1, <1>2, CallSettles DEF Typed
<1>4. TypeOK'
  <2>1. Typed'
    BY <1>1, <1>2, <1>3, VoiceAssumption DEF Typed, States, Ids
  <2>. QED
    BY <2>1, TypedIsTypeOKNext
<1>5. IdsAreStarted'
  BY <1>1, <1>2, <1>3, VoiceAssumption DEF IInv, TypeInv, IdsAreStarted, Typed, Starting, Ids, Call
<1>6. WithinOneLife'
  <2>. SUFFICES ASSUME OneLife' PROVE (OneStart /\ StartKnowsEnd /\ NothingEscapes /\ EndWaitsForStop)'
    BY DEF WithinOneLife
  <2>1. OneStart /\ StartKnowsEnd /\ NothingEscapes /\ EndWaitsForStop
    BY <1>1 DEF IInv, WithinOneLife, OneLife
  <2>2. starts = 1 /\ mic \cup live \cup late \subseteq {call[c].id}
    BY <1>1, <1>2 DEF IInv, TypeInv, IdsAreStarted, OneLife
  <2>3. OneStart'
    BY <1>1, <1>2, <1>3, <2>1, <2>2 DEF OneStart, Starting
  <2>4. StartKnowsEnd'
    BY <1>1, <1>2, <1>3, <2>1, <2>2 DEF OneStart, StartKnowsEnd, Starting
  <2>5. NothingEscapes'
    BY <1>1, <1>2, <1>3, <2>1, <2>2 DEF NothingEscapes, IInv, WithinOneLife, OneLife
  <2>6. EndWaitsForStop'
    BY <1>1, <1>2, <1>3, <2>1, <2>2
       DEF OneStart, NothingEscapes, EndWaitsForStop, Starting, IInv, WithinOneLife, OneLife
  <2>. QED
    BY <2>3, <2>4, <2>5, <2>6
<1>. QED
  BY <1>4, <1>5, <1>6 DEF IInv, TypeInv

LEMMA LateStopKeeps ==
  ASSUME IInv, NEW c \in Calls, LateStop(c)
  PROVE  IInv'
<1>1. /\ call[c].at = "lateStop" /\ stopped' = stopped \cup {call[c].id}
      /\ \/ /\ live' = live \ {call[c].id} /\ mic' = mic \ {stream} /\ stream' = 0
            /\ muted' = FALSE /\ state' = "ended" /\ Settles(c)
         \/ call' = [call EXCEPT ![c].at = "failedStop"] /\ UNCHANGED <<state, muted, stream, mic, live>>
      /\ UNCHANGED <<endRequested, enabled, sessionId, late, starts, disposed>>
  BY DEF LateStop, Stop, StopTracks, track, once
<1>2. Typed /\ starts \in 0..MaxStarts /\ call[c].id \in 1..starts
  BY <1>1, VoiceAssumption, TypedIsTypeOK DEF IInv, TypeInv, IdsAreStarted, Typed, Ids, Starting, Call
<1>3. /\ call' \in [Calls -> Call] /\ call'[c].id \in {0, call[c].id}
      /\ call'[c].at \in {"nothing", "failedStop"} /\ (call'[c].at = "failedStop" => call'[c].id # 0)
      /\ (state' # "ended" => call'[c].at = "failedStop") /\ \A d \in Calls \ {c} : call'[d] = call[d]
      /\ (call'[c].at = "failedStop" => UNCHANGED <<state, mic, stream, live>>)
      /\ (call'[c].at = "nothing" => live' = live \ {call[c].id} /\ mic' = mic \ {stream})
  <2>1. CASE Settles(c) /\ state' = "ended" /\ live' = live \ {call[c].id} /\ mic' = mic \ {stream}
    BY <1>2, <2>1, CallSettles DEF Typed
  <2>2. CASE call' = [call EXCEPT ![c].at = "failedStop"] /\ UNCHANGED <<state, stream, mic, live>>
    <3>1. "failedStop" \in Waits /\ call \in [Calls -> Call]
      BY <1>2 DEF Waits, Typed
    <3>2. /\ call' \in [Calls -> Call] /\ call'[c].at = "failedStop" /\ call'[c].id = call[c].id
          /\ \A d \in Calls \ {c} : call'[d] = call[d]
      BY <2>2, <3>1, CallMoves
    <3>. QED
      BY <1>2, <2>2, <3>2
  <2>. QED
    BY <1>1, <2>1, <2>2
<1>4. /\ mic' \cup live' \cup late' \cup stopped' \subseteq 1..starts
      /\ 1..starts \subseteq 1..MaxStarts
  BY <1>1, <1>2, VoiceAssumption DEF IInv, TypeInv, IdsAreStarted
<1>5. muted' \in BOOLEAN
  BY <1>1, <1>2 DEF Typed
<1>6. TypeOK'
  <2>1. Typed'
    BY <1>1, <1>2, <1>3, <1>4, <1>5, VoiceAssumption DEF Typed, States, Ids
  <2>. QED
    BY <2>1, TypedIsTypeOKNext
<1>7. IdsAreStarted'
  BY <1>1, <1>2, <1>3, <1>4, <1>5, VoiceAssumption DEF IInv, TypeInv, IdsAreStarted, Typed, Starting, Ids, Call
<1>8. WithinOneLife'
  <2>. SUFFICES ASSUME OneLife' PROVE (OneStart /\ StartKnowsEnd /\ NothingEscapes /\ EndWaitsForStop)'
    BY DEF WithinOneLife
  <2>1. OneStart /\ StartKnowsEnd /\ NothingEscapes /\ EndWaitsForStop
    BY <1>1 DEF IInv, WithinOneLife, OneLife
  <2>2. starts = 1 /\ mic \cup live \cup late \subseteq {call[c].id}
    BY <1>1, <1>2 DEF IInv, TypeInv, IdsAreStarted, OneLife
  <2>3. OneStart'
    BY <1>1, <1>2, <1>3, <2>1, <2>2 DEF OneStart, Starting
  <2>4. StartKnowsEnd'
    BY <1>1, <1>2, <1>3, <2>1, <2>2 DEF OneStart, StartKnowsEnd, Starting
  <2>5. NothingEscapes'
    BY <1>1, <1>2, <1>3, <2>1, <2>2 DEF NothingEscapes, IInv, WithinOneLife, OneLife
  <2>6. EndWaitsForStop'
    <3>1. late' \subseteq stopped'
      BY <1>1, <2>2
    <3>2. CASE call'[c].at = "failedStop"
      BY <1>1, <1>3, <2>1, <3>1, <3>2 DEF EndWaitsForStop
    <3>3. CASE call'[c].at # "failedStop"
      <4>1. live' = {} /\ mic' = {}
        BY <1>3, <2>1, <2>2, <3>3 DEF NothingEscapes, IInv, WithinOneLife, OneLife
      <4>. QED
        BY <3>1, <4>1 DEF EndWaitsForStop
    <3>. QED
      BY <3>2, <3>3
  <2>. QED
    BY <2>3, <2>4, <2>5, <2>6
<1>. QED
  BY <1>6, <1>7, <1>8 DEF IInv, TypeInv

LEMMA AttachedKeeps ==
  ASSUME IInv, NEW c \in Calls, Attached(c)
  PROVE  IInv'
<1>1. /\ call[c].at = "attach"
      /\ \/ state' = "connected" /\ Settles(c)
         \/ state' = state /\ call' = [call EXCEPT ![c].at = "failedStop"]
      /\ UNCHANGED <<muted, endRequested, stream, enabled, mic, sessionId, live, late, stopped, starts, disposed>>
  BY DEF Attached, track, remote, once
<1>2. Typed /\ starts \in 0..MaxStarts /\ call[c].id \in 1..starts
  BY <1>1, VoiceAssumption, TypedIsTypeOK DEF IInv, TypeInv, IdsAreStarted, Typed, Ids, Starting, Call
<1>3. /\ call' \in [Calls -> Call] /\ call'[c].id \in {0, call[c].id}
      /\ call'[c].at \in {"nothing", "failedStop"} /\ (call'[c].at = "failedStop" => call'[c].id # 0)
      /\ \A d \in Calls \ {c} : call'[d] = call[d]
  <2>1. CASE Settles(c)
    BY <1>2, <2>1, CallSettles DEF Typed
  <2>2. CASE call' = [call EXCEPT ![c].at = "failedStop"]
    <3>1. "failedStop" \in Waits /\ call \in [Calls -> Call]
      BY <1>2 DEF Waits, Typed
    <3>2. /\ call' \in [Calls -> Call] /\ call'[c].at = "failedStop" /\ call'[c].id = call[c].id
          /\ \A d \in Calls \ {c} : call'[d] = call[d]
      BY <2>2, <3>1, CallMoves
    <3>. QED
      BY <1>2, <2>2, <3>2
  <2>. QED
    BY <1>1, <2>1, <2>2
<1>4. /\ mic' \cup live' \cup late' \cup stopped' \subseteq 1..starts
      /\ 1..starts \subseteq 1..MaxStarts
  BY <1>1, <1>2, VoiceAssumption DEF IInv, TypeInv, IdsAreStarted
<1>5. TypeOK'
  <2>1. Typed'
    BY <1>1, <1>2, <1>3, <1>4, VoiceAssumption DEF Typed, States, Ids
  <2>. QED
    BY <2>1, TypedIsTypeOKNext
<1>6. IdsAreStarted'
  BY <1>1, <1>2, <1>3, <1>4, VoiceAssumption DEF IInv, TypeInv, IdsAreStarted, Typed, Starting, Ids, Call
<1>7. WithinOneLife'
  <2>. SUFFICES ASSUME OneLife' PROVE (OneStart /\ StartKnowsEnd /\ NothingEscapes /\ EndWaitsForStop)'
    BY DEF WithinOneLife
  <2>1. OneStart /\ StartKnowsEnd /\ NothingEscapes /\ EndWaitsForStop
    BY <1>1 DEF IInv, WithinOneLife, OneLife
  <2>2. starts = 1 /\ mic \cup live \cup late \subseteq {call[c].id}
    BY <1>1, <1>2 DEF IInv, TypeInv, IdsAreStarted, OneLife
  <2>3. OneStart'
    BY <1>1, <1>2, <1>3, <2>1, <2>2 DEF OneStart, Starting
  <2>4. StartKnowsEnd'
    BY <1>1, <1>2, <1>3, <2>1, <2>2 DEF OneStart, StartKnowsEnd, Starting
  <2>5. NothingEscapes'
    BY <1>1, <1>2, <1>3, <2>1, <2>2 DEF NothingEscapes, IInv, WithinOneLife, OneLife
  <2>6. EndWaitsForStop'
    BY <1>1, <1>2, <1>3, <2>1, <2>2
       DEF OneStart, NothingEscapes, EndWaitsForStop, Starting, IInv, WithinOneLife, OneLife
  <2>. QED
    BY <2>3, <2>4, <2>5, <2>6
<1>. QED
  BY <1>5, <1>6, <1>7 DEF IInv, TypeInv

LEMMA FailedStopKeeps ==
  ASSUME IInv, NEW c \in Calls, FailedStop(c)
  PROVE  IInv'
<1>1. /\ call[c].at = "failedStop" /\ stopped' = stopped \cup {call[c].id} /\ live' \in {live, live \ {call[c].id}}
      /\ mic' = mic \ {stream} /\ stream' = 0 /\ state' = "error" /\ Settles(c)
      /\ UNCHANGED <<muted, endRequested, enabled, sessionId, late, starts, disposed>>
  BY DEF FailedStop, Stop, StopTracks, once
<1>2. Typed /\ starts \in 0..MaxStarts /\ call[c].id \in 1..starts
  BY <1>1, VoiceAssumption, TypedIsTypeOK DEF IInv, TypeInv, IdsAreStarted, Typed, Ids, Starting, Call
<1>3. /\ call' \in [Calls -> Call]
      /\ call'[c].at = "nothing" /\ call'[c].id = 0 /\ ~call'[c].overtaken
      /\ \A d \in Calls \ {c} : call'[d] = call[d]
  BY <1>1, <1>2, CallSettles DEF Typed
<1>4. /\ mic' \cup live' \cup late' \cup stopped' \subseteq 1..starts
      /\ 1..starts \subseteq 1..MaxStarts
  BY <1>1, <1>2, VoiceAssumption DEF IInv, TypeInv, IdsAreStarted
<1>5. TypeOK'
  <2>1. Typed'
    BY <1>1, <1>2, <1>3, <1>4, VoiceAssumption DEF Typed, States, Ids
  <2>. QED
    BY <2>1, TypedIsTypeOKNext
<1>6. IdsAreStarted'
  BY <1>1, <1>2, <1>3, <1>4, VoiceAssumption DEF IInv, TypeInv, IdsAreStarted, Typed, Starting, Ids, Call
<1>7. WithinOneLife'
  <2>. SUFFICES ASSUME OneLife' PROVE (OneStart /\ StartKnowsEnd /\ NothingEscapes /\ EndWaitsForStop)'
    BY DEF WithinOneLife
  <2>1. OneStart /\ StartKnowsEnd /\ NothingEscapes /\ EndWaitsForStop
    BY <1>1 DEF IInv, WithinOneLife, OneLife
  <2>2. starts = 1 /\ mic \cup live \cup late \subseteq {call[c].id}
    BY <1>1, <1>2 DEF IInv, TypeInv, IdsAreStarted, OneLife
  <2>3. OneStart'
    BY <1>1, <1>2, <1>3, <2>1, <2>2 DEF OneStart, Starting
  <2>4. StartKnowsEnd'
    BY <1>1, <1>2, <1>3, <2>1, <2>2 DEF OneStart, StartKnowsEnd, Starting
  <2>5. NothingEscapes'
    BY <1>1, <1>2, <1>3, <2>1, <2>2 DEF NothingEscapes, IInv, WithinOneLife, OneLife
  <2>6. EndWaitsForStop'
    BY <1>1, <1>2, <1>3, <2>1, <2>2
       DEF OneStart, NothingEscapes, EndWaitsForStop, Starting, IInv, WithinOneLife, OneLife
  <2>. QED
    BY <2>3, <2>4, <2>5, <2>6
<1>. QED
  BY <1>5, <1>6, <1>7 DEF IInv, TypeInv

LEMMA SetMutedKeeps ==
  ASSUME IInv, NEW c \in Calls, NEW to \in BOOLEAN, SetMuted(c, to)
  PROVE  IInv'
<1>1. /\ call[c].at = "nothing" /\ sessionId # 0 /\ state \in {"connected", "muted"} /\ enabled' = ~to
      /\ call' = [call EXCEPT ![c] = [NoCall EXCEPT !.at = "mute", !.id = stream, !.to = to, !.before = enabled]]
      /\ UNCHANGED <<state, muted, endRequested, stream, mic, sessionId, live, late, stopped, starts, disposed>>
  BY DEF SetMuted, Free, Active, remote, once
<1>2. Typed /\ starts \in 0..MaxStarts
  BY <1>1, VoiceAssumption, TypedIsTypeOK DEF IInv, TypeInv, IdsAreStarted, Typed, Ids, Starting, Call
<1>3. /\ call' \in [Calls -> Call]
      /\ call'[c].at = "mute" /\ call'[c].id = stream /\ ~call'[c].overtaken
      /\ \A d \in Calls \ {c} : call'[d] = call[d]
  BY <1>1, <1>2, CallMutes DEF Typed
<1>4. TypeOK'
  <2>1. Typed'
    BY <1>1, <1>2, <1>3, VoiceAssumption DEF Typed, States, Ids
  <2>. QED
    BY <2>1, TypedIsTypeOKNext
<1>5. IdsAreStarted'
  BY <1>1, <1>2, <1>3, VoiceAssumption DEF IInv, TypeInv, IdsAreStarted, Typed, Starting, Ids, Call
<1>6. WithinOneLife'
  <2>. SUFFICES ASSUME OneLife' PROVE (OneStart /\ StartKnowsEnd /\ NothingEscapes /\ EndWaitsForStop)'
    BY DEF WithinOneLife
  <2>1. OneStart /\ StartKnowsEnd /\ NothingEscapes /\ EndWaitsForStop
    BY <1>1 DEF IInv, WithinOneLife, OneLife
  <2>2. OneStart'
    BY <1>1, <1>2, <1>3, <2>1 DEF OneStart, Starting
  <2>3. StartKnowsEnd'
    BY <1>1, <1>2, <1>3, <2>1 DEF OneStart, StartKnowsEnd, Starting
  <2>4. NothingEscapes'
    BY <1>1, <1>2, <1>3, <2>1 DEF NothingEscapes, IInv, WithinOneLife, OneLife
  <2>5. EndWaitsForStop'
    BY <1>1, <1>2, <1>3, <2>1 DEF OneStart, NothingEscapes, EndWaitsForStop, Starting, IInv, WithinOneLife, OneLife
  <2>. QED
    BY <2>2, <2>3, <2>4, <2>5
<1>. QED
  BY <1>4, <1>5, <1>6 DEF IInv, TypeInv

LEMMA MuteSignalledKeeps ==
  ASSUME IInv, NEW c \in Calls, MuteSignalled(c)
  PROVE  IInv'
<1>1. /\ call[c].at = "mute" /\ muted' = call[c].to /\ state' \in {"muted", "connected"} /\ Settles(c)
      /\ UNCHANGED <<endRequested, stream, enabled, mic, sessionId, live, late, stopped, starts, disposed>>
  BY DEF MuteSignalled, track, remote, once
<1>2. Typed /\ starts \in 0..MaxStarts /\ call[c].to \in BOOLEAN
  BY <1>1, VoiceAssumption, TypedIsTypeOK DEF IInv, TypeInv, IdsAreStarted, Typed, Ids, Starting, Call
<1>3. /\ call' \in [Calls -> Call]
      /\ call'[c].at = "nothing" /\ call'[c].id = 0 /\ ~call'[c].overtaken
      /\ \A d \in Calls \ {c} : call'[d] = call[d]
  BY <1>1, <1>2, CallSettles DEF Typed
<1>4. TypeOK'
  <2>1. Typed'
    BY <1>1, <1>2, <1>3, VoiceAssumption DEF Typed, States, Ids
  <2>. QED
    BY <2>1, TypedIsTypeOKNext
<1>5. IdsAreStarted'
  BY <1>1, <1>2, <1>3, VoiceAssumption DEF IInv, TypeInv, IdsAreStarted, Typed, Starting, Ids, Call
<1>6. WithinOneLife'
  <2>. SUFFICES ASSUME OneLife' PROVE (OneStart /\ StartKnowsEnd /\ NothingEscapes /\ EndWaitsForStop)'
    BY DEF WithinOneLife
  <2>1. OneStart /\ StartKnowsEnd /\ NothingEscapes /\ EndWaitsForStop
    BY <1>1 DEF IInv, WithinOneLife, OneLife
  <2>2. starts = 1 /\ sessionId = 1 /\ \A d \in Calls : call[d].at # "start"
    BY <1>1, <1>2, <2>1 DEF IInv, TypeInv, IdsAreStarted, OneLife, OneStart, Typed, Ids
  <2>3. OneStart'
    BY <1>1, <1>2, <1>3, <2>1, <2>2 DEF OneStart, Starting
  <2>4. StartKnowsEnd'
    BY <1>1, <1>2, <1>3, <2>1, <2>2 DEF OneStart, StartKnowsEnd, Starting
  <2>5. NothingEscapes'
    BY <1>1, <1>2, <1>3, <2>1, <2>2 DEF NothingEscapes, IInv, WithinOneLife, OneLife
  <2>6. EndWaitsForStop'
    BY <1>1, <1>2, <1>3, <2>1, <2>2
       DEF OneStart, NothingEscapes, EndWaitsForStop, Starting, IInv, WithinOneLife, OneLife
  <2>. QED
    BY <2>3, <2>4, <2>5, <2>6
<1>. QED
  BY <1>4, <1>5, <1>6 DEF IInv, TypeInv

LEMMA MuteFailsKeeps ==
  ASSUME IInv, NEW c \in Calls, MuteFails(c)
  PROVE  IInv'
<1>1. /\ call[c].at = "mute" /\ enabled' \in {call[c].before, enabled} /\ state' = "error" /\ Settles(c)
      /\ UNCHANGED <<muted, endRequested, stream, mic, sessionId, live, late, stopped, starts, disposed>>
  BY DEF MuteFails, remote, once
<1>2. Typed /\ starts \in 0..MaxStarts /\ call[c].before \in BOOLEAN
  BY <1>1, VoiceAssumption, TypedIsTypeOK DEF IInv, TypeInv, IdsAreStarted, Typed, Ids, Starting, Call
<1>3. /\ call' \in [Calls -> Call]
      /\ call'[c].at = "nothing" /\ call'[c].id = 0 /\ ~call'[c].overtaken
      /\ \A d \in Calls \ {c} : call'[d] = call[d]
  BY <1>1, <1>2, CallSettles DEF Typed
<1>4. TypeOK'
  <2>1. Typed'
    BY <1>1, <1>2, <1>3, VoiceAssumption DEF Typed, States, Ids
  <2>. QED
    BY <2>1, TypedIsTypeOKNext
<1>5. IdsAreStarted'
  BY <1>1, <1>2, <1>3, VoiceAssumption DEF IInv, TypeInv, IdsAreStarted, Typed, Starting, Ids, Call
<1>6. WithinOneLife'
  <2>. SUFFICES ASSUME OneLife' PROVE (OneStart /\ StartKnowsEnd /\ NothingEscapes /\ EndWaitsForStop)'
    BY DEF WithinOneLife
  <2>1. OneStart /\ StartKnowsEnd /\ NothingEscapes /\ EndWaitsForStop
    BY <1>1 DEF IInv, WithinOneLife, OneLife
  <2>2. starts = 1 /\ sessionId = 1 /\ \A d \in Calls : call[d].at # "start"
    BY <1>1, <1>2, <2>1 DEF IInv, TypeInv, IdsAreStarted, OneLife, OneStart, Typed, Ids
  <2>3. OneStart'
    BY <1>1, <1>2, <1>3, <2>1, <2>2 DEF OneStart, Starting
  <2>4. StartKnowsEnd'
    BY <1>1, <1>2, <1>3, <2>1, <2>2 DEF OneStart, StartKnowsEnd, Starting
  <2>5. NothingEscapes'
    BY <1>1, <1>2, <1>3, <2>1, <2>2 DEF NothingEscapes, IInv, WithinOneLife, OneLife
  <2>6. EndWaitsForStop'
    BY <1>1, <1>2, <1>3, <2>1, <2>2
       DEF OneStart, NothingEscapes, EndWaitsForStop, Starting, IInv, WithinOneLife, OneLife
  <2>. QED
    BY <2>3, <2>4, <2>5, <2>6
<1>. QED
  BY <1>4, <1>5, <1>6 DEF IInv, TypeInv

(* end(), and the end of dispose(). *)
LEMMA EndNowKeeps ==
  ASSUME IInv, NEW c \in Calls, EndNow(c), disposed' \in BOOLEAN, starts' = starts
  PROVE  IInv'
<1>1. /\ state \in {"ended", "idle"} \/ sessionId = 0
      /\ mic' = mic \ {stream} /\ stream' = 0 /\ state' = "ended" /\ muted' \in {muted, FALSE}
      /\ endRequested' = (endRequested \/ state \notin {"ended", "idle"})
      /\ UNCHANGED <<enabled, sessionId, live, late, stopped, starts>>
  BY DEF EndNow, StopTracks, remote
<1>2. Typed /\ starts \in 0..MaxStarts
  BY <1>1, VoiceAssumption, TypedIsTypeOK DEF IInv, TypeInv, IdsAreStarted, Typed, Ids, Starting, Call
<1>3. /\ call' \in [Calls -> Call]
      /\ \A d \in Calls : /\ call'[d].at = call[d].at /\ call'[d].id = call[d].id
                          /\ call'[d].overtaken => call[d].overtaken \/ call[d].at = "start"
  BY <1>2, CallsOvertaken DEF Typed, EndNow
<1>4. /\ mic' \cup live' \cup late' \cup stopped' \subseteq 1..starts
      /\ 1..starts \subseteq 1..MaxStarts
  BY <1>1, <1>2, VoiceAssumption DEF IInv, TypeInv, IdsAreStarted
<1>5. muted' \in BOOLEAN /\ endRequested' \in BOOLEAN
  BY <1>1, <1>2 DEF Typed
<1>6. TypeOK'
  <2>1. Typed'
    BY <1>1, <1>2, <1>3, <1>4, <1>5, VoiceAssumption DEF Typed, States, Ids
  <2>. QED
    BY <2>1, TypedIsTypeOKNext
<1>7. IdsAreStarted'
  BY <1>1, <1>2, <1>3, <1>4, <1>5, VoiceAssumption DEF IInv, TypeInv, IdsAreStarted, Typed, Starting, Ids, Call
<1>8. WithinOneLife'
  <2>. SUFFICES ASSUME OneLife' PROVE (OneStart /\ StartKnowsEnd /\ NothingEscapes /\ EndWaitsForStop)'
    BY DEF WithinOneLife
  <2>1. OneStart /\ StartKnowsEnd /\ NothingEscapes /\ EndWaitsForStop
    BY <1>1 DEF IInv, WithinOneLife, OneLife
  <2>2. live \subseteq {0} \/ state = "ended" \/ (starts = 0 /\ live = {})
    BY <1>1, <1>2, <2>1 DEF IInv, TypeInv, IdsAreStarted, OneLife, OneStart, NothingEscapes, WithinOneLife, Typed, Ids
  <2>3. OneStart'
    BY <1>1, <1>2, <1>3, <2>1, <2>2 DEF OneStart, Starting
  <2>4. StartKnowsEnd'
    BY <1>1, <1>2, <1>3, <2>1, <2>2 DEF OneStart, StartKnowsEnd, Starting
  <2>5. NothingEscapes'
    BY <1>1, <1>2, <1>3, <2>1, <2>2 DEF NothingEscapes, IInv, WithinOneLife, OneLife
  <2>6. EndWaitsForStop'
    <3>1. mic' = {}
      BY <1>1, <2>1, <2>2 DEF NothingEscapes, IInv, WithinOneLife, OneLife
    <3>2. CASE state = "ended"
      BY <1>1, <1>3, <2>1, <3>1, <3>2 DEF EndWaitsForStop
    <3>3. CASE state # "ended"
      <4>1. live = {}
        BY <2>2, <3>3, <1>2 DEF IInv, TypeInv, IdsAreStarted
      <4>. QED
        BY <1>1, <1>3, <2>1, <3>1, <4>1 DEF EndWaitsForStop
    <3>. QED
      BY <3>2, <3>3
  <2>. QED
    BY <2>3, <2>4, <2>5, <2>6
<1>. QED
  BY <1>6, <1>7, <1>8 DEF IInv, TypeInv

LEMMA EndAwaitingKeeps ==
  ASSUME IInv, NEW c \in Calls, Free(c), EndAwaiting(c), disposed' \in BOOLEAN, starts' = starts
  PROVE  IInv'
<1>1. /\ call[c].at = "nothing" /\ sessionId # 0 /\ endRequested' = TRUE /\ state' = "ending"
      /\ call' = [d \in Calls |-> IF d = c THEN [NoCall EXCEPT !.at = "stop", !.id = sessionId]
                                  ELSE [call[d] EXCEPT !.overtaken = @ \/ call[d].at = "start"]]
      /\ UNCHANGED <<muted, stream, enabled, mic, sessionId, live, late, stopped, starts>>
  BY DEF EndAwaiting, Free, track, remote
<1>2. Typed /\ starts \in 0..MaxStarts
  BY <1>1, VoiceAssumption, TypedIsTypeOK DEF IInv, TypeInv, IdsAreStarted, Typed, Ids, Starting, Call
<1>3. /\ call' \in [Calls -> Call]
      /\ call'[c].at = "stop" /\ call'[c].id = sessionId /\ ~call'[c].overtaken
      /\ \A d \in Calls \ {c} : /\ call'[d].at = call[d].at /\ call'[d].id = call[d].id
                                /\ call'[d].overtaken => call[d].overtaken \/ call[d].at = "start"
  BY <1>1, <1>2, CallsOvertakenByStop DEF Typed
<1>4. TypeOK'
  <2>1. Typed'
    BY <1>1, <1>2, <1>3, VoiceAssumption DEF Typed, States, Ids
  <2>. QED
    BY <2>1, TypedIsTypeOKNext
<1>5. IdsAreStarted'
  BY <1>1, <1>2, <1>3, VoiceAssumption DEF IInv, TypeInv, IdsAreStarted, Typed, Starting, Ids, Call
<1>6. WithinOneLife'
  <2>. SUFFICES ASSUME OneLife' PROVE (OneStart /\ StartKnowsEnd /\ NothingEscapes /\ EndWaitsForStop)'
    BY DEF WithinOneLife
  <2>1. OneStart /\ StartKnowsEnd /\ NothingEscapes /\ EndWaitsForStop
    BY <1>1 DEF IInv, WithinOneLife, OneLife
  <2>2. starts # 0 /\ \A d \in Calls : call[d].at \notin {"permission", "start"}
    BY <1>1, <1>2, <2>1 DEF IInv, TypeInv, IdsAreStarted, OneStart, Typed, Ids
  <2>3. OneStart'
    BY <1>1, <1>2, <1>3, <2>1, <2>2 DEF OneStart, Starting
  <2>4. StartKnowsEnd'
    BY <1>1, <1>2, <1>3, <2>1, <2>2 DEF OneStart, StartKnowsEnd, Starting
  <2>5. NothingEscapes'
    BY <1>1, <1>2, <1>3, <2>1, <2>2 DEF NothingEscapes, IInv, WithinOneLife, OneLife
  <2>6. EndWaitsForStop'
    BY <1>1, <1>2, <1>3, <2>1, <2>2
       DEF OneStart, NothingEscapes, EndWaitsForStop, Starting, IInv, WithinOneLife, OneLife
  <2>. QED
    BY <2>3, <2>4, <2>5, <2>6
<1>. QED
  BY <1>4, <1>5, <1>6 DEF IInv, TypeInv

LEMMA EndedKeeps ==
  ASSUME IInv, NEW c \in Calls, Ended(c)
  PROVE  IInv'
<1>1. /\ call[c].at = "stop" /\ stopped' = stopped \cup {call[c].id}
      /\ \/ state' = "ended" /\ live' = live \ {call[c].id}
         \/ state' = "error" /\ live' = live
      /\ mic' = mic \ {stream} /\ stream' = 0 /\ muted' = FALSE /\ Settles(c)
      /\ UNCHANGED <<endRequested, enabled, sessionId, late, starts, disposed>>
  BY DEF Ended, EndedWith, Stop, StopTracks, once
<1>2. Typed /\ starts \in 0..MaxStarts /\ call[c].id \in 1..starts
  BY <1>1, VoiceAssumption, TypedIsTypeOK DEF IInv, TypeInv, IdsAreStarted, Typed, Ids, Starting, Call
<1>3. /\ call' \in [Calls -> Call]
      /\ call'[c].at = "nothing" /\ call'[c].id = 0 /\ ~call'[c].overtaken
      /\ \A d \in Calls \ {c} : call'[d] = call[d]
  BY <1>1, <1>2, CallSettles DEF Typed
<1>4. /\ mic' \cup live' \cup late' \cup stopped' \subseteq 1..starts
      /\ 1..starts \subseteq 1..MaxStarts
  BY <1>1, <1>2, VoiceAssumption DEF IInv, TypeInv, IdsAreStarted
<1>5. muted' \in BOOLEAN
  BY <1>1, <1>2 DEF Typed
<1>6. TypeOK'
  <2>1. Typed'
    BY <1>1, <1>2, <1>3, <1>4, <1>5, VoiceAssumption DEF Typed, States, Ids
  <2>. QED
    BY <2>1, TypedIsTypeOKNext
<1>7. IdsAreStarted'
  BY <1>1, <1>2, <1>3, <1>4, <1>5, VoiceAssumption DEF IInv, TypeInv, IdsAreStarted, Typed, Starting, Ids, Call
<1>8. WithinOneLife'
  <2>. SUFFICES ASSUME OneLife' PROVE (OneStart /\ StartKnowsEnd /\ NothingEscapes /\ EndWaitsForStop)'
    BY DEF WithinOneLife
  <2>1. OneStart /\ StartKnowsEnd /\ NothingEscapes /\ EndWaitsForStop
    BY <1>1 DEF IInv, WithinOneLife, OneLife
  <2>2. starts = 1 /\ mic \cup live \cup late \subseteq {call[c].id} /\ \A d \in Calls : call[d].at \notin {"permission", "start"}
    BY <1>1, <1>2, <2>1 DEF IInv, TypeInv, IdsAreStarted, OneLife, OneStart
  <2>3. OneStart'
    BY <1>1, <1>2, <1>3, <2>1, <2>2 DEF OneStart, Starting
  <2>4. StartKnowsEnd'
    BY <1>1, <1>2, <1>3, <2>1, <2>2 DEF OneStart, StartKnowsEnd, Starting
  <2>5. NothingEscapes'
    BY <1>1, <1>2, <1>3, <2>1, <2>2 DEF NothingEscapes, IInv, WithinOneLife, OneLife
  <2>6. EndWaitsForStop'
    BY <1>1, <1>2, <1>3, <2>1, <2>2
       DEF OneStart, NothingEscapes, EndWaitsForStop, Starting, IInv, WithinOneLife, OneLife
  <2>. QED
    BY <2>3, <2>4, <2>5, <2>6
<1>. QED
  BY <1>6, <1>7, <1>8 DEF IInv, TypeInv

(* dispose() before there is anything to stop. *)
LEMMA DropsKeep ==
  ASSUME IInv, StopTracks, disposed' \in BOOLEAN,
         UNCHANGED <<state, muted, endRequested, call, sessionId, live, late, stopped, starts>>
  PROVE  IInv'
<1>1. /\ mic' = mic \ {stream} /\ stream' = 0 /\ enabled' = enabled
      /\ UNCHANGED <<state, muted, endRequested, call, sessionId, live, late, stopped, starts>>
  BY DEF StopTracks
<1>2. Typed /\ starts \in 0..MaxStarts
  BY TypedIsTypeOK DEF IInv, TypeInv, Typed, Ids
<1>3. TypeOK'
  <2>1. Typed'
    BY <1>1, <1>2, VoiceAssumption DEF Typed, Ids
  <2>. QED
    BY <2>1, TypedIsTypeOKNext
<1>4. IdsAreStarted'
  BY <1>1, <1>2 DEF IInv, TypeInv, IdsAreStarted, Starting
<1>5. WithinOneLife'
  BY <1>1 DEF IInv, WithinOneLife, OneLife, OneStart, StartKnowsEnd, NothingEscapes, EndWaitsForStop, Starting
<1>. QED
  BY <1>3, <1>4, <1>5 DEF IInv, TypeInv

LEMMA EndOrDisposeKeeps ==
  ASSUME IInv, NEW c \in Calls, Free(c), EndOrDispose(c), disposed' \in BOOLEAN, starts' = starts
  PROVE  IInv'
BY EndNowKeeps, EndAwaitingKeeps DEF EndOrDispose

LEMMA EndKeeps ==
  ASSUME IInv, NEW c \in Calls, End(c)
  PROVE  IInv'
<1>1. Free(c) /\ EndOrDispose(c) /\ UNCHANGED <<starts, disposed>>
  BY DEF End, once
<1>2. disposed \in BOOLEAN
  BY TypedIsTypeOK DEF IInv, TypeInv, Typed
<1>. QED
  BY <1>1, <1>2, EndOrDisposeKeeps

LEMMA DisposeKeeps ==
  ASSUME IInv, NEW c \in Calls, Dispose(c)
  PROVE  IInv'
<1>1. Free(c) /\ disposed' = TRUE /\ starts' = starts
  BY DEF Dispose
<1>2. CASE EndOrDispose(c)
  BY <1>1, <1>2, EndOrDisposeKeeps
<1>3. CASE StopTracks /\ UNCHANGED <<state, muted, endRequested, call, remote>>
  BY <1>1, <1>3, DropsKeep DEF remote
<1>. QED
  BY <1>2, <1>3 DEF Dispose

LEMMA UnchangedKeeps ==
  ASSUME IInv, UNCHANGED vars
  PROVE  IInv'
<1>1. TypeOK'
  BY DEF IInv, TypeInv, TypeOK, vars
<1>2. IdsAreStarted'
  BY DEF IInv, TypeInv, IdsAreStarted, vars
<1>3. WithinOneLife'
  BY DEF IInv, WithinOneLife, OneLife, OneStart, StartKnowsEnd, NothingEscapes, EndWaitsForStop, vars
<1>. QED
  BY <1>1, <1>2, <1>3 DEF IInv, TypeInv

-----------------------------------------------------------------------------
(* Whatever the host and the browser do next. *)
THEOREM NextKeepsIInv == IInv /\ [Next]_vars => IInv'
<1>. SUFFICES ASSUME IInv, [Next]_vars PROVE IInv'
  OBVIOUS
<1>1. CASE UNCHANGED vars
  BY <1>1, UnchangedKeeps
<1>2. ASSUME NEW c \in Calls, Step(c) PROVE IInv'
  <2>1. CASE Start(c)
    BY <2>1, StartKeeps
  <2>2. CASE MicrophoneGranted(c)
    BY <2>2, MicrophoneGrantedKeeps
  <2>3. CASE MicrophoneDenied(c)
    BY <2>3, MicrophoneDeniedKeeps
  <2>4. CASE Started(c)
    BY <2>4, StartedKeeps
  <2>5. CASE StartFails(c)
    BY <2>5, StartFailsKeeps
  <2>6. CASE LateStop(c)
    BY <2>6, LateStopKeeps
  <2>7. CASE Attached(c)
    BY <2>7, AttachedKeeps
  <2>8. CASE FailedStop(c)
    BY <2>8, FailedStopKeeps
  <2>9. ASSUME NEW to \in BOOLEAN, SetMuted(c, to) PROVE IInv'
    BY <2>9, SetMutedKeeps
  <2>10. CASE MuteSignalled(c)
    BY <2>10, MuteSignalledKeeps
  <2>11. CASE MuteFails(c)
    BY <2>11, MuteFailsKeeps
  <2>12. CASE End(c)
    BY <2>12, EndKeeps
  <2>13. CASE Ended(c)
    BY <2>13, EndedKeeps
  <2>14. CASE Dispose(c)
    BY <2>14, DisposeKeeps
  <2>. QED
    BY <1>2, <2>1, <2>2, <2>3, <2>4, <2>5, <2>6, <2>7, <2>8, <2>9, <2>10, <2>11, <2>12, <2>13, <2>14 DEF Step
<1>. QED
  BY <1>1, <1>2 DEF Next

(* Every reachable state satisfies the invariant. *)
THEOREM Invariance == Spec => []IInv
BY InitIInv, NextKeepsIInv, PTL DEF Spec

(* The type invariant, and that "ended" is the truth once the calls of one *)
(* start() have settled: no session lives, no microphone captures (end()   *)
(* and dispose() of VoiceControlController).                               *)
THEOREM EndedIsTheTruth == Spec => []EndIsTrue
<1>1. IInv => EndIsTrue
  BY DEF IInv, TypeInv, WithinOneLife, EndWaitsForStop, EndIsTrue, EndedIsOver, Quiet
<1>. QED
  BY <1>1, Invariance, PTL

(* A live session is always the one the controller would stop, a capturing *)
(* microphone the one it holds (the sessionId and stream of                *)
(* VoiceControlController).                                                *)
THEOREM EverythingIsInReach == Spec => []NothingEscapes
<1>1. IInv => NothingEscapes
  BY DEF IInv, WithinOneLife, NothingEscapes
<1>. QED
  BY <1>1, Invariance, PTL

(* A session whose transport.start() was overtaken by end() is asked to    *)
(* stop before the calls settle (the endRequested check of start()).       *)
THEOREM LateSessionsAreStopped == Spec => []LateSessionIsStopped
<1>1. IInv => LateSessionIsStopped
  BY DEF IInv, WithinOneLife, EndWaitsForStop, LateSessionIsStopped, Quiet
<1>. QED
  BY <1>1, Invariance, PTL

-----------------------------------------------------------------------------
(* The intake form and its adapter. *)

Token == [at : 0 .. MaxNow, life : Lifetimes, stated : BOOLEAN, revoked : BOOLEAN, cachedAt : 0 .. MaxNow]
Doing == [pc : {"idle", "asking", "issued", "reading", "forwarding", "answered", "told"},
          attempt : 0 .. MaxAttempts, token : Nat \cup {None}, handed : Nat, late : Nat,
          deadline : Nat, answer : Answers \cup {"none"}]
Page == [mount : 1 .. MaxMounts, enabled : BOOLEAN, status : {"idle", "submitting", "success", "error"},
         of : Submissions \cup {None}, latest : Submissions \cup {None}, resets : Nat,
         awaiting : [Submissions -> 0 .. MaxMounts]]

(* The tokens are numbered. *)
IssuedInv == \E n \in 0 .. MaxTokens : DOMAIN issued = 1 .. n /\ issued \in [1 .. n -> Token]

StateInv ==
  /\ now \in 0 .. MaxNow
  /\ IssuedInv
  /\ cache = None \/ cache \in [token : DOMAIN issued, expiresAt : Nat]
  /\ adapter \in [Submissions -> Doing]
  /\ wire \subseteq [sub : Submissions, attempt : Nat, token : DOMAIN issued]
  /\ leads \in [Keys -> {0, 1}]
  /\ page \in Page

(* A lead is of a submission's own key, not of an attempt's. *)
LeadsInv == \A k \in Keys : leads[k] # 0 => k[2] = 0

Expiry(t) == issued[t].cachedAt + issued[t].life

(* The cache never has a token for longer than it lasts, counted from when *)
(* it was cached.                                                          *)
TokensInv ==
  /\ \A t \in DOMAIN issued :
       issued[t].cachedAt <= now /\ (issued[t].stated \/ issued[t].life >= DefaultLife)
  /\ cache # None => cache.expiresAt <= Expiry(cache.token)

(* The token a call holds, and that one it was told to be expired. *)
Holds(s) ==
  /\ adapter[s].pc \in {"issued", "reading", "forwarding", "answered"} => adapter[s].token \in DOMAIN issued
  /\ adapter[s].handed <= now
  /\ adapter[s].pc \in {"forwarding", "answered"} => Expiry(adapter[s].token) >= adapter[s].handed + Skew
  /\ adapter[s].answer = "unauthorized" =>
       /\ adapter[s].token \in DOMAIN issued
       /\ LET token == issued[adapter[s].token]
          IN \/ token.revoked
             \/ adapter[s].pc = "answered" /\ now >= token.at + token.life
             \/ adapter[s].pc = "told" /\ adapter[s].late + (token.cachedAt - token.at) >= Skew

(* Where a call is. *)
Proceeds(s) ==
  /\ adapter[s].pc \in {"asking", "issued", "reading"} => adapter[s].attempt < MaxAttempts
  /\ adapter[s].pc \in {"asking", "issued", "forwarding"} => now <= adapter[s].deadline
  /\ (adapter[s].answer # "none") = (adapter[s].pc \in {"answered", "told"})
  /\ adapter[s].pc = "answered" => adapter[s].answer \in GatewayStatuses

(* What has become of a submission beyond the adapter: nothing before it   *)
(* is forwarded, and its requests are of the attempts there have been.     *)
Sent(s) ==
  /\ adapter[s].answer = "ok" => leads[<<s, 0>>] = 1
  /\ adapter[s].pc = "idle" \/ adapter[s].answer \in Refusals =>
       leads[<<s, 0>>] = 0 /\ \A m \in wire : m.sub # s
  /\ \A m \in wire : m.sub = s /\ adapter[s].pc # "told" =>
       /\ m.attempt <= adapter[s].attempt
       /\ adapter[s].pc = "forwarding" /\ m.attempt = adapter[s].attempt => m.token = adapter[s].token

CallInv == \A s \in Submissions : Holds(s) /\ Proceeds(s) /\ Sent(s)

(* A button that is disabled waits for an answer; of a form mounted once,  *)
(* only the latest submission is awaited.                                  *)
PageInv ==
  /\ page.enabled \/ \E s \in Submissions : page.awaiting[s] = page.mount
  /\ page.status = "success" => page.of \in Submissions /\ leads[<<page.of, 0>>] = 1
  /\ page.mount = 1 => \A s \in Submissions : page.awaiting[s] # 0 => s = page.latest /\ ~ page.enabled
  /\ LatestIsShown

IntakeInv == StateInv /\ LeadsInv /\ TokensInv /\ CallInv /\ PageInv

-----------------------------------------------------------------------------
LEMMA Constants ==
  /\ MaxAttempts \in Nat /\ MaxAttempts >= 1 /\ MaxMounts \in Nat /\ MaxMounts >= 1
  /\ Timeout \in Nat /\ Skew \in Nat /\ DefaultLife \in Nat /\ BodyTime \in Nat
  /\ MaxNow \in Nat /\ MaxTokens \in Nat /\ MaxEvents \in Nat
  /\ Lifetimes \subseteq Nat /\ (\A life \in Lifetimes : life >= Skew) /\ None \notin Submissions
BY IntakeAssumption

LEMMA IssuedAreNat ==
  ASSUME NEW token \in Token
  PROVE  /\ token.life \in Lifetimes /\ token.life \in Nat /\ token.life >= Skew
         /\ token.at \in Nat /\ token.cachedAt \in Nat /\ token.stated \in BOOLEAN
<1>1. token.life \in Lifetimes /\ token.at \in 0 .. MaxNow /\ token.cachedAt \in 0 .. MaxNow /\ token.stated \in BOOLEAN
  BY DEF Token
<1>2. token.life \in Nat
  BY <1>1, Constants
<1>3. token.life >= Skew
  BY <1>1, Constants
<1>4. token.at \in Nat
  BY <1>1, Constants
<1>5. token.cachedAt \in Nat
  BY <1>1, Constants
<1> QED BY <1>1, <1>2, <1>3, <1>4, <1>5, Zenon

LEMMA TokenFacts ==
  ASSUME IssuedInv, NEW t \in DOMAIN issued
  PROVE  /\ t \in Nat
         /\ issued[t] \in Token
         /\ issued[t].life \in Lifetimes /\ issued[t].life \in Nat /\ issued[t].life >= Skew
         /\ issued[t].at \in Nat /\ issued[t].cachedAt \in Nat /\ issued[t].stated \in BOOLEAN
         /\ Expiry(t) \in Nat
<1>1. PICK n \in 0 .. MaxTokens : DOMAIN issued = 1 .. n /\ issued \in [1 .. n -> Token]
  BY DEF IssuedInv
<1>2. t \in Nat /\ issued[t] \in Token
  BY <1>1, Constants
<1>3. /\ issued[t].life \in Lifetimes /\ issued[t].life \in Nat /\ issued[t].life >= Skew
      /\ issued[t].at \in Nat /\ issued[t].cachedAt \in Nat /\ issued[t].stated \in BOOLEAN
  BY <1>2, IssuedAreNat DEF Token
<1> QED BY <1>2, <1>3 DEF Expiry

(* A step that leaves the tokens there have been what they were, but for   *)
(* being revoked or cached.                                                *)
Grown ==
  \A t \in DOMAIN issued :
    /\ t \in DOMAIN issued'
    /\ issued'[t].at = issued[t].at /\ issued'[t].life = issued[t].life /\ issued'[t].stated = issued[t].stated
    /\ issued[t].cachedAt <= issued'[t].cachedAt /\ (issued[t].revoked => issued'[t].revoked)

LEMMA SameGrows ==
  ASSUME IssuedInv, issued' = issued
  PROVE  Grown
<1>1. \A t \in DOMAIN issued : issued[t].cachedAt \in Nat
  BY TokenFacts
<1> QED BY <1>1 DEF Grown

(* What a step does to others does not disturb a call. *)
LEMMA Undisturbed ==
  ASSUME StateInv, IssuedInv', NEW s \in Submissions, Holds(s), Proceeds(s), Sent(s),
         adapter'[s] = adapter[s], now' = now, leads'[<<s, 0>>] = leads[<<s, 0>>],
         \A m \in wire' : m.sub = s => m \in wire, Grown
  PROVE  Holds(s)' /\ Proceeds(s)' /\ Sent(s)'
<1>. USE DEF StateInv
<1>1. adapter[s] \in Doing
  OBVIOUS
<1>2. \A t \in DOMAIN issued : issued[t].at \in Nat /\ issued[t].life \in Nat /\ issued[t].cachedAt \in Nat
  BY TokenFacts
<1>3. \A t \in DOMAIN issued' : issued'[t].at \in Nat /\ issued'[t].life \in Nat /\ issued'[t].cachedAt \in Nat
  <2>2. PICK n \in 0 .. MaxTokens : DOMAIN issued' = 1 .. n /\ issued' \in [1 .. n -> Token]
    BY DEF IssuedInv, Token
  <2>3. \A t \in DOMAIN issued' : issued'[t] \in Token
    BY <2>2
  <2> QED BY <2>3, IssuedAreNat DEF Token
<1>4. Proceeds(s)'
  BY DEF Proceeds
<1>5. Sent(s)'
  BY DEF Sent
<1>6. Holds(s)'
  <2>1. Skew \in Nat /\ adapter[s].handed \in Nat /\ adapter[s].late \in Nat /\ now \in Nat
    BY <1>1, Constants DEF Doing
  <2>2. \A t \in DOMAIN issued : Expiry(t)' >= Expiry(t) /\ t \in DOMAIN issued'
    BY <1>2, <1>3 DEF Grown, Expiry
  <2>3. \A t \in DOMAIN issued : Expiry(t) \in Nat /\ Expiry(t)' \in Nat
    BY <1>2, <1>3, <2>2 DEF Expiry
  <2>4. adapter[s].pc \in {"forwarding", "answered"} => Expiry(adapter[s].token)' >= adapter[s].handed + Skew
    BY <2>1, <2>2, <2>3 DEF Holds
  <2>5. ASSUME adapter[s].answer = "unauthorized"
        PROVE  /\ adapter[s].token \in DOMAIN issued'
               /\ LET token == issued'[adapter[s].token]
                  IN \/ token.revoked
                     \/ adapter[s].pc = "answered" /\ now >= token.at + token.life
                     \/ adapter[s].pc = "told" /\ adapter[s].late + (token.cachedAt - token.at) >= Skew
    <3>. DEFINE token == issued[adapter[s].token]
    <3>1. adapter[s].token \in DOMAIN issued /\ adapter[s].token \in DOMAIN issued'
      BY <2>2, <2>5 DEF Holds
    <3>2. \/ token.revoked
          \/ adapter[s].pc = "answered" /\ now >= token.at + token.life
          \/ adapter[s].pc = "told" /\ adapter[s].late + (token.cachedAt - token.at) >= Skew
      BY <2>5 DEF Holds
    <3> QED BY <2>1, <3>1, <3>2, <1>2, <1>3 DEF Grown
  <2> QED BY <2>1, <2>2, <2>4, <2>5 DEF Holds
<1> QED BY <1>4, <1>5, <1>6

(* A step of one call. *)
LEMMA OthersKept ==
  ASSUME StateInv, CallInv, IssuedInv', NEW s \in Submissions,
         \A t \in Submissions \ {s} : adapter'[t] = adapter[t] /\ leads'[<<t, 0>>] = leads[<<t, 0>>],
         \A m \in wire' : m.sub # s => m \in wire, now' = now, Grown,
         Holds(s)', Proceeds(s)', Sent(s)'
  PROVE  CallInv'
<1>1. ASSUME NEW t \in Submissions, t # s PROVE Holds(t)' /\ Proceeds(t)' /\ Sent(t)'
  <2>1. Holds(t) /\ Proceeds(t) /\ Sent(t)
    BY DEF CallInv
  <2>2. \A m \in wire' : m.sub = t => m \in wire
    BY <1>1
  <2> QED BY <1>1, <2>1, <2>2, Undisturbed
<1> QED BY <1>1 DEF CallInv

(* A page that stands still. *)
LEMMA PageKept ==
  ASSUME PageInv, page' = page, \A s \in Submissions : leads[<<s, 0>>] = 1 => leads'[<<s, 0>>] = 1
  PROVE  PageInv'
BY DEF PageInv, LatestIsShown

-----------------------------------------------------------------------------
(* The adapter forwards. *)
LEMMA ForwardKeeps ==
  ASSUME StateInv, CallInv, IssuedInv', Grown, now' = now, leads' = leads,
         NEW s \in Submissions, NEW attempt \in 1 .. MaxAttempts, NEW token \in DOMAIN issued', NEW handed \in Nat,
         handed <= now, Expiry(token)' >= handed + Skew,
         \A m \in wire : m.sub = s => m.attempt < attempt,
         Forward(s, attempt, token, handed)
  PROVE  /\ adapter' \in [Submissions -> Doing]
         /\ wire' \subseteq [sub : Submissions, attempt : Nat, token : DOMAIN issued']
         /\ CallInv'
<1>. DEFINE sent == [sub |-> s, attempt |-> attempt, token |-> token]
            next == [adapter[s] EXCEPT !.pc = "forwarding", !.attempt = attempt, !.token = token,
                       !.handed = handed, !.deadline = now + Timeout, !.answer = "none"]
<1>1. adapter \in [Submissions -> Doing] /\ now \in Nat /\ Timeout \in Nat /\ attempt \in Nat /\ Skew \in Nat
  BY Constants DEF StateInv
<1>2. PICK n \in 0 .. MaxTokens : DOMAIN issued' = 1 .. n
  BY DEF IssuedInv
<1>3. token \in Nat
  BY <1>2, Constants
<1>4. /\ next \in Doing
      /\ next.pc = "forwarding" /\ next.attempt = attempt /\ next.token = token /\ next.handed = handed
      /\ next.deadline = now + Timeout /\ next.answer = "none"
  <2>1. /\ adapter[s] \in Doing /\ now + Timeout \in Nat /\ attempt \in 0 .. MaxAttempts
        /\ token \in Nat \cup {None} /\ "none" \in Answers \cup {"none"}
    BY <1>1, <1>3
  <2> QED BY <2>1 DEF Doing
<1>5. adapter' = [adapter EXCEPT ![s] = next] /\ wire' = wire \cup {sent}
  BY DEF Forward
<1>. HIDE DEF next
<1>6. /\ adapter' \in [Submissions -> Doing] /\ adapter'[s] = next
      /\ \A t \in Submissions \ {s} : adapter'[t] = adapter[t]
  BY <1>1, <1>4, <1>5
<1>7. wire' \subseteq [sub : Submissions, attempt : Nat, token : DOMAIN issued']
  BY <1>1, <1>5 DEF StateInv, Grown
<1>8. Holds(s)'
  BY <1>1, <1>4, <1>6 DEF Holds
<1>9. Proceeds(s)'
  BY <1>1, <1>4, <1>6 DEF Proceeds
<1>10. Sent(s)'
  <2>1. \A m \in wire' : m.sub = s => m = sent \/ (m \in wire /\ m.attempt < attempt)
    BY <1>5
  <2>2. \A m \in wire' : m.attempt \in Nat
    BY <1>7
  <2>3. "none" \notin Refusals
    BY DEF Refusals
  <2> QED BY <1>1, <1>4, <1>6, <2>1, <2>2, <2>3 DEF Sent
<1>11. CallInv'
  BY <1>5, <1>6, <1>8, <1>9, <1>10, OthersKept
<1> QED BY <1>6, <1>7, <1>11

(* The adapter asks the provider. *)
LEMMA AskKeeps ==
  ASSUME StateInv, CallInv, UNCHANGED <<now, issued, leads>>, NEW s \in Submissions,
         adapter[s].attempt < MaxAttempts, adapter[s].pc \in {"idle", "answered"}, AskProvider(s)
  PROVE  adapter' \in [Submissions -> Doing] /\ wire' = wire /\ CallInv'
<1>. DEFINE next == [adapter[s] EXCEPT !.pc = "asking", !.deadline = now + Timeout, !.answer = "none"]
<1>1. adapter \in [Submissions -> Doing] /\ now \in Nat /\ Timeout \in Nat /\ IssuedInv
  BY Constants DEF StateInv
<1>2. /\ next \in Doing
      /\ next.pc = "asking" /\ next.attempt = adapter[s].attempt /\ next.handed = adapter[s].handed
      /\ next.deadline = now + Timeout /\ next.answer = "none"
  <2>1. adapter[s] \in Doing /\ now + Timeout \in Nat /\ "none" \in Answers \cup {"none"}
    BY <1>1
  <2> QED BY <2>1 DEF Doing
<1>3. adapter' = [adapter EXCEPT ![s] = next] /\ wire' = wire
  BY DEF AskProvider
<1>. HIDE DEF next
<1>4. /\ adapter' \in [Submissions -> Doing] /\ adapter'[s] = next
      /\ \A t \in Submissions \ {s} : adapter'[t] = adapter[t]
  BY <1>1, <1>2, <1>3
<1>5. Holds(s) /\ Sent(s)
  BY DEF CallInv
<1>6. Holds(s)'
  BY <1>2, <1>4, <1>5 DEF Holds
<1>7. Proceeds(s)'
  BY <1>1, <1>2, <1>4 DEF Proceeds
<1>8. Sent(s)'
  <2>1. "none" \notin Refusals
    BY DEF Refusals
  <2> QED BY <1>2, <1>3, <1>4, <1>5, <2>1 DEF Sent
<1>9. Grown /\ IssuedInv'
  BY <1>1, SameGrows DEF IssuedInv, Token
<1>10. CallInv'
  BY <1>3, <1>4, <1>6, <1>7, <1>8, <1>9, OthersKept
<1> QED BY <1>3, <1>4, <1>10

(* The adapter answers: "ok" and a refusal are true, and a 401 is the one  *)
(* the gateway answered.                                                   *)
LEMMA TellKeeps ==
  ASSUME StateInv, CallInv, UNCHANGED <<now, issued, leads>>, NEW s \in Submissions, NEW answer \in Answers,
         answer = "ok" => leads[<<s, 0>>] = 1,
         answer \in Refusals => leads[<<s, 0>>] = 0 /\ \A m \in wire : m.sub # s,
         answer = "unauthorized" => adapter[s].pc = "answered" /\ adapter[s].answer = "unauthorized",
         Tell(s, answer)
  PROVE  adapter' \in [Submissions -> Doing] /\ wire' = wire /\ CallInv'
<1>. DEFINE plain == [Idle EXCEPT !.pc = "told", !.answer = answer]
            lateness == now - adapter[s].handed
            next == IF answer = "unauthorized" THEN [plain EXCEPT !.token = adapter[s].token, !.late = lateness]
                    ELSE plain
<1>1. /\ adapter \in [Submissions -> Doing] /\ adapter[s] \in Doing /\ now \in Nat /\ MaxNow \in Nat
      /\ MaxAttempts \in Nat /\ Skew \in Nat /\ IssuedInv
  BY Constants DEF StateInv
<1>2. Holds(s) /\ Sent(s)
  BY DEF CallInv
<1>3. lateness \in Nat /\ adapter[s].token \in Nat \cup {None} /\ adapter[s].handed \in Nat
  <2>1. adapter[s].handed \in Nat /\ adapter[s].handed <= now /\ adapter[s].token \in Nat \cup {None}
    BY <1>1, <1>2 DEF Holds, Doing
  <2> QED BY <1>1, <2>1
<1>4. plain \in Doing /\ plain.pc = "told" /\ plain.answer = answer /\ plain.handed = 0
  <2>1. Idle \in Doing /\ Idle.handed = 0
    BY <1>1 DEF Idle, Doing
  <2>2. answer \in Answers \cup {"none"}
    OBVIOUS
  <2> QED BY <2>1, <2>2 DEF Doing
<1>5. /\ next \in Doing /\ next.pc = "told" /\ next.answer = answer /\ next.handed = 0
      /\ answer = "unauthorized" => next.token = adapter[s].token /\ next.late = lateness
  <2>. HIDE DEF plain, lateness
  <2>1. CASE answer = "unauthorized"
    BY <1>3, <1>4, <2>1 DEF Doing
  <2>2. CASE answer # "unauthorized"
    BY <1>4, <2>2
  <2> QED BY <2>1, <2>2
<1>6. adapter' = [adapter EXCEPT ![s] = next] /\ wire' = wire
  BY DEF Tell, Idle
<1>. HIDE DEF next, plain
<1>7. /\ adapter' \in [Submissions -> Doing] /\ adapter'[s] = next
      /\ \A t \in Submissions \ {s} : adapter'[t] = adapter[t]
  BY <1>1, <1>5, <1>6
<1>8. Holds(s)'
  <2>1. ASSUME answer = "unauthorized"
        PROVE  /\ next.token \in DOMAIN issued
               /\ LET token == issued[next.token]
                  IN token.revoked \/ next.late + (token.cachedAt - token.at) >= Skew
    <3>. DEFINE t == adapter[s].token
    <3>1. /\ t \in DOMAIN issued /\ Expiry(t) >= adapter[s].handed + Skew
          /\ issued[t].revoked \/ now >= issued[t].at + issued[t].life
      BY <2>1, <1>2 DEF Holds
    <3>2. issued[t].at \in Nat /\ issued[t].life \in Nat /\ issued[t].cachedAt \in Nat
      BY <1>1, <3>1, TokenFacts
    <3> QED BY <1>1, <1>3, <1>5, <2>1, <3>1, <3>2 DEF Expiry
  <2>2. 0 <= now
    BY <1>1
  <2> QED BY <1>5, <1>7, <2>1, <2>2 DEF Holds
<1>9. Proceeds(s)'
  <2>1. answer # "none"
    BY DEF Answers, Refusals, GatewayStatuses
  <2> QED BY <1>5, <1>7, <2>1 DEF Proceeds
<1>10. Sent(s)'
  BY <1>5, <1>6, <1>7 DEF Sent
<1>11. Grown /\ IssuedInv'
  BY <1>1, SameGrows DEF IssuedInv, Token
<1>12. CallInv'
  BY <1>6, <1>7, <1>8, <1>9, <1>10, <1>11, OthersKept
<1> QED BY <1>6, <1>7, <1>12

-----------------------------------------------------------------------------
(* The actions of a submission. *)
LEMMA HandleKeeps ==
  ASSUME StateInv, TokensInv, CallInv, NEW s \in Submissions, adapter[s] = Idle, NEW request \in Requests,
         Handle(s, request), UNCHANGED <<now, issued, cache, leads>>
  PROVE  /\ adapter' \in [Submissions -> Doing]
         /\ wire' \subseteq [sub : Submissions, attempt : Nat, token : DOMAIN issued']
         /\ CallInv'
<1>1. adapter[s].pc = "idle" /\ adapter[s].attempt = 0 /\ adapter[s].handed = 0 /\ adapter[s].answer = "none"
  BY DEF Idle
<1>2. /\ now \in Nat /\ IssuedInv /\ MaxAttempts \in Nat /\ MaxAttempts >= 1 /\ Skew \in Nat
      /\ wire \subseteq [sub : Submissions, attempt : Nat, token : DOMAIN issued']
  BY Constants DEF StateInv
<1>3. leads[<<s, 0>>] = 0 /\ \A m \in wire : m.sub # s
  BY <1>1 DEF CallInv, Sent
<1>4. Grown /\ IssuedInv'
  BY <1>2, SameGrows DEF IssuedInv, Token
<1>5. CASE Refusal(request) # "none" /\ Tell(s, Refusal(request))
  <2>1. Refusal(request) \in Refusals
    BY <1>5 DEF Refusal, Refusals
  <2>2. Refusal(request) \in Answers /\ Refusal(request) \notin {"ok", "unauthorized"}
    BY <2>1 DEF Answers, Refusals
  <2> QED BY <1>2, <1>3, <1>5, <2>2, TellKeeps
<1>6. CASE Usable(cache) /\ Forward(s, 1, cache.token, now)
  <2>1. cache \in [token : DOMAIN issued, expiresAt : Nat] /\ cache.expiresAt > now + Skew
    BY <1>6 DEF Usable, StateInv
  <2>2. Expiry(cache.token) >= cache.expiresAt /\ Expiry(cache.token) \in Nat /\ cache.token \in DOMAIN issued'
    BY <1>6, <1>2, <2>1, TokenFacts DEF Usable, TokensInv
  <2>3. Expiry(cache.token)' >= now + Skew
    BY <1>2, <2>1, <2>2 DEF Expiry
  <2>4. now <= now /\ 1 \in 1 .. MaxAttempts
    BY <1>2
  <2>5. \A token : cache.token = token => Expiry(token)' >= now + Skew
    BY <2>3 DEF Expiry
  <2> QED BY <1>2, <1>3, <1>4, <1>6, <2>2, <2>4, <2>5, ForwardKeeps
<1>7. CASE AskProvider(s)
  <2>1. adapter[s].attempt < MaxAttempts
    BY <1>1, <1>2
  <2> QED BY <1>1, <1>2, <1>7, <2>1, AskKeeps
<1> QED BY <1>5, <1>6, <1>7 DEF Handle

LEMMA SubmitKeeps ==
  ASSUME IntakeInv, NEW s \in Submissions, Submit(s)
  PROVE  IntakeInv'
<1>. USE DEF IntakeInv
<1>1. /\ UNCHANGED <<now, issued, cache, leads, events>> /\ adapter[s] = Idle /\ page.enabled
      /\ page \in Page /\ page.mount \in 1 .. MaxMounts /\ MaxMounts \in Nat /\ None \notin Submissions
  BY Constants DEF Submit, StateInv, Page
<1>2. adapter' \in [Submissions -> Doing] /\ wire' \subseteq [sub : Submissions, attempt : Nat, token : DOMAIN issued'] /\ CallInv'
  <2>1. CASE \E request \in Requests : Handle(s, request)
    BY <1>1, <2>1, HandleKeeps
  <2>2. CASE Tell(s, "bad_request")
    <3>1. "bad_request" \in Answers /\ leads[<<s, 0>>] = 0 /\ \A m \in wire : m.sub # s
      BY <1>1 DEF Answers, Refusals, CallInv, Sent, Idle
    <3>2. wire \subseteq [sub : Submissions, attempt : Nat, token : DOMAIN issued']
      BY <1>1 DEF StateInv
    <3> QED BY <1>1, <2>2, <3>1, <3>2, TellKeeps
  <2> QED BY <2>1, <2>2 DEF Submit
<1>3. page.mount = 1 => \A t \in Submissions : page.awaiting[t] = 0
  BY <1>1 DEF PageInv
<1>4. /\ page' \in Page
      /\ page'.mount = page.mount /\ page'.of = s /\ page'.latest = s /\ page'.status \in {"submitting", "error"}
      /\ \A t \in Submissions \ {s} : page'.awaiting[t] = page.awaiting[t]
      /\ \/ ~ page'.enabled /\ page'.status = "submitting" /\ page'.awaiting[s] = page.mount
         \/ page'.enabled /\ page'.status = "error" /\ page'.awaiting[s] = page.awaiting[s]
  <2>1. CASE page' = [page EXCEPT !.enabled = FALSE, !.status = "submitting", !.of = s, !.latest = s,
                                  !.awaiting[s] = page.mount]
    <3>. DEFINE awaiting == [page.awaiting EXCEPT ![s] = page.mount]
    <3>1. page.mount \in 0 .. MaxMounts /\ page.awaiting \in [Submissions -> 0 .. MaxMounts]
      BY <1>1 DEF Page
    <3>2. /\ awaiting \in [Submissions -> 0 .. MaxMounts] /\ awaiting[s] = page.mount
          /\ \A t \in Submissions \ {s} : awaiting[t] = page.awaiting[t]
      BY <3>1
    <3>3. page' = [page EXCEPT !.enabled = FALSE, !.status = "submitting", !.of = s, !.latest = s,
                               !.awaiting = awaiting]
      BY <2>1
    <3>. HIDE DEF awaiting
    <3> QED BY <1>1, <3>2, <3>3 DEF Page
  <2>2. CASE page' = [page EXCEPT !.status = "error", !.of = s, !.latest = s]
    BY <1>1, <2>2 DEF Page
  <2> QED BY <2>1, <2>2 DEF Submit
<1>5. PageInv'
  <2>1. page'.enabled \/ page'.awaiting[s] = page'.mount
    BY <1>4
  <2>2. page'.status # "success"
    BY <1>4
  <2>3. page'.mount = 1 => \A t \in Submissions : page'.awaiting[t] # 0 => t = page'.latest /\ ~ page'.enabled
    BY <1>3, <1>4
  <2>4. LatestIsShown'
    BY <1>1, <1>3, <1>4 DEF LatestIsShown
  <2> QED BY <2>1, <2>2, <2>3, <2>4 DEF PageInv
<1>6. StateInv'
  BY <1>1, <1>2, <1>4 DEF StateInv, IssuedInv, Token
<1>7. LeadsInv' /\ TokensInv'
  BY <1>1 DEF LeadsInv, TokensInv, Expiry
<1> QED BY <1>2, <1>5, <1>6, <1>7

LEMMA AnsweredKeeps ==
  ASSUME IntakeInv, NEW s \in Submissions, Answered(s)
  PROVE  IntakeInv'
<1>. USE DEF IntakeInv
<1>1. UNCHANGED <<now, issued, cache, leads, page, events>> /\ adapter[s].pc = "answered"
  BY DEF Answered
<1>2. /\ adapter[s] \in Doing /\ adapter[s].attempt \in Nat /\ adapter[s].handed \in Nat
      /\ IssuedInv /\ MaxAttempts \in Nat /\ now \in Nat /\ Skew \in Nat
      /\ wire \subseteq [sub : Submissions, attempt : Nat, token : DOMAIN issued']
  BY <1>1, Constants DEF StateInv, Doing
<1>3. Holds(s) /\ Proceeds(s) /\ Sent(s)
  BY DEF CallInv
<1>4. Grown /\ IssuedInv'
  BY <1>1, <1>2, SameGrows DEF IssuedInv, Token
<1>5. adapter' \in [Submissions -> Doing] /\ wire' \subseteq [sub : Submissions, attempt : Nat, token : DOMAIN issued'] /\ CallInv'
  <2>1. CASE adapter[s].attempt < MaxAttempts /\ AskProvider(s)
    BY <1>1, <1>2, <2>1, AskKeeps
  <2>2. CASE adapter[s].attempt < MaxAttempts /\ Forward(s, adapter[s].attempt + 1, adapter[s].token, adapter[s].handed)
    <3>1. adapter[s].attempt + 1 \in 1 .. MaxAttempts
      BY <1>2, <2>2
    <3>2. \A m \in wire : m.sub = s => m.attempt < adapter[s].attempt + 1
      BY <1>1, <1>2, <1>3 DEF Sent
    <3>3. adapter[s].token \in DOMAIN issued' /\ adapter[s].handed <= now
      BY <1>1, <1>3 DEF Holds
    <3>4. \A token : adapter[s].token = token => Expiry(token)' >= adapter[s].handed + Skew
      BY <1>1, <1>3 DEF Holds, Expiry
    <3> QED BY <1>1, <1>2, <1>4, <2>2, <3>1, <3>2, <3>3, <3>4, ForwardKeeps
  <2>3. CASE Tell(s, adapter[s].answer)
    <3>1. adapter[s].answer \in Answers /\ adapter[s].answer \notin Refusals
      BY <1>1, <1>3 DEF Proceeds, Answers, Refusals, GatewayStatuses
    <3> QED BY <1>1, <1>2, <1>3, <2>3, <3>1, TellKeeps DEF Sent
  <2> QED BY <1>2, <2>1, <2>2, <2>3 DEF Answered
<1>6. StateInv'
  BY <1>1, <1>4, <1>5 DEF StateInv
<1>7. LeadsInv' /\ TokensInv' /\ PageInv'
  BY <1>1, PageKept DEF LeadsInv, TokensInv, Expiry
<1> QED BY <1>5, <1>6, <1>7

LEMMA IssueKeeps ==
  ASSUME IntakeInv, NEW s \in Submissions, Issue(s)
  PROVE  IntakeInv'
<1>. USE DEF IntakeInv
<1>1. UNCHANGED <<now, cache, wire, leads, page, events>> /\ adapter[s].pc = "asking"
  BY DEF Issue
<1>2. PICK k \in 0 .. MaxTokens : DOMAIN issued = 1 .. k /\ issued \in [1 .. k -> Token]
  BY DEF StateInv, IssuedInv
<1>3. /\ k \in Nat /\ MaxTokens \in Nat /\ now \in 0 .. MaxNow /\ MaxNow \in Nat /\ adapter[s] \in Doing
      /\ Lifetimes \subseteq Nat /\ IssuedInv
  BY Constants DEF StateInv
<1>4. Cardinality(DOMAIN issued) = k
  BY <1>2, <1>3, FS_Interval
<1>. DEFINE n == k + 1
<1>5. PICK life \in Lifetimes, stated \in BOOLEAN :
        /\ stated \/ life >= DefaultLife
        /\ issued' = [t \in 1 .. n |-> IF t = n
             THEN [at |-> now, life |-> life, stated |-> stated, revoked |-> FALSE, cachedAt |-> now] ELSE issued[t]]
        /\ adapter' = [adapter EXCEPT ![s].pc = "issued", ![s].token = n]
        /\ k < MaxTokens
  BY <1>4 DEF Issue
<1>. DEFINE new == [at |-> now, life |-> life, stated |-> stated, revoked |-> FALSE, cachedAt |-> now]
<1>6. new \in Token
  BY <1>3 DEF Token
<1>7. /\ issued' \in [1 .. n -> Token] /\ DOMAIN issued' = 1 .. n /\ issued'[n] = new
      /\ \A t \in 1 .. k : issued'[t] = issued[t] /\ t \in 1 .. n
  BY <1>2, <1>3, <1>5, <1>6
<1>8. IssuedInv'
  <2>1. n \in 0 .. MaxTokens
    BY <1>3, <1>5
  <2> QED BY <1>7, <2>1 DEF IssuedInv, Token
<1>9. Grown
  <2>1. \A t \in 1 .. k : issued[t].cachedAt \in Nat
    BY <1>2, <1>3, TokenFacts
  <2> QED BY <1>2, <1>7, <2>1 DEF Grown
<1>10. /\ adapter' \in [Submissions -> Doing] /\ adapter'[s].pc = "issued" /\ adapter'[s].token = n
       /\ adapter'[s].attempt = adapter[s].attempt /\ adapter'[s].handed = adapter[s].handed
       /\ adapter'[s].deadline = adapter[s].deadline /\ adapter'[s].answer = adapter[s].answer
       /\ \A t \in Submissions \ {s} : adapter'[t] = adapter[t]
  <2>. DEFINE next == [adapter[s] EXCEPT !.pc = "issued", !.token = n]
  <2>1. /\ next \in Doing /\ next.pc = "issued" /\ next.token = n
        /\ next.attempt = adapter[s].attempt /\ next.handed = adapter[s].handed
        /\ next.deadline = adapter[s].deadline /\ next.answer = adapter[s].answer
    <3>1. n \in Nat \cup {None}
      BY <1>3
    <3>. HIDE DEF n
    <3> QED BY <1>3, <3>1 DEF Doing
  <2>2. adapter' = [adapter EXCEPT ![s] = next] /\ adapter \in [Submissions -> Doing]
    BY <1>5 DEF StateInv
  <2>. HIDE DEF next
  <2> QED BY <2>1, <2>2
<1>11. StateInv'
  <2>1. DOMAIN issued \subseteq DOMAIN issued'
    BY <1>2, <1>7
  <2>2. cache = None \/ cache \in [token : DOMAIN issued', expiresAt : Nat]
    BY <2>1 DEF StateInv
  <2>3. wire \subseteq [sub : Submissions, attempt : Nat, token : DOMAIN issued']
    BY <2>1 DEF StateInv
  <2> QED BY <1>1, <1>8, <1>10, <2>2, <2>3 DEF StateInv
<1>12. TokensInv'
  <2>1. \A t \in DOMAIN issued' : issued'[t].cachedAt <= now /\ (issued'[t].stated \/ issued'[t].life >= DefaultLife)
    <3>1. ASSUME NEW t \in 1 .. n
          PROVE  issued'[t].cachedAt <= now /\ (issued'[t].stated \/ issued'[t].life >= DefaultLife)
      <4>1. CASE t = n
        BY <4>1, <1>3, <1>5, <1>7
      <4>2. CASE t # n
        <5>1. t \in 1 .. k
          BY <4>2, <1>3
        <5> QED BY <5>1, <1>2, <1>7 DEF TokensInv
      <4> QED BY <4>1, <4>2
    <3> QED BY <3>1, <1>7
  <2>2. cache # None => cache.expiresAt <= Expiry(cache.token)'
    <3>1. cache # None => cache.token \in 1 .. k /\ cache.expiresAt <= Expiry(cache.token)
      BY <1>2 DEF TokensInv, StateInv
    <3> QED BY <3>1, <1>1, <1>7 DEF Expiry
  <2> QED BY <1>1, <2>1, <2>2 DEF TokensInv, Expiry
<1>13. Holds(s)' /\ Proceeds(s)' /\ Sent(s)'
  <2>1. Holds(s) /\ Proceeds(s) /\ Sent(s)
    BY DEF CallInv
  <2>2. n \in DOMAIN issued'
    BY <1>3, <1>7
  <2>3. Holds(s)'
    BY <1>1, <1>10, <2>1, <2>2 DEF Holds, Proceeds
  <2>4. Proceeds(s)'
    BY <1>1, <1>10, <2>1 DEF Proceeds
  <2>5. Sent(s)'
    BY <1>1, <1>10, <2>1 DEF Sent
  <2> QED BY <2>3, <2>4, <2>5
<1>14. CallInv'
  BY <1>1, <1>8, <1>9, <1>10, <1>13, OthersKept
<1>15. LeadsInv' /\ PageInv'
  BY <1>1, PageKept DEF LeadsInv
<1> QED BY <1>11, <1>12, <1>14, <1>15

LEMMA HeadersKeep ==
  ASSUME IntakeInv, NEW s \in Submissions, Headers(s)
  PROVE  IntakeInv'
<1>. USE DEF IntakeInv
<1>1. UNCHANGED <<now, issued, cache, wire, leads, page, events>> /\ adapter[s].pc = "issued"
  BY DEF Headers
<1>2. adapter \in [Submissions -> Doing] /\ adapter[s] \in Doing /\ now + BodyTime \in Nat /\ IssuedInv
  BY Constants DEF StateInv
<1>3. /\ adapter' \in [Submissions -> Doing] /\ adapter'[s].pc = "reading" /\ adapter'[s].token = adapter[s].token
      /\ adapter'[s].attempt = adapter[s].attempt /\ adapter'[s].handed = adapter[s].handed
      /\ adapter'[s].answer = adapter[s].answer
      /\ \A t \in Submissions \ {s} : adapter'[t] = adapter[t]
  <2>. DEFINE next == [adapter[s] EXCEPT !.pc = "reading", !.deadline = now + BodyTime]
  <2>1. /\ next \in Doing /\ next.pc = "reading" /\ next.token = adapter[s].token
        /\ next.attempt = adapter[s].attempt /\ next.handed = adapter[s].handed
        /\ next.answer = adapter[s].answer
    BY <1>2 DEF Doing
  <2>2. adapter' = [adapter EXCEPT ![s] = next]
    BY DEF Headers
  <2>. HIDE DEF next
  <2> QED BY <1>2, <2>1, <2>2
<1>4. Grown /\ IssuedInv'
  BY <1>1, <1>2, SameGrows DEF IssuedInv, Token
<1>5. StateInv'
  BY <1>1, <1>3, <1>4 DEF StateInv
<1>6. Holds(s)' /\ Proceeds(s)' /\ Sent(s)'
  <2>1. Holds(s) /\ Proceeds(s) /\ Sent(s)
    BY DEF CallInv
  <2>2. Holds(s)'
    BY <1>1, <1>3, <2>1 DEF Holds, Proceeds
  <2>3. Proceeds(s)'
    BY <1>1, <1>3, <2>1 DEF Proceeds
  <2>4. Sent(s)'
    BY <1>1, <1>3, <2>1 DEF Sent
  <2> QED BY <2>2, <2>3, <2>4
<1>7. CallInv'
  BY <1>1, <1>3, <1>4, <1>6, OthersKept
<1>8. LeadsInv' /\ TokensInv' /\ PageInv'
  BY <1>1, PageKept DEF LeadsInv, TokensInv, Expiry
<1> QED BY <1>5, <1>7, <1>8

LEMMA CacheKeeps ==
  ASSUME IntakeInv, NEW s \in Submissions, Cache(s)
  PROVE  IntakeInv'
<1>. USE DEF IntakeInv
<1>. DEFINE token == adapter[s].token
<1>1. /\ UNCHANGED <<now, leads, page, events>> /\ adapter[s].pc = "reading"
      /\ cache' = [token |-> token, expiresAt |-> now + Stated(token)]
      /\ issued' = [issued EXCEPT ![token].cachedAt = now]
      /\ Forward(s, adapter[s].attempt + 1, token, now)
  BY DEF Cache
<1>2. PICK k \in 0 .. MaxTokens : DOMAIN issued = 1 .. k /\ issued \in [1 .. k -> Token]
  BY DEF StateInv, IssuedInv
<1>3. /\ now \in 0 .. MaxNow /\ MaxNow \in Nat /\ MaxAttempts \in Nat /\ Skew \in Nat /\ DefaultLife \in Nat /\ IssuedInv
      /\ adapter[s].attempt \in Nat
  BY Constants DEF StateInv, Doing
<1>4. Holds(s) /\ Proceeds(s) /\ Sent(s)
  BY DEF CallInv
<1>5. /\ token \in DOMAIN issued /\ token \in 1 .. k /\ issued[token] \in Token /\ issued[token].life \in Nat
      /\ issued[token].life >= Skew /\ issued[token].at \in Nat /\ issued[token].stated \in BOOLEAN
  <2>1. token \in DOMAIN issued
    BY <1>1, <1>4 DEF Holds
  <2> QED BY <1>2, <1>3, <2>1, TokenFacts
<1>6. /\ DOMAIN issued' = 1 .. k /\ issued' \in [1 .. k -> Token]
      /\ \A t \in 1 .. k \ {token} : issued'[t] = issued[t]
      /\ issued'[token].cachedAt = now /\ issued'[token].at = issued[token].at /\ issued'[token].life = issued[token].life
      /\ issued'[token].stated = issued[token].stated /\ issued'[token].revoked = issued[token].revoked
  <2>. DEFINE next == [issued[token] EXCEPT !.cachedAt = now]
  <2>1. /\ next \in Token
        /\ next.cachedAt = now /\ next.at = issued[token].at /\ next.life = issued[token].life
        /\ next.stated = issued[token].stated /\ next.revoked = issued[token].revoked
    BY <1>3, <1>5 DEF Token
  <2>2. issued' = [issued EXCEPT ![token] = next]
    BY <1>1
  <2>. HIDE DEF next, token
  <2> QED BY <1>2, <1>5, <2>1, <2>2
<1>7. IssuedInv'
  BY <1>6 DEF IssuedInv, Token
<1>8. Grown
  <2>1. \A t \in 1 .. k : issued[t].cachedAt \in Nat /\ issued[t].cachedAt <= now
    BY <1>2, <1>3, TokenFacts DEF TokensInv
  <2> QED BY <1>2, <1>5, <1>6, <2>1 DEF Grown
<1>9. Stated(token) \in Nat /\ Stated(token) <= issued[token].life
  BY <1>3, <1>5 DEF Stated, TokensInv
<1>10. /\ adapter' \in [Submissions -> Doing]
       /\ wire' \subseteq [sub : Submissions, attempt : Nat, token : DOMAIN issued']
       /\ CallInv'
  <2>1. adapter[s].attempt + 1 \in 1 .. MaxAttempts
    BY <1>1, <1>3, <1>4 DEF Proceeds
  <2>2. token \in DOMAIN issued'
    BY <1>5, <1>6
  <2>3. now \in Nat /\ now <= now
    BY <1>3
  <2>4. \A t : token = t => Expiry(t)' >= now + Skew
    BY <1>3, <1>5, <1>6 DEF Expiry
  <2>5. \A m \in wire : m.sub = s => m.attempt < adapter[s].attempt + 1
    <3>1. \A m \in wire : m.attempt \in Nat
      BY DEF StateInv
    <3> QED BY <1>1, <1>3, <1>4, <3>1 DEF Sent
  <2>. HIDE DEF token
  <2> QED BY <1>1, <1>7, <1>8, <2>1, <2>2, <2>3, <2>4, <2>5, ForwardKeeps
<1>11. cache' \in [token : DOMAIN issued', expiresAt : Nat] /\ cache'.token = token /\ cache'.expiresAt = now + Stated(token)
  BY <1>1, <1>3, <1>5, <1>6, <1>9
<1>12. StateInv'
  BY <1>1, <1>7, <1>10, <1>11 DEF StateInv
<1>13. TokensInv'
  <2>1. \A t \in DOMAIN issued' : issued'[t].cachedAt <= now /\ (issued'[t].stated \/ issued'[t].life >= DefaultLife)
    <3>1. \A t \in 1 .. k : issued[t].cachedAt <= now /\ (issued[t].stated \/ issued[t].life >= DefaultLife)
      BY <1>2 DEF TokensInv
    <3>2. now <= now
      BY <1>3
    <3> QED BY <1>5, <1>6, <3>1, <3>2
  <2>2. cache'.expiresAt <= issued'[token].cachedAt + issued'[token].life
    BY <1>3, <1>5, <1>6, <1>9, <1>11
  <2>3. cache'.expiresAt <= issued'[cache'.token].cachedAt + issued'[cache'.token].life
    BY <1>11, <2>2
  <2> QED BY <1>1, <2>1, <2>3 DEF TokensInv, Expiry
<1>14. LeadsInv' /\ PageInv'
  BY <1>1, PageKept DEF LeadsInv
<1> QED BY <1>10, <1>12, <1>13, <1>14

(* The provider, or the network, fails a call. *)
LEMMA FailureKeeps ==
  ASSUME IntakeInv, NEW s \in Submissions, ProviderFails(s) \/ FetchFails(s)
  PROVE  IntakeInv'
<1>. USE DEF IntakeInv
<1>1. UNCHANGED <<now, issued, cache, leads, page, events>>
  BY DEF ProviderFails, FetchFails
<1>2. PICK answer \in {"idp_refused", "bad_gateway", "gateway_timeout"} : Tell(s, answer)
  BY DEF ProviderFails, FetchFails
<1>3. answer \in Answers /\ answer \notin Refusals /\ answer \notin {"ok", "unauthorized"}
  BY DEF Answers, Refusals
<1>4. adapter' \in [Submissions -> Doing] /\ wire' = wire /\ CallInv'
  BY <1>1, <1>2, <1>3, TellKeeps
<1>5. StateInv'
  BY <1>1, <1>4 DEF StateInv, IssuedInv, Token
<1>6. LeadsInv' /\ TokensInv' /\ PageInv'
  BY <1>1, PageKept DEF LeadsInv, TokensInv, Expiry
<1> QED BY <1>4, <1>5, <1>6

LEMMA GatewayKeeps ==
  ASSUME IntakeInv, NEW m \in wire, GatewayReceives(m)
  PROVE  IntakeInv'
<1>. USE DEF IntakeInv
<1>. DEFINE s == m.sub
            key == <<s, 0>>
            token == issued[m.token]
            good == ~ token.revoked /\ now < token.at + token.life
            awaited == adapter[s].pc = "forwarding" /\ adapter[s].attempt = m.attempt
<1>1. UNCHANGED <<now, issued, cache, page, events>> /\ wire' = wire \ {m}
  BY DEF GatewayReceives
<1>2. /\ m \in [sub : Submissions, attempt : Nat, token : DOMAIN issued] /\ s \in Submissions
      /\ key \in Keys /\ leads \in [Keys -> {0, 1}] /\ IssuedInv
      /\ adapter \in [Submissions -> Doing] /\ adapter[s] \in Doing /\ now \in Nat
  BY Constants DEF StateInv, Keys
<1>3. PICK status \in GatewayStatuses, recorded \in BOOLEAN :
        /\ status = "ok" => recorded
        /\ status = "unauthorized" => ~ good
        /\ leads' = [leads EXCEPT ![key] = IF recorded /\ @ = 0 THEN @ + 1 ELSE @]
        /\ adapter' = IF awaited THEN [adapter EXCEPT ![s].pc = "answered", ![s].answer = status] ELSE adapter
  BY DEF GatewayReceives, KeyOf, GatewayStatuses
<1>4. /\ leads' \in [Keys -> {0, 1}]
      /\ \A k \in Keys : k # key => leads'[k] = leads[k]
      /\ leads[key] = 1 \/ recorded => leads'[key] = 1
  <2>. DEFINE count == IF recorded /\ leads[key] = 0 THEN leads[key] + 1 ELSE leads[key]
  <2>1. count \in {0, 1} /\ (leads[key] = 1 \/ recorded => count = 1)
    BY <1>2
  <2>2. leads' = [leads EXCEPT ![key] = count]
    BY <1>3
  <2>. HIDE DEF count, key
  <2> QED BY <1>2, <2>1, <2>2
<1>. HIDE DEF good
<1>5. LeadsInv'
  BY <1>2, <1>4 DEF LeadsInv
<1>6. Holds(s) /\ Proceeds(s) /\ Sent(s)
  BY <1>2 DEF CallInv
<1>7. \A t \in Submissions : <<t, 0>> \in Keys /\ (t # s => <<t, 0>> # key)
  BY DEF Keys
<1>8. adapter[s].pc # "idle" /\ adapter[s].answer \notin Refusals
  BY <1>6 DEF Sent
<1>9. Grown /\ IssuedInv'
  BY <1>1, <1>2, SameGrows DEF IssuedInv, Token
<1>10. ASSUME ~ awaited PROVE adapter' \in [Submissions -> Doing] /\ CallInv'
  <2>1. adapter' = adapter
    BY <1>3, <1>10
  <2>2. Holds(s)'
    BY <1>1, <1>6, <2>1 DEF Holds, Expiry
  <2>3. Proceeds(s)'
    BY <1>1, <1>6, <2>1 DEF Proceeds
  <2>4. Sent(s)'
    BY <1>1, <1>4, <1>6, <1>8, <2>1 DEF Sent
  <2>5. CallInv'
    BY <1>1, <1>2, <1>4, <1>7, <1>9, <2>1, <2>2, <2>3, <2>4, OthersKept
  <2> QED BY <1>2, <2>1, <2>5
<1>11. ASSUME awaited PROVE adapter' \in [Submissions -> Doing] /\ CallInv'
  <2>. DEFINE next == [adapter[s] EXCEPT !.pc = "answered", !.answer = status]
  <2>1. status \in Answers /\ status # "none" /\ status \notin Refusals
    BY DEF Answers, GatewayStatuses, Refusals
  <2>2. /\ next \in Doing /\ next.pc = "answered" /\ next.answer = status /\ next.token = adapter[s].token
        /\ next.attempt = adapter[s].attempt /\ next.handed = adapter[s].handed
    BY <1>2, <2>1 DEF Doing
  <2>3. adapter' = [adapter EXCEPT ![s] = next]
    BY <1>3, <1>11
  <2>. HIDE DEF next
  <2>4. /\ adapter' \in [Submissions -> Doing] /\ adapter'[s] = next
        /\ \A t \in Submissions \ {s} : adapter'[t] = adapter[t]
    BY <1>2, <2>2, <2>3
  <2>5. adapter[s].token = m.token
    BY <1>6, <1>11 DEF Sent
  <2>6. token.at \in Nat /\ token.life \in Nat
    BY <1>2, TokenFacts
  <2>7. Holds(s)'
    <3>1. next.token \in DOMAIN issued' /\ next.handed <= now'
      BY <1>1, <1>2, <1>6, <2>2, <2>5 DEF Holds
    <3>2. issued'[next.token].cachedAt + issued'[next.token].life >= next.handed + Skew
      BY <1>1, <1>6, <1>11, <2>2 DEF Holds, Expiry
    <3>3. status = "unauthorized" => (issued'[next.token].revoked \/ now' >= issued'[next.token].at + issued'[next.token].life)
      BY <1>1, <1>2, <1>3, <2>2, <2>5, <2>6 DEF good
    <3> QED BY <2>2, <2>4, <3>1, <3>2, <3>3 DEF Holds, Expiry
  <2>8. Proceeds(s)'
    BY <2>1, <2>2, <2>4 DEF Proceeds
  <2>9. Sent(s)'
    <3>1. status = "ok" => leads'[key] = 1
      BY <1>3, <1>4
    <3> QED BY <1>1, <1>6, <1>11, <2>1, <2>2, <2>4, <3>1 DEF Sent
  <2>10. CallInv'
    BY <1>1, <1>2, <1>4, <1>7, <1>9, <2>4, <2>7, <2>8, <2>9, OthersKept
  <2> QED BY <2>4, <2>10
<1>12. StateInv'
  BY <1>1, <1>4, <1>9, <1>10, <1>11 DEF StateInv
<1>13. \A t \in Submissions : leads[<<t, 0>>] = 1 => leads'[<<t, 0>>] = 1
  BY <1>4, <1>7
<1>14. TokensInv' /\ PageInv'
  BY <1>1, <1>13, PageKept DEF TokensInv, Expiry
<1> QED BY <1>5, <1>10, <1>11, <1>12, <1>14

LEMMA LoseKeeps ==
  ASSUME IntakeInv, NEW m \in wire, Lose(m)
  PROVE  IntakeInv'
<1>. USE DEF IntakeInv
<1>1. UNCHANGED <<now, issued, cache, adapter, leads, page, events>> /\ wire' \subseteq wire
  BY DEF Lose
<1>2. IssuedInv
  BY DEF StateInv
<1>3. Grown /\ IssuedInv'
  BY <1>1, <1>2, SameGrows DEF IssuedInv, Token
<1>4. CallInv'
  BY <1>1, <1>3, Undisturbed DEF CallInv
<1>5. StateInv'
  BY <1>1, <1>3 DEF StateInv
<1>6. LeadsInv' /\ TokensInv' /\ PageInv'
  BY <1>1, PageKept DEF LeadsInv, TokensInv, Expiry
<1> QED BY <1>4, <1>5, <1>6

LEMMA RevokeKeeps ==
  ASSUME IntakeInv, NEW t \in Tokens, Revoke(t)
  PROVE  IntakeInv'
<1>. USE DEF IntakeInv
<1>1. /\ UNCHANGED <<now, cache, adapter, wire, leads, page>> /\ t \in DOMAIN issued
      /\ issued' = [issued EXCEPT ![t].revoked = TRUE]
  BY DEF Revoke
<1>2. PICK k \in 0 .. MaxTokens : DOMAIN issued = 1 .. k /\ issued \in [1 .. k -> Token]
  BY DEF StateInv, IssuedInv
<1>3. IssuedInv
  BY DEF StateInv
<1>4. /\ DOMAIN issued' = 1 .. k /\ issued' \in [1 .. k -> Token]
      /\ \A u \in 1 .. k : /\ issued'[u].cachedAt = issued[u].cachedAt /\ issued'[u].at = issued[u].at
                           /\ issued'[u].life = issued[u].life /\ issued'[u].stated = issued[u].stated
                           /\ issued[u].revoked => issued'[u].revoked
  <2>. DEFINE next == [issued[t] EXCEPT !.revoked = TRUE]
  <2>1. /\ next \in Token /\ next.cachedAt = issued[t].cachedAt /\ next.at = issued[t].at
        /\ next.life = issued[t].life /\ next.stated = issued[t].stated /\ next.revoked
    BY <1>1, <1>2 DEF Token
  <2>2. issued' = [issued EXCEPT ![t] = next]
    BY <1>1
  <2>. HIDE DEF next
  <2>3. DOMAIN issued' = 1 .. k /\ issued' \in [1 .. k -> Token] /\ issued'[t] = next
        /\ \A u \in 1 .. k : u # t => issued'[u] = issued[u]
    BY <1>1, <1>2, <2>1, <2>2
  <2> QED BY <1>1, <1>2, <2>1, <2>3
<1>5. Grown /\ IssuedInv'
  <2>1. \A u \in 1 .. k : issued[u].cachedAt \in Nat
    BY <1>2, <1>3, TokenFacts
  <2>2. Grown
    BY <1>2, <1>4, <2>1 DEF Grown
  <2> QED BY <1>4, <2>2 DEF IssuedInv, Token
<1>6. CallInv'
  BY <1>1, <1>5, Undisturbed DEF CallInv
<1>7. StateInv'
  BY <1>1, <1>2, <1>4, <1>5 DEF StateInv
<1>8. TokensInv'
  <2>1. \A u \in 1 .. k : issued[u].cachedAt <= now /\ (issued[u].stated \/ issued[u].life >= DefaultLife)
    BY <1>2 DEF TokensInv
  <2>2. \A u \in 1 .. k : issued'[u].cachedAt <= now /\ (issued'[u].stated \/ issued'[u].life >= DefaultLife)
    BY <1>4, <2>1
  <2>3. cache # None => cache.token \in 1 .. k /\ cache.expiresAt <= issued[cache.token].cachedAt + issued[cache.token].life
    BY <1>2 DEF TokensInv, StateInv, Expiry
  <2> QED BY <1>1, <1>4, <2>2, <2>3 DEF TokensInv, Expiry
<1>9. LeadsInv' /\ PageInv'
  BY <1>1, PageKept DEF LeadsInv
<1> QED BY <1>6, <1>7, <1>8, <1>9

LEMMA TickKeeps ==
  ASSUME IntakeInv, Tick
  PROVE  IntakeInv'
<1>. USE DEF IntakeInv
<1>1. UNCHANGED <<issued, cache, adapter, wire, leads, page, events>> /\ now' = now + 1 /\ now < MaxNow
  BY DEF Tick
<1>2. now \in 0 .. MaxNow /\ MaxNow \in Nat /\ IssuedInv /\ adapter \in [Submissions -> Doing]
  BY Constants DEF StateInv
<1>3. StateInv'
  BY <1>1, <1>2 DEF StateInv, IssuedInv, Token
<1>4. TokensInv'
  <2>1. \A t \in DOMAIN issued : issued[t].cachedAt \in Nat
    BY <1>2, TokenFacts
  <2> QED BY <1>1, <1>2, <2>1 DEF TokensInv, Expiry
<1>5. ASSUME NEW s \in Submissions PROVE Holds(s)' /\ Proceeds(s)' /\ Sent(s)'
  <2>1. Holds(s) /\ Proceeds(s) /\ Sent(s)
    BY DEF CallInv
  <2>2. adapter[s].handed \in Nat /\ adapter[s].deadline \in Nat
    BY <1>2 DEF Doing
  <2>3. /\ adapter[s].pc \in {"asking", "issued", "reading", "forwarding"} => now < adapter[s].deadline
        /\ adapter[s].pc # "answered"
    BY DEF Tick
  <2>4. Holds(s)'
    BY <1>1, <1>2, <2>1, <2>2, <2>3 DEF Holds, Expiry
  <2>5. Proceeds(s)'
    BY <1>1, <1>2, <2>1, <2>2, <2>3 DEF Proceeds
  <2>6. Sent(s)'
    BY <1>1, <2>1 DEF Sent
  <2> QED BY <2>4, <2>5, <2>6
<1>6. LeadsInv' /\ PageInv'
  BY <1>1, PageKept DEF LeadsInv
<1> QED BY <1>3, <1>4, <1>5, <1>6 DEF CallInv

-----------------------------------------------------------------------------
(* The actions of the page. *)

(* Those of them that do not touch the adapter, and the clearing of its    *)
(* cache, leave its calls as they are.                                     *)
LEMMA CallsStand ==
  ASSUME StateInv, CallInv, UNCHANGED <<now, issued, adapter, wire, leads>>
  PROVE  IssuedInv' /\ CallInv'
<1>1. IssuedInv
  BY DEF StateInv
<1>2. Grown /\ IssuedInv'
  BY <1>1, SameGrows DEF IssuedInv, Token
<1> QED BY <1>2, Undisturbed DEF CallInv

LEMMA ShowKeeps ==
  ASSUME IntakeInv, NEW s \in Submissions, Show(s)
  PROVE  IntakeInv'
<1>. USE DEF IntakeInv
<1>. DEFINE awaiting == [page.awaiting EXCEPT ![s] = 0]
            status == IF adapter[s].answer = "ok" THEN "success" ELSE "error"
            button == page.enabled \/ page.awaiting[s] = page.mount
<1>1. /\ UNCHANGED <<now, issued, cache, adapter, wire, leads, events>>
      /\ page' = [page EXCEPT !.status = status, !.of = s, !.enabled = button, !.awaiting = awaiting]
      /\ page.awaiting[s] # 0
  BY DEF Show, StateInv, Page
<1>2. page \in Page /\ page.awaiting \in [Submissions -> 0 .. MaxMounts] /\ page.mount \in 1 .. MaxMounts /\ MaxMounts \in Nat
  BY Constants DEF StateInv, Page
<1>3. /\ awaiting \in [Submissions -> 0 .. MaxMounts] /\ awaiting[s] = 0
      /\ \A t \in Submissions \ {s} : awaiting[t] = page.awaiting[t]
  BY <1>2
<1>4. button \in BOOLEAN
  BY <1>2 DEF Page
<1>5. status \in {"success", "error"}
  OBVIOUS
<1>6. /\ page' \in Page
      /\ page'.mount = page.mount /\ page'.of = s /\ page'.latest = page.latest /\ page'.status = status
      /\ page'.resets = page.resets /\ page'.awaiting = awaiting /\ page'.enabled = button
  <2>. HIDE DEF awaiting, status, button
  <2> QED BY <1>1, <1>2, <1>3, <1>4, <1>5 DEF Page
<1>7. page'.enabled \/ \E t \in Submissions : page'.awaiting[t] = page'.mount
  <2>1. CASE page.enabled \/ page.awaiting[s] = page.mount
    BY <1>6, <2>1
  <2>2. CASE ~ page.enabled /\ page.awaiting[s] # page.mount
    <3>1. PICK t \in Submissions : page.awaiting[t] = page.mount
      BY <2>2 DEF PageInv
    <3> QED BY <1>3, <1>6, <2>2, <3>1
  <2> QED BY <2>1, <2>2
<1>8. page'.status = "success" => page'.of \in Submissions /\ leads'[<<page'.of, 0>>] = 1
  <2>1. Sent(s)
    BY DEF CallInv
  <2> QED BY <1>1, <1>6, <2>1 DEF Sent
<1>9. page'.mount = 1 => s = page'.latest /\ \A t \in Submissions : page'.awaiting[t] = 0
  BY <1>1, <1>3, <1>6 DEF PageInv
<1>10. LatestIsShown'
  BY <1>5, <1>6, <1>9 DEF LatestIsShown
<1>11. PageInv'
  BY <1>7, <1>8, <1>9, <1>10 DEF PageInv
<1>12. IssuedInv' /\ CallInv'
  BY <1>1, CallsStand
<1>13. StateInv'
  BY <1>1, <1>6, <1>12 DEF StateInv
<1>14. LeadsInv' /\ TokensInv'
  BY <1>1 DEF LeadsInv, TokensInv, Expiry
<1> QED BY <1>11, <1>12, <1>13, <1>14

LEMMA RemountKeeps ==
  ASSUME IntakeInv, Remount
  PROVE  IntakeInv'
<1>. USE DEF IntakeInv
<1>1. /\ UNCHANGED <<now, issued, cache, adapter, wire, leads, events>> /\ page.mount < MaxMounts
      /\ page' = [page EXCEPT !.mount = @ + 1, !.enabled = TRUE]
  BY DEF Remount
<1>2. page \in Page /\ page.mount \in 1 .. MaxMounts /\ MaxMounts \in Nat
  BY Constants DEF StateInv, Page
<1>3. page' \in Page /\ page'.enabled /\ page'.mount # 1 /\ page'.status = page.status /\ page'.of = page.of
  <2>. DEFINE mount == page.mount + 1
  <2>1. mount \in 1 .. MaxMounts /\ mount # 1
    BY <1>1, <1>2
  <2>2. page' = [page EXCEPT !.mount = mount, !.enabled = TRUE]
    BY <1>1
  <2>. HIDE DEF mount
  <2> QED BY <1>2, <2>1, <2>2 DEF Page
<1>4. PageInv'
  BY <1>1, <1>3 DEF PageInv, LatestIsShown
<1>5. IssuedInv' /\ CallInv'
  BY <1>1, CallsStand
<1>6. StateInv'
  BY <1>1, <1>3, <1>5 DEF StateInv
<1>7. LeadsInv' /\ TokensInv'
  BY <1>1 DEF LeadsInv, TokensInv, Expiry
<1> QED BY <1>4, <1>5, <1>6, <1>7

LEMMA ResetKeeps ==
  ASSUME IntakeInv, Reset
  PROVE  IntakeInv'
<1>. USE DEF IntakeInv
<1>1. /\ UNCHANGED <<now, issued, cache, adapter, wire, leads>>
      /\ page' = [page EXCEPT !.status = "idle", !.of = None, !.resets = @ + 1]
  BY DEF Reset
<1>2. page \in Page
  BY DEF StateInv
<1>3. /\ page' \in Page /\ page'.status = "idle" /\ page'.resets # 0 /\ page'.mount = page.mount
      /\ page'.enabled = page.enabled /\ page'.latest = page.latest /\ page'.awaiting = page.awaiting
  <2>. DEFINE resets == page.resets + 1
  <2>1. resets \in Nat /\ resets # 0
    BY <1>2 DEF Page
  <2>2. page' = [page EXCEPT !.status = "idle", !.of = None, !.resets = resets]
    BY <1>1
  <2>. HIDE DEF resets
  <2> QED BY <1>2, <2>1, <2>2 DEF Page
<1>4. PageInv'
  BY <1>1, <1>3 DEF PageInv, LatestIsShown
<1>5. IssuedInv' /\ CallInv'
  BY <1>1, CallsStand
<1>6. StateInv'
  BY <1>1, <1>3, <1>5 DEF StateInv
<1>7. LeadsInv' /\ TokensInv'
  BY <1>1 DEF LeadsInv, TokensInv, Expiry
<1> QED BY <1>4, <1>5, <1>6, <1>7

LEMMA ClearKeeps ==
  ASSUME IntakeInv, ClearTokenCache
  PROVE  IntakeInv'
<1>. USE DEF IntakeInv
<1>1. UNCHANGED <<now, issued, adapter, wire, leads, page>> /\ cache' = None
  BY DEF ClearTokenCache
<1>2. IssuedInv' /\ CallInv'
  BY <1>1, CallsStand
<1>3. StateInv'
  BY <1>1, <1>2 DEF StateInv
<1>4. LeadsInv' /\ TokensInv' /\ PageInv'
  BY <1>1, PageKept DEF LeadsInv, TokensInv, Expiry
<1> QED BY <1>2, <1>3, <1>4

-----------------------------------------------------------------------------
LEMMA IntakeStarts == IntakeInit => IntakeInv
<1>. SUFFICES ASSUME IntakeInit PROVE IntakeInv
  OBVIOUS
<1>. USE DEF IntakeInit
<1>1. /\ MaxAttempts \in Nat /\ MaxNow \in Nat /\ MaxMounts \in Nat /\ MaxMounts >= 1 /\ MaxTokens \in Nat
      /\ None \notin Submissions
  BY Constants
<1>2. IssuedInv
  <2>1. DOMAIN issued = 1 .. 0 /\ issued \in [1 .. 0 -> Token]
    OBVIOUS
  <2>2. 0 \in 0 .. MaxTokens
    BY <1>1
  <2> QED BY <2>1, <2>2 DEF IssuedInv
<1>3. Idle \in Doing /\ Idle.pc = "idle" /\ Idle.answer = "none" /\ Idle.handed = 0
  BY <1>1 DEF Idle, Doing
<1>4. page \in Page
  BY <1>1 DEF Page
<1>5. StateInv
  BY <1>1, <1>2, <1>3, <1>4 DEF StateInv
<1>6. LeadsInv
  BY DEF LeadsInv
<1>7. TokensInv
  <2>1. DOMAIN issued = {}
    OBVIOUS
  <2> QED BY <2>1 DEF TokensInv
<1>8. CallInv
  <2>1. \A s \in Submissions : adapter[s] = Idle /\ <<s, 0>> \in Keys
    BY DEF Keys
  <2>2. ASSUME NEW s \in Submissions PROVE Holds(s) /\ Proceeds(s) /\ Sent(s)
    <3>1. Holds(s)
      BY <1>3, <2>1 DEF Holds
    <3>2. Proceeds(s)
      BY <1>3, <2>1 DEF Proceeds
    <3>3. Sent(s)
      BY <1>3, <2>1 DEF Sent
    <3> QED BY <3>1, <3>2, <3>3
  <2> QED BY <2>2 DEF CallInv
<1>9. PageInv
  BY DEF PageInv, LatestIsShown
<1> QED BY <1>5, <1>6, <1>7, <1>8, <1>9 DEF IntakeInv

LEMMA IntakeKeeps == IntakeInv /\ [IntakeNext]_intakeVars => IntakeInv'
<1>. SUFFICES ASSUME IntakeInv, [IntakeNext]_intakeVars PROVE IntakeInv'
  OBVIOUS
<1>1. CASE UNCHANGED intakeVars
  <2>1. UNCHANGED <<now, issued, cache, adapter, wire, leads, page>>
    BY <1>1 DEF intakeVars
  <2>2. IssuedInv' /\ CallInv'
    BY <2>1, CallsStand DEF IntakeInv
  <2>3. StateInv'
    BY <2>1, <2>2 DEF IntakeInv, StateInv
  <2>4. LeadsInv' /\ TokensInv' /\ PageInv'
    BY <2>1, PageKept DEF IntakeInv, LeadsInv, TokensInv, Expiry
  <2> QED BY <2>2, <2>3, <2>4 DEF IntakeInv
<1>2. CASE IntakeNext
  <2>1. ASSUME NEW s \in Submissions,
               \/ Submit(s) \/ Show(s) \/ Issue(s) \/ Headers(s) \/ Cache(s) \/ ProviderFails(s)
               \/ Answered(s) \/ FetchFails(s)
        PROVE  IntakeInv'
    BY <2>1, SubmitKeeps, ShowKeeps, IssueKeeps, HeadersKeep, CacheKeeps, FailureKeeps, AnsweredKeeps
  <2>2. ASSUME NEW m \in wire, GatewayReceives(m) \/ Lose(m) PROVE IntakeInv'
    BY <2>2, GatewayKeeps, LoseKeeps
  <2>3. ASSUME Remount \/ Reset \/ ClearTokenCache \/ (\E t \in Tokens : Revoke(t)) \/ Tick PROVE IntakeInv'
    BY <2>3, RemountKeeps, ResetKeeps, ClearKeeps, RevokeKeeps, TickKeeps
  <2> QED BY <1>2, <2>1, <2>2, <2>3 DEF IntakeNext
<1> QED BY <1>1, <1>2

LEMMA IntakeInvariance == IntakeSpec => []IntakeInv
BY IntakeStarts, IntakeKeeps, PTL DEF IntakeSpec

-----------------------------------------------------------------------------
(* However often the adapter sends a submission again, and however late a  *)
(* request it gave up arrives, the gateway records one lead of it at most: *)
(* forward() passes the caller's own Idempotency-Key on.                   *)
THEOREM LeadsAreOnce == IntakeSpec => []OneLeadEach
<1>1. IntakeInv => OneLeadEach
  <2>. SUFFICES ASSUME IntakeInv, NEW s \in Submissions
                PROVE  Cardinality({k \in Keys : k[1] = s /\ leads[k] > 0}) <= 1
    BY DEF OneLeadEach
  <2>. DEFINE mine == {k \in Keys : k[1] = s /\ leads[k] > 0}
  <2>1. mine \subseteq {<<s, 0>>}
    <3>1. ASSUME NEW k \in mine PROVE k = <<s, 0>>
      <4>1. k \in Keys /\ k[1] = s /\ leads[k] # 0
        BY DEF IntakeInv, StateInv
      <4>2. k[2] = 0
        BY <4>1 DEF IntakeInv, LeadsInv
      <4> QED BY <4>1, <4>2 DEF Keys
    <3> QED BY <3>1
  <2>2. IsFiniteSet({<<s, 0>>}) /\ Cardinality({<<s, 0>>}) = 1
    BY FS_Singleton
  <2>3. Cardinality(mine) <= Cardinality({<<s, 0>>})
    BY <2>1, <2>2, FS_Subset
  <2> QED BY <2>2, <2>3
<1> QED BY <1>1, IntakeInvariance, PTL

(* What the page shows is true, and of the submission its reader expects:  *)
(* success has its lead, a refusal of the adapter has none and never will, *)
(* and of a form mounted once the latest submission is shown.              *)
THEOREM PagesAreTrue == IntakeSpec => []PageIsTrue
<1>1. IntakeInv => IntakeTypeOK
  <2>. SUFFICES ASSUME IntakeInv PROVE IntakeTypeOK
    OBVIOUS
  <2>. USE DEF IntakeInv
  <2>1. PICK n \in 0 .. MaxTokens : DOMAIN issued = 1 .. n /\ issued \in [1 .. n -> Token]
    BY DEF StateInv, IssuedInv
  <2>2. \A t \in DOMAIN issued : issued[t] \in
          [at : 0 .. MaxNow, life : Lifetimes, stated : BOOLEAN, revoked : BOOLEAN, cachedAt : 0 .. MaxNow]
    BY <2>1 DEF Token
  <2>3. now \in 0 .. MaxNow /\ (cache = None \/ (cache.token \in DOMAIN issued /\ cache.expiresAt \in Nat))
    BY DEF StateInv
  <2>4. ASSUME NEW s \in Submissions
        PROVE  /\ adapter[s].pc \in {"idle", "asking", "issued", "reading", "forwarding", "answered", "told"}
               /\ adapter[s].attempt \in 0 .. MaxAttempts
               /\ adapter[s].pc \in {"asking", "issued", "forwarding"} => now <= adapter[s].deadline
               /\ adapter[s].answer \in Answers \cup {"none"}
               /\ (adapter[s].answer # "none") = (adapter[s].pc \in {"answered", "told"})
    <3>1. adapter[s] \in Doing
      BY DEF StateInv
    <3>2. Proceeds(s)
      BY DEF CallInv
    <3> QED BY <3>1, <3>2 DEF Doing, Proceeds
  <2>5. \A m \in wire : m.sub \in Submissions /\ m.token \in DOMAIN issued
    BY DEF StateInv
  <2>6. page.mount \in 1 .. MaxMounts /\ (page.enabled \/ \E s \in Submissions : page.awaiting[s] # 0)
    <3>1. page.mount \in 1 .. MaxMounts /\ MaxMounts \in Nat
      BY Constants DEF StateInv, Page
    <3> QED BY <3>1 DEF PageInv
  <2> QED BY <2>2, <2>3, <2>4, <2>5, <2>6 DEF IntakeTypeOK
<1>2. IntakeInv => ShownIsTrue
  <2>. SUFFICES ASSUME IntakeInv PROVE ShownIsTrue
    OBVIOUS
  <2>. USE DEF IntakeInv
  <2>1. page.status = "success" => leads[KeyOf(page.of, 1)] = 1
    BY DEF PageInv, KeyOf
  <2>2. ASSUME NEW s \in Submissions, adapter[s].answer \in Refusals
        PROVE  (\A k \in Keys : k[1] = s => leads[k] = 0) /\ (\A m \in wire : m.sub # s)
    <3>1. leads[<<s, 0>>] = 0 /\ \A m \in wire : m.sub # s
      BY <2>2 DEF CallInv, Sent
    <3>2. ASSUME NEW k \in Keys, k[1] = s, leads[k] # 0 PROVE FALSE
      <4>1. k[2] = 0
        BY <3>2 DEF LeadsInv
      <4>2. k = <<s, 0>>
        BY <3>2, <4>1 DEF Keys
      <4> QED BY <3>1, <3>2, <4>2
    <3> QED BY <3>1, <3>2
  <2> QED BY <2>1, <2>2 DEF ShownIsTrue
<1>3. IntakeInv => LatestIsShown
  BY DEF IntakeInv, PageInv
<1>4. IntakeInv => PageIsTrue
  BY <1>1, <1>2, <1>3 DEF PageIsTrue
<1> QED BY <1>4, IntakeInvariance, PTL

(* A caller is told 401 for a token nobody revoked only if the skew was    *)
(* used up after it was handed out, whatever lifetimes the provider states *)
(* or leaves out and however the cached token is shared and replaced.      *)
THEOREM SkewIsEnough == IntakeSpec => []ExpiredOnlyWhenLate
<1>1. IntakeInv => ExpiredOnlyWhenLate
  BY DEF IntakeInv, CallInv, Holds, ExpiredOnlyWhenLate
<1> QED BY <1>1, IntakeInvariance, PTL
=============================================================================
