---------------------------- MODULE VoiceControl ----------------------------
(***************************************************************************)
(* VoiceControlController of packages/intake-voice-controls/src/index.ts:  *)
(* one controller in a browser tab, whose start(), setMuted(), end() and   *)
(* dispose() overlap at their awaits.  Code between two awaits is one      *)
(* step; Calls are the promises the host may have pending at a time.       *)
(*                                                                         *)
(* The browser and the VoiceTransport are external: a microphone that was  *)
(* granted captures until its tracks are stopped, a remote session lives   *)
(* from the moment start() of the transport answers until a stop() that    *)
(* succeeds.  Every one of their promises may be rejected.                 *)
(*                                                                         *)
(* Mounted says that the calls are the clicks of mountVoiceControls(),     *)
(* whose buttons are disabled by the state; otherwise a host calls what it *)
(* likes, but for a second start() while a permission is being asked.      *)
(*                                                                         *)
(* Ghosts, read by no action: late, stopped, and the overtaken flags.      *)
(***************************************************************************)
EXTENDS Naturals

CONSTANTS
  Calls,      \* calls that may be pending at a time
  MaxStarts,  \* bound on the calls of start()
  Mounted

ASSUME VoiceAssumption == MaxStarts \in Nat /\ Mounted \in BOOLEAN

VARIABLES
  state, muted, endRequested,
  stream,    \* the microphone stream held, 0 for undefined
  enabled,   \* of its tracks
  sessionId, \* 0 for undefined
  starts,    \* calls of start() so far; each has a stream and session id
  call,      \* what each pending call waits for
  disposed,
  mic,       \* the streams that capture
  live,      \* the remote sessions
  late,      \* sessions whose start was pending when end() was called
  stopped    \* sessions that transport.stop() was called for

vars == <<state, muted, endRequested, stream, enabled, sessionId, starts, call,
          disposed, mic, live, late, stopped>>
remote == <<sessionId, live, late, stopped>>
once == <<starts, disposed>>
track == <<stream, enabled, mic>>

States == {"idle", "requesting_permission", "ready", "connecting", "connected",
           "muted", "ending", "ended", "error"}
Ids == 0..MaxStarts
Waits == {"nothing", "permission", "start", "lateStop", "attach", "failedStop", "mute", "stop"}
Call == [at : Waits, id : Ids, to : BOOLEAN, before : BOOLEAN, overtaken : BOOLEAN]
NoCall == [at |-> "nothing", id |-> 0, to |-> FALSE, before |-> FALSE, overtaken |-> FALSE]

TypeOK ==
  /\ state \in States
  /\ {muted, endRequested, enabled, disposed} \subseteq BOOLEAN
  /\ {stream, sessionId, starts} \subseteq Ids
  /\ call \in [Calls -> Call]
  /\ UNION {mic, live, late, stopped} \subseteq 1..MaxStarts

Init ==
  /\ state = "idle"
  /\ muted = FALSE /\ endRequested = FALSE /\ enabled = FALSE /\ disposed = FALSE
  /\ stream = 0 /\ sessionId = 0 /\ starts = 0
  /\ call = [c \in Calls |-> NoCall]
  /\ mic = {} /\ live = {} /\ late = {} /\ stopped = {}

-----------------------------------------------------------------------------
Awaits(c, wait, id) == call' = [call EXCEPT ![c] = [NoCall EXCEPT !.at = wait, !.id = id]]
Settles(c) == call' = [call EXCEPT ![c] = NoCall]
Free(c) == call[c].at = "nothing" /\ ~disposed

(* Mutant: the tracks are dropped without being stopped. *)
DropTracks ==
  /\ stream' = 0
  /\ UNCHANGED <<enabled, mic>>

StopTracks ==
  /\ mic' = mic \ {stream}
  /\ stream' = 0
  /\ UNCHANGED enabled

(* transport.stop(): only when it succeeds is the session gone. *)
Stop(id, succeeds) ==
  /\ stopped' = stopped \cup {id}
  /\ live' = IF succeeds THEN live \ {id} ELSE live
  /\ UNCHANGED <<sessionId, late>>

(* The buttons of mountVoiceControls(). *)
Active == state \in {"connected", "muted"}
StartEnabled == state \notin {"requesting_permission", "connecting", "connected", "muted", "ending"}
EndEnabled == Active \/ state = "connecting"

-----------------------------------------------------------------------------
(* start(), with requestMicrophone() unless a stream is held. *)
Start(c) ==
  /\ Free(c)
  /\ starts < MaxStarts
  /\ IF Mounted THEN StartEnabled ELSE state # "requesting_permission"
  /\ endRequested' = FALSE
  /\ starts' = starts + 1
  /\ LET asks == stream = 0
     IN  /\ state' = IF asks THEN "requesting_permission" ELSE "connecting"
         /\ Awaits(c, IF asks THEN "permission" ELSE "start", starts + 1)
  /\ UNCHANGED <<muted, track, remote, disposed>>

MicrophoneGranted(c) ==
  /\ call[c].at = "permission"
  /\ stream' = call[c].id
  /\ mic' = mic \cup {call[c].id}
  /\ enabled' = TRUE
  /\ state' = "connecting"
  /\ call' = [call EXCEPT ![c].at = "start"]
  /\ UNCHANGED <<muted, endRequested, remote, once>>

MicrophoneDenied(c) ==
  /\ call[c].at = "permission"
  /\ state' = "error"
  /\ Settles(c)
  /\ UNCHANGED <<muted, endRequested, track, remote, once>>

(* transport.start() answers; an end() in the meantime is honoured. *)
StartedOn(c, ended) ==
  /\ call[c].at = "start"
  /\ sessionId' = call[c].id
  /\ live' = live \cup {call[c].id}
  /\ late' = IF call[c].overtaken THEN late \cup {call[c].id} ELSE late
  /\ \/ /\ ended
        /\ Awaits(c, "lateStop", call[c].id)
        /\ UNCHANGED state
     \/ /\ ~ended /\ stream # 0
        /\ Awaits(c, "attach", call[c].id)
        /\ UNCHANGED state
     \/ /\ ~ended  \* no stream, or a transport without attachStream()
        /\ Settles(c)
        /\ state' = "connected"
  /\ UNCHANGED <<muted, endRequested, track, stopped, once>>

(* Mutant: endRequested is not looked at. *)
StartedRegardless(c) == StartedOn(c, FALSE)

Started(c) == StartedOn(c, endRequested)

StartFails(c) ==
  /\ call[c].at = "start"
  /\ StopTracks
  /\ state' = "error"
  /\ Settles(c)
  /\ UNCHANGED <<muted, endRequested, remote, once>>

LateStop(c) ==
  /\ call[c].at = "lateStop"
  /\ \/ /\ Stop(call[c].id, TRUE)
        /\ StopTracks
        /\ muted' = FALSE
        /\ state' = "ended"
        /\ Settles(c)
     \/ /\ Stop(call[c].id, FALSE)
        /\ call' = [call EXCEPT ![c].at = "failedStop"]
        /\ UNCHANGED <<state, muted, track>>
  /\ UNCHANGED <<endRequested, once>>

Attached(c) ==
  /\ call[c].at = "attach"
  /\ \/ state' = "connected" /\ Settles(c)
     \/ call' = [call EXCEPT ![c].at = "failedStop"] /\ UNCHANGED state
  /\ UNCHANGED <<muted, endRequested, track, remote, once>>

(* The stop() of the catch clause, whose own failure is swallowed. *)
FailedStop(c) ==
  /\ call[c].at = "failedStop"
  /\ \E succeeds \in BOOLEAN : Stop(call[c].id, succeeds)
  /\ StopTracks
  /\ state' = "error"
  /\ Settles(c)
  /\ UNCHANGED <<muted, endRequested, once>>

-----------------------------------------------------------------------------
(* setMuted(), and toggleMute() behind the button. *)
SetMuted(c, to) ==
  /\ Free(c)
  /\ sessionId # 0 /\ Active
  /\ Mounted => to = ~muted
  /\ enabled' = ~to
  /\ call' = [call EXCEPT ![c] = [NoCall EXCEPT !.at = "mute", !.id = stream,
                                                !.to = to, !.before = enabled]]
  /\ UNCHANGED <<state, muted, endRequested, stream, mic, remote, once>>

MuteSignalled(c) ==
  /\ call[c].at = "mute"
  /\ muted' = call[c].to
  /\ state' = IF call[c].to THEN "muted" ELSE "connected"
  /\ Settles(c)
  /\ UNCHANGED <<endRequested, track, remote, once>>

(* The tracks get back what they were when this call came. *)
MuteFails(c) ==
  /\ call[c].at = "mute"
  /\ enabled' = IF stream = call[c].id THEN call[c].before ELSE enabled
  /\ state' = "error"
  /\ Settles(c)
  /\ UNCHANGED <<muted, endRequested, stream, mic, remote, once>>

-----------------------------------------------------------------------------
(* The body of end(), which dispose() calls too.  Without a session there  *)
(* is nothing to await.                                                    *)
EndNow(c) ==
  /\ state \in {"ended", "idle"} \/ sessionId = 0
  /\ StopTracks
  /\ state' = "ended"
  /\ muted' = IF state \in {"ended", "idle"} THEN muted ELSE FALSE
  /\ endRequested' = (endRequested \/ state \notin {"ended", "idle"})
  /\ call' = [d \in Calls |-> [call[d] EXCEPT !.overtaken = @ \/ call[d].at = "start"]]
  /\ UNCHANGED remote

EndAwaiting(c) ==
  /\ sessionId # 0
  /\ state \notin {"ended", "idle"}
  /\ endRequested' = TRUE
  /\ state' = "ending"
  /\ call' = [d \in Calls |->
       IF d = c THEN [NoCall EXCEPT !.at = "stop", !.id = sessionId]
       ELSE [call[d] EXCEPT !.overtaken = @ \/ call[d].at = "start"]]
  /\ UNCHANGED <<muted, track, remote>>

EndOrDispose(c) == EndNow(c) \/ EndAwaiting(c)

End(c) ==
  /\ Free(c)
  /\ Mounted => EndEnabled
  /\ EndOrDispose(c)
  /\ UNCHANGED once

Dispose(c) ==
  /\ Free(c)
  /\ disposed' = TRUE
  /\ IF sessionId # 0 \/ state = "connecting"
     THEN EndOrDispose(c)
     ELSE StopTracks /\ UNCHANGED <<state, muted, endRequested, call, remote>>
  /\ UNCHANGED starts

EndedWith(c, failure) ==
  /\ call[c].at = "stop"
  /\ \E succeeds \in BOOLEAN :
       /\ Stop(call[c].id, succeeds)
       /\ state' = IF succeeds THEN "ended" ELSE failure
  /\ StopTracks
  /\ muted' = FALSE
  /\ Settles(c)
  /\ UNCHANGED <<endRequested, once>>

(* Mutant: a stop that fails is taken for an end. *)
EndedAnyway(c) == EndedWith(c, "ended")

Ended(c) == EndedWith(c, "error")

Step(c) ==
  \/ Start(c) \/ MicrophoneGranted(c) \/ MicrophoneDenied(c)
  \/ Started(c) \/ StartFails(c) \/ LateStop(c) \/ Attached(c) \/ FailedStop(c)
  \/ \E to \in BOOLEAN : SetMuted(c, to)
  \/ MuteSignalled(c) \/ MuteFails(c)
  \/ End(c) \/ Ended(c) \/ Dispose(c)

Next == \E c \in Calls : Step(c)

Spec == Init /\ [][Next]_vars

-----------------------------------------------------------------------------
Quiet == \A c \in Calls : call[c].at = "nothing"

(* The life of one start(): a second one replaces the session id and the   *)
(* stream of the first.                                                    *)
OneLife == starts <= 1

(* "Voice session ended." is the truth once every call has settled: no     *)
(* remote session lives and no microphone captures, whatever mutes, ends,  *)
(* failures and disposals overlapped on the way.                           *)
EndedIsOver == OneLife /\ Quiet /\ state = "ended" => live = {} /\ mic = {}

(* The controller is in a state it can be in, and its "ended" is the truth *)
(* (end() and dispose() of VoiceControlController).                        *)
EndIsTrue == TypeOK /\ EndedIsOver

(* What is still on can be turned off: a remote session that lives is the  *)
(* one the controller would stop, a microphone that captures is the one it *)
(* holds.                                                                  *)
NothingEscapes == OneLife => live \subseteq {sessionId} /\ mic \subseteq {stream}

(* The test "rolls back local track state when mute signaling fails"       *)
(* expects the tracks to agree with what the user is shown.                *)
MutedIsSilent == Quiet /\ state = "muted" /\ stream # 0 => ~enabled

(* The test "stops a session that resolves after the user already ended":  *)
(* in the life of one start() however end() and dispose() overlap it.  It  *)
(* fails as soon as the user starts again before the first start answers.  *)
LateSessionIsStopped == OneLife /\ Quiet => late \subseteq stopped

(* The test "stops a connected remote session during dispose": after       *)
(* dispose() nothing connects or captures that was not asked to stop.      *)
DisposedIsStopped ==
  Quiet /\ disposed => live \subseteq stopped /\ mic = {}
=============================================================================
