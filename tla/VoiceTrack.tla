----------------------------- MODULE VoiceTrack -----------------------------
(***************************************************************************)
(* The voice of one RealWebrtcTransport (syncer/src/webrtc_transport.rs).  *)
(* send looks whether there is an audio track, and a task spawned after it *)
(* adds one and renegotiates, or just writes; add_dummy_audio_track adds   *)
(* and renegotiates without looking.  Both are calls here, numbered in     *)
(* their order; the tasks of several calls run side by side.  Everything   *)
(* the webrtc crate does may fail.                                         *)
(***************************************************************************)
EXTENDS Integers, Sequences, FiniteSets

CONSTANTS
  MaxCalls,     \* bound: frames sent and tracks asked for
  NoTrack       \* None, as audio_track

ASSUME NoTrackAssumption == NoTrack \notin Nat

VARIABLES
  stages,       \* how far each call so far has come
  track,        \* audio_track: the call that set it, or NoTrack
  explicit,     \* calls of add_dummy_audio_track; the others send a frame
  added,        \* calls that got as far as add_track
  overlapping   \* <<f, g>>: frame g was sent while call f was still adding

voiceVars == <<stages, track, explicit, added, overlapping>>

VoiceInit ==
  /\ stages = <<>>
  /\ track = NoTrack
  /\ explicit = {} /\ added = {} /\ overlapping = {}

Adding == {f \in DOMAIN stages : stages[f] = "adding"}

\* ensure_audio_track_task without needs_add (for mutation).
NeedsAddAlways == TRUE

NeedsAdd == track = NoTrack

\* The look at audio_track, before the task runs.
SendVoice ==
  /\ Len(stages) < MaxCalls
  /\ stages' = Append(stages, IF NeedsAdd THEN "adding" ELSE "ready")
  /\ overlapping' = overlapping \cup (Adding \X {Len(stages) + 1})
  /\ UNCHANGED <<track, explicit, added>>

\* Up to the await of add_track: audio_track is not looked at.
AddDummyAudioTrack ==
  /\ Len(stages) < MaxCalls
  /\ stages' = Append(stages, "adding")
  /\ explicit' = explicit \cup {Len(stages) + 1}
  /\ UNCHANGED <<track, added, overlapping>>

\* add_track, and audio_track set before the offer is made.
AddTrack(f) ==
  /\ stages[f] = "adding"
  /\ added' = added \cup {f}
  /\ track' = f
  /\ stages' = [stages EXCEPT ![f] = "negotiating"]
  /\ UNCHANGED <<explicit, overlapping>>

\* The peer has answered the offer that carries the track.
Renegotiate(f) ==
  /\ stages[f] = "negotiating"
  /\ stages' = [stages EXCEPT ![f] = IF f \in explicit THEN "done" ELSE "ready"]
  /\ UNCHANGED <<track, explicit, added, overlapping>>

\* An error of add_track or of a step of the renegotiation: a frame is lost,
\* and the track stays set if it was set.
GiveUp(f) ==
  /\ stages[f] \in {"adding", "negotiating"}
  /\ stages' = [stages EXCEPT ![f] = "lost"]
  /\ UNCHANGED <<track, explicit, added, overlapping>>

\* To the track of the moment, not the one this task added.
WriteSample(f) ==
  /\ stages[f] = "ready" /\ track # NoTrack
  /\ stages' = [stages EXCEPT ![f] = "done"]
  /\ UNCHANGED <<track, explicit, added, overlapping>>

VoiceNext ==
  \/ SendVoice \/ AddDummyAudioTrack
  \/ \E f \in DOMAIN stages :
       AddTrack(f) \/ Renegotiate(f) \/ GiveUp(f) \/ WriteSample(f)

VoiceSpec == VoiceInit /\ [][VoiceNext]_voiceVars
-----------------------------------------------------------------------------
(***************************************************************************)
(* What is left of AddedOnce.  Of two tracks the later one was asked for   *)
(* by add_dummy_audio_track, or is that of a frame sent while the call     *)
(* that added the earlier one was still adding.  A renegotiation that      *)
(* failed, or a frame lost, never leads to a second track.                 *)
(***************************************************************************)
OneTrackButForOverlaps ==
  \A f, g \in added : f < g => g \in explicit \/ <<f, g>> \in overlapping

(***************************************************************************)
(* "If audio_track is not set, it is added once" (webrtc_transport.rs line *)
(* 651): frames add one track between them.  Not true of the code.         *)
(***************************************************************************)
AddedOnce == Cardinality(added \ explicit) <= 1
=============================================================================
