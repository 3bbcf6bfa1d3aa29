\* Frames and calls of add_dummy_audio_track, four in all.
SPECIFICATION VoiceSpec
CONSTANTS
  MaxCalls = 4
  NoTrack = NoTrack
INVARIANT AddedOnce
CHECK_DEADLOCK FALSE
