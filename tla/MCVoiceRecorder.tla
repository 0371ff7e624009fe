-------------------------- MODULE MCVoiceRecorder --------------------------
(* Model checking of VoiceRecorder on small instances. *)
EXTENDS VoiceRecorder

=============================================================================
