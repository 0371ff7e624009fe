---------------------------- MODULE MCCloudSpeech ----------------------------
(* Model checking of CloudSpeech on small instances. *)
EXTENDS CloudSpeech
=============================================================================
