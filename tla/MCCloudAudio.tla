---------------------------- MODULE MCCloudAudio ----------------------------
(* Model checking of CloudAudio on small instances. *)
EXTENDS CloudAudio
=============================================================================
