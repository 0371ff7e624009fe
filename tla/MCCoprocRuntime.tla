-------------------------- MODULE MCCoprocRuntime --------------------------
(* Model checking of CoprocRuntime on small instances. *)
EXTENDS CoprocRuntime

LongDuration == {2}

=============================================================================
