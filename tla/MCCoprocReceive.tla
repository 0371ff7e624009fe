-------------------------- MODULE MCCoprocReceive --------------------------
(* Model checking of CoprocReceive on small instances. *)
EXTENDS CoprocReceive

=============================================================================
