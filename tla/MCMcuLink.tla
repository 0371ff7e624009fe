----------------------------- MODULE MCMcuLink -----------------------------
(* Model checking of McuLink on small instances. *)
EXTENDS McuLink

=============================================================================
