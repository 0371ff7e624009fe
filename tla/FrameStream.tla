---------------------------- MODULE FrameStream ----------------------------
(***************************************************************************)
(* What the co-processor's receive path promises to the handlers above it: *)
(* the frames 1 .. Frames the head sent are dispatched in order and at     *)
(* most once, and one that is passed over was hurt, i.e. a byte of it or   *)
(* the delimiter in front of it was lost on the way.                       *)
(***************************************************************************)
EXTENDS Naturals, Sequences

CONSTANT Frames

VARIABLES
  delivered,  \* frames dispatched so far
  hurt        \* frames that may be missing

Latest == IF delivered = <<>> THEN 0 ELSE delivered[Len(delivered)]

Init ==
  /\ delivered = <<>>
  /\ hurt \subseteq 1 .. Frames

Hurt ==
  /\ hurt \subseteq hurt'
  /\ hurt' \subseteq 1 .. Frames
  /\ UNCHANGED delivered

Deliver(f) ==
  /\ Latest < f
  /\ Latest + 1 .. f - 1 \subseteq hurt
  /\ delivered' = Append(delivered, f)
  /\ UNCHANGED hurt

Next == Hurt \/ \E f \in 1 .. Frames : Deliver(f)

Spec == Init /\ [][Next]_<<delivered, hurt>>

=============================================================================
