----------------------------- MODULE FramePipe -----------------------------
(***************************************************************************)
(* What a media graph from a camera to a stream promises: frames may be    *)
(* lost on the way, but those that arrive do so in the order in which the  *)
(* camera took them, and none of them twice.                               *)
(***************************************************************************)
EXTENDS Naturals

VARIABLES
  sent,     \* frames the camera has taken
  arrived   \* the last of them that is on the stream, 0 for none

Init == sent = 0 /\ arrived = 0

Take == sent' = sent + 1 /\ UNCHANGED arrived

Arrive ==
  /\ \E f \in arrived + 1..sent : arrived' = f
  /\ UNCHANGED sent

Spec == Init /\ [][Take \/ Arrive]_<<sent, arrived>>
=============================================================================
