------------------------------ MODULE MCReplay ------------------------------
(* Instances of Replay for TLC; the bounds are in the .cfg files. *)
EXTENDS Replay

CONSTANTS e1, c1

GoalThenVerdict == <<e1, c1>>

=============================================================================
