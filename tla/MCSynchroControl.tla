-------------------------- MODULE MCSynchroControl --------------------------
(* Instance of SynchroControl for model checking. *)
EXTENDS SynchroControl, TLC

MCStepCounts == {0, 1, 2}
=============================================================================
