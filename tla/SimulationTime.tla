-------------------------- MODULE SimulationTime --------------------------
(* The simulation time of a context (vistas_context.cpp).  The application *)
(* moves it with ims_progress, by any duration, and ims_reset_all puts it  *)
(* back to zero.  What the ports and messages do with it is in the modules *)
(* that extend this one.                                                   *)
EXTENDS Integers

CONSTANTS
  Steps,   \* the durations given to ims_progress
  MaxTime  \* bound: simulation time

ASSUME SimulationTimeAssumption == Steps \subseteq Nat /\ MaxTime \in Nat

VARIABLE timeUs  \* context::_time_us

(* ims_progress, as far as time is concerned. *)
Elapse(d) ==
  /\ timeUs + d <= MaxTime
  /\ timeUs' = timeUs + d
=============================================================================
