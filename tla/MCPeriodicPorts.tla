-------------------------- MODULE MCPeriodicPorts --------------------------
(* Instance of PeriodicPorts for model checking: two discrete ports, an    *)
(* analogue port and a NAD port that emits in every cycle.  The periods do *)
(* not divide each other, the steps of time are shorter and longer than    *)
(* they are, and the socket of the second discrete may fail.               *)
EXTENDS PeriodicPorts, TLC
CONSTANTS gear, door, flap, fuel

MCPortOrder == <<gear, door, flap, fuel>>
MCDiscrete == {gear, door}
MCPeriod == (gear :> 3) @@ (door :> 2) @@ (flap :> 2) @@ (fuel :> 0)
MCFaulty == {door}
MCSteps == {1, 5}
=============================================================================
