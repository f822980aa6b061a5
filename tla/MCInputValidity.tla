-------------------------- MODULE MCInputValidity --------------------------
(* Instance of InputValidity for model checking: an A429 bus whose first   *)
(* label is a queuing message and whose second is a sampling message, a    *)
(* wired port and a NAD port with one message each.                        *)
EXTENDS InputValidity, TLC
CONSTANTS bus, wire, nad, q1, s1, w1, n1

MCPorts == {bus, wire, nad}
MCMessageList == (bus :> <<q1, s1>>) @@ (wire :> <<w1>>) @@ (nad :> <<n1>>)
MCQueuing == {q1}
MCWiredPorts == {wire}
MCNadPorts == {nad}
MCDurations == {0, 2, 3}
MCSteps == {1, 2}
=============================================================================
