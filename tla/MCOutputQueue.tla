--------------------------- MODULE MCOutputQueue ---------------------------
(* Instance of OutputQueue for model checking: of the A429 buses one has a *)
(* failing socket, one has not.                                            *)
EXTENDS OutputQueue, TLC
CONSTANTS p1, p2, p3, p4

MCPorts == {p1, p2, p3, p4}
TwoFaulty == {p1, p2}
TwoLimited == {p2, p3}
=============================================================================
