------------------------- MODULE MCControlConnection -------------------------
(* All four controllers on two connections, so that each registration but  *)
(* the first of a connection may meet a command; and two controllers.      *)
EXTENDS ControlConnection

CONSTANTS a, b

AllRoles == [r \in Roles |-> IF r \in {"power", "sync"} THEN a ELSE b]
Apart == [r \in {"power", "mode"} |-> IF r = "power" THEN a ELSE b]

MCAddresses == {AllRoles, Apart}
MCPools == {<<a, b>>, <<b, a>>}
==============================================================================
