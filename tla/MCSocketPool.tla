---------------------------- MODULE MCSocketPool ----------------------------
(* Instance of SocketPool for model checking: the control connection, two  *)
(* input channels on one multicast address and one output channel.         *)
EXTENDS SocketPool, TLC
CONSTANTS ctl, a1, a2, out, ipA, ipB, ipO

MCInputs == {a1, a2}
MCOutputs == {out}
MCIpOf == (a1 :> ipA) @@ (a2 :> ipA) @@ (out :> ipO)
MCPoolOrder == <<ctl, a1, a2>>

(* Every channel has an address of its own. *)
SoloIpOf == (a1 :> ipA) @@ (a2 :> ipB) @@ (out :> ipO)
=============================================================================
