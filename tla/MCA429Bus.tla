------------------------------ MODULE MCA429Bus ------------------------------
(* Instance of A429Bus for model checking: two labels of different depths. *)
(* The receiver declares the first one without SDI, and the second one     *)
(* twice, with its SDI and with the SDI as payload, and reads datagrams of *)
(* the size of the sender's, with one failure or reset, or of half of it,  *)
(* without.                                                                *)
EXTENDS A429Bus, TLC

alt == [number |-> 1, sdi |-> "00"]
spd == [number |-> 2, sdi |-> "01"]
altDD == [number |-> 1, sdi |-> "DD"]
spdXX == [number |-> 2, sdi |-> "XX"]

MCBusOrder == <<spd, alt>>
MCInLabels == {altDD, spd, spdXX}
MCDepth == (alt :> 2) @@ (spd :> 1)
MCReceiverDepth == [m \in MCInLabels |-> 1]
MCReceiverRooms == {1, 2}
MCMaxUpsets == (1 :> 0) @@ (2 :> 1)
MCMaxWords == (alt :> 5) @@ (spd :> 1)
=============================================================================
