---------------------------- MODULE BoundedFifo ----------------------------
(***************************************************************************)
(* A bounded first-in first-out queue: the promise of a queuing port.  A   *)
(* message enters at the back while there is room, leaves from the front,  *)
(* and the whole queue may be discarded.                                   *)
(***************************************************************************)
EXTENDS Naturals, Sequences

CONSTANTS Payloads, Capacity

VARIABLE fifo

Init == fifo = <<>>

Put(m) ==
  /\ Len(fifo) < Capacity
  /\ fifo' = Append(fifo, m)

Take ==
  /\ fifo # <<>>
  /\ fifo' = Tail(fifo)

Clear == fifo' = <<>>

Next ==
  \/ \E m \in Payloads : Put(m)
  \/ Take
  \/ Clear

Spec == Init /\ [][Next]_fifo
=============================================================================
