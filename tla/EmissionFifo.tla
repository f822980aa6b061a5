--------------------------- MODULE EmissionFifo ---------------------------
(***************************************************************************)
(* What the queue of ports promises to the rest of the library: a port is  *)
(* queued at most once however often it is written between two emissions,  *)
(* ports are emitted in the order of their first write, every write makes  *)
(* sure that the port is in the queue, and the queue is eventually served. *)
(*                                                                         *)
(* It does not promise that a port with data is in the queue: an emission  *)
(* may leave data behind on a port whose datagrams are limited, which then *)
(* waits for its next write.                                               *)
(***************************************************************************)
EXTENDS Sequences, Functions

CONSTANTS
  Ports,
  Limited   \* the ports whose emission may leave data behind

VARIABLES
  queue,    \* the ports to emit, in order
  pending   \* the ports with data

vars == <<queue, pending>>

Init == queue = <<>> /\ pending = {}

Write(p) ==
  /\ pending' = pending \cup {p}
  /\ queue' = IF p \in Range(queue) THEN queue ELSE Append(queue, p)

Reset(p) ==
  /\ pending' = pending \ {p}
  /\ UNCHANGED queue

Emit ==
  /\ queue # <<>>
  /\ \E rest \in SUBSET ({Head(queue)} \cap Limited \cap pending) :
       pending' = (pending \ {Head(queue)}) \cup rest
  /\ queue' = Tail(queue)

Next == Emit \/ \E p \in Ports : Write(p) \/ Reset(p)

Spec == Init /\ [][Next]_vars

FairSpec == Spec /\ WF_vars(Emit)
=============================================================================
