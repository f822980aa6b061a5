---------------------------- MODULE OutputQueue ----------------------------
(***************************************************************************)
(* The queue of ports that have something to emit                          *)
(* (VISTAS/src/vistas_output_queue.cpp) and the two operations of the      *)
(* library that drive it: writing or pushing a message, which fills the    *)
(* port's own buffer and then queues the port, and ims_send_all, which     *)
(* walks the queue and calls send() on each port.                          *)
(*                                                                         *)
(* The queue is an intrusive, singly linked list: two pointers in the      *)
(* queue object and one in every port.  "Is the port already queued?" is   *)
(* answered from these pointers alone.                                     *)
(*                                                                         *)
(* A port's send() may throw (sendto fails).  The exception leaves the     *)
(* loop of send_all where it stands and reaches the C API, which turns it  *)
(* into a return code; the application goes on with its next cycle.        *)
(*                                                                         *)
(* A send() that returns empties its port, except on an A429 bus of        *)
(* queuing labels: one emission is one datagram, and the labels without    *)
(* room in it stay in their rings (port_a429::send; A429Bus has the        *)
(* detail).  Such a bus has left the queue with data.                      *)
(***************************************************************************)
EXTENDS Integers, Sequences, FiniteSets, Functions

CONSTANTS
  Ports,   \* the output ports with a socket of their own
  Faulty,  \* those whose socket may refuse a datagram
  Limited, \* the A429 buses: a send() that succeeds may leave labels behind
  NULL     \* the null pointer

ASSUME OutputQueueAssumption ==
  /\ IsFiniteSet(Ports)
  /\ Faulty \subseteq Ports
  /\ Limited \subseteq Ports
  /\ NULL \notin Ports

VARIABLES
  firstPort,       \* output_queue::_first_port
  lastPort,        \* output_queue::_last_port
  nextQueuedPort,  \* port::_next_queued_port, for every port
  sending,         \* TRUE inside the loop of output_queue::send_all
  pending,         \* the ports whose own buffer holds data to emit
  left             \* those whose data is only what a send() that returned
                   \* has left behind; not seen by the code

vars == <<firstPort, lastPort, nextQueuedPort, sending, pending, left>>

Pointer == Ports \cup {NULL}

Init ==
  /\ firstPort = NULL
  /\ lastPort = NULL
  /\ nextQueuedPort = [p \in Ports |-> NULL]
  /\ sending = FALSE
  /\ pending = {}
  /\ left = {}

-----------------------------------------------------------------------------
(* Variant of SaysQueued that forgets that the last port has a null link.  *)
SaysQueuedByLink(p) == nextQueuedPort[p] # NULL

(* The early return of push: the pointers say the port is queued.          *)
SaysQueued(p) == nextQueuedPort[p] # NULL \/ lastPort = p

(* The state in which push throws its "internal error". *)
InternalError == firstPort # NULL /\ lastPort = NULL

(* Variant of QueuePush that links the port before the head. *)
QueuePushFirst(p) ==
  IF SaysQueued(p) \/ InternalError
  THEN UNCHANGED <<firstPort, lastPort, nextQueuedPort>>
  ELSE /\ firstPort' = p
       /\ nextQueuedPort' = [nextQueuedPort EXCEPT ![p] = firstPort]
       /\ lastPort' = IF firstPort = NULL THEN p ELSE lastPort

(* output_queue::push *)
QueuePush(p) ==
  IF SaysQueued(p) \/ InternalError
  THEN UNCHANGED <<firstPort, lastPort, nextQueuedPort>>
  ELSE /\ firstPort' = IF firstPort = NULL THEN p ELSE firstPort
       /\ nextQueuedPort' = IF firstPort = NULL
                            THEN nextQueuedPort
                            ELSE [nextQueuedPort EXCEPT ![lastPort] = p]
       /\ lastPort' = p

(* Write or push a message of port p: the data goes to the port's buffer,  *)
(* then the port goes to the queue.                                        *)
Write(p) ==
  /\ ~sending
  /\ pending' = pending \cup {p}
  /\ left' = left \ {p}
  /\ QueuePush(p)
  /\ UNCHANGED sending

(* Reset the messages of port p: its buffer is emptied, the port stays     *)
(* where it is in the queue.                                               *)
Reset(p) ==
  /\ ~sending
  /\ pending' = pending \ {p}
  /\ left' = left \ {p}
  /\ UNCHANGED <<firstPort, lastPort, nextQueuedPort, sending>>

(* ims_send_all enters the loop. *)
BeginSendAll ==
  /\ ~sending
  /\ sending' = TRUE
  /\ UNCHANGED <<firstPort, lastPort, nextQueuedPort, pending, left>>

(* What a send() that returns may leave of the data of the head.           *)
MayLeave == SUBSET ({firstPort} \cap Limited \cap pending)

(* Variant of SendPort that leaves the link of the port it has unlinked.   *)
SendPortKeepsLink ==
  /\ sending
  /\ firstPort # NULL
  /\ firstPort' = nextQueuedPort[firstPort]
  /\ \E rest \in MayLeave :
       /\ pending' = (pending \ {firstPort}) \cup rest
       /\ left' = (left \ {firstPort}) \cup rest
  /\ UNCHANGED <<nextQueuedPort, lastPort, sending>>

(* One turn of the loop whose send() returns: the head is unlinked before  *)
(* the call and its own link is cleared after it, also when its datagram   *)
(* was full and it still has data.                                         *)
SendPort ==
  /\ sending
  /\ firstPort # NULL
  /\ firstPort' = nextQueuedPort[firstPort]
  /\ nextQueuedPort' = [nextQueuedPort EXCEPT ![firstPort] = NULL]
  /\ \E rest \in MayLeave :
       /\ pending' = (pending \ {firstPort}) \cup rest
       /\ left' = (left \ {firstPort}) \cup rest
  /\ UNCHANGED <<lastPort, sending>>

(* Variant of SendPortThrows: the tail pointer is cleared as at the end of *)
(* the loop.                                                               *)
SendPortThrowsClearsTail ==
  /\ sending
  /\ firstPort \in Faulty
  /\ firstPort' = nextQueuedPort[firstPort]
  /\ lastPort' = NULL
  /\ sending' = FALSE
  /\ UNCHANGED <<nextQueuedPort, pending, left>>

(* One turn whose send() throws: the head is already unlinked, its link    *)
(* and the tail pointer are not cleared, the rest of the list waits for    *)
(* the next ims_send_all.  A sampling port has consumed its data before    *)
(* the socket call, an AFDX queuing port keeps it, an A429 bus keeps what  *)
(* had no room in the datagram.                                            *)
SendPortThrows ==
  /\ sending
  /\ firstPort \in Faulty
  /\ firstPort' = nextQueuedPort[firstPort]
  /\ pending' \in {pending, pending \ {firstPort}}
  /\ left' = left \ {firstPort}
  /\ sending' = FALSE
  /\ UNCHANGED <<lastPort, nextQueuedPort>>

(* The loop ends: the tail pointer is cleared. *)
EndSendAll ==
  /\ sending
  /\ firstPort = NULL
  /\ lastPort' = NULL
  /\ sending' = FALSE
  /\ UNCHANGED <<firstPort, nextQueuedPort, pending, left>>

Next ==
  \/ \E p \in Ports : Write(p) \/ Reset(p)
  \/ BeginSendAll
  \/ SendPort
  \/ SendPortThrows
  \/ EndSendAll

Spec == Init /\ [][Next]_vars

(* The application calls ims_send_all every cycle, and a call runs to its  *)
(* end.  A faulty socket is not assumed to recover.                        *)
Fairness ==
  /\ WF_vars(BeginSendAll)
  /\ WF_vars(SendPort \/ SendPortThrows)
  /\ WF_vars(EndSendAll)

FairSpec == Spec /\ Fairness

-----------------------------------------------------------------------------
TypeOK ==
  /\ firstPort \in Pointer
  /\ lastPort \in Pointer
  /\ nextQueuedPort \in [Ports -> Pointer]
  /\ sending \in BOOLEAN
  /\ pending \subseteq Ports
  /\ left \subseteq pending \cap Limited

(* The list that the pointers represent: no port twice, linked in order    *)
(* from firstPort to a null link.                                          *)
PortLists == UNION {[1..n -> Ports] : n \in 0..Cardinality(Ports)}

IsList(s) ==
  /\ IsInjective(s)
  /\ firstPort = IF s = <<>> THEN NULL ELSE s[1]
  /\ \A i \in DOMAIN s :
       nextQueuedPort[s[i]] = IF i = Len(s) THEN NULL ELSE s[i+1]

Queued(p) == \E s \in PortLists : IsList(s) /\ p \in Range(s)

Healthy == Ports \ Faulty

(* Whatever sendto failures happen, and wherever in the loop, the links    *)
(* stay one acyclic list from the head, whose end the tail pointer         *)
(* designates: push never appends to a port that has left the list, and    *)
(* its "internal error" throw is unreachable.                              *)
ListWellFormed ==
  \E s \in PortLists : IsList(s) /\ (s # <<>> => lastPort = s[Len(s)])

(* A failing socket never makes the library forget the data of a port      *)
(* whose own socket works: such a port is in the list from the write of    *)
(* its data until its send() has returned, also when the failure of        *)
(* another port aborted the loop.  The one way to have data and not to be  *)
(* in the list is an A429 bus whose last datagram was full; its next write *)
(* puts it back.  (What this means for "the queue which will be sent with  *)
(* ims_send_all()" of ims.h:776 is Stranded in A429Bus.)                   *)
HealthyPendingIsQueued ==
  \A p \in pending \ Faulty : Queued(p) \/ p \in left \cap Limited

(* Outside the loop, the pointers of a port whose socket works tell the    *)
(* truth about it: push never drops its request on a stale link.  (Those   *)
(* of a faulty port may not: after its own failure the comment of push,    *)
(* "Port already in the queue", is wrong about it, see AfdxChannel.)       *)
HealthyPushIsNotDropped ==
  ~sending => \A p \in Healthy : SaysQueued(p) => Queued(p)

(* The list, and what is left of a list without the faulty ports.          *)
TheList == CHOOSE s \in PortLists : IsList(s)

HealthyOf(s) ==
  LET upTo[k \in 0..Len(s)] ==
        IF k = 0 THEN <<>>
        ELSE IF s[k] \in Healthy THEN Append(upTo[k - 1], s[k]) ELSE upTo[k - 1]
  IN  upTo[Len(s)]

(* Seen from the healthy ports the linked list is a first-in first-out     *)
(* queue without duplicates, ims_send_all serves it in order, and a port   *)
(* that was left with data comes back at its next write.                   *)
Fifo == INSTANCE EmissionFifo WITH
          Ports <- Healthy,
          Limited <- Limited \cap Healthy,
          queue <- HealthyOf(TheList),
          pending <- pending \cap Healthy

ImplementsFifo == Fifo!FairSpec
=============================================================================
