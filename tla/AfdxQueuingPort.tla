-------------------------- MODULE AfdxQueuingPort --------------------------
(***************************************************************************)
(* One AFDX queuing port (VISTAS/src/vistas_port_afdx_queuing.cpp): a ring *)
(* of queue slots with the index of its first message and the number of    *)
(* messages.  An output port is filled by push and emptied by send, one    *)
(* datagram per message; an input port is filled by receive and emptied by *)
(* pop.                                                                    *)
(***************************************************************************)
EXTENDS AfdxRing, Sequences

VARIABLES
  queue,       \* port_afdx_queuing::_queue
  begin,       \* port_afdx_queuing::_begin
  nbMessages   \* port_afdx_queuing::_nb_messages

vars == <<queue, begin, nbMessages>>

QueueDepth == RingSize(MessageQueueDepth)

Slots == 0..(QueueDepth - 1)

(* The constructor zeroes the data of the slots but not their sizes: a     *)
(* slot starts with any content.                                           *)
Init ==
  /\ queue \in [Slots -> Payloads]
  /\ begin = 0
  /\ nbMessages = 0

-----------------------------------------------------------------------------
Slot(i) == (begin + i) % QueueDepth

(* The messages of the ring, in the order in which they will leave it. *)
Contents == [i \in 1..nbMessages |-> queue[Slot(i - 1)]]

QueueFull == nbMessages >= MessageQueueDepth

(* ims_push_queuing_message on an output message, when it is not refused   *)
(* with ims_message_queue_full.                                            *)
Push(m) ==
  /\ ~QueueFull
  /\ queue' = [queue EXCEPT ![Slot(nbMessages)] = m]
  /\ nbMessages' = nbMessages + 1
  /\ UNCHANGED begin

(* One datagram leaves: header, payload of the first slot, socket call.    *)
(* The indices move after the socket call has returned.                    *)
SendOne ==
  /\ nbMessages > 0
  /\ begin' = Slot(1)
  /\ nbMessages' = nbMessages - 1
  /\ UNCHANGED queue

(* The loop of send is over. *)
EndSend ==
  /\ nbMessages = 0
  /\ begin' = 0
  /\ UNCHANGED <<queue, nbMessages>>

RingFull == nbMessages >= QueueDepth

(* Variants of Receive: a full ring takes the datagram all the same; the   *)
(* ring stops at the declared depth.                                       *)
ReceiveOverwrites(m) ==
  /\ queue' = IF m \in EmptyPayloads
              THEN queue
              ELSE [queue EXCEPT ![Slot(nbMessages)] = m]
  /\ nbMessages' = IF RingFull THEN nbMessages ELSE nbMessages + 1
  /\ UNCHANGED begin

ReceiveToDepth(m) ==
  IF QueueFull
  THEN UNCHANGED vars
  ELSE ReceiveOverwrites(m)

(* One datagram arrives.  With a full ring it is read and thrown away; one *)
(* without payload takes a slot and leaves the slot as it is.              *)
Receive(m) ==
  IF RingFull
  THEN UNCHANGED vars
  ELSE /\ queue' = IF m \in EmptyPayloads
                   THEN queue
                   ELSE [queue EXCEPT ![Slot(nbMessages)] = m]
       /\ nbMessages' = nbMessages + 1
       /\ UNCHANGED begin

(* ims_pop_queuing_message on an input message; an empty ring returns a    *)
(* size of zero and changes nothing.                                       *)
Pop ==
  /\ nbMessages > 0
  /\ begin' = Slot(1)
  /\ nbMessages' = nbMessages - 1
  /\ UNCHANGED queue

(* ims_reset_message *)
Reset ==
  /\ begin' = 0
  /\ nbMessages' = 0
  /\ UNCHANGED queue

-----------------------------------------------------------------------------
TypeOK ==
  /\ queue \in [Slots -> Payloads]
  /\ begin \in Slots
  /\ nbMessages \in 0..QueueDepth

OutputNext ==
  \/ \E m \in Payloads : Push(m)
  \/ SendOne
  \/ EndSend
  \/ Reset

InputNext ==
  \/ \E m \in Payloads : Receive(m)
  \/ Pop
  \/ Reset

OutputSpec == Init /\ [][OutputNext]_vars
InputSpec == Init /\ [][InputNext]_vars

(* The bounded first-in first-out queue that a port implements. *)
OutputFifo == INSTANCE BoundedFifo WITH
                Capacity <- MessageQueueDepth,
                fifo <- Contents

InputFifo == INSTANCE BoundedFifo WITH
               Capacity <- QueueDepth,
               fifo <- Contents

(* An output port behaves as a first-in first-out queue of the declared    *)
(* depth, whatever slots the messages occupy and wherever the ring wraps.  *)
OutputIsFifo == OutputFifo!Spec

(* An input port behaves as a first-in first-out queue of four times the   *)
(* declared depth, as long as no datagram without payload reaches it.      *)
InputIsFifo == InputFifo!Spec
=============================================================================
