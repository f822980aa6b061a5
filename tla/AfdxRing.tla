------------------------------ MODULE AfdxRing ------------------------------
(***************************************************************************)
(* The dimension of the ring of an AFDX queuing port                      *)
(* (VISTAS/src/vistas_port_afdx_queuing.cpp), and the payloads of its      *)
(* messages.  The ring has four times the slots of the declared depth:     *)
(* push stops at the declared depth, receive only at the end of the ring.  *)
(*                                                                         *)
(* Messages are compared, never looked into: a payload is a value, and the *)
(* one distinction the code makes is between a datagram with a payload and *)
(* a datagram with nothing after its header.  push accepts a size of zero, *)
(* which produces the latter.                                              *)
(***************************************************************************)
EXTENDS Integers

CONSTANTS
  MessageQueueDepth,  \* the depth given to ims_get_message
  Payloads,           \* the payloads of the messages
  EmptyPayloads       \* those of size zero

ASSUME AfdxRingAssumption ==
  /\ MessageQueueDepth \in Nat \ {0}
  /\ EmptyPayloads \subseteq Payloads

(* Variant of RingSize: a ring of the declared depth. *)
DeclaredSize(depth) == depth

RingSize(depth) == 4 * depth
=============================================================================
