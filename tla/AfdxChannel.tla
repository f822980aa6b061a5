---------------------------- MODULE AfdxChannel ----------------------------
(***************************************************************************)
(* Two applications joined by one AFDX queuing message: the output port of *)
(* the first, the datagrams on the network, the input port of the second.  *)
(* The applications are separate processes, so every push, every datagram  *)
(* sent, every datagram imported and every pop may interleave.             *)
(*                                                                         *)
(* Each application configures the depth of its own port: the sender has   *)
(* MessageQueueDepth, the receiver ReceiverDepth.  Messages are numbered   *)
(* in the order in which push accepts them; the number is the payload.     *)
(* Number 0 is the content of an unused slot.                              *)
(*                                                                         *)
(* The network keeps the order of datagrams and does not duplicate them    *)
(* (the receiving port never looks at the sequence number of the header,   *)
(* so it relies on this); it may lose them.                                *)
(***************************************************************************)
EXTENDS AfdxRing, Sequences, FiniteSets, Functions

CONSTANTS
  ReceiverDepth,      \* the depth configured at the receiver
  Lossy,              \* whether the network may lose datagrams
  MaxFailures,        \* bound: socket calls of the sender that fail
  MaxPush,            \* bound: messages pushed in a behaviour
  MaxAhead            \* bound: emissions before the receiver catches up

ASSUME AfdxChannelAssumption ==
  /\ ReceiverDepth \in Nat \ {0}
  /\ MaxPush \in Nat
  /\ Payloads = 0..MaxPush
  /\ MaxAhead \in Nat
  /\ MaxFailures \in Nat
  /\ Lossy \in BOOLEAN

VARIABLES
  sQueue, sBegin, sNbMessages,   \* the sender's port
  sending,                       \* TRUE inside the sender's ims_send_all
  queued,      \* the sender's port in the output queue: "yes" if it is in the
               \* list, "no" if it is not, "stale" if it is not and push
               \* takes it for queued
  failures,    \* socket calls of the sender that have failed
  wire,                          \* the datagrams under way
  rQueue, rBegin, rNbMessages,   \* the receiver's port
  pushed,      \* the number of messages accepted by push so far
  popped,      \* the payloads returned by pop, in order
  lost,        \* those the network lost or a reset discarded
  overflowed,  \* those the receiver's port threw away
  ahead        \* emissions since the receiver had nothing left to read

senderVars == <<sQueue, sBegin, sNbMessages>>
receiverVars == <<rQueue, rBegin, rNbMessages>>
queueVars == <<sending, queued, failures>>
vars == <<senderVars, queueVars, wire, receiverVars,
          pushed, popped, lost, overflowed, ahead>>

Sender == INSTANCE AfdxQueuingPort WITH
            queue <- sQueue, begin <- sBegin, nbMessages <- sNbMessages

Receiver == INSTANCE AfdxQueuingPort WITH
              MessageQueueDepth <- ReceiverDepth,
              queue <- rQueue, begin <- rBegin, nbMessages <- rNbMessages

Init ==
  /\ sQueue = [i \in Sender!Slots |-> 0] /\ sBegin = 0 /\ sNbMessages = 0
  /\ rQueue = [i \in Receiver!Slots |-> 0] /\ rBegin = 0 /\ rNbMessages = 0
  /\ sending = FALSE
  /\ queued = "no"
  /\ failures = 0
  /\ wire = <<>>
  /\ pushed = 0
  /\ popped = <<>>
  /\ lost = {}
  /\ overflowed = {}
  /\ ahead = 0

-----------------------------------------------------------------------------
(* The sending application.  A port that pushes goes to the output queue;   *)
(* the port is alone in it here.                                           *)
Push ==
  /\ ~sending
  /\ pushed < MaxPush
  /\ Sender!Push(pushed + 1)
  /\ pushed' = pushed + 1
  /\ queued' = IF queued = "no" THEN "yes" ELSE queued
  /\ UNCHANGED <<sending, failures, wire, receiverVars, popped, lost, overflowed, ahead>>

CaughtUp == wire = <<>> /\ rNbMessages = 0

(* ims_send_all serves the port.  The simulation does not let the sender   *)
(* run more than MaxAhead cycles ahead of a receiver that has something to *)
(* read.                                                                   *)
BeginSendAll ==
  /\ ~sending
  /\ queued = "yes"
  /\ CaughtUp \/ ahead < MaxAhead
  /\ ahead' = IF CaughtUp THEN 1 ELSE ahead + 1
  /\ sending' = TRUE
  /\ UNCHANGED <<senderVars, queued, failures, wire, receiverVars, pushed, popped,
                 lost, overflowed>>

(* ims_send_all with an empty list: it clears the tail pointer. *)
EmptySendAll ==
  /\ ~sending
  /\ queued = "stale"
  /\ queued' = "no"
  /\ UNCHANGED <<senderVars, sending, failures, wire, receiverVars, pushed, popped,
                 lost, overflowed, ahead>>

SendOne ==
  /\ sending
  /\ Sender!SendOne
  /\ wire' = Append(wire, Head(Sender!Contents))
  /\ UNCHANGED <<queueVars, receiverVars, pushed, popped, lost, overflowed, ahead>>

(* Variant of SendThrows: the index has moved before the socket call.      *)
SendThrowsLate ==
  /\ sending
  /\ failures < MaxFailures
  /\ Sender!SendOne
  /\ failures' = failures + 1
  /\ sending' = FALSE
  /\ queued' = "stale"
  /\ UNCHANGED <<wire, receiverVars, pushed, popped, lost, overflowed, ahead>>

(* Variant of SendThrows: the datagram left before the failure was seen.   *)
SendThrowsSent ==
  /\ sending
  /\ sNbMessages > 0
  /\ failures < MaxFailures
  /\ failures' = failures + 1
  /\ wire' = Append(wire, Head(Sender!Contents))
  /\ sending' = FALSE
  /\ queued' = "stale"
  /\ UNCHANGED <<senderVars, receiverVars, pushed, popped, lost, overflowed, ahead>>

(* The socket call of a datagram fails and the exception leaves            *)
(* ims_send_all: the ring is as it was, the port has left the list, and    *)
(* the tail pointer still names it.                                        *)
SendThrows ==
  /\ sending
  /\ sNbMessages > 0
  /\ failures < MaxFailures
  /\ failures' = failures + 1
  /\ sending' = FALSE
  /\ queued' = "stale"
  /\ UNCHANGED <<senderVars, wire, receiverVars, pushed, popped, lost, overflowed, ahead>>

EndSendAll ==
  /\ sending
  /\ Sender!EndSend
  /\ sending' = FALSE
  /\ queued' = "no"
  /\ UNCHANGED <<failures, wire, receiverVars, pushed, popped, lost, overflowed, ahead>>

ResetOutput ==
  /\ ~sending
  /\ Sender!Reset
  /\ lost' = lost \cup Range(Sender!Contents)
  /\ UNCHANGED <<queueVars, wire, receiverVars, pushed, popped, overflowed, ahead>>

(* The network. *)
Without(s, i) == SubSeq(s, 1, i - 1) \o SubSeq(s, i + 1, Len(s))

Lose ==
  /\ Lossy
  /\ \E i \in DOMAIN wire :
       /\ wire' = Without(wire, i)
       /\ lost' = lost \cup {wire[i]}
  /\ UNCHANGED <<senderVars, queueVars, receiverVars, pushed, popped, overflowed, ahead>>

(* The receiving application: one datagram of ims_import, a pop,  *)
(* a reset of the message.                                                 *)
Import ==
  /\ wire # <<>>
  /\ wire' = Tail(wire)
  /\ Receiver!Receive(Head(wire))
  /\ overflowed' = IF Receiver!RingFull
                   THEN overflowed \cup {Head(wire)}
                   ELSE overflowed
  /\ UNCHANGED <<senderVars, queueVars, pushed, popped, lost, ahead>>

Pop ==
  /\ Receiver!Pop
  /\ popped' = Append(popped, Head(Receiver!Contents))
  /\ UNCHANGED <<senderVars, queueVars, wire, pushed, lost, overflowed, ahead>>

ResetInput ==
  /\ Receiver!Reset
  /\ lost' = lost \cup Range(Receiver!Contents)
  /\ UNCHANGED <<senderVars, queueVars, wire, pushed, popped, overflowed, ahead>>

Next ==
  \/ Push \/ ResetOutput
  \/ BeginSendAll \/ EmptySendAll \/ SendOne \/ SendThrows \/ EndSendAll
  \/ Lose
  \/ Import \/ Pop \/ ResetInput

Spec == Init /\ [][Next]_vars

(* Both applications are cyclic: they keep emitting, importing and         *)
(* popping.  A reset is never owed.                                        *)
Fairness ==
  /\ WF_vars(BeginSendAll)
  /\ WF_vars(EmptySendAll)
  /\ WF_vars(SendOne \/ SendThrows)
  /\ WF_vars(EndSendAll)
  /\ WF_vars(Import)
  /\ WF_vars(Pop)

FairSpec == Spec /\ Fairness

-----------------------------------------------------------------------------
(* What the receiver has popped, what waits in its ring, what is under way *)
(* and what waits in the sender's ring, read in this order, are the        *)
(* messages in the order of their push: no message is delivered twice,     *)
(* late, or from a slot that was not written for it.                       *)
InPushOrder ==
  LET flow == popped \o Receiver!Contents \o wire \o Sender!Contents
  IN  \A i, j \in DOMAIN flow : i < j => flow[i] < flow[j]

(* Every message that push accepted is somewhere: still in a ring or under *)
(* way, popped, or lost for a reason the system can name (the network, a   *)
(* reset, a full input ring).  Neither the wrap of the rings nor the       *)
(* rewinding of begin makes one disappear.                                 *)
NothingVanishes ==
  1..pushed = Range(popped) \cup Range(Receiver!Contents) \cup Range(wire)
                \cup Range(Sender!Contents) \cup lost \cup overflowed

(* Every accepted message is eventually popped, unless an application      *)
(* resets it, the network loses it or the receiver is too late for it, as  *)
(* long as no socket call of the sender fails.                             *)
AcceptedIsDelivered ==
  \A m \in 1..MaxPush :
    m <= pushed ~> m \in Range(popped) \cup lost \cup overflowed \/ failures > 0

(* The comment of the constructor: "The internal queue depth is bigger to  *)
(* prevent lost of data on input".  The input ring overflows only if the   *)
(* receiver has not emptied it for more than four emissions of the sender, *)
(* or fewer in proportion if the sender's depth is greater.                *)
FourCyclesFit ==
  [][overflowed' # overflowed => ahead * MessageQueueDepth > 4 * ReceiverDepth]_vars

(* ims.h on ims_push_queuing_message: "Add a message to the queue which    *)
(* will be sent with ims_send_all()".  Not so once a socket call has       *)
(* failed, and then for good: the port is not sent again before another    *)
(* push, and a full ring refuses every push.                               *)
AcceptedLeavesTheSender ==
  \A m \in 1..MaxPush :
    m <= pushed ~> m \notin Range(Sender!Contents)

(* The two rings behave as bounded first-in first-out queues, of the depth *)
(* of the sender and of four times the depth of the receiver, also with    *)
(* everything that happens around them.                                    *)
RingsAreFifos == Sender!OutputIsFifo /\ Receiver!InputIsFifo
=============================================================================
