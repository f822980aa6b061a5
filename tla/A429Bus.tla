------------------------------- MODULE A429Bus -------------------------------
(***************************************************************************)
(* Two applications joined by an A429 bus of queuing labels                *)
(* (VISTAS/src/vistas_port_a429.cpp and vistas_message_queuing_a429.cpp):  *)
(* the labels of the sender, the datagrams on the network, the labels of   *)
(* the receiver.                                                           *)
(*                                                                         *)
(* One emission of the bus is one datagram.  It takes labels from the      *)
(* messages in the order of their declaration while there is room, and     *)
(* takes them out of their rings before the socket call.  What has no room *)
(* waits for another emission.                                             *)
(*                                                                         *)
(* The receiver reads a datagram into a buffer of its own, whose size      *)
(* comes from its own configuration.  Labels beyond it never reach it, and *)
(* no call reports this.                                                   *)
(*                                                                         *)
(* A label of the sender is known by its number and its SDI bits.  The     *)
(* receiver may declare a number with its SDI, with the SDI as payload     *)
(* ("XX") or without SDI ("DD").  A word is one label on its way: the      *)
(* label it belongs to and the rank of its push.                           *)
(*                                                                         *)
(* The network keeps datagrams and their order.  A datagram that it loses  *)
(* is, for both applications, one whose socket call failed.                *)
(***************************************************************************)
EXTENDS A429Ring, FiniteSets, Functions

CONSTANTS
  BusOrder,       \* port_a429::_message_list of the sender
  InLabels,       \* the labels declared by the receiver
  Depth,          \* the depth of every label of the sender
  ReceiverDepth,  \* the depth of every label of the receiver
  Room,           \* the labels that a datagram can hold: _fifo_size of
                  \* the sender, without the header
  ReceiverRooms,  \* the values that the same size may have at the receiver
  MaxUpsets,      \* bound: failed socket calls and resets of a label, for
                  \* every size of the receiver
  MaxWords        \* bound: words pushed, for every label of the sender

OutLabels == Range(BusOrder)
SdiBits == {"00", "01", "10", "11"}

ASSUME A429BusAssumption ==
  /\ BusOrder \in Seq(OutLabels)
  /\ IsInjective(BusOrder)
  /\ \A l \in OutLabels : l.sdi \in SdiBits
  /\ \A m \in InLabels : m.sdi \in SdiBits \cup {"XX", "DD"}
  /\ \A k, m \in InLabels : k.number = m.number /\ k.sdi = "DD" => m.sdi \in {"XX", "DD"}
  /\ Depth \in [OutLabels -> Nat \ {0}]
  /\ ReceiverDepth \in [InLabels -> Nat \ {0}]
  /\ Room \in Nat \ {0}
  /\ ReceiverRooms \subseteq Nat
  /\ MaxUpsets \in [ReceiverRooms -> Nat]
  /\ MaxWords \in [OutLabels -> Nat]

VARIABLES
  out,       \* the rings of the sender's labels
  queued,    \* the bus in the sender's output queue: "yes" if it is in the
             \* list, "no" if it is not, "stale" if it is not and push takes
             \* it for queued
  upsets,    \* failed socket calls and resets so far
  wire,      \* the datagrams under way
  in,        \* the rings of the receiver's labels
  pushed,    \* how many words of every label push has accepted
  popped,    \* the words returned by pop, in order, for every label
  lost,      \* the words that did not reach the receiver
  cut,       \* the words that did not stay in a ring of the receiver
  inRoom,    \* the labels that the receiver reads of a datagram; it never
             \* changes
  truncated  \* the words that were beyond them

senderVars == <<out, queued>>
roomVars == <<inRoom, truncated>>
vars == <<senderVars, upsets, wire, in, pushed, popped, lost, cut, roomVars>>

(* The rings have four times the declared depth. *)
OutSize(l) == 4 * Depth[l]
InSize(m) == 4 * ReceiverDepth[m]

NoWord == [label |-> BusOrder[1], rank |-> 0]
Word(l, k) == [label |-> l, rank |-> k]

Init ==
  /\ out = [l \in OutLabels |-> EmptyRing(OutSize(l), NoWord)]
  /\ in = [m \in InLabels |-> EmptyRing(InSize(m), NoWord)]
  /\ queued = "no"
  /\ upsets = 0
  /\ wire = <<>>
  /\ pushed = [l \in OutLabels |-> 0]
  /\ popped = [m \in InLabels |-> <<>>]
  /\ lost = {}
  /\ cut = [m \in InLabels |-> {}]
  /\ inRoom \in ReceiverRooms
  /\ truncated = {}

-----------------------------------------------------------------------------
(* ims_push_queuing_message with k labels at once.  The limit is the       *)
(* declared depth, not the ring.                                           *)
Push(l, k) ==
  /\ pushed[l] + k <= MaxWords[l]
  /\ out[l].size + k <= Depth[l]
  /\ out' = [out EXCEPT ![l] =
               PushRing(@, OutSize(l), [i \in 1..k |-> Word(l, pushed[l] + i)])]
  /\ pushed' = [pushed EXCEPT ![l] = @ + k]
  /\ queued' = IF queued = "no" THEN "yes" ELSE queued
  /\ UNCHANGED <<upsets, wire, in, popped, lost, cut, roomVars>>

Concatenation(seqs) ==
  LET upTo[i \in 0..Len(seqs)] == IF i = 0 THEN <<>> ELSE upTo[i - 1] \o seqs[i]
  IN  upTo[Len(seqs)]

(* The words in the sender's rings, in the order in which send() comes to  *)
(* them.                                                                   *)
Waiting == Concatenation([i \in DOMAIN BusOrder |->
                            Contents(out[BusOrder[i]], OutSize(BusOrder[i]))])

(* Variant of Datagram without the words of the last label that is cut.    *)
WholeLabels ==
  IF Len(Waiting) <= Room
  THEN Waiting
  ELSE SelectSeq(SubSeq(Waiting, 1, Room), LAMBDA w : w.label # Waiting[Room + 1].label)

(* The words of the next datagram. *)
Datagram == SubSeq(Waiting, 1, Least(Len(Waiting), Room))

(* How many of the words are of label l. *)
CountOf(words, l) == Cardinality({i \in DOMAIN words : words[i].label = l})

Load(words) ==
  out' = [l \in OutLabels |-> PopRing(out[l], OutSize(l), CountOf(words, l))]

(* ims_send_all serves the bus.  The bus has left the output queue, also   *)
(* if words remain.                                                        *)
SendAll ==
  /\ queued = "yes"
  /\ \E words \in {Datagram} :
         /\ Load(words)
         /\ wire' = IF words = <<>> THEN wire ELSE Append(wire, words)
  /\ queued' = "no"
  /\ UNCHANGED <<upsets, in, pushed, popped, lost, cut, roomVars>>

(* Variant of SendThrows that leaves the words in the rings as if they had *)
(* not been sent, although they have.                                      *)
SendThrowsSent ==
  /\ queued = "yes"
  /\ Datagram # <<>>
  /\ upsets < MaxUpsets[inRoom]
  /\ upsets' = upsets + 1
  /\ wire' = Append(wire, Datagram)
  /\ queued' = "stale"
  /\ UNCHANGED <<out, in, pushed, popped, lost, cut, roomVars>>

(* The socket call fails: the words of the datagram are no longer in the   *)
(* rings and are lost, and the tail pointer of the output queue still      *)
(* names the bus.                                                          *)
SendThrows ==
  /\ queued = "yes"
  /\ upsets < MaxUpsets[inRoom]
  /\ upsets' = upsets + 1
  /\ \E words \in {Datagram} \ {<<>>} :
         /\ Load(words)
         /\ lost' = lost \cup Range(words)
  /\ queued' = "stale"
  /\ UNCHANGED <<wire, in, pushed, popped, cut, roomVars>>

(* ims_send_all with an empty list: it clears the tail pointer. *)
EmptySendAll ==
  /\ queued = "stale"
  /\ queued' = "no"
  /\ UNCHANGED <<out, upsets, wire, in, pushed, popped, lost, cut, roomVars>>

ResetOutput(l) ==
  /\ upsets < MaxUpsets[inRoom]
  /\ upsets' = upsets + 1
  /\ out' = [out EXCEPT ![l] = EmptyRing(OutSize(l), NoWord)]
  /\ lost' = lost \cup Range(Contents(out[l], OutSize(l)))
  /\ UNCHANGED <<queued, wire, in, pushed, popped, cut, roomVars>>

-----------------------------------------------------------------------------
Declared(number, sdi) == {m \in InLabels : m.number = number /\ m.sdi = sdi}

(* Variant of Recipients in which "XX" stands for the SDI of the word.     *)
OneRecipient ==
  [l \in OutLabels |->
     IF Declared(l.number, "DD") # {} THEN Declared(l.number, "DD")
     ELSE IF Declared(l.number, "XX") # {} THEN Declared(l.number, "XX")
     ELSE Declared(l.number, l.sdi)]

(* The messages to which the receiver gives a word of a label: the one     *)
(* without SDI, or else the one with the SDI of the word and, only with    *)
(* it, the one whose SDI is payload.                                       *)
Recipients ==
  [l \in OutLabels |->
     IF Declared(l.number, "DD") # {} THEN Declared(l.number, "DD")
     ELSE IF Declared(l.number, l.sdi) # {}
          THEN Declared(l.number, l.sdi) \cup Declared(l.number, "XX")
          ELSE {}]

(* The words that are given to message m, in their order. *)
Share(m, words) ==
  Concatenation([i \in DOMAIN words |->
                   IF m \in Recipients[words[i].label] THEN <<words[i]>> ELSE <<>>])

(* The words that find the ring full. *)
CutOff(m, words) ==
  SubSeq(words, Kept(in[m], InSize(m), Len(words)) + 1, Len(words))

(* What the receiver reads of a datagram, and what the socket drops.       *)
Received(words) == SubSeq(words, 1, Least(Len(words), inRoom))
Beyond(words) == SubSeq(words, Least(Len(words), inRoom) + 1, Len(words))

(* One datagram of ims_import.  A word that finds its ring full is lost.   *)
Import ==
  /\ wire # <<>>
  /\ wire' = Tail(wire)
  /\ truncated' = truncated \cup Range(Beyond(Head(wire)))
  /\ \E given \in {[m \in InLabels |-> Share(m, Received(Head(wire)))]} :
         /\ in' = [m \in InLabels |-> PushRing(in[m], InSize(m), given[m])]
         /\ cut' = [m \in InLabels |-> cut[m] \cup Range(CutOff(m, given[m]))]
  /\ UNCHANGED <<senderVars, upsets, pushed, popped, lost, inRoom>>

(* ims_pop_queuing_message: all labels, but not more than the depth that   *)
(* the user of the message asked for; here the declared one.               *)
Pop(m) ==
  /\ in[m].size > 0
  /\ popped' = [popped EXCEPT ![m] = @ \o Popped(in[m], InSize(m), ReceiverDepth[m])]
  /\ in' = [in EXCEPT ![m] = PopRing(@, InSize(m), ReceiverDepth[m])]
  /\ UNCHANGED <<senderVars, upsets, wire, pushed, lost, cut, roomVars>>

ResetInput(m) ==
  /\ upsets < MaxUpsets[inRoom]
  /\ upsets' = upsets + 1
  /\ in' = [in EXCEPT ![m] = EmptyRing(InSize(m), NoWord)]
  /\ cut' = [cut EXCEPT ![m] = @ \cup Range(Contents(in[m], InSize(m)))]
  /\ UNCHANGED <<senderVars, wire, pushed, popped, lost, roomVars>>

Next ==
  \/ \E l \in OutLabels : ResetOutput(l) \/ \E k \in 1..Depth[l] : Push(l, k)
  \/ SendAll \/ SendThrows \/ EmptySendAll
  \/ Import
  \/ \E m \in InLabels : Pop(m) \/ ResetInput(m)

Spec == Init /\ [][Next]_vars

(* Both applications are cyclic: they keep emitting, importing and popping *)
(* every label.  A push or a reset is never owed.                          *)
Fairness ==
  /\ WF_vars(SendAll \/ SendThrows)
  /\ WF_vars(EmptySendAll)
  /\ WF_vars(Import)
  /\ \A m \in InLabels : WF_vars(Pop(m))

FairSpec == Spec /\ Fairness

-----------------------------------------------------------------------------
(* The messages that must get the words of a label: those declared without *)
(* SDI or with its SDI, and with the latter those whose SDI is payload.    *)
Entitled ==
  [l \in OutLabels |->
     {m \in InLabels : m.number = l.number
        /\ \/ m.sdi \in {l.sdi, "DD"}
           \/ m.sdi = "XX" /\ [number |-> l.number, sdi |-> l.sdi] \in InLabels}]

(* The words that may be on their way to message m, and those of label l   *)
(* that have not left the sender, the oldest first.                        *)
Flow(l, m) ==
  popped[m] \o Contents(in[m], InSize(m)) \o Concatenation(wire) \o Contents(out[l], OutSize(l))

(* Every message that is given the words of a label gets them in the order *)
(* of their push, each at most once, although they wait in two rings that  *)
(* wrap and leave in several datagrams, and although a socket call fails.  *)
InPushOrder ==
  \A l \in OutLabels : \A m \in Entitled[l] :
    LET flow == Flow(l, m)
    IN  \A i, j \in DOMAIN flow :
          i < j /\ flow[i].label = l /\ flow[j].label = l => flow[i].rank < flow[j].rank

(* Every word that push accepted is somewhere on its way to each message   *)
(* that is to get it, or lost for a reason the system can name: a failed   *)
(* emission, a reset, a full ring of the receiver, a datagram that was     *)
(* longer than the receiver reads.  The last reason takes no word from     *)
(* applications that give the bus the same size.                           *)
NothingVanishes ==
  /\ \A l \in OutLabels : \A m \in Entitled[l] :
       {Word(l, k) : k \in 1..pushed[l]}
         \subseteq Range(Flow(l, m)) \cup lost \cup truncated \cup cut[m]
  /\ inRoom >= Room => truncated = {}

(* An emission leaves words behind only if its datagram is full. *)
FullBeforeLeftBehind ==
  [][Waiting' # <<>> /\ SendAll => Len(wire'[Len(wire')]) = Room]_vars

(* Every accepted word is popped by every message that is to get it,       *)
(* unless it was lost or truncated, or was left behind by a bus that is no *)
(* longer in the output queue: it then waits for another push.             *)
Arrived(m, word) == \E i \in DOMAIN popped[m] : popped[m][i] = word
Stranded(word) ==
  queued # "yes" /\ word \in Range(Contents(out[word.label], OutSize(word.label)))
AcceptedIsDelivered ==
  \A l \in OutLabels : \A k \in 1..MaxWords[l] :
    k <= pushed[l]
      ~> \/ Word(l, k) \in lost \cup truncated
         \/ Stranded(Word(l, k))
         \/ \A m \in Entitled[l] : Arrived(m, Word(l, k)) \/ Word(l, k) \in cut[m]
=============================================================================
