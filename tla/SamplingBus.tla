----------------------------- MODULE SamplingBus -----------------------------
(***************************************************************************)
(* Two applications joined by a port of sampling messages: a CAN bus, an   *)
(* AFDX channel or a bus of A429 labels (VISTAS/src/vistas_port_can.cpp,   *)
(* vistas_port_afdx_sampling.cpp, vistas_port_a429.cpp and the messages of *)
(* these ports).                                                           *)
(*                                                                         *)
(* A sampling message holds the last data written, and its size.  An       *)
(* emission takes the data of every message of the port into one datagram  *)
(* and sets the size to zero: the message has nothing to send until it is  *)
(* written again.  A CAN port sends a frame for every message, of length   *)
(* zero for those that have nothing to send; the others skip them.         *)
(*                                                                         *)
(* The data of a message is a sequence of cells.  A cell holds the rank of *)
(* the write that it comes from, zero before the first one.                *)
(***************************************************************************)
EXTENDS Integers, Sequences, FiniteSets, Functions

CONSTANTS
  Buses,        \* the configurations of the port, on both sides
  Width,        \* the bits of the sequence number
  MaxWrites,    \* bound: writes of every message
  MaxUpsets,    \* bound: failed socket calls, losses, resets, changes of id
  MaxUnread     \* bound: datagrams on their way

(* A configuration: the protocol, the sender's messages in the order of    *)
(* their declaration and their sizes in cells, the ids that each of them   *)
(* may be given, the ids that the receiver declares and their sizes, and   *)
(* how many frames the receiver's buffer holds.                            *)
Protocols == {"can", "afdx", "a429"}

ASSUME SamplingBusAssumption ==
  /\ Width \in Nat \ {0}
  /\ 2^Width \in Nat \ {0, 1}
  /\ MaxWrites \in Nat
  /\ MaxUpsets \in Nat
  /\ MaxUnread \in Nat \ {0}
  /\ \A b \in Buses :
       /\ b.protocol \in Protocols
       /\ b.list \in Seq(Range(b.list))
       /\ IsInjective(b.list)
       /\ b.outSize \in [Range(b.list) -> Nat \ {0}]
       /\ \A m \in Range(b.list) : m \in b.ids[m]
       /\ DOMAIN b.inSize # {}
       /\ \A i \in DOMAIN b.inSize : b.inSize[i] \in Nat \ {0}
       /\ b.room \in Nat
       /\ b.protocol = "afdx" => Len(b.list) = 1
       /\ b.protocol # "can" => \A m \in Range(b.list) : b.ids[m] = {m}

VARIABLES
  bus,       \* the configuration
  data,      \* message_buffered::_data of the sender's messages
  size,      \* message_buffered::_data_size, in cells
  id,        \* message_sampling_can::id
  queued,    \* the port in the output queue: "yes", "no", or "stale" if it
             \* is not in the list and push takes it for queued
  seqNum,    \* port_application_base::_seq_num
  wire,      \* the datagrams on their way
  in,        \* the data of the receiver's messages, <<>> if there is none
  written,   \* the rank of the last write of a message
  got,       \* the rank of the last write of a message that has arrived
  lost,      \* the writes that a failure, a loss or a reset has taken
  emissions, \* sequence numbers given out since the last reset of the port
  upsets     \* what MaxUpsets bounds

sender == <<data, size, id, queued, seqNum, written, emissions>>
vars == <<bus, sender, wire, in, got, lost, upsets>>

Messages == Range(bus.list)
InIds == DOMAIN bus.inSize
Fewer(a, b) == IF a < b THEN a ELSE b

Zeros(b, m) == [i \in 1..b.outSize[m] |-> 0]

Init ==
  /\ bus \in Buses
  /\ data = [m \in Messages |-> Zeros(bus, m)]
  /\ size = [m \in Messages |-> 0]
  /\ id = [m \in Messages |-> m]
  /\ queued = "no"
  /\ seqNum = 0
  /\ wire = <<>>
  /\ in = [i \in InIds |-> <<>>]
  /\ written = [m \in Messages |-> 0]
  /\ got = [m \in Messages |-> 0]
  /\ lost = {}
  /\ emissions = 0
  /\ upsets = 0

Upset == upsets < MaxUpsets /\ upsets' = upsets + 1

-----------------------------------------------------------------------------
(* ims_write_sampling_message with n cells.  Data that is too long is cut, *)
(* data that is too short leaves the rest of the cells as they are; both   *)
(* are reported to the caller and sent all the same.                       *)
Write(m, n) ==
  /\ written[m] < MaxWrites
  /\ LET kept == Fewer(n, bus.outSize[m]) IN
       /\ data' = [data EXCEPT ![m] = [i \in DOMAIN @ |-> IF i <= kept THEN written[m] + 1 ELSE @[i]]]
       /\ size' = [size EXCEPT ![m] = kept]
  /\ written' = [written EXCEPT ![m] = @ + 1]
  /\ queued' = IF queued = "no" THEN "yes" ELSE queued
  /\ UNCHANGED <<bus, id, seqNum, emissions, wire, in, got, lost, upsets>>

(* ims_set_id, of a message of a CAN bus. *)
SetId(m, i) ==
  /\ i # id[m]
  /\ Upset
  /\ id' = [id EXCEPT ![m] = i]
  /\ UNCHANGED <<bus, data, size, queued, seqNum, written, emissions, wire, in, got, lost>>

Pending == {m \in Messages : size[m] > 0}
LastWrites(ms) == {<<m, written[m]>> : m \in ms}

(* Variant of Payload: the whole buffer. *)
WholeBuffer(m) == data[m]

(* What the port reads from a message: a label is always read whole. *)
Payload(m) == IF bus.protocol = "a429" THEN data[m] ELSE SubSeq(data[m], 1, size[m])

(* The messages that have a frame in the next datagram. *)
Framed == IF bus.protocol = "can" THEN Messages ELSE Pending

(* The elements of a sequence that are in a set, in their order. *)
OnlyIn(s, S) ==
  LET upTo[k \in 0..Len(s)] ==
        IF k = 0 THEN <<>>
        ELSE IF s[k] \in S THEN Append(upTo[k - 1], s[k]) ELSE upTo[k - 1]
  IN  upTo[Len(s)]

Frame(m) == [id |-> id[m], from |-> m, cells |-> Payload(m)]

Frames ==
  LET list == OnlyIn(bus.list, Framed)
  IN  [k \in DOMAIN list |-> Frame(list[k])]

(* prepare_header: the number after the greatest one is one. *)
Modulus == 2^Width
NextNumber(n) == IF (n + 1) % Modulus = 0 THEN 1 ELSE n + 1

(* The emission takes the data out of the messages before the socket call. *)
TakeData ==
  /\ size' = [m \in Messages |-> 0]
  /\ seqNum' = IF Frames = <<>> THEN seqNum ELSE NextNumber(seqNum)
  /\ emissions' = IF Frames = <<>> THEN emissions ELSE emissions + 1
  /\ UNCHANGED <<bus, data, id, written>>

(* Variant of SendAll that leaves the messages as they were: their data    *)
(* goes out again with the next emission.                                  *)
SendAllAgain ==
  /\ queued = "yes"
  /\ Len(wire) < MaxUnread
  /\ seqNum' = IF Frames = <<>> THEN seqNum ELSE NextNumber(seqNum)
  /\ emissions' = IF Frames = <<>> THEN emissions ELSE emissions + 1
  /\ wire' = IF Frames = <<>> THEN wire ELSE Append(wire, [number |-> seqNum', emission |-> emissions', frames |-> Frames])
  /\ queued' = "no"
  /\ UNCHANGED <<bus, data, size, id, written, in, got, lost, upsets>>

(* ims_send_all serves the port.  A port whose messages were all reset has *)
(* no datagram to send, but for CAN.                                       *)
SendAll ==
  /\ queued = "yes"
  /\ Len(wire) < MaxUnread
  /\ TakeData
  /\ wire' = IF Frames = <<>>
             THEN wire
             ELSE Append(wire, [number |-> seqNum', emission |-> emissions', frames |-> Frames])
  /\ queued' = "no"
  /\ UNCHANGED <<in, got, lost, upsets>>

(* Variant of SendThrows in which only a datagram that leaves uses up a    *)
(* sequence number, although it has been written into the next one.        *)
SendThrowsEarly ==
  /\ queued = "yes"
  /\ Frames # <<>>
  /\ Upset
  /\ size' = [m \in Messages |-> 0]
  /\ emissions' = emissions + 1
  /\ lost' = lost \cup LastWrites(Pending)
  /\ queued' = "stale"
  /\ UNCHANGED <<bus, data, id, written, seqNum, wire, in, got>>

(* The socket call fails: the data has been taken and is lost, the number  *)
(* is used up, and the output queue keeps its tail pointer.                *)
SendThrows ==
  /\ queued = "yes"
  /\ Frames # <<>>
  /\ Upset
  /\ TakeData
  /\ lost' = lost \cup LastWrites(Pending)
  /\ queued' = "stale"
  /\ UNCHANGED <<wire, in, got>>

(* ims_send_all with an empty list: it clears the tail pointer. *)
EmptySendAll ==
  /\ queued = "stale"
  /\ queued' = "no"
  /\ UNCHANGED <<bus, data, size, id, seqNum, written, emissions, wire, in, got, lost, upsets>>

(* ims_reset_message of an output. *)
ResetOutput(m) ==
  /\ Upset
  /\ data' = [data EXCEPT ![m] = Zeros(bus, m)]
  /\ size' = [size EXCEPT ![m] = 0]
  /\ lost' = lost \cup LastWrites({m} \cap Pending)
  /\ UNCHANGED <<bus, id, queued, seqNum, written, emissions, wire, in, got>>

(* ims_reset_all of the sender: every message, and the sequence number. *)
ResetAllOutputs ==
  /\ Upset
  /\ data' = [m \in Messages |-> Zeros(bus, m)]
  /\ size' = [m \in Messages |-> 0]
  /\ lost' = lost \cup LastWrites(Pending)
  /\ seqNum' = 0
  /\ emissions' = 0
  /\ UNCHANGED <<bus, id, queued, written, wire, in, got>>

-----------------------------------------------------------------------------
(* What the receiver's buffer holds of a datagram.  An AFDX port reads one *)
(* message; a frame that is not whole is not used.                         *)
Received(frames) ==
  IF bus.protocol = "afdx"
  THEN [k \in DOMAIN frames |->
          [frames[k] EXCEPT !.cells =
             SubSeq(@, 1, Fewer(Len(@), bus.inSize[CHOOSE i \in InIds : TRUE]))]]
  ELSE SubSeq(frames, 1, Fewer(Len(frames), bus.room))

Accepted(f) ==
  /\ f.id \in InIds
  /\ bus.protocol = "can" => Len(f.cells) = bus.inSize[f.id]

(* Variant of ForMessage that stops at the first frame that is not taken.  *)
ForMessageUntilRefused(i, frames) ==
  LET upTo == {k \in DOMAIN frames : \A j \in 1..k : Accepted(frames[j])}
  IN  {k \in upTo : frames[k].id = i}

(* The frames that are taken for a message: the loop goes on after a frame *)
(* of another id or another length.                                        *)
ForMessage(i, frames) == {k \in DOMAIN frames : Accepted(frames[k]) /\ frames[k].id = i}

LastOf(ks) == CHOOSE k \in ks : \A j \in ks : j <= k

(* The frames of the first datagram that are taken from a message. *)
Arriving(m) ==
  LET frames == Received(Head(wire).frames)
  IN  {k \in UNION {ForMessage(i, frames) : i \in InIds} : frames[k].from = m}

(* One datagram of ims_import; the last frame for a message prevails. *)
Import ==
  /\ wire # <<>>
  /\ LET frames == Received(Head(wire).frames)
     IN  /\ in' = [i \in InIds |->
                     IF ForMessage(i, frames) = {}
                     THEN in[i]
                     ELSE frames[LastOf(ForMessage(i, frames))].cells]
         /\ got' = [m \in Messages |->
                      IF Arriving(m) = {} THEN got[m] ELSE frames[LastOf(Arriving(m))].cells[1]]
  /\ wire' = Tail(wire)
  /\ UNCHANGED <<bus, sender, lost, upsets>>

Carried(datagram) ==
  {<<f.from, f.cells[1]>> : f \in {g \in Range(datagram.frames) : g.cells # <<>>}}

(* The network loses a datagram. *)
Lose ==
  /\ wire # <<>>
  /\ Upset
  /\ wire' = Tail(wire)
  /\ lost' = lost \cup Carried(Head(wire))
  /\ UNCHANGED <<bus, sender, in, got>>

(* ims_reset_message of an input. *)
ResetInput(i) ==
  /\ Upset
  /\ in' = [in EXCEPT ![i] = <<>>]
  /\ UNCHANGED <<bus, sender, wire, got, lost>>

Next ==
  \/ \E m \in Messages :
       \/ \E n \in 0..bus.outSize[m] + 1 : Write(m, n)
       \/ \E i \in bus.ids[m] : SetId(m, i)
       \/ ResetOutput(m)
  \/ SendAll \/ SendThrows \/ EmptySendAll \/ ResetAllOutputs
  \/ Import \/ Lose
  \/ \E i \in InIds : ResetInput(i)

Spec == Init /\ [][Next]_vars

(* Both applications are cyclic: they keep emitting and importing.  No     *)
(* write, reset, failure or loss is owed.                                  *)
Fairness ==
  /\ WF_vars(SendAll \/ SendThrows)
  /\ WF_vars(EmptySendAll)
  /\ WF_vars(Import)

FairSpec == Spec /\ Fairness

-----------------------------------------------------------------------------
(* The type invariant: what the sender's messages hold has their size, the *)
(* ids are among those they may be given, and no number is zero.           *)
Ids == UNION {bus.ids[m] : m \in Messages}
FrameRecords == [id : Ids, from : Messages, cells : Seq(Nat)]
Datagrams == [number : 1..Modulus - 1, emission : Nat \ {0}, frames : Seq(FrameRecords)]

TypeOK ==
  /\ bus \in Buses
  /\ data \in [Messages -> Seq(Nat)]
  /\ size \in [Messages -> Nat]
  /\ id \in [Messages -> Ids]
  /\ \A m \in Messages :
       /\ Len(data[m]) = bus.outSize[m]
       /\ size[m] \in 0..bus.outSize[m]
       /\ id[m] \in bus.ids[m]
  /\ queued \in {"yes", "no", "stale"}
  /\ seqNum \in 0..Modulus - 1
  /\ wire \in Seq(Datagrams)
  /\ in \in [InIds -> Seq(Nat)]
  /\ written \in [Messages -> Nat]
  /\ got \in [Messages -> Nat]
  /\ lost \subseteq Messages \X Nat
  /\ emissions \in Nat
  /\ upsets \in Nat

(* What a message reads is one write of the sender, from its first cell    *)
(* on, without what an earlier write or a reset left in the buffer.  A     *)
(* label is the exception: port_read_data copies its four bytes whatever   *)
(* the size of the write, which was reported as invalid.                   *)
ReadIsOneWrite ==
  bus.protocol # "a429" =>
    \A i \in InIds : Cardinality(Range(in[i])) <= 1 /\ 0 \notin Range(in[i])

(* A write arrives at most once, and never after a later one: the messages *)
(* of a bus go out together, also those that were not written since the    *)
(* last emission, and the arrival of old data would make it valid again.   *)
ArrivesOnce ==
  [][\A m \in Messages : Import /\ Arriving(m) # {} => got'[m] > got[m]]_vars

(* The last write of a message, if it had the size of the message on both  *)
(* sides, waits for emission, is under way, has arrived, or was lost for a *)
(* reason that the system can name.  What stands beside it on the bus does *)
(* not matter.                                                             *)
Compatible(m) ==
  /\ \A i \in bus.ids[m] : i \in InIds /\ bus.inSize[i] = bus.outSize[m]
  /\ bus.protocol # "afdx" => \E k \in 1..Fewer(Len(bus.list), bus.room) : bus.list[k] = m

Whole(m) == \A k \in DOMAIN data[m] : data[m][k] = written[m]

LastWriteAccounted ==
  \A m \in Messages : Compatible(m) /\ written[m] > 0 /\ Whole(m) =>
    \/ size[m] = bus.outSize[m]
    \/ \E k \in DOMAIN wire : <<m, written[m]>> \in Carried(wire[k])
    \/ got[m] = written[m]
    \/ <<m, written[m]>> \in lost

(* The last write of a message arrives in the end, unless it is lost, or   *)
(* written over, or left behind by a port that is not in the output queue  *)
(* after a failure: it then waits for another write on the bus.            *)
LastWriteArrives ==
  \A m \in UNION {Range(b.list) : b \in Buses} : \A r \in 1..MaxWrites :
    m \in Messages /\ Compatible(m) /\ written[m] = r /\ Whole(m)
      ~> /\ m \in Messages
         /\ \/ written[m] > r
            \/ got[m] = r
            \/ <<m, r>> \in lost
            \/ size[m] > 0 /\ queued # "yes"

(* The number of a datagram never is zero, and the distance between two    *)
(* numbers tells how many emissions lie between them, those included whose *)
(* socket call failed: the comment of prepare_header wants the number      *)
(* after 65535 to be 1.                                                    *)
NumbersCountEmissions ==
  \A k \in DOMAIN wire :
    /\ wire[k].number \in 1..Modulus - 1
    /\ \A j \in 1..k - 1 :
         wire[j].emission < wire[k].emission =>
           (wire[k].number - wire[j].number) % (Modulus - 1)
             = (wire[k].emission - wire[j].emission) % (Modulus - 1)
=============================================================================
