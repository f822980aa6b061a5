------------------------- MODULE AfdxChannelProofs -------------------------
(***************************************************************************)
(* Proofs about two applications joined by an AFDX queuing message, for    *)
(* every depth of the two ports and every number of messages: the rings    *)
(* are bounded first-in first-out queues, and what flows through them and  *)
(* the network keeps the order of its push, is lost for a named reason     *)
(* only, and fits the ring of a receiver that follows.                     *)
(*                                                                         *)
(* The first part is about a ring whatever port it belongs to.  Its only   *)
(* arithmetic is the wrap of an index (SlotWraps); from it the two ways a  *)
(* ring changes follow: a slot is filled behind the last message           *)
(* (FillAppends), the first message leaves (LeaveTakesHead).               *)
(***************************************************************************)
EXTENDS AfdxChannel, SequenceTheorems, TLAPS

(* The slot i places behind slot b in a ring of n slots. *)
Place(b, i, n) == (b + i) % n

(* The k messages of the ring, from slot b on. *)
Held(q, b, k, n) == [i \in 1..k |-> q[Place(b, i - 1, n)]]

(* The index of a slot: at most one wrap. *)
LEMMA SlotWraps ==
  ASSUME NEW n \in Nat, n > 0, NEW b \in 0..(n-1), NEW i \in 0..(n-1)
  PROVE  /\ Place(b, i, n) = IF b + i < n THEN b + i ELSE b + i - n
         /\ Place(b, i, n) \in 0..(n-1)
<1>1. ASSUME NEW x \in 0..(n-1) PROVE x % n = x
  BY SMT
<1>2. ASSUME NEW x \in n..(2*n-1) PROVE x % n = x - n
  BY SMT
<1> QED
  BY <1>1, <1>2 DEF Place

LEMMA PlaceInRing ==
  ASSUME NEW n \in Nat, n > 0, NEW b \in 0..(n-1), NEW i \in 0..(n-1)
  PROVE  Place(b, i, n) \in 0..(n-1)
  BY SlotWraps

(* Two messages never share a slot. *)
LEMMA SlotsAreDistinct ==
  ASSUME NEW n \in Nat, n > 0, NEW b \in 0..(n-1),
         NEW i \in 0..(n-1), NEW j \in 0..(n-1), i # j
  PROVE  Place(b, i, n) # Place(b, j, n)
<1>1. Place(b, i, n) = IF b + i < n THEN b + i ELSE b + i - n
  BY SlotWraps
<1>2. Place(b, j, n) = IF b + j < n THEN b + j ELSE b + j - n
  BY SlotWraps
<1> QED
  BY <1>1, <1>2

(* The slot i places behind the second one is i + 1 places behind the      *)
(* first.                                                                  *)
LEMMA NextSlots ==
  ASSUME NEW n \in Nat, n > 1, NEW b \in 0..(n-1), NEW i \in 0..(n-1), i + 1 < n
  PROVE  Place(Place(b, 1, n), i, n) = Place(b, i + 1, n)
<1> DEFINE c == Place(b, 1, n)
<1>0. 1 \in 0..(n-1) /\ i + 1 \in 0..(n-1) /\ n > 0
  OBVIOUS
<1>1. c = (IF b + 1 < n THEN b + 1 ELSE b + 1 - n) /\ c \in 0..(n-1)
  BY <1>0, SlotWraps
<1>2. Place(b, i + 1, n) = IF b + (i + 1) < n THEN b + (i + 1) ELSE b + (i + 1) - n
  BY <1>0, SlotWraps
<1> HIDE DEF c
<1>3. Place(c, i, n) = IF c + i < n THEN c + i ELSE c + i - n
  BY <1>0, <1>1, SlotWraps
<1>4. Place(c, i, n) = Place(b, i + 1, n)
  BY <1>1, <1>2, <1>3
<1> QED
  BY <1>4 DEF c

LEMMA HeldAt ==
  ASSUME NEW k \in Nat, NEW n, NEW q, NEW b
  PROVE  /\ Len(Held(q, b, k, n)) = k
         /\ \A i \in 1..k : Held(q, b, k, n)[i] = q[Place(b, i - 1, n)]
  BY DEF Held

LEMMA HeldType ==
  ASSUME NEW n \in Nat, n > 0, NEW P, NEW q \in [0..(n-1) -> P],
         NEW b \in 0..(n-1), NEW k \in 0..n
  PROVE  Held(q, b, k, n) \in Seq(P)
<1>1. ASSUME NEW i \in 1..k PROVE q[Place(b, i - 1, n)] \in P
  <2>1. i - 1 \in 0..(n-1)
    OBVIOUS
  <2>2. Place(b, i - 1, n) \in 0..(n-1)
    BY <2>1, SlotWraps
  <2> QED
    BY <2>2
<1>2. k \in Nat
  OBVIOUS
<1> QED
  BY <1>1, <1>2 DEF Held

Filled(q, i, m) == [q EXCEPT ![i] = m]

(* A message put into the slot behind the last one is appended. *)
LEMMA FillAppends ==
  ASSUME NEW n \in Nat, n > 0, NEW P, NEW q \in [0..(n-1) -> P],
         NEW b \in 0..(n-1), NEW k \in 0..(n-1), NEW m \in P
  PROVE  Held(Filled(q, Place(b, k, n), m), b, k + 1, n) = Append(Held(q, b, k, n), m)
<1> DEFINE s == Held(q, b, k, n)
           filled == Filled(q, Place(b, k, n), m)
           t == Held(filled, b, k + 1, n)
<1>1. Place(b, k, n) \in 0..(n-1)
  BY SlotWraps
<1>2. filled \in [0..(n-1) -> P] /\ k + 1 \in 0..n /\ k \in 0..n /\ k \in Nat
  BY <1>1 DEF Filled
<1>3. /\ s \in Seq(P) /\ Len(s) = k
      /\ \A i \in 1..k : s[i] = q[Place(b, i - 1, n)]
  <2>1. k \in 0..n /\ n > 0
    OBVIOUS
  <2>2. s \in Seq(P)
    BY <2>1, HeldType
  <2>3. /\ Len(s) = k
        /\ \A i \in 1..k : s[i] = q[Place(b, i - 1, n)]
    BY <1>2, HeldAt
  <2> QED
    BY <2>2, <2>3
<1>4. /\ t \in Seq(P) /\ Len(t) = k + 1
      /\ \A i \in 1..(k + 1) : t[i] = filled[Place(b, i - 1, n)]
  <2>1. k + 1 \in 0..n /\ k + 1 \in Nat
    BY <1>2
  <2> HIDE DEF filled
  <2>2. t \in Seq(P)
    BY <2>1, <1>2, HeldType
  <2>3. /\ Len(t) = k + 1
        /\ \A i \in 1..(k + 1) : t[i] = filled[Place(b, i - 1, n)]
    BY <2>1, HeldAt
  <2> QED
    BY <2>2, <2>3
<1>5. ASSUME NEW i \in 1..k PROVE filled[Place(b, i - 1, n)] = q[Place(b, i - 1, n)]
  <2>1. i - 1 \in 0..(n-1) /\ i - 1 # k
    BY <1>2
  <2>2. Place(b, i - 1, n) # Place(b, k, n) /\ Place(b, i - 1, n) \in 0..(n-1)
    BY <2>1, SlotsAreDistinct, SlotWraps
  <2> QED
    BY <2>2 DEF Filled
<1>6. filled[Place(b, (k + 1) - 1, n)] = m
  <2>1. (k + 1) - 1 = k
    BY <1>2
  <2> QED
    BY <2>1, <1>1 DEF Filled
<1> HIDE DEF s, t, filled
<1>7. /\ Append(s, m) \in Seq(P) /\ Len(Append(s, m)) = k + 1
      /\ \A i \in 1..k : Append(s, m)[i] = s[i]
      /\ Append(s, m)[k + 1] = m
  BY <1>3, AppendProperties
<1>8. ASSUME NEW i \in 1..(k + 1) PROVE t[i] = Append(s, m)[i]
  <2>1. CASE i = k + 1
    BY <2>1, <1>4, <1>6, <1>7
  <2>2. CASE i \in 1..k
    BY <2>2, <1>3, <1>4, <1>5, <1>7
  <2>3. i = k + 1 \/ i \in 1..k
    BY <1>2
  <2> QED
    BY <2>1, <2>2, <2>3
<1>9. t = Append(s, m)
  BY <1>4, <1>7, <1>8, SeqEqual
<1> QED
  BY <1>9 DEF s, t, filled

(* When the first message leaves, the others keep their order. *)
LEMMA LeaveTakesHead ==
  ASSUME NEW n \in Nat, n > 1, NEW P, NEW q \in [0..(n-1) -> P],
         NEW b \in 0..(n-1), NEW k \in 1..n
  PROVE  /\ Held(q, b, k, n) # <<>>
         /\ Held(q, Place(b, 1, n), k - 1, n) = Tail(Held(q, b, k, n))
<1> DEFINE s == Held(q, b, k, n)
           c == Place(b, 1, n)
           t == Held(q, c, k - 1, n)
<1>1. c \in 0..(n-1)
  <2>1. 1 \in 0..(n-1) /\ n > 0
    OBVIOUS
  <2> QED
    BY <2>1, SlotWraps
<1>2. k - 1 \in 0..n /\ k \in 0..n /\ k \in Nat
  OBVIOUS
<1>3. /\ s \in Seq(P) /\ Len(s) = k
      /\ \A i \in 1..k : s[i] = q[Place(b, i - 1, n)]
  <2>1. k \in 0..n /\ n > 0
    OBVIOUS
  <2>2. s \in Seq(P)
    BY <2>1, HeldType
  <2>3. /\ Len(s) = k
        /\ \A i \in 1..k : s[i] = q[Place(b, i - 1, n)]
    BY <1>2, HeldAt
  <2> QED
    BY <2>2, <2>3
<1>4. /\ t \in Seq(P) /\ Len(t) = k - 1
      /\ \A i \in 1..(k - 1) : t[i] = q[Place(c, i - 1, n)]
  <2>1. k - 1 \in 0..n /\ k - 1 \in Nat /\ n > 0
    OBVIOUS
  <2> HIDE DEF c
  <2>2. t \in Seq(P)
    BY <2>1, <1>1, HeldType
  <2>3. /\ Len(t) = k - 1
        /\ \A i \in 1..(k - 1) : t[i] = q[Place(c, i - 1, n)]
    BY <2>1, HeldAt
  <2> QED
    BY <2>2, <2>3
<1>5. ASSUME NEW i \in 1..(k - 1) PROVE Place(c, i - 1, n) = Place(b, (i + 1) - 1, n)
  <2>1. i - 1 \in 0..(n-1) /\ (i - 1) + 1 < n /\ (i - 1) + 1 = (i + 1) - 1
    OBVIOUS
  <2> QED
    BY <2>1, NextSlots
<1> HIDE DEF s, t, c
<1>6. s # <<>>
  BY <1>2, <1>3, EmptySeq
<1>7. /\ Tail(s) \in Seq(P) /\ Len(Tail(s)) = k - 1
      /\ \A i \in 1..(k - 1) : Tail(s)[i] = s[i + 1]
  BY <1>3, <1>6, HeadTailProperties
<1>8. ASSUME NEW i \in 1..(k - 1) PROVE t[i] = Tail(s)[i]
  <2>1. i + 1 \in 1..k
    OBVIOUS
  <2> QED
    BY <2>1, <1>3, <1>4, <1>5, <1>7
<1>9. t = Tail(s)
  BY <1>4, <1>7, <1>8, SeqEqual
<1> QED
  BY <1>6, <1>9 DEF s, t, c

-----------------------------------------------------------------------------
(* The two ports of the channel. *)
LEMMA Depths ==
  /\ Sender!QueueDepth \in Nat /\ Sender!QueueDepth > 1
  /\ MessageQueueDepth \in Nat /\ MessageQueueDepth < Sender!QueueDepth
  /\ Sender!Slots = 0..(Sender!QueueDepth - 1)
  /\ Receiver!QueueDepth = 4 * ReceiverDepth
  /\ Receiver!QueueDepth \in Nat /\ Receiver!QueueDepth > 1
  /\ Receiver!Slots = 0..(Receiver!QueueDepth - 1)
  BY AfdxRingAssumption, AfdxChannelAssumption
  DEF Sender!QueueDepth, Sender!RingSize, Sender!Slots,
      Receiver!QueueDepth, Receiver!RingSize, Receiver!Slots

LEMMA SenderContents ==
  ASSUME Sender!TypeOK
  PROVE  /\ Sender!Contents = Held(sQueue, sBegin, sNbMessages, Sender!QueueDepth)
         /\ Sender!Contents \in Seq(Payloads)
         /\ Len(Sender!Contents) = sNbMessages
<1>1. Sender!Contents = Held(sQueue, sBegin, sNbMessages, Sender!QueueDepth)
  BY DEF Sender!Contents, Sender!Slot, Held, Place
<1>2. sNbMessages \in Nat /\ Sender!QueueDepth > 0
  BY Depths DEF Sender!TypeOK
<1>3. Held(sQueue, sBegin, sNbMessages, Sender!QueueDepth) \in Seq(Payloads)
  BY <1>2, Depths, HeldType DEF Sender!TypeOK
<1>4. Len(Held(sQueue, sBegin, sNbMessages, Sender!QueueDepth)) = sNbMessages
  BY <1>2, HeldAt
<1> QED
  BY <1>1, <1>3, <1>4

LEMMA ReceiverContents ==
  ASSUME Receiver!TypeOK
  PROVE  /\ Receiver!Contents = Held(rQueue, rBegin, rNbMessages, Receiver!QueueDepth)
         /\ Receiver!Contents \in Seq(Payloads)
         /\ Len(Receiver!Contents) = rNbMessages
<1>1. Receiver!Contents = Held(rQueue, rBegin, rNbMessages, Receiver!QueueDepth)
  BY DEF Receiver!Contents, Receiver!Slot, Held, Place
<1>2. rNbMessages \in Nat /\ Receiver!QueueDepth > 0
  BY Depths DEF Receiver!TypeOK
<1>3. Held(rQueue, rBegin, rNbMessages, Receiver!QueueDepth) \in Seq(Payloads)
  BY <1>2, Depths, HeldType DEF Receiver!TypeOK
<1>4. Len(Held(rQueue, rBegin, rNbMessages, Receiver!QueueDepth)) = rNbMessages
  BY <1>2, HeldAt
<1> QED
  BY <1>1, <1>3, <1>4

LEMMA SenderAccepts ==
  ASSUME Sender!TypeOK, NEW m \in Payloads, Sender!Push(m)
  PROVE  /\ Sender!TypeOK'
         /\ sNbMessages < MessageQueueDepth
         /\ Sender!Contents' = Append(Sender!Contents, m)
<1>1. /\ sNbMessages < MessageQueueDepth
      /\ sNbMessages \in 0..(Sender!QueueDepth - 1)
      /\ Place(sBegin, sNbMessages, Sender!QueueDepth) \in Sender!Slots
  <2>1. sNbMessages < MessageQueueDepth
    BY Depths DEF Sender!TypeOK, Sender!Push, Sender!QueueFull
  <2>2. sNbMessages \in 0..(Sender!QueueDepth - 1) /\ Sender!QueueDepth > 0
    BY <2>1, Depths DEF Sender!TypeOK
  <2> QED
    BY <2>1, <2>2, Depths, PlaceInRing DEF Sender!TypeOK
<1>2. /\ sQueue' = Filled(sQueue, Place(sBegin, sNbMessages, Sender!QueueDepth), m)
      /\ sBegin' = sBegin
      /\ sNbMessages' = sNbMessages + 1
  BY DEF Sender!Push, Sender!Slot, Place, Filled
<1>3. sNbMessages + 1 \in 0..Sender!QueueDepth
  BY <1>1, Depths
<1>4. Sender!TypeOK'
  BY <1>1, <1>2, <1>3 DEF Filled, Sender!TypeOK, Sender!Slots, Sender!QueueDepth
<1>5. Sender!Contents' = Held(sQueue', sBegin', sNbMessages', Sender!QueueDepth)
  BY DEF Sender!Contents, Sender!Slot, Held, Place, Sender!QueueDepth
<1>6. Held(sQueue', sBegin', sNbMessages', Sender!QueueDepth)
        = Append(Held(sQueue, sBegin, sNbMessages, Sender!QueueDepth), m)
  <2>1. /\ Sender!QueueDepth \in Nat /\ Sender!QueueDepth > 0
        /\ sQueue \in [0..(Sender!QueueDepth - 1) -> Payloads]
        /\ sBegin \in 0..(Sender!QueueDepth - 1)
    BY Depths DEF Sender!TypeOK
  <2>2. sNbMessages \in 0..(Sender!QueueDepth - 1)
    BY <1>1
  <2> QED
    BY <1>2, <2>1, <2>2, FillAppends
<1> QED
  BY <1>1, <1>4, <1>5, <1>6, SenderContents

LEMMA SenderLeaves ==
  ASSUME Sender!TypeOK, Sender!SendOne
  PROVE  /\ Sender!TypeOK'
         /\ Sender!Contents # <<>>
         /\ Sender!Contents' = Tail(Sender!Contents)
<1>1. /\ sBegin' = Place(sBegin, 1, Sender!QueueDepth)
      /\ sNbMessages \in 1..Sender!QueueDepth
      /\ sNbMessages' = sNbMessages - 1
      /\ sQueue' = sQueue
  BY Depths DEF Sender!SendOne, Sender!Slot, Place, Sender!TypeOK
<1>2. sBegin' \in Sender!Slots /\ sNbMessages' \in 0..Sender!QueueDepth
  <2>1. 1 \in 0..(Sender!QueueDepth - 1) /\ Sender!QueueDepth > 0
    BY Depths
  <2>2. sBegin \in 0..(Sender!QueueDepth - 1) /\ Sender!QueueDepth \in Nat
    BY Depths DEF Sender!TypeOK
  <2>3. Place(sBegin, 1, Sender!QueueDepth) \in 0..(Sender!QueueDepth - 1)
    BY <2>1, <2>2, PlaceInRing
  <2> QED
    BY <1>1, <2>3, Depths
<1>3. Sender!TypeOK'
  BY <1>1, <1>2 DEF Sender!TypeOK, Sender!Slots, Sender!QueueDepth
<1>4. Sender!Contents' = Held(sQueue', sBegin', sNbMessages', Sender!QueueDepth)
  BY DEF Sender!Contents, Sender!Slot, Held, Place, Sender!QueueDepth
<1>5. /\ Held(sQueue, sBegin, sNbMessages, Sender!QueueDepth) # <<>>
      /\ Held(sQueue', sBegin', sNbMessages', Sender!QueueDepth)
           = Tail(Held(sQueue, sBegin, sNbMessages, Sender!QueueDepth))
  BY <1>1, Depths, LeaveTakesHead DEF Sender!TypeOK
<1> QED
  BY <1>3, <1>4, <1>5, SenderContents

LEMMA SenderEmpties ==
  ASSUME Sender!TypeOK, Sender!EndSend \/ Sender!Reset
  PROVE  /\ Sender!TypeOK'
         /\ Sender!Contents' = <<>>
         /\ sNbMessages' = 0
         /\ Sender!EndSend => Sender!Contents = <<>>
<1>1. sBegin' = 0 /\ sNbMessages' = 0 /\ sQueue' = sQueue
  BY DEF Sender!EndSend, Sender!Reset
<1>2. Sender!TypeOK'
  BY <1>1, Depths DEF Sender!TypeOK, Sender!Slots, Sender!QueueDepth
<1>3. Sender!Contents' = <<>>
  BY <1>1 DEF Sender!Contents
<1>4. Sender!EndSend => Sender!Contents = <<>>
  BY DEF Sender!EndSend, Sender!Contents
<1> QED
  BY <1>1, <1>2, <1>3, <1>4

(* A datagram without payload takes a slot as well, and leaves in it what  *)
(* was there.                                                              *)
LEMMA ReceiverCounts ==
  ASSUME Receiver!TypeOK, NEW m \in Payloads, Receiver!Receive(m), ~Receiver!RingFull
  PROVE  /\ Receiver!TypeOK'
         /\ rNbMessages' = rNbMessages + 1
         /\ rNbMessages \in 0..(Receiver!QueueDepth - 1)
         /\ Place(rBegin, rNbMessages, Receiver!QueueDepth) \in Receiver!Slots
<1>1. /\ rNbMessages \in 0..(Receiver!QueueDepth - 1)
      /\ Place(rBegin, rNbMessages, Receiver!QueueDepth) \in Receiver!Slots
  <2>1. rNbMessages \in 0..(Receiver!QueueDepth - 1) /\ Receiver!QueueDepth > 0
    BY Depths DEF Receiver!TypeOK, Receiver!RingFull
  <2> QED
    BY <2>1, Depths, PlaceInRing DEF Receiver!TypeOK
<1>2. /\ \/ rQueue' = rQueue
         \/ rQueue' = Filled(rQueue, Place(rBegin, rNbMessages, Receiver!QueueDepth), m)
      /\ rBegin' = rBegin
      /\ rNbMessages' = rNbMessages + 1
  BY DEF Receiver!Receive, Receiver!Slot, Place, Filled
<1>3. rNbMessages + 1 \in 0..Receiver!QueueDepth
  BY <1>1, Depths
<1>4. Receiver!TypeOK'
  BY <1>1, <1>2, <1>3 DEF Filled, Receiver!TypeOK, Receiver!Slots, Receiver!QueueDepth
<1> QED
  BY <1>1, <1>2, <1>4

LEMMA ReceiverTakes ==
  ASSUME Receiver!TypeOK, EmptyPayloads = {}, NEW m \in Payloads,
         Receiver!Receive(m), ~Receiver!RingFull
  PROVE  /\ Receiver!TypeOK'
         /\ rNbMessages' = rNbMessages + 1
         /\ Receiver!Contents' = Append(Receiver!Contents, m)
<1>1. /\ rNbMessages \in 0..(Receiver!QueueDepth - 1)
      /\ Receiver!TypeOK' /\ rNbMessages' = rNbMessages + 1
  BY ReceiverCounts
<1>2. /\ rQueue' = Filled(rQueue, Place(rBegin, rNbMessages, Receiver!QueueDepth), m)
      /\ rBegin' = rBegin
      /\ rNbMessages' = rNbMessages + 1
  BY DEF Receiver!Receive, Receiver!Slot, Place, Filled
<1>5. Receiver!Contents' = Held(rQueue', rBegin', rNbMessages', Receiver!QueueDepth)
  BY DEF Receiver!Contents, Receiver!Slot, Held, Place, Receiver!QueueDepth
<1>6. Held(rQueue', rBegin', rNbMessages', Receiver!QueueDepth)
        = Append(Held(rQueue, rBegin, rNbMessages, Receiver!QueueDepth), m)
  <2>1. /\ Receiver!QueueDepth \in Nat /\ Receiver!QueueDepth > 0
        /\ rQueue \in [0..(Receiver!QueueDepth - 1) -> Payloads]
        /\ rBegin \in 0..(Receiver!QueueDepth - 1)
    BY Depths DEF Receiver!TypeOK
  <2>2. rNbMessages \in 0..(Receiver!QueueDepth - 1)
    BY <1>1
  <2> QED
    BY <1>2, <2>1, <2>2, FillAppends
<1> QED
  BY <1>1, <1>5, <1>6, ReceiverContents

LEMMA ReceiverPops ==
  ASSUME Receiver!TypeOK, Receiver!Pop
  PROVE  /\ Receiver!TypeOK'
         /\ Receiver!Contents # <<>>
         /\ Receiver!Contents' = Tail(Receiver!Contents)
<1>1. /\ rBegin' = Place(rBegin, 1, Receiver!QueueDepth)
      /\ rNbMessages \in 1..Receiver!QueueDepth
      /\ rNbMessages' = rNbMessages - 1
      /\ rQueue' = rQueue
  BY Depths DEF Receiver!Pop, Receiver!Slot, Place, Receiver!TypeOK
<1>2. rBegin' \in Receiver!Slots /\ rNbMessages' \in 0..Receiver!QueueDepth
  <2>1. 1 \in 0..(Receiver!QueueDepth - 1) /\ Receiver!QueueDepth > 0
    BY Depths
  <2>2. rBegin \in 0..(Receiver!QueueDepth - 1) /\ Receiver!QueueDepth \in Nat
    BY Depths DEF Receiver!TypeOK
  <2>3. Place(rBegin, 1, Receiver!QueueDepth) \in 0..(Receiver!QueueDepth - 1)
    BY <2>1, <2>2, PlaceInRing
  <2> QED
    BY <1>1, <2>3, Depths
<1>3. Receiver!TypeOK'
  BY <1>1, <1>2 DEF Receiver!TypeOK, Receiver!Slots, Receiver!QueueDepth
<1>4. Receiver!Contents' = Held(rQueue', rBegin', rNbMessages', Receiver!QueueDepth)
  BY DEF Receiver!Contents, Receiver!Slot, Held, Place, Receiver!QueueDepth
<1>5. /\ Held(rQueue, rBegin, rNbMessages, Receiver!QueueDepth) # <<>>
      /\ Held(rQueue', rBegin', rNbMessages', Receiver!QueueDepth)
           = Tail(Held(rQueue, rBegin, rNbMessages, Receiver!QueueDepth))
  BY <1>1, Depths, LeaveTakesHead DEF Receiver!TypeOK
<1> QED
  BY <1>3, <1>4, <1>5, ReceiverContents

LEMMA ReceiverEmpties ==
  ASSUME Receiver!TypeOK, Receiver!Reset
  PROVE  /\ Receiver!TypeOK'
         /\ Receiver!Contents' = <<>>
<1>1. rBegin' = 0 /\ rNbMessages' = 0 /\ rQueue' = rQueue
  BY DEF Receiver!Reset
<1> QED
  BY <1>1, Depths DEF Receiver!TypeOK, Receiver!Slots, Receiver!QueueDepth, Receiver!Contents

LEMMA SenderStays ==
  ASSUME UNCHANGED senderVars
  PROVE  /\ Sender!TypeOK' = Sender!TypeOK
         /\ Sender!Contents' = Sender!Contents
  BY DEF senderVars, Sender!TypeOK, Sender!Slots, Sender!QueueDepth, Sender!Contents, Sender!Slot

LEMMA ReceiverStays ==
  ASSUME UNCHANGED receiverVars
  PROVE  /\ Receiver!TypeOK' = Receiver!TypeOK
         /\ Receiver!Contents' = Receiver!Contents
  BY DEF receiverVars, Receiver!TypeOK, Receiver!Slots, Receiver!QueueDepth, Receiver!Contents, Receiver!Slot

-----------------------------------------------------------------------------
(* Type correctness of the channel.  The sender's ring never holds more    *)
(* than the declared depth.                                                *)
TypeOK ==
  /\ Sender!TypeOK
  /\ Receiver!TypeOK
  /\ sNbMessages <= MessageQueueDepth
  /\ wire \in Seq(Payloads)
  /\ popped \in Seq(Payloads)
  /\ pushed \in 0..MaxPush
  /\ sending \in BOOLEAN
  /\ ahead \in Nat

(* What a step does to the messages, from push to pop. *)
SC == Sender!Contents
RC == Receiver!Contents

Accepts ==
  /\ Len(SC) < MessageQueueDepth
  /\ pushed + 1 \in Payloads
  /\ SC' = Append(SC, pushed + 1)
  /\ pushed' = pushed + 1
  /\ UNCHANGED <<RC, wire, popped, lost, overflowed>>

Leaves ==
  /\ SC # <<>>
  /\ SC' = Tail(SC)
  /\ wire' = Append(wire, Head(SC))
  /\ UNCHANGED <<RC, pushed, popped, lost, overflowed>>

SenderForgets ==
  /\ SC' = <<>>
  /\ lost' = lost \cup Range(SC)
  /\ UNCHANGED <<RC, wire, pushed, popped, overflowed>>

IsLost ==
  /\ \E i \in DOMAIN wire :
       /\ wire' = Without(wire, i)
       /\ lost' = lost \cup {wire[i]}
  /\ UNCHANGED <<SC, RC, pushed, popped, overflowed>>

Arrives ==
  /\ wire # <<>>
  /\ wire' = Tail(wire)
  /\ Len(RC) < Receiver!QueueDepth
  /\ RC' = Append(RC, Head(wire))
  /\ UNCHANGED <<SC, pushed, popped, lost, overflowed>>

Overflows ==
  /\ wire # <<>>
  /\ wire' = Tail(wire)
  /\ overflowed' = overflowed \cup {Head(wire)}
  /\ UNCHANGED <<SC, RC, pushed, popped, lost>>

IsPopped ==
  /\ RC # <<>>
  /\ RC' = Tail(RC)
  /\ popped' = Append(popped, Head(RC))
  /\ UNCHANGED <<SC, wire, pushed, lost, overflowed>>

ReceiverForgets ==
  /\ RC' = <<>>
  /\ lost' = lost \cup Range(RC)
  /\ UNCHANGED <<SC, wire, pushed, popped, overflowed>>

Stay == UNCHANGED <<SC, RC, wire, pushed, popped, lost, overflowed>>

Flow ==
  \/ Accepts \/ Leaves \/ SenderForgets
  \/ IsLost \/ Arrives \/ Overflows
  \/ IsPopped \/ ReceiverForgets
  \/ Stay

LEMMA InitTypeOK == Init => TypeOK
<1> SUFFICES ASSUME Init PROVE TypeOK
  OBVIOUS
<1>1. 0 \in Payloads
  BY AfdxChannelAssumption
<1>2. Sender!TypeOK /\ Receiver!TypeOK
  BY <1>1, Depths DEF Init, Sender!TypeOK, Receiver!TypeOK
<1>3. wire \in Seq(Payloads) /\ popped \in Seq(Payloads)
  BY DEF Init
<1> QED
  BY <1>2, <1>3, Depths, AfdxChannelAssumption DEF Init, TypeOK

LEMMA WithoutType ==
  ASSUME NEW S, NEW s \in Seq(S), NEW i \in DOMAIN s
  PROVE  /\ Without(s, i) \in Seq(S)
         /\ Len(Without(s, i)) = Len(s) - 1
         /\ \A k \in 1..(Len(s) - 1) : Without(s, i)[k] = s[IF k < i THEN k ELSE k + 1]
<1> DEFINE L == Len(s)
           a == SubSeq(s, 1, i - 1)
           b == SubSeq(s, i + 1, L)
<1>1. L \in Nat /\ i \in 1..L /\ i \in Nat
  BY LenProperties
<1>2. /\ a \in Seq(S) /\ Len(a) = i - 1
      /\ \A k \in 1..(i - 1) : a[k] = s[k]
  <2>1. 1 \in Nat /\ i - 1 \in 0..L /\ i - 1 \in Nat
    BY <1>1
  <2> QED
    BY <1>1, <2>1, SubSeqProperties
<1>3. /\ b \in Seq(S) /\ Len(b) = L - i
      /\ \A k \in 1..(L - i) : b[k] = s[i + k]
  BY <1>1, SubSeqProperties
<1> HIDE DEF a, b
<1>4. /\ (a \o b) \in Seq(S) /\ Len(a \o b) = L - 1
      /\ \A k \in 1..(L - 1) : (a \o b)[k] = IF k <= i - 1 THEN a[k] ELSE b[k - (i - 1)]
  <2>1. /\ (a \o b) \in Seq(S) /\ Len(a \o b) = Len(a) + Len(b)
        /\ \A k \in 1..(Len(a) + Len(b)) :
             (a \o b)[k] = IF k <= Len(a) THEN a[k] ELSE b[k - Len(a)]
    BY <1>2, <1>3, ConcatProperties
  <2>2. Len(a) + Len(b) = L - 1 /\ Len(a) = i - 1
    BY <1>1, <1>2, <1>3
  <2> QED
    BY <2>1, <2>2
<1>5. ASSUME NEW k \in 1..(L - 1)
      PROVE  (a \o b)[k] = s[IF k < i THEN k ELSE k + 1]
  <2>1. CASE k <= i - 1
    BY <2>1, <1>1, <1>2, <1>4
  <2>2. CASE ~(k <= i - 1)
    <3>1. k - (i - 1) \in 1..(L - i) /\ i + (k - (i - 1)) = k + 1
      BY <2>2, <1>1
    <3> QED
      BY <2>2, <3>1, <1>1, <1>3, <1>4
  <2> QED
    BY <2>1, <2>2
<1> QED
  BY <1>4, <1>5 DEF a, b, Without

(* Every step of the two applications and of the network keeps the types,  *)
(* and moves the messages in one of these ways if every datagram has a     *)
(* payload.                                                                *)
LEMMA EveryStepFlows ==
  ASSUME TypeOK, [Next]_vars
  PROVE  TypeOK' /\ (EmptyPayloads = {} => Flow)
<1> USE DEF SC, RC
<1>0. /\ Sender!Contents \in Seq(Payloads) /\ Receiver!Contents \in Seq(Payloads)
      /\ Sender!TypeOK /\ Receiver!TypeOK
      /\ wire \in Seq(Payloads) /\ popped \in Seq(Payloads)
  BY SenderContents, ReceiverContents DEF TypeOK
<1>01. sNbMessages \in Nat /\ MessageQueueDepth \in Nat
  BY <1>0, Depths DEF Sender!TypeOK
<1>1. CASE Push
  <2>1. pushed + 1 \in Payloads /\ pushed + 1 \in 0..MaxPush
    BY <1>1, AfdxChannelAssumption DEF Push, TypeOK
  <2>2. Sender!Push(pushed + 1)
    BY <1>1 DEF Push
  <2>3. /\ Sender!TypeOK' /\ sNbMessages < MessageQueueDepth
        /\ Sender!Contents' = Append(Sender!Contents, pushed + 1)
    BY <2>1, <2>2, <1>0, SenderAccepts
  <2>4. Receiver!TypeOK' /\ Receiver!Contents' = Receiver!Contents
    BY <1>1, <1>0, ReceiverStays DEF Push
  <2>5. sNbMessages' = sNbMessages + 1
    BY <2>2 DEF Sender!Push
  <2>6. TypeOK'
    BY <1>1, <1>01, <2>1, <2>3, <2>4, <2>5 DEF Push, TypeOK
  <2>8. Len(SC) < MessageQueueDepth
    BY <2>3, <1>0, SenderContents
  <2>7. Accepts
    BY <1>1, <2>1, <2>3, <2>4, <2>8 DEF Push, Accepts
  <2> QED
    BY <2>6, <2>7 DEF Flow
<1>2. CASE BeginSendAll \/ EmptySendAll \/ SendThrows \/ UNCHANGED vars
  <2>1. UNCHANGED <<senderVars, receiverVars, wire, pushed, popped, lost, overflowed>>
    BY <1>2, Zenon DEF BeginSendAll, EmptySendAll, SendThrows, vars
  <2>4. sending' \in BOOLEAN
    <3>1. sending \in BOOLEAN
      BY DEF TypeOK
    <3>2. sending' = TRUE \/ sending' = FALSE \/ sending' = sending
      BY <1>2, Zenon DEF BeginSendAll, EmptySendAll, SendThrows, vars, queueVars
    <3> QED
      BY <3>1, <3>2, Zenon
  <2>5. ahead' \in Nat
    <3>1. ahead' = 1 \/ ahead' = ahead + 1 \/ ahead' = ahead
      BY <1>2, Zenon DEF BeginSendAll, EmptySendAll, SendThrows, vars
    <3> QED
      BY <3>1 DEF TypeOK
  <2>2. /\ Sender!TypeOK' /\ Sender!Contents' = Sender!Contents
        /\ Receiver!TypeOK' /\ Receiver!Contents' = Receiver!Contents
    BY <2>1, <1>0, SenderStays, ReceiverStays
  <2>3. sNbMessages' = sNbMessages
    BY <2>1 DEF senderVars
  <2> QED
    BY <2>1, <2>2, <2>3, <2>4, <2>5 DEF TypeOK, Flow, Stay
<1>3. CASE SendOne
  <2>1. /\ Sender!TypeOK' /\ Sender!Contents # <<>>
        /\ Sender!Contents' = Tail(Sender!Contents)
    BY <1>3, <1>0, SenderLeaves DEF SendOne
  <2>2. Receiver!TypeOK' /\ Receiver!Contents' = Receiver!Contents
    BY <1>3, <1>0, ReceiverStays DEF SendOne
  <2>3. sNbMessages' = sNbMessages - 1
    BY <1>3 DEF SendOne, Sender!SendOne
  <2>4. Append(wire, Head(Sender!Contents)) \in Seq(Payloads)
    BY <1>0, <2>1, HeadTailProperties, AppendProperties
  <2>5. TypeOK'
    BY <1>3, <1>01, <2>1, <2>2, <2>3, <2>4 DEF SendOne, TypeOK, queueVars
  <2>6. Leaves
    BY <1>3, <2>1, <2>2 DEF SendOne, Leaves
  <2> QED
    BY <2>5, <2>6 DEF Flow
<1>4. CASE EndSendAll
  <2>1. /\ Sender!TypeOK' /\ Sender!Contents' = <<>> /\ Sender!Contents = <<>>
        /\ sNbMessages' = 0
    BY <1>4, <1>0, SenderEmpties DEF EndSendAll
  <2>2. Receiver!TypeOK' /\ Receiver!Contents' = Receiver!Contents
    BY <1>4, <1>0, ReceiverStays DEF EndSendAll
  <2>5. sending' \in BOOLEAN
    BY <1>4, Zenon DEF EndSendAll
  <2>6. UNCHANGED <<wire, popped, pushed, ahead>>
    BY <1>4 DEF EndSendAll
  <2>3. TypeOK'
    BY <1>01, <2>1, <2>2, <2>5, <2>6 DEF TypeOK
  <2>4. Stay
    BY <1>4, <2>1, <2>2 DEF EndSendAll, Stay
  <2> QED
    BY <2>3, <2>4 DEF Flow
<1>5. CASE ResetOutput
  <2>1. /\ Sender!TypeOK' /\ Sender!Contents' = <<>> /\ sNbMessages' = 0
    BY <1>5, <1>0, SenderEmpties DEF ResetOutput
  <2>2. Receiver!TypeOK' /\ Receiver!Contents' = Receiver!Contents
    BY <1>5, <1>0, ReceiverStays DEF ResetOutput
  <2>3. TypeOK'
    BY <1>5, <1>01, <2>1, <2>2 DEF ResetOutput, TypeOK, queueVars
  <2>4. SenderForgets
    BY <1>5, <2>1, <2>2 DEF ResetOutput, SenderForgets
  <2> QED
    BY <2>3, <2>4 DEF Flow
<1>6. CASE Lose
  <2>1. PICK i \in DOMAIN wire : wire' = Without(wire, i) /\ lost' = lost \cup {wire[i]}
    BY <1>6 DEF Lose
  <2>2. wire' \in Seq(Payloads)
    BY <2>1, <1>0, WithoutType
  <2>3. /\ Sender!TypeOK' /\ Sender!Contents' = Sender!Contents
        /\ Receiver!TypeOK' /\ Receiver!Contents' = Receiver!Contents
    BY <1>6, <1>0, SenderStays, ReceiverStays DEF Lose
  <2>4. TypeOK'
    BY <1>6, <2>2, <2>3 DEF Lose, TypeOK, senderVars, queueVars
  <2>5. IsLost
    BY <1>6, <2>1, <2>3 DEF Lose, IsLost
  <2> QED
    BY <2>4, <2>5 DEF Flow
<1>7. CASE Import
  <2>1. wire # <<>> /\ wire' = Tail(wire) /\ Receiver!Receive(Head(wire))
    BY <1>7 DEF Import
  <2>2. Head(wire) \in Payloads /\ wire' \in Seq(Payloads)
    BY <2>1, <1>0, HeadTailProperties
  <2>3. Sender!TypeOK' /\ Sender!Contents' = Sender!Contents /\ sNbMessages' = sNbMessages
    BY <1>7, <1>0, SenderStays DEF Import, senderVars
  <2>4. CASE Receiver!RingFull
    <3>1. UNCHANGED receiverVars
      BY <2>1, <2>4 DEF Receiver!Receive, Receiver!vars, receiverVars
    <3>2. Receiver!TypeOK' /\ Receiver!Contents' = Receiver!Contents
      BY <3>1, <1>0, ReceiverStays
    <3>3. TypeOK'
      BY <1>7, <2>2, <2>3, <3>2 DEF Import, TypeOK, queueVars
    <3>4. Overflows
      BY <1>7, <2>1, <2>3, <2>4, <3>2 DEF Import, Overflows
    <3> QED
      BY <3>3, <3>4 DEF Flow
  <2>5. CASE ~Receiver!RingFull
    <3>1. Receiver!TypeOK'
      BY <2>1, <2>2, <2>5, <1>0, ReceiverCounts
    <3>2. TypeOK'
      BY <1>7, <2>2, <2>3, <3>1 DEF Import, TypeOK, queueVars
    <3>4. Len(RC) < Receiver!QueueDepth
      BY <2>5, <1>0, ReceiverContents, Depths DEF Receiver!RingFull, Receiver!TypeOK
    <3>3. ASSUME EmptyPayloads = {} PROVE Arrives
      <4>1. Receiver!Contents' = Append(Receiver!Contents, Head(wire))
        BY <2>1, <2>2, <2>5, <3>3, <1>0, ReceiverTakes
      <4> QED
        BY <1>7, <2>1, <2>3, <2>5, <3>4, <4>1 DEF Import, Arrives
    <3> QED
      BY <3>2, <3>3 DEF Flow
  <2> QED
    BY <2>4, <2>5
<1>8. CASE Pop
  <2>1. /\ Receiver!TypeOK' /\ Receiver!Contents # <<>>
        /\ Receiver!Contents' = Tail(Receiver!Contents)
    BY <1>8, <1>0, ReceiverPops DEF Pop
  <2>2. Sender!TypeOK' /\ Sender!Contents' = Sender!Contents /\ sNbMessages' = sNbMessages
    BY <1>8, <1>0, SenderStays DEF Pop, senderVars
  <2>3. Append(popped, Head(Receiver!Contents)) \in Seq(Payloads)
    BY <1>0, <2>1, HeadTailProperties, AppendProperties
  <2>4. TypeOK'
    BY <1>8, <2>1, <2>2, <2>3 DEF Pop, TypeOK, queueVars
  <2>5. IsPopped
    BY <1>8, <2>1, <2>2 DEF Pop, IsPopped
  <2> QED
    BY <2>4, <2>5 DEF Flow
<1>9. CASE ResetInput
  <2>1. Receiver!TypeOK' /\ Receiver!Contents' = <<>>
    BY <1>9, <1>0, ReceiverEmpties DEF ResetInput
  <2>2. Sender!TypeOK' /\ Sender!Contents' = Sender!Contents /\ sNbMessages' = sNbMessages
    BY <1>9, <1>0, SenderStays DEF ResetInput, senderVars
  <2>3. TypeOK'
    BY <1>9, <2>1, <2>2 DEF ResetInput, TypeOK, queueVars
  <2>4. ReceiverForgets
    BY <1>9, <2>1, <2>2 DEF ResetInput, ReceiverForgets
  <2> QED
    BY <2>3, <2>4 DEF Flow
<1> QED
  BY <1>1, <1>2, <1>3, <1>4, <1>5, <1>6, <1>7, <1>8, <1>9 DEF Next

(* Type correctness: the indices of the two rings designate slots and the  *)
(* numbers of messages stay within the rings, so no memory access of push, *)
(* send, receive or pop leaves the arrays; and the sender's ring holds at  *)
(* most the declared depth.                                                *)
THEOREM TypeCorrect == Spec => []TypeOK
<1>1. TypeOK /\ [Next]_vars => TypeOK'
  BY EveryStepFlows
<1> QED
  BY InitTypeOK, <1>1, PTL DEF Spec

-----------------------------------------------------------------------------
(* The messages of a sequence that grows, shrinks or loses one.            *)
LEMMA RangeFacts ==
  ASSUME NEW S, NEW s \in Seq(S)
  PROVE  /\ Range(s) = {s[i] : i \in 1..Len(s)}
         /\ \A i \in 1..Len(s) : s[i] \in Range(s)
         /\ \A x \in Range(s) : \E i \in 1..Len(s) : x = s[i]
         /\ Range(s) \subseteq S
<1>1. DOMAIN s = 1..Len(s) /\ \A i \in 1..Len(s) : s[i] \in S
  BY LenProperties
<1> QED
  BY <1>1 DEF Range

LEMMA RangeAppend ==
  ASSUME NEW S, NEW s \in Seq(S), NEW x \in S
  PROVE  Range(Append(s, x)) = Range(s) \cup {x}
<1> DEFINE t == Append(s, x)
           L == Len(s)
<1>1. /\ t \in Seq(S) /\ Len(t) = L + 1 /\ L \in Nat
      /\ \A i \in 1..L : t[i] = s[i]
      /\ t[L + 1] = x
  BY AppendProperties, LenProperties
<1> HIDE DEF t
<1>2. \A i \in 1..L : s[i] \in Range(t)
  <2>1. \A i \in 1..L : i \in 1..Len(t)
    BY <1>1
  <2> QED
    BY <2>1, <1>1, RangeFacts
<1>3. x \in Range(t)
  <2>1. L + 1 \in 1..Len(t)
    BY <1>1
  <2> QED
    BY <2>1, <1>1, RangeFacts
<1>4. \A i \in 1..Len(t) : t[i] \in Range(s) \cup {x}
  <2> TAKE i \in 1..Len(t)
  <2>1. i \in 1..L \/ i = L + 1
    BY <1>1
  <2> QED
    BY <2>1, <1>1, RangeFacts
<1>5. Range(t) \subseteq Range(s) \cup {x}
  BY <1>1, <1>4, RangeFacts
<1>6. Range(s) \cup {x} \subseteq Range(t)
  BY <1>2, <1>3, RangeFacts
<1> QED
  BY <1>5, <1>6 DEF t

LEMMA RangeTail ==
  ASSUME NEW S, NEW s \in Seq(S), s # <<>>
  PROVE  /\ Range(s) = Range(Tail(s)) \cup {Head(s)}
         /\ Tail(s) \in Seq(S) /\ Head(s) \in S
<1> DEFINE t == Tail(s)
           L == Len(s)
<1>1. /\ t \in Seq(S) /\ Head(s) \in S /\ Len(t) = L - 1 /\ L \in Nat \ {0}
      /\ \A i \in 1..(L - 1) : t[i] = s[i + 1]
      /\ Head(s) = s[1]
  BY HeadTailProperties, LenProperties, EmptySeq
<1> HIDE DEF t
<1>2. \A i \in 1..L : s[i] \in Range(t) \cup {Head(s)}
  <2> TAKE i \in 1..L
  <2>1. i = 1 \/ (i - 1 \in 1..(L - 1) /\ (i - 1) + 1 = i)
    BY <1>1
  <2>2. CASE i = 1
    BY <2>2, <1>1
  <2>3. CASE i - 1 \in 1..(L - 1) /\ (i - 1) + 1 = i
    <3>1. t[i - 1] = s[i] /\ i - 1 \in 1..Len(t)
      BY <2>3, <1>1
    <3>2. t[i - 1] \in Range(t)
      BY <3>1, <1>1, RangeFacts
    <3> QED
      BY <3>1, <3>2
  <2> QED
    BY <2>1, <2>2, <2>3
<1>3. \A i \in 1..Len(t) : t[i] \in Range(s)
  <2>1. \A i \in 1..Len(t) : i + 1 \in 1..L /\ t[i] = s[i + 1]
    BY <1>1
  <2> QED
    BY <2>1, RangeFacts
<1>4. Head(s) \in Range(s)
  <2>1. 1 \in 1..L
    BY <1>1
  <2> QED
    BY <2>1, <1>1, RangeFacts
<1>5. Range(t) \cup {Head(s)} \subseteq Range(s)
  BY <1>1, <1>3, <1>4, RangeFacts
<1>6. Range(s) \subseteq Range(t) \cup {Head(s)}
  BY <1>2, RangeFacts
<1> QED
  BY <1>1, <1>5, <1>6 DEF t

LEMMA RangeWithout ==
  ASSUME NEW S, NEW s \in Seq(S), NEW i \in DOMAIN s
  PROVE  Range(s) = Range(Without(s, i)) \cup {s[i]}
<1> DEFINE t == Without(s, i)
           L == Len(s)
<1>1. /\ t \in Seq(S) /\ Len(t) = L - 1 /\ L \in Nat /\ i \in 1..L
      /\ \A k \in 1..(L - 1) : t[k] = s[IF k < i THEN k ELSE k + 1]
  BY WithoutType, LenProperties
<1> HIDE DEF t
<1>2. \A k \in 1..L : s[k] \in Range(t) \cup {s[i]}
  <2> TAKE k \in 1..L
  <2>1. CASE k = i
    BY <2>1
  <2>2. CASE k < i
    <3>1. k \in 1..Len(t) /\ t[k] = s[k]
      BY <2>2, <1>1
    <3> QED
      BY <3>1, <1>1, RangeFacts
  <2>3. CASE k > i
    <3>1. k - 1 \in 1..Len(t) /\ (k - 1) + 1 = k /\ ~(k - 1 < i)
      BY <2>3, <1>1
    <3>2. t[k - 1] = s[k]
      BY <3>1, <1>1
    <3>3. t[k - 1] \in Range(t)
      BY <3>1, <1>1, RangeFacts
    <3> QED
      BY <3>2, <3>3
  <2>4. k = i \/ k < i \/ k > i
    BY <1>1
  <2> QED
    BY <2>1, <2>2, <2>3, <2>4
<1>3. \A k \in 1..Len(t) : t[k] \in Range(s)
  <2> TAKE k \in 1..Len(t)
  <2>1. (IF k < i THEN k ELSE k + 1) \in 1..L /\ t[k] = s[IF k < i THEN k ELSE k + 1]
    BY <1>1
  <2> QED
    BY <2>1, RangeFacts
<1>4. s[i] \in Range(s)
  BY <1>1, RangeFacts
<1>5. Range(t) \cup {s[i]} \subseteq Range(s)
  BY <1>1, <1>3, <1>4, RangeFacts
<1>6. Range(s) \subseteq Range(t) \cup {s[i]}
  BY <1>2, RangeFacts
<1> QED
  BY <1>5, <1>6 DEF t

LEMMA RangeEmpty == Range(<<>>) = {}
  BY DEF Range

-----------------------------------------------------------------------------
(* No message vanishes: each way in which the messages move keeps the      *)
(* union of the places where they are.                                     *)
Somewhere ==
  1..pushed = Range(popped) \cup Range(RC) \cup Range(wire) \cup Range(SC)
                \cup lost \cup overflowed

LEMMA FlowKeepsAll ==
  ASSUME TypeOK, Somewhere, Flow
  PROVE  Somewhere'
<1>0. SC \in Seq(Payloads) /\ RC \in Seq(Payloads)
  BY SenderContents, ReceiverContents DEF TypeOK, SC, RC
<1>01. wire \in Seq(Payloads) /\ popped \in Seq(Payloads)
  BY DEF TypeOK
<1> USE DEF Somewhere
<1>1. CASE Accepts
  <2>1. pushed \in Nat
    BY AfdxChannelAssumption DEF TypeOK
  <2>2. 1..(pushed + 1) = (1..pushed) \cup {pushed + 1}
    BY <2>1
  <2>3. Range(Append(SC, pushed + 1)) = Range(SC) \cup {pushed + 1}
    <3>1. SC \in Seq(Nat) /\ pushed + 1 \in Nat
      BY <1>0, <2>1, AfdxChannelAssumption
    <3> QED
      BY <3>1, RangeAppend
  <2> QED
    BY <1>1, <2>2, <2>3 DEF Accepts
<1>2. CASE Leaves
  <2>1. /\ Range(SC) = Range(Tail(SC)) \cup {Head(SC)}
        /\ Head(SC) \in Payloads
    BY <1>0, <1>2, RangeTail DEF Leaves
  <2>2. Range(Append(wire, Head(SC))) = Range(wire) \cup {Head(SC)}
    BY <1>01, <2>1, RangeAppend
  <2> QED
    BY <1>2, <2>1, <2>2 DEF Leaves
<1>3. CASE SenderForgets
  BY <1>3, RangeEmpty DEF SenderForgets
<1>4. CASE IsLost
  <2>1. PICK i \in DOMAIN wire : wire' = Without(wire, i) /\ lost' = lost \cup {wire[i]}
    BY <1>4 DEF IsLost
  <2>2. Range(wire) = Range(wire') \cup {wire[i]}
    BY <1>01, <2>1, RangeWithout
  <2> QED
    BY <1>4, <2>1, <2>2 DEF IsLost
<1>5. CASE Arrives
  <2>1. /\ Range(wire) = Range(Tail(wire)) \cup {Head(wire)}
        /\ Head(wire) \in Payloads
    BY <1>01, <1>5, RangeTail DEF Arrives
  <2>2. Range(Append(RC, Head(wire))) = Range(RC) \cup {Head(wire)}
    BY <1>0, <2>1, RangeAppend
  <2> QED
    BY <1>5, <2>1, <2>2 DEF Arrives
<1>6. CASE Overflows
  <2>1. Range(wire) = Range(Tail(wire)) \cup {Head(wire)}
    BY <1>01, <1>6, RangeTail DEF Overflows
  <2> QED
    BY <1>6, <2>1 DEF Overflows
<1>7. CASE IsPopped
  <2>1. /\ Range(RC) = Range(Tail(RC)) \cup {Head(RC)}
        /\ Head(RC) \in Payloads
    BY <1>0, <1>7, RangeTail DEF IsPopped
  <2>2. Range(Append(popped, Head(RC))) = Range(popped) \cup {Head(RC)}
    BY <1>01, <2>1, RangeAppend
  <2> QED
    BY <1>7, <2>1, <2>2 DEF IsPopped
<1>8. CASE ReceiverForgets
  BY <1>8, RangeEmpty DEF ReceiverForgets
<1>9. CASE Stay
  BY <1>9 DEF Stay
<1> QED
  BY <1>1, <1>2, <1>3, <1>4, <1>5, <1>6, <1>7, <1>8, <1>9 DEF Flow

LEMMA InitEmpty == Init => SC = <<>> /\ RC = <<>> /\ wire = <<>> /\ popped = <<>>
  BY DEF Init, SC, RC, Sender!Contents, Receiver!Contents

(* Every message that push accepted is in a ring, under way, popped, or    *)
(* lost for a reason the system can name, for every depth of the two ports *)
(* and any number of messages, losses, resets and failing sockets.         *)
THEOREM NoMessageVanishes == EmptyPayloads = {} /\ Spec => []NothingVanishes
<1> SUFFICES ASSUME EmptyPayloads = {} PROVE Spec => []NothingVanishes
  OBVIOUS
<1>1. Init => Somewhere
  <2> SUFFICES ASSUME Init PROVE Somewhere
    OBVIOUS
  <2>1. pushed = 0 /\ lost = {} /\ overflowed = {}
    BY DEF Init
  <2>2. 1..pushed = {}
    BY <2>1
  <2> QED
    BY <2>1, <2>2, InitEmpty, RangeEmpty DEF Somewhere
<1>2. TypeOK /\ Somewhere /\ [Next]_vars => Somewhere'
  BY EveryStepFlows, FlowKeepsAll
<1>3. Somewhere => NothingVanishes
  BY DEF Somewhere, NothingVanishes, SC, RC
<1> QED
  BY <1>1, <1>2, <1>3, TypeCorrect, PTL DEF Spec

-----------------------------------------------------------------------------
(* The order of the push.  Each place holds its messages in order, and all *)
(* of them were pushed before those of the places behind it.               *)
Increasing(s) == \A i, j \in DOMAIN s : i < j => s[i] < s[j]
Before(s, t) == \A x \in Range(s), y \in Range(t) : x < y

Ordered ==
  /\ Increasing(popped) /\ Increasing(RC) /\ Increasing(wire) /\ Increasing(SC)
  /\ Before(popped, RC) /\ Before(popped, wire) /\ Before(popped, SC)
  /\ Before(RC, wire) /\ Before(RC, SC) /\ Before(wire, SC)
  /\ Range(popped) \cup Range(RC) \cup Range(wire) \cup Range(SC) \subseteq 1..pushed

LEMMA AppendIncreases ==
  ASSUME NEW s \in Seq(Nat), NEW x \in Nat, Increasing(s), \A y \in Range(s) : y < x
  PROVE  Increasing(Append(s, x))
<1> DEFINE t == Append(s, x)
           L == Len(s)
<1>1. /\ t \in Seq(Nat) /\ Len(t) = L + 1 /\ L \in Nat
      /\ \A i \in 1..L : t[i] = s[i]
      /\ t[L + 1] = x
  BY AppendProperties, LenProperties
<1>2. DOMAIN t = 1..(L + 1) /\ DOMAIN s = 1..L
  BY <1>1, LenProperties
<1>3. \A i \in 1..L : s[i] < x
  BY RangeFacts
<1> HIDE DEF t
<1>4. ASSUME NEW i \in 1..(L + 1), NEW j \in 1..(L + 1), i < j PROVE t[i] < t[j]
  <2>1. CASE j = L + 1
    <3>1. i \in 1..L
      BY <1>1, <1>4, <2>1
    <3> QED
      BY <3>1, <2>1, <1>1, <1>3
  <2>2. CASE j # L + 1
    <3>1. i \in 1..L /\ j \in 1..L
      BY <1>1, <1>4, <2>2
    <3>2. s[i] < s[j]
      BY <3>1, <1>2, <1>4 DEF Increasing
    <3> QED
      BY <3>1, <3>2, <1>1
  <2> QED
    BY <2>1, <2>2
<1> QED
  BY <1>2, <1>4 DEF Increasing, t

LEMMA TailIncreases ==
  ASSUME NEW s \in Seq(Nat), s # <<>>, Increasing(s)
  PROVE  /\ Increasing(Tail(s))
         /\ \A y \in Range(Tail(s)) : Head(s) < y
<1> DEFINE t == Tail(s)
           L == Len(s)
<1>1. /\ t \in Seq(Nat) /\ Len(t) = L - 1 /\ L \in Nat \ {0}
      /\ \A i \in 1..(L - 1) : t[i] = s[i + 1]
      /\ Head(s) = s[1]
  BY HeadTailProperties, LenProperties, EmptySeq
<1>2. DOMAIN t = 1..(L - 1) /\ DOMAIN s = 1..L
  BY <1>1, LenProperties
<1> HIDE DEF t
<1>3. ASSUME NEW i \in 1..(L - 1), NEW j \in 1..(L - 1), i < j PROVE t[i] < t[j]
  <2>1. i + 1 \in 1..L /\ j + 1 \in 1..L /\ i + 1 < j + 1
    BY <1>1, <1>3
  <2>2. s[i + 1] < s[j + 1]
    BY <2>1, <1>2 DEF Increasing
  <2> QED
    BY <2>2, <1>1
<1>4. ASSUME NEW i \in 1..Len(t) PROVE Head(s) < t[i]
  <2>1. i + 1 \in 1..L /\ 1 \in 1..L /\ 1 < i + 1 /\ t[i] = s[i + 1]
    BY <1>1
  <2>2. s[1] < s[i + 1]
    BY <2>1, <1>2 DEF Increasing
  <2> QED
    BY <2>1, <2>2, <1>1
<1>5. ASSUME NEW y \in Range(t) PROVE Head(s) < y
  <2>1. PICK i \in 1..Len(t) : y = t[i]
    BY <1>1, RangeFacts
  <2> QED
    BY <2>1, <1>4
<1>6. Increasing(t)
  BY <1>2, <1>3 DEF Increasing
<1> QED
  BY <1>5, <1>6 DEF t

LEMMA WithoutIncreases ==
  ASSUME NEW s \in Seq(Nat), NEW n \in DOMAIN s, Increasing(s)
  PROVE  Increasing(Without(s, n))
<1> DEFINE t == Without(s, n)
           L == Len(s)
           From(k) == IF k < n THEN k ELSE k + 1
<1>1. /\ t \in Seq(Nat) /\ Len(t) = L - 1 /\ L \in Nat /\ n \in 1..L
      /\ \A k \in 1..(L - 1) : t[k] = s[From(k)]
  BY WithoutType, LenProperties
<1>2. DOMAIN t = 1..(L - 1) /\ DOMAIN s = 1..L
  BY <1>1, LenProperties
<1> HIDE DEF t
<1>3. ASSUME NEW i \in 1..(L - 1), NEW j \in 1..(L - 1), i < j PROVE t[i] < t[j]
  <2>0. \A k \in 1..(L - 1) : (k < n /\ From(k) = k) \/ (k >= n /\ From(k) = k + 1)
    BY <1>1
  <2>1. From(i) \in 1..L /\ From(j) \in 1..L /\ From(i) < From(j)
    <3> HIDE DEF From
    <3>1. (i < n /\ From(i) = i) \/ (i >= n /\ From(i) = i + 1)
      BY <2>0
    <3>2. (j < n /\ From(j) = j) \/ (j >= n /\ From(j) = j + 1)
      BY <2>0
    <3>3. i \in Nat /\ j \in Nat /\ n \in Nat /\ L \in Nat
      BY <1>1
    <3>4. CASE i < n /\ j < n
      <4>1. From(i) = i /\ From(j) = j
        BY <3>1, <3>2, <3>3, <3>4
      <4> QED
        BY <4>1, <1>3, <3>3
    <3>5. CASE i < n /\ j >= n
      <4>1. From(i) = i /\ From(j) = j + 1
        BY <3>1, <3>2, <3>3, <3>5
      <4> QED
        BY <4>1, <1>3, <3>3
    <3>6. CASE i >= n
      <4>1. From(i) = i + 1 /\ From(j) = j + 1
        BY <3>1, <3>2, <3>3, <3>6, <1>3
      <4> QED
        BY <4>1, <1>3, <3>3
    <3> QED
      BY <3>3, <3>4, <3>5, <3>6
  <2> HIDE DEF From
  <2>2. s[From(i)] < s[From(j)]
    BY <2>1, <1>2 DEF Increasing
  <2> QED
    BY <2>2, <1>1
<1> QED
  BY <1>2, <1>3 DEF Increasing, t

LEMMA PayloadsAreNumbers ==
  ASSUME NEW s \in Seq(Payloads)
  PROVE  s \in Seq(Nat)
  BY AfdxChannelAssumption

LEMMA FlowKeepsOrder ==
  ASSUME TypeOK, Ordered, Flow
  PROVE  Ordered'
<1>0. /\ SC \in Seq(Nat) /\ RC \in Seq(Nat)
      /\ wire \in Seq(Nat) /\ popped \in Seq(Nat)
  <2>1. SC \in Seq(Payloads) /\ RC \in Seq(Payloads)
    BY SenderContents, ReceiverContents DEF TypeOK, SC, RC
  <2>2. wire \in Seq(Payloads) /\ popped \in Seq(Payloads)
    BY DEF TypeOK
  <2> QED
    BY <2>1, <2>2, PayloadsAreNumbers
<1>01. pushed \in Nat
  BY AfdxChannelAssumption DEF TypeOK
<1>02. /\ Range(SC) \subseteq Nat /\ Range(RC) \subseteq Nat
       /\ Range(wire) \subseteq Nat /\ Range(popped) \subseteq Nat
  BY <1>0, RangeFacts
<1> DEFINE Nothing == <<>>
<1>03. Increasing(Nothing) /\ Range(Nothing) = {}
  BY RangeEmpty DEF Increasing
<1> HIDE DEF Nothing
<1>1. CASE Accepts
  <2>1. \A y \in Range(SC) : y < pushed + 1
    BY <1>01 DEF Ordered
  <2>2. Increasing(SC') /\ Range(SC') = Range(SC) \cup {pushed + 1}
    <3> DEFINE n == pushed + 1
    <3>1. n \in Nat /\ (\A y \in Range(SC) : y < n)
      BY <1>01, <2>1
    <3>2. SC' = Append(SC, n)
      BY <1>1 DEF Accepts
    <3>3. Increasing(SC)
      BY DEF Ordered
    <3> HIDE DEF n
    <3>4. Increasing(Append(SC, n)) /\ Range(Append(SC, n)) = Range(SC) \cup {n}
      BY <3>1, <3>3, <1>0, AppendIncreases, RangeAppend
    <3> QED
      BY <3>2, <3>4 DEF n
  <2>3. \A y \in Range(popped) \cup Range(RC) \cup Range(wire) : y < pushed + 1
    BY <1>01 DEF Ordered
  <2>4. UNCHANGED <<RC, wire, popped>> /\ pushed' = pushed + 1
    BY <1>1 DEF Accepts
  <2>5. 1..pushed \subseteq 1..(pushed + 1) /\ pushed + 1 \in 1..(pushed + 1)
    BY <1>01
  <2> QED
    BY <2>2, <2>3, <2>4, <2>5 DEF Ordered, Before
<1>2. CASE Leaves
  <2>1. /\ Increasing(SC') /\ Range(SC) = Range(SC') \cup {Head(SC)}
        /\ Head(SC) \in Nat
        /\ \A y \in Range(SC') : Head(SC) < y
    BY <1>0, <1>2, RangeTail, TailIncreases DEF Leaves, Ordered
  <2>2. \A y \in Range(wire) : y < Head(SC)
    BY <2>1 DEF Ordered, Before
  <2>3. Increasing(wire') /\ Range(wire') = Range(wire) \cup {Head(SC)}
    BY <1>0, <1>2, <2>1, <2>2, RangeAppend, AppendIncreases DEF Leaves, Ordered
  <2>4. UNCHANGED <<RC, popped, pushed>>
    BY <1>2 DEF Leaves
  <2> QED
    BY <2>1, <2>3, <2>4 DEF Ordered, Before
<1>3. CASE SenderForgets
  <2>1. Increasing(SC') /\ Range(SC') = {} /\ UNCHANGED <<RC, wire, popped, pushed>>
    BY <1>3, <1>03 DEF SenderForgets, Nothing
  <2> QED
    BY <2>1 DEF Ordered, Before
<1>4. CASE IsLost
  <2>1. PICK i \in DOMAIN wire : wire' = Without(wire, i)
    BY <1>4 DEF IsLost
  <2>2. Increasing(wire') /\ Range(wire') \subseteq Range(wire)
    BY <1>0, <2>1, RangeWithout, WithoutIncreases DEF Ordered
  <2>3. UNCHANGED <<SC, RC, popped, pushed>>
    BY <1>4 DEF IsLost
  <2> QED
    BY <2>2, <2>3 DEF Ordered, Before
<1>5. CASE Arrives
  <2>1. /\ Increasing(wire') /\ Range(wire) = Range(wire') \cup {Head(wire)}
        /\ Head(wire) \in Nat
        /\ \A y \in Range(wire') : Head(wire) < y
    BY <1>0, <1>5, RangeTail, TailIncreases DEF Arrives, Ordered
  <2>2. \A y \in Range(RC) : y < Head(wire)
    BY <2>1 DEF Ordered, Before
  <2>3. Increasing(RC') /\ Range(RC') = Range(RC) \cup {Head(wire)}
    BY <1>0, <1>5, <2>1, <2>2, RangeAppend, AppendIncreases DEF Arrives, Ordered
  <2>4. UNCHANGED <<SC, popped, pushed>>
    BY <1>5 DEF Arrives
  <2> QED
    BY <2>1, <2>3, <2>4 DEF Ordered, Before
<1>6. CASE Overflows
  <2>1. /\ Increasing(wire') /\ Range(wire) = Range(wire') \cup {Head(wire)}
    BY <1>0, <1>6, RangeTail, TailIncreases DEF Overflows, Ordered
  <2>2. UNCHANGED <<SC, RC, popped, pushed>>
    BY <1>6 DEF Overflows
  <2> QED
    BY <2>1, <2>2 DEF Ordered, Before
<1>7. CASE IsPopped
  <2>1. /\ Increasing(RC') /\ Range(RC) = Range(RC') \cup {Head(RC)}
        /\ Head(RC) \in Nat
        /\ \A y \in Range(RC') : Head(RC) < y
    BY <1>0, <1>7, RangeTail, TailIncreases DEF IsPopped, Ordered
  <2>2. \A y \in Range(popped) : y < Head(RC)
    BY <2>1 DEF Ordered, Before
  <2>3. Increasing(popped') /\ Range(popped') = Range(popped) \cup {Head(RC)}
    BY <1>0, <1>7, <2>1, <2>2, RangeAppend, AppendIncreases DEF IsPopped, Ordered
  <2>4. UNCHANGED <<SC, wire, pushed>>
    BY <1>7 DEF IsPopped
  <2> QED
    BY <2>1, <2>3, <2>4 DEF Ordered, Before
<1>8. CASE ReceiverForgets
  <2>1. Increasing(RC') /\ Range(RC') = {} /\ UNCHANGED <<SC, wire, popped, pushed>>
    BY <1>8, <1>03 DEF ReceiverForgets, Nothing
  <2> QED
    BY <2>1 DEF Ordered, Before
<1>9. CASE Stay
  BY <1>9 DEF Stay, Ordered, Before, Increasing
<1> QED
  BY <1>1, <1>2, <1>3, <1>4, <1>5, <1>6, <1>7, <1>8, <1>9 DEF Flow

LEMMA ConcatIncreases ==
  ASSUME NEW s \in Seq(Nat), NEW t \in Seq(Nat),
         Increasing(s), Increasing(t), Before(s, t)
  PROVE  Increasing(s \o t) /\ Range(s \o t) = Range(s) \cup Range(t)
<1> DEFINE u == s \o t
           L == Len(s)
           K == Len(t)
<1>1. /\ u \in Seq(Nat) /\ Len(u) = L + K /\ L \in Nat /\ K \in Nat
      /\ \A i \in 1..(L + K) : u[i] = IF i <= L THEN s[i] ELSE t[i - L]
  BY ConcatProperties, LenProperties
<1>2. DOMAIN u = 1..(L + K) /\ DOMAIN s = 1..L /\ DOMAIN t = 1..K
  BY <1>1, LenProperties
<1> HIDE DEF u
<1>3. \A i \in 1..L : i \in 1..(L + K) /\ u[i] = s[i] /\ s[i] \in Range(s)
  BY <1>1, RangeFacts
<1>4. \A i \in 1..K : L + i \in 1..(L + K) /\ u[L + i] = t[i] /\ t[i] \in Range(t)
  <2> TAKE i \in 1..K
  <2>1. L + i \in 1..(L + K) /\ ~(L + i <= L) /\ (L + i) - L = i
    BY <1>1
  <2> QED
    BY <2>1, <1>1, RangeFacts
<1>5. \A i \in 1..(L + K) : i \in 1..L \/ (i - L \in 1..K /\ L + (i - L) = i)
  BY <1>1
<1>6. ASSUME NEW i \in 1..(L + K), NEW j \in 1..(L + K), i < j PROVE u[i] < u[j]
  <2>1. CASE j \in 1..L
    <3>1. i \in 1..L
      BY <1>1, <1>6, <2>1
    <3>2. s[i] < s[j]
      BY <3>1, <2>1, <1>2, <1>6 DEF Increasing
    <3> QED
      BY <3>1, <3>2, <2>1, <1>3
  <2>2. CASE i \in 1..L /\ j - L \in 1..K /\ L + (j - L) = j
    <3>1. u[i] = s[i] /\ s[i] \in Range(s)
      BY <2>2, <1>3
    <3>2. u[j] = t[j - L] /\ t[j - L] \in Range(t)
      BY <2>2, <1>4
    <3> QED
      BY <3>1, <3>2 DEF Before
  <2>3. CASE i - L \in 1..K /\ L + (i - L) = i /\ j - L \in 1..K /\ L + (j - L) = j
    <3>1. u[i] = t[i - L] /\ u[j] = t[j - L]
      BY <2>3, <1>4
    <3>2. i - L < j - L
      BY <1>1, <1>6
    <3>3. t[i - L] < t[j - L]
      BY <3>2, <2>3, <1>2 DEF Increasing
    <3> QED
      BY <3>1, <3>3
  <2> QED
    BY <2>1, <2>2, <2>3, <1>5
<1>7. Range(s) \subseteq Range(u)
  <2> SUFFICES ASSUME NEW x \in Range(s) PROVE x \in Range(u)
    OBVIOUS
  <2>1. PICK i \in 1..L : x = s[i]
    BY RangeFacts
  <2> QED
    BY <2>1, <1>1, <1>3, RangeFacts
<1>8. Range(t) \subseteq Range(u)
  <2> SUFFICES ASSUME NEW x \in Range(t) PROVE x \in Range(u)
    OBVIOUS
  <2>1. PICK i \in 1..K : x = t[i]
    BY RangeFacts
  <2> QED
    BY <2>1, <1>1, <1>4, RangeFacts
<1>9. Range(u) \subseteq Range(s) \cup Range(t)
  <2> SUFFICES ASSUME NEW x \in Range(u) PROVE x \in Range(s) \cup Range(t)
    OBVIOUS
  <2>1. PICK i \in 1..(L + K) : x = u[i]
    BY <1>1, RangeFacts
  <2>2. CASE i \in 1..L
    BY <2>1, <2>2, <1>3
  <2>3. CASE i - L \in 1..K /\ L + (i - L) = i
    BY <2>1, <2>3, <1>4
  <2> QED
    BY <2>2, <2>3, <1>5
<1>10. Increasing(u)
  BY <1>2, <1>6 DEF Increasing
<1> QED
  BY <1>7, <1>8, <1>9, <1>10 DEF u

LEMMA OrderedMeansInOrder == TypeOK /\ Ordered => InPushOrder
<1> SUFFICES ASSUME TypeOK, Ordered PROVE InPushOrder
  OBVIOUS
<1>0. /\ SC \in Seq(Nat) /\ RC \in Seq(Nat)
      /\ wire \in Seq(Nat) /\ popped \in Seq(Nat)
  <2>1. SC \in Seq(Payloads) /\ RC \in Seq(Payloads)
    BY SenderContents, ReceiverContents DEF TypeOK, SC, RC
  <2>2. wire \in Seq(Payloads) /\ popped \in Seq(Payloads)
    BY DEF TypeOK
  <2> QED
    BY <2>1, <2>2, PayloadsAreNumbers
<1> DEFINE a == popped \o RC
           b == a \o wire
           c == b \o SC
<1>1. a \in Seq(Nat) /\ Increasing(a) /\ Range(a) = Range(popped) \cup Range(RC)
  <2>1. a \in Seq(Nat)
    BY <1>0, ConcatProperties
  <2> QED
    BY <2>1, <1>0, ConcatIncreases DEF Ordered
<1> HIDE DEF a
<1>2. b \in Seq(Nat) /\ Increasing(b) /\ Range(b) = Range(a) \cup Range(wire)
  <2>1. b \in Seq(Nat)
    BY <1>0, <1>1, ConcatProperties
  <2>2. Before(a, wire)
    BY <1>1 DEF Ordered, Before
  <2> QED
    BY <2>1, <2>2, <1>0, <1>1, ConcatIncreases DEF Ordered
<1> HIDE DEF b
<1>3. Increasing(c)
  <2>1. Before(b, SC)
    BY <1>1, <1>2 DEF Ordered, Before
  <2> QED
    BY <2>1, <1>0, <1>2, ConcatIncreases DEF Ordered
<1> QED
  BY <1>3 DEF InPushOrder, Increasing, a, b, c, RC, SC

(* Messages are delivered in the order of their push, once, and never from *)
(* a slot that was not written for them, for every depth of the two ports  *)
(* and whatever is lost, reset or refused on the way.                      *)
THEOREM PushOrderIsKept == EmptyPayloads = {} /\ Spec => []InPushOrder
<1> SUFFICES ASSUME EmptyPayloads = {} PROVE Spec => []InPushOrder
  OBVIOUS
<1>1. Init => Ordered
  BY InitEmpty, RangeEmpty DEF Ordered, Increasing, Before
<1>2. TypeOK /\ Ordered /\ [Next]_vars => Ordered'
  BY EveryStepFlows, FlowKeepsOrder
<1> QED
  BY <1>1, <1>2, OrderedMeansInOrder, TypeCorrect, PTL DEF Spec

-----------------------------------------------------------------------------
(* The two rings as bounded first-in first-out queues. *)
LEMMA SenderStep ==
  ASSUME TypeOK, Flow
  PROVE  [Sender!OutputFifo!Next]_(Sender!Contents)
<1> USE DEF SC
<1>1. CASE Accepts
  <2>1. Sender!OutputFifo!Put(pushed + 1)
    BY <1>1 DEF Accepts, Sender!OutputFifo!Put
  <2> QED
    BY <1>1, <2>1 DEF Accepts, Sender!OutputFifo!Next
<1>2. CASE Leaves
  BY <1>2 DEF Leaves, Sender!OutputFifo!Take, Sender!OutputFifo!Next
<1>3. CASE SenderForgets
  BY <1>3 DEF SenderForgets, Sender!OutputFifo!Clear, Sender!OutputFifo!Next
<1>4. CASE IsLost \/ Arrives \/ Overflows \/ IsPopped \/ ReceiverForgets \/ Stay
  BY <1>4 DEF IsLost, Arrives, Overflows, IsPopped, ReceiverForgets, Stay
<1> QED
  BY <1>1, <1>2, <1>3, <1>4 DEF Flow

LEMMA ReceiverStep ==
  ASSUME TypeOK, Flow
  PROVE  [Receiver!InputFifo!Next]_(Receiver!Contents)
<1> USE DEF RC
<1>1. CASE Arrives
  <2>1. Head(wire) \in Payloads
    BY <1>1, HeadTailProperties DEF Arrives, TypeOK
  <2>2. Receiver!InputFifo!Put(Head(wire))
    BY <1>1 DEF Arrives, Receiver!InputFifo!Put
  <2> QED
    BY <2>1, <2>2 DEF Receiver!InputFifo!Next
<1>2. CASE IsPopped
  BY <1>2 DEF IsPopped, Receiver!InputFifo!Take, Receiver!InputFifo!Next
<1>3. CASE ReceiverForgets
  BY <1>3 DEF ReceiverForgets, Receiver!InputFifo!Clear, Receiver!InputFifo!Next
<1>4. CASE Accepts \/ Leaves \/ SenderForgets \/ IsLost \/ Overflows \/ Stay
  BY <1>4 DEF Accepts, Leaves, SenderForgets, IsLost, Overflows, Stay
<1> QED
  BY <1>1, <1>2, <1>3, <1>4 DEF Flow

(* The sender's ring implements a first-in first-out queue of the declared *)
(* depth and the receiver's one of four times the declared depth, for      *)
(* every depth, wherever the rings wrap and whatever happens around them.  *)
THEOREM RingsImplementFifos == EmptyPayloads = {} /\ Spec => RingsAreFifos
<1> SUFFICES ASSUME EmptyPayloads = {} PROVE Spec => RingsAreFifos
  OBVIOUS
<1>1. Init => Sender!OutputFifo!Init /\ Receiver!InputFifo!Init
  BY InitEmpty DEF Sender!OutputFifo!Init, Receiver!InputFifo!Init, SC, RC
<1>2. TypeOK /\ [Next]_vars => /\ [Sender!OutputFifo!Next]_(Sender!Contents)
                               /\ [Receiver!InputFifo!Next]_(Receiver!Contents)
  BY EveryStepFlows, SenderStep, ReceiverStep
<1> QED
  BY <1>1, <1>2, TypeCorrect, PTL
  DEF Spec, RingsAreFifos, Sender!OutputIsFifo, Receiver!InputIsFifo,
      Sender!OutputFifo!Spec, Receiver!InputFifo!Spec

-----------------------------------------------------------------------------
(* What the receiver has to read, and what the emission under way adds to  *)
(* it, is what so many emissions can carry.                                *)
ToCome == IF sending THEN sNbMessages ELSE 0
Lag == rNbMessages + Len(wire) + ToCome <= ahead * MessageQueueDepth

LEMMA StepKeepsLag ==
  ASSUME TypeOK, Lag, [Next]_vars
  PROVE  Lag'
<1> DEFINE D == MessageQueueDepth
           w == Len(wire)
<1>0. /\ sNbMessages \in Nat /\ rNbMessages \in Nat /\ w \in Nat /\ D \in Nat
      /\ ahead \in Nat /\ sNbMessages <= D
      /\ Sender!TypeOK /\ Receiver!TypeOK /\ wire \in Seq(Payloads)
  BY Depths, LenProperties DEF TypeOK, Sender!TypeOK, Receiver!TypeOK
<1>1. TypeOK'
  BY EveryStepFlows
<1>2. /\ sNbMessages' \in Nat /\ rNbMessages' \in Nat /\ Len(wire') \in Nat
  BY <1>1, Depths, LenProperties DEF TypeOK, Sender!TypeOK, Receiver!TypeOK
<1>3. ahead * D \in Nat
  BY <1>0
<1>a. CASE Push
  <2>1. ToCome' = 0 /\ ToCome = 0 /\ UNCHANGED <<wire, rNbMessages, ahead>>
    BY <1>a DEF Push, ToCome, receiverVars
  <2> QED
    BY <2>1 DEF Lag
<1>b. CASE BeginSendAll
  <2>1. /\ ToCome' = sNbMessages /\ ToCome = 0
        /\ UNCHANGED <<wire, rNbMessages, sNbMessages>>
        /\ ahead' = IF CaughtUp THEN 1 ELSE ahead + 1
    BY <1>b DEF BeginSendAll, ToCome, receiverVars, senderVars
  <2>2. CASE CaughtUp
    <3>1. w = 0 /\ rNbMessages = 0
      BY <2>2 DEF CaughtUp
    <3>2. 1 * D = D
      BY <1>0
    <3>3. rNbMessages + w + sNbMessages <= 1 * D
      BY <3>1, <3>2, <1>0
    <3> QED
      BY <3>3, <2>1, <2>2 DEF Lag
  <2>3. CASE ~CaughtUp
    <3>1. (ahead + 1) * D = ahead * D + D
      BY <1>0
    <3>2. rNbMessages + w <= ahead * D
      BY <2>1, <1>0, <1>3 DEF Lag
    <3>3. rNbMessages + w + sNbMessages <= (ahead + 1) * D
      BY <3>1, <3>2, <1>0, <1>3
    <3> QED
      BY <3>3, <2>1, <2>3 DEF Lag
  <2> QED
    BY <2>2, <2>3
<1>c. CASE SendOne
  <2>1. /\ ToCome' = sNbMessages - 1 /\ ToCome = sNbMessages
        /\ UNCHANGED <<rNbMessages, ahead>>
        /\ wire' = Append(wire, Head(Sender!Contents))
    BY <1>c DEF SendOne, Sender!SendOne, ToCome, receiverVars, queueVars
  <2>2. Len(wire') = w + 1
    <3>1. Sender!Contents \in Seq(Payloads) /\ Sender!Contents # <<>>
      BY <1>0, <1>c, SenderContents, SenderLeaves DEF SendOne
    <3>2. Head(Sender!Contents) \in Payloads
      BY <3>1, HeadTailProperties
    <3> QED
      BY <3>2, <2>1, <1>0, AppendProperties
  <2> QED
    BY <2>1, <2>2, <1>0, <1>3 DEF Lag
<1>d. CASE SendThrows \/ EndSendAll \/ EmptySendAll
  <2>1. ToCome' = 0 \/ ToCome' = ToCome
    BY <1>d DEF SendThrows, EndSendAll, EmptySendAll, ToCome, senderVars
  <2>2. ToCome \in Nat
    BY <1>0 DEF ToCome
  <2>3. UNCHANGED <<wire, rNbMessages, ahead>>
    BY <1>d DEF SendThrows, EndSendAll, EmptySendAll, receiverVars
  <2> QED
    BY <2>1, <2>2, <2>3, <1>0, <1>3 DEF Lag
<1>e. CASE ResetOutput
  <2>1. ToCome' = 0 /\ ToCome = 0 /\ UNCHANGED <<wire, rNbMessages, ahead>>
    BY <1>e DEF ResetOutput, ToCome, receiverVars, queueVars
  <2> QED
    BY <2>1 DEF Lag
<1>f. CASE Lose \/ Import \/ Pop \/ ResetInput
  <2>1. ToCome' = ToCome /\ ahead' = ahead
    BY <1>f DEF Lose, Import, Pop, ResetInput, ToCome, senderVars, queueVars
  <2>2. rNbMessages' + Len(wire') <= rNbMessages + w
    <3>1. CASE Lose
      <4>1. PICK i \in DOMAIN wire : wire' = Without(wire, i)
        BY <3>1 DEF Lose
      <4>2. Len(wire') = w - 1
        BY <4>1, <1>0, WithoutType
      <4>3. rNbMessages' = rNbMessages
        BY <3>1 DEF Lose, receiverVars
      <4> QED
        BY <4>2, <4>3, <1>0
    <3>2. CASE Import
      <4>1. Len(wire') = w - 1
        BY <3>2, <1>0, HeadTailProperties DEF Import
      <4>2. rNbMessages' = rNbMessages \/ rNbMessages' = rNbMessages + 1
        BY <3>2 DEF Import, Receiver!Receive, Receiver!vars
      <4> QED
        BY <4>1, <4>2, <1>0
    <3>3. CASE Pop
      <4>1. wire' = wire /\ rNbMessages' = rNbMessages - 1
        BY <3>3 DEF Pop, Receiver!Pop
      <4> QED
        BY <4>1, <1>0
    <3>4. CASE ResetInput
      <4>1. wire' = wire /\ rNbMessages' = 0
        BY <3>4 DEF ResetInput, Receiver!Reset
      <4> QED
        BY <4>1, <1>0
    <3> QED
      BY <3>1, <3>2, <3>3, <3>4, <1>f
  <2>3. ToCome \in Nat
    BY <1>0 DEF ToCome
  <2> QED
    BY <2>1, <2>2, <2>3, <1>0, <1>2, <1>3 DEF Lag
<1>g. CASE UNCHANGED vars
  BY <1>g DEF vars, senderVars, receiverVars, queueVars, Lag, ToCome
<1> QED
  BY <1>a, <1>b, <1>c, <1>d, <1>e, <1>f, <1>g DEF Next

LEMMA OverflowNeedsLag ==
  ASSUME TypeOK, Lag, [Next]_vars, overflowed' # overflowed
  PROVE  ahead * MessageQueueDepth > 4 * ReceiverDepth
<1>1. Import
  BY Zenon DEF Next, vars, Push, BeginSendAll, EmptySendAll, SendOne, SendThrows,
     EndSendAll, ResetOutput, Lose, Pop, ResetInput
<1>2. Receiver!RingFull /\ wire # <<>>
  BY <1>1 DEF Import
<1>3. /\ rNbMessages \in Nat /\ Len(wire) \in Nat /\ ToCome \in Nat
      /\ MessageQueueDepth \in Nat /\ ahead \in Nat
  BY Depths, LenProperties DEF TypeOK, Sender!TypeOK, Receiver!TypeOK, ToCome
<1>4. rNbMessages >= 4 * ReceiverDepth
  BY <1>2, Depths DEF Receiver!RingFull
<1>5. Len(wire) > 0
  BY <1>2, <1>3, EmptySeq DEF TypeOK
<1>6. ahead * MessageQueueDepth \in Nat
  BY <1>3
<1>7. ReceiverDepth \in Nat
  BY AfdxChannelAssumption
<1> QED
  BY <1>3, <1>4, <1>5, <1>6, <1>7 DEF Lag

(* The input ring overflows only if the receiver has left more emissions   *)
(* unread than its four times the depth can hold, for any two depths.      *)
THEOREM FourCyclesAlwaysFit == Spec => FourCyclesFit
<1>1. Init => Lag
  <2> SUFFICES ASSUME Init PROVE Lag
    OBVIOUS
  <2>1. rNbMessages = 0 /\ Len(wire) = 0 /\ ToCome = 0 /\ ahead = 0
    BY DEF Init, ToCome
  <2>2. 0 * MessageQueueDepth = 0
    BY Depths
  <2> QED
    BY <2>1, <2>2 DEF Lag
<1>2. TypeOK /\ Lag /\ [Next]_vars => Lag'
  BY StepKeepsLag
<1>3. TypeOK /\ Lag /\ [Next]_vars
        => [overflowed' # overflowed => ahead * MessageQueueDepth > 4 * ReceiverDepth]_vars
  BY OverflowNeedsLag
<1> QED
  BY <1>1, <1>2, <1>3, TypeCorrect, PTL DEF Spec, FourCyclesFit
=============================================================================
