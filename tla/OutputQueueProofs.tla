------------------------- MODULE OutputQueueProofs -------------------------
(***************************************************************************)
(* Proofs about OutputQueue, for every finite set of ports and every set   *)
(* of faulty sockets.                                                      *)
(*                                                                         *)
(* The pointers are related to the list they represent by Represents(s);   *)
(* the inductive invariant says that such a list exists, that the tail     *)
(* pointer designates its end, that the pointers of the healthy ports tell *)
(* the truth and that the healthy ports with data are in it.               *)
(*                                                                         *)
(* A429 buses that a full datagram has left with data are outside of that  *)
(* last claim until they are written again.                                *)
(*                                                                         *)
(* The refinement of EmissionFifo shows how HealthyOf changes when the list *)
(* loses its head or gains an end, by induction on its length.             *)
(***************************************************************************)
EXTENDS OutputQueue, SequenceTheorems, FiniteSetTheorems, WellFoundedInduction, TLAPS

(* The list s is what the pointers represent, and the tail pointer, the    *)
(* links and the data of the healthy ports agree with it.                  *)
Represents(s) ==
  /\ IsInjective(s)
  /\ firstPort = IF s = <<>> THEN NULL ELSE s[1]
  /\ \A i \in 1..Len(s) :
       nextQueuedPort[s[i]] = IF i = Len(s) THEN NULL ELSE s[i+1]
  /\ s # <<>> => lastPort = s[Len(s)]
  /\ \A p \in Healthy : nextQueuedPort[p] # NULL => p \in Range(s)
  /\ ~sending /\ s = <<>> => lastPort \notin Healthy
  /\ \A p \in (pending \ left) \ Faulty : p \in Range(s)

IInv == TypeOK /\ \E s \in Seq(Ports) : Represents(s)

-----------------------------------------------------------------------------
(* A sequence of ports without repetition is one of the bounded lists that *)
(* the definitions of the component quantify over.                         *)
LEMMA InjectiveIsPortList ==
  ASSUME NEW s \in Seq(Ports), IsInjective(s)
  PROVE  s \in PortLists
<1> DEFINE n == Len(s)
<1>1. n \in Nat /\ s \in [1..n -> Ports] /\ DOMAIN s = 1..n
  BY LenProperties
<1>2. s \in Injection(1..n, Ports)
  BY <1>1 DEF Injection
<1>3. Cardinality(1..n) <= Cardinality(Ports)
  BY <1>2, FS_Injection, OutputQueueAssumption
<1>4. Cardinality(1..n) = n
  BY <1>1, FS_Interval, SMT
<1>5. Cardinality(Ports) \in Nat
  BY FS_CardinalityType, OutputQueueAssumption
<1>6. n \in 0..Cardinality(Ports)
  BY <1>1, <1>3, <1>4, <1>5
<1> QED BY <1>1, <1>6 DEF PortLists

(* The indices and the range of a sequence of ports. *)
LEMMA PortSeqFacts ==
  ASSUME NEW s \in Seq(Ports)
  PROVE  /\ Len(s) \in Nat
         /\ \A i \in 1..Len(s) : s[i] \in Ports
         /\ \A p \in Ports : p \in Range(s) <=> \E i \in 1..Len(s) : s[i] = p
         /\ IsInjective(s) <=> \A i, j \in 1..Len(s) : s[i] = s[j] => i = j
         /\ s = <<>> <=> Len(s) = 0
<1>1. Len(s) \in Nat /\ s \in [1..Len(s) -> Ports] /\ DOMAIN s = 1..Len(s)
  BY LenProperties
<1>2. \A p : p \in Range(s) <=> \E i \in 1..Len(s) : s[i] = p
  BY <1>1 DEF Range
<1>3. s = <<>> <=> Len(s) = 0
  BY EmptySeq, <1>1, SMT
<1>4. IsInjective(s) <=> \A i, j \in 1..Len(s) : s[i] = s[j] => i = j
  BY <1>1 DEF IsInjective
<1> QED BY <1>1, <1>2, <1>3, <1>4

-----------------------------------------------------------------------------
LEMMA InitRepresentsNothing ==
  ASSUME Init
  PROVE  TypeOK /\ <<>> \in Seq(Ports) /\ Represents(<<>>)
<1>1. TypeOK
  BY DEF Init, TypeOK, Pointer
<1>2. <<>> \in Seq(Ports) /\ Len(<<>>) = 0 /\ DOMAIN <<>> = {}
  BY EmptySeq, PortSeqFacts
<1>3. Represents(<<>>)
  BY <1>2, OutputQueueAssumption
  DEF Init, Represents, IsInjective, Healthy
<1> QED BY <1>1, <1>2, <1>3

(* push appends the port to the list, or leaves the list alone: a port     *)
(* whose pointers say that it is not queued is indeed not in the list, one *)
(* with a working socket whose pointers say that it is queued is.          *)
LEMMA WriteKeepsList ==
  ASSUME TypeOK, NEW p \in Ports, Write(p), NEW s \in Seq(Ports), Represents(s)
  PROVE  /\ TypeOK'
         /\ \E t \in Seq(Ports) :
              /\ t = IF SaysQueued(p) THEN s ELSE Append(s, p)
              /\ Represents(t)'
         /\ ~SaysQueued(p) => p \notin Range(s)
         /\ SaysQueued(p) /\ p \in Healthy => p \in Range(s)
<1>1. Represents(s)
  OBVIOUS
<1> USE OutputQueueAssumption
<1>2. TypeOK /\ ~sending /\ sending' = sending
  BY DEF Write
<1>3. TypeOK'
  BY <1>2 DEF TypeOK, Write, QueuePush, Pointer
<1>s. /\ Len(s) \in Nat
      /\ \A i \in 1..Len(s) : s[i] \in Ports
      /\ \A q \in Ports : q \in Range(s) <=> \E i \in 1..Len(s) : s[i] = q
      /\ IsInjective(s) <=> \A i, j \in 1..Len(s) : s[i] = s[j] => i = j
      /\ s = <<>> <=> Len(s) = 0
  BY PortSeqFacts
<1>4. CASE SaysQueued(p)
  <2>1. UNCHANGED <<firstPort, lastPort, nextQueuedPort, sending>>
        /\ pending' = pending \cup {p} /\ left' = left \ {p}
    BY <1>4 DEF Write, QueuePush
  <2>2. p \in Healthy => p \in Range(s)
    BY <1>1, <1>2, <1>4, <1>s DEF Represents, SaysQueued
  <2>3. Represents(s)'
    BY <1>1, <2>1, <2>2 DEF Represents, Healthy
  <2> QED BY <1>3, <1>4, <2>2, <2>3
<1>5. CASE ~SaysQueued(p)
  <2>1. ~InternalError
    BY <1>1, <1>s DEF Represents, InternalError
  <2> DEFINE t == Append(s, p)
  <2>2. /\ t \in Seq(Ports)
        /\ Len(t) = Len(s) + 1
        /\ \A i \in 1..Len(s) : t[i] = s[i]
        /\ t[Len(s) + 1] = p
    BY <1>s
  <2>t. /\ \A q \in Ports : q \in Range(t) <=> \E i \in 1..Len(t) : t[i] = q
        /\ IsInjective(t) <=> \A i, j \in 1..Len(t) : t[i] = t[j] => i = j
        /\ t = <<>> <=> Len(t) = 0
    BY <2>2, PortSeqFacts
  <2>3. p \notin Range(s)
    BY <1>1, <1>5, <1>s DEF Represents, SaysQueued
  <2>4. IsInjective(t)
    <3>1. \A i, j \in 1..Len(s) : s[i] = s[j] => i = j
      BY <1>1, <1>s DEF Represents
    <3>2. \A i \in 1..Len(s) : s[i] # p
      BY <1>s, <2>3
    <3> HIDE DEF t
    <3> QED
      BY <3>1, <3>2, <1>s, <2>2, <2>t
  <2>5. \A q \in Ports : q \in Range(t) <=> q \in Range(s) \/ q = p
    BY <2>2, <2>t, <1>s
  <2>6. /\ firstPort' = IF firstPort = NULL THEN p ELSE firstPort
        /\ nextQueuedPort' = IF firstPort = NULL
                             THEN nextQueuedPort
                             ELSE [nextQueuedPort EXCEPT ![lastPort] = p]
        /\ lastPort' = p
        /\ pending' = pending \cup {p}
        /\ left' = left \ {p}
    BY <1>5, <2>1 DEF Write, QueuePush
  <2>7. firstPort = NULL <=> s = <<>>
    BY <1>1, <1>s DEF Represents
  <2>8. nextQueuedPort[p] = NULL
    BY <1>5 DEF SaysQueued
  <2>9. \A i \in 1..Len(t) :
          nextQueuedPort'[t[i]] = IF i = Len(t) THEN NULL ELSE t[i+1]
    <3> SUFFICES ASSUME NEW i \in 1..Len(t)
                 PROVE  nextQueuedPort'[t[i]]
                          = IF i = Len(t) THEN NULL ELSE t[i+1]
      OBVIOUS
    <3>1. CASE s = <<>>
      BY <3>1, <2>2, <2>6, <2>7, <2>8, <1>s
    <3>2. CASE s # <<>> /\ i = Len(t)
      BY <3>2, <1>1, <1>2, <1>s, <2>2, <2>3, <2>6, <2>7, <2>8
      DEF Represents, TypeOK
    <3>3. CASE s # <<>> /\ i = Len(s)
      BY <3>3, <1>1, <1>2, <1>s, <2>2, <2>6, <2>7 DEF Represents, TypeOK
    <3>4. CASE s # <<>> /\ i # Len(t) /\ i # Len(s)
      <4>1. i \in 1..Len(s) /\ i + 1 \in 1..Len(s)
        BY <3>4, <1>s, <2>2
      <4>2. s[i] # lastPort
        BY <1>1, <3>4, <4>1, <1>s DEF Represents, IsInjective
      <4> QED BY <1>1, <1>2, <3>4, <4>1, <4>2, <1>s, <2>2, <2>6, <2>7
              DEF Represents, TypeOK
    <3> QED BY <3>1, <3>2, <3>3, <3>4
  <2>10. firstPort' = IF t = <<>> THEN NULL ELSE t[1]
    BY <1>1, <1>s, <2>2, <2>6, <2>7 DEF Represents
  <2>11. \A q \in Healthy : nextQueuedPort'[q] # NULL => q \in Range(t)
    <3> SUFFICES ASSUME NEW q \in Healthy, nextQueuedPort'[q] # NULL
                 PROVE  q \in Range(t)
      OBVIOUS
    <3>1. CASE nextQueuedPort[q] # NULL
      BY <1>1, <3>1, <2>5 DEF Represents, Healthy
    <3>2. CASE nextQueuedPort[q] = NULL
      BY <1>1, <1>2, <1>s, <3>2, <2>5, <2>6, <2>7
      DEF Represents, TypeOK, Healthy
    <3> QED BY <3>1, <3>2
  <2>12. \A q \in (pending' \ left') \ Faulty : q \in Range(t)
    BY <1>1, <1>2, <2>5, <2>6 DEF Represents, TypeOK
  <2>13. t # <<>> /\ lastPort' = t[Len(t)]
    BY <2>2, <2>6, <1>s
  <2>14. Represents(t)'
    BY <2>4, <2>9, <2>10, <2>11, <2>12, <2>13 DEF Represents
  <2> QED BY <1>3, <1>5, <2>2, <2>3, <2>14
<1> QED BY <1>4, <1>5

(* One turn of the loop, with or without a throw, leaves the tail of the   *)
(* list; only the healthy case clears the link of the port that left.      *)
LEMMA TurnKeepsList ==
  ASSUME TypeOK, SendPort \/ SendPortThrows, NEW s \in Seq(Ports), Represents(s)
  PROVE  /\ TypeOK'
         /\ s # <<>> /\ Head(s) = firstPort
         /\ \E t \in Seq(Ports) : t = Tail(s) /\ Represents(t)'
<1>1. Represents(s)
  OBVIOUS
<1> USE OutputQueueAssumption
<1>2. TypeOK /\ sending
  BY DEF SendPort, SendPortThrows
<1>s. /\ Len(s) \in Nat
      /\ \A i \in 1..Len(s) : s[i] \in Ports
      /\ \A q \in Ports : q \in Range(s) <=> \E i \in 1..Len(s) : s[i] = q
      /\ IsInjective(s) <=> \A i, j \in 1..Len(s) : s[i] = s[j] => i = j
      /\ s = <<>> <=> Len(s) = 0
  BY PortSeqFacts
<1>3. firstPort \in Ports
  BY <1>2 DEF SendPort, SendPortThrows, TypeOK, Pointer
<1>4. s # <<>> /\ s[1] = firstPort
  BY <1>1, <1>3 DEF Represents
<1> DEFINE t == Tail(s)
<1>5. /\ t \in Seq(Ports)
      /\ Len(t) = Len(s) - 1
      /\ \A i \in 1..Len(t) : t[i] = s[i+1]
  BY <1>4, HeadTailProperties
<1>t. /\ \A q \in Ports : q \in Range(t) <=> \E i \in 1..Len(t) : t[i] = q
      /\ IsInjective(t) <=> \A i, j \in 1..Len(t) : t[i] = t[j] => i = j
      /\ t = <<>> <=> Len(t) = 0
  BY <1>5, PortSeqFacts
<1> HIDE DEF t
<1>6. \A q \in Ports : q \in Range(t) <=> q \in Range(s) /\ q # firstPort
  <2> SUFFICES ASSUME NEW q \in Ports
               PROVE  q \in Range(t) <=> q \in Range(s) /\ q # firstPort
    OBVIOUS
  <2>1. ASSUME q \in Range(t) PROVE q \in Range(s) /\ q # firstPort
    <3>1. PICK i \in 1..Len(t) : t[i] = q
      BY <2>1, <1>t
    <3>2. i + 1 \in 1..Len(s) /\ s[i+1] = q /\ i + 1 # 1 /\ 1 \in 1..Len(s)
      BY <3>1, <1>5, <1>s
    <3> QED BY <3>2, <1>1, <1>4, <1>s DEF Represents
  <2>2. ASSUME q \in Range(s), q # firstPort PROVE q \in Range(t)
    <3>1. PICK i \in 1..Len(s) : s[i] = q
      BY <2>2, <1>s
    <3>2. i - 1 \in 1..Len(t) /\ t[i-1] = q
      BY <3>1, <2>2, <1>4, <1>5, <1>s
    <3> QED BY <3>2, <1>t
  <2> QED BY <2>1, <2>2
<1>7. IsInjective(t)
  <2>1. ASSUME NEW i \in 1..Len(t), NEW j \in 1..Len(t), t[i] = t[j]
        PROVE  i = j
    <3>1. /\ i + 1 \in 1..Len(s) /\ j + 1 \in 1..Len(s)
          /\ s[i+1] = s[j+1]
      BY <2>1, <1>5, <1>s
    <3>2. i + 1 = j + 1
      BY <3>1, <1>1, <1>s DEF Represents
    <3> QED BY <3>2
  <2> QED BY <2>1, <1>t
<1>8. firstPort' = IF t = <<>> THEN NULL ELSE t[1]
  <2>1. firstPort' = nextQueuedPort[s[1]] /\ 1 \in 1..Len(s)
    BY <1>4, <1>s DEF SendPort, SendPortThrows
  <2>2. firstPort' = IF 1 = Len(s) THEN NULL ELSE s[1+1]
    BY <2>1, <1>1 DEF Represents
  <2> QED BY <2>2, <1>t, <1>5, <1>s
<1>9. nextQueuedPort' \in
        {nextQueuedPort, [nextQueuedPort EXCEPT ![firstPort] = NULL]}
  BY DEF SendPort, SendPortThrows
<1>10. \A q \in Ports : q # firstPort => nextQueuedPort'[q] = nextQueuedPort[q]
  BY <1>9, <1>2 DEF TypeOK
<1>11. \A i \in 1..Len(t) :
         nextQueuedPort'[t[i]] = IF i = Len(t) THEN NULL ELSE t[i+1]
  <2> SUFFICES ASSUME NEW i \in 1..Len(t)
               PROVE  nextQueuedPort'[t[i]]
                        = IF i = Len(t) THEN NULL ELSE t[i+1]
    OBVIOUS
  <2>1. i + 1 \in 1..Len(s) /\ t[i] = s[i+1]
    BY <1>5, <1>s
  <2>2. t[i] \in Ports /\ t[i] \in Range(t)
    BY <2>1, <1>s, <1>t
  <2>3. nextQueuedPort'[t[i]] = nextQueuedPort[s[i+1]]
    BY <2>1, <2>2, <1>6, <1>10
  <2>4. nextQueuedPort[s[i+1]] = IF i + 1 = Len(s) THEN NULL ELSE s[i+1+1]
    BY <2>1, <1>1 DEF Represents
  <2>5. CASE i = Len(t)
    BY <2>3, <2>4, <2>5, <1>5, <1>s
  <2>6. CASE i # Len(t)
    <3>1. i + 1 # Len(s) /\ i + 1 \in 1..Len(t) /\ t[i+1] = s[i+1+1]
      BY <2>6, <1>5, <1>s
    <3> QED BY <2>3, <2>4, <2>6, <3>1
  <2> QED BY <2>5, <2>6
<1>12. t # <<>> => lastPort' = t[Len(t)]
  BY <1>1, <1>4, <1>5, <1>s, <1>t
  DEF Represents, SendPort, SendPortThrows
<1>13. firstPort \notin Faulty => SendPort
  BY DEF SendPortThrows
<1>14. \A q \in Healthy : nextQueuedPort'[q] # NULL => q \in Range(t)
  <2> SUFFICES ASSUME NEW q \in Healthy, nextQueuedPort'[q] # NULL
               PROVE  q \in Range(t)
    OBVIOUS
  <2>1. q \in Ports /\ q \notin Faulty
    BY DEF Healthy
  <2>2. q # firstPort
    BY <2>1, <1>2, <1>13 DEF SendPort, TypeOK
  <2> QED BY <2>1, <2>2, <1>1, <1>6, <1>10 DEF Represents
<1>15. ~sending' /\ t = <<>> => lastPort' \notin Healthy
  <2> SUFFICES ASSUME ~sending', t = <<>> PROVE lastPort' \notin Healthy
    OBVIOUS
  <2>1. firstPort \in Faulty /\ lastPort' = lastPort
    BY <1>2 DEF SendPort, SendPortThrows
  <2>2. Len(s) = 1
    BY <1>5, <1>s, <1>t
  <2>3. lastPort = s[1]
    BY <2>2, <1>1, <1>4 DEF Represents
  <2> QED BY <2>1, <2>3, <1>4 DEF Healthy
<1>16. \A q \in (pending' \ left') \ Faulty : q \in Range(t)
  <2> SUFFICES ASSUME NEW q \in (pending' \ left') \ Faulty PROVE q \in Range(t)
    OBVIOUS
  <2>1. q \in pending \ Faulty /\ q \in Ports /\ (q # firstPort => q \notin left)
    BY <1>2 DEF SendPort, SendPortThrows, TypeOK, MayLeave
  <2>2. q # firstPort
    BY <2>1, <1>13 DEF SendPort, MayLeave
  <2> QED BY <2>1, <2>2, <1>1, <1>6 DEF Represents
<1>17. TypeOK'
  <2>1. /\ firstPort' \in Pointer
        /\ nextQueuedPort' \in [Ports -> Pointer]
    BY <1>2, <1>3, <1>9
    DEF TypeOK, Pointer, SendPort, SendPortThrows
  <2>2. pending' \subseteq Ports /\ left' \subseteq pending' \cap Limited
    BY <1>2 DEF TypeOK, SendPort, SendPortThrows, MayLeave
  <2> QED BY <2>1, <2>2, <1>2 DEF TypeOK, SendPort, SendPortThrows
<1>18. Represents(t)'
  BY <1>7, <1>8, <1>11, <1>12, <1>14, <1>15, <1>16 DEF Represents
<1>19. Head(s) = s[1]
  BY <1>4
<1> QED
  BY <1>4, <1>5, <1>17, <1>18, <1>19 DEF t

(* The steps that leave the links alone. *)
LEMMA OtherStepsKeepList ==
  ASSUME TypeOK, NEW s \in Seq(Ports), Represents(s),
         \/ \E p \in Ports : Reset(p)
         \/ BeginSendAll
         \/ EndSendAll
         \/ UNCHANGED vars
  PROVE  TypeOK' /\ Represents(s)'
<1>1. Represents(s)
  OBVIOUS
<1>2. TypeOK'
  BY DEF TypeOK, Reset, BeginSendAll, EndSendAll, vars, Pointer
<1>3. CASE \E p \in Ports : Reset(p)
  <2>1. Represents(s)'
    BY <1>1, <1>3 DEF Represents, Reset
  <2> QED BY <1>2, <2>1
<1>4. CASE BeginSendAll
  <2>1. Represents(s)'
    BY <1>1, <1>4 DEF Represents, BeginSendAll
  <2> QED BY <1>2, <2>1
<1>5. CASE EndSendAll
  <2>1. s = <<>>
    <3>1. s # <<>> => s[1] \in Ports
      BY PortSeqFacts
    <3> QED BY <1>1, <1>5, <3>1, OutputQueueAssumption
            DEF Represents, EndSendAll
  <2>2. NULL \notin Healthy
    BY OutputQueueAssumption DEF Healthy
  <2>3. Represents(s)'
    BY <1>1, <1>5, <2>1, <2>2 DEF Represents, EndSendAll
  <2> QED BY <1>2, <2>3
<1>6. CASE UNCHANGED vars
  <2>1. Represents(s)'
    BY <1>1, <1>6 DEF Represents, vars
  <2> QED BY <1>2, <2>1
<1> QED BY <1>3, <1>4, <1>5, <1>6

(* The invariant is inductive. *)
LEMMA InductiveInvariant == Spec => []IInv
<1>1. Init => IInv
  BY InitRepresentsNothing DEF IInv
<1>2. IInv /\ [Next]_vars => IInv'
  <2> SUFFICES ASSUME TypeOK, NEW s \in Seq(Ports), Represents(s), [Next]_vars
               PROVE  IInv'
    BY DEF IInv
  <2>1. CASE \E p \in Ports : Write(p)
    BY <2>1, WriteKeepsList DEF IInv
  <2>2. CASE SendPort \/ SendPortThrows
    BY <2>2, TurnKeepsList DEF IInv
  <2>3. CASE (\E p \in Ports : Reset(p)) \/ BeginSendAll \/ EndSendAll \/ UNCHANGED vars
    BY <2>3, OtherStepsKeepList DEF IInv
  <2> QED
    BY <2>1, <2>2, <2>3 DEF Next
<1> QED BY <1>1, <1>2, PTL DEF Spec

-----------------------------------------------------------------------------
(* What the representation says of the component's own predicates.         *)
LEMMA RepresentsIsList ==
  ASSUME NEW s \in Seq(Ports), Represents(s)
  PROVE  s \in PortLists /\ IsList(s)
<1>1. s \in PortLists
  BY InjectiveIsPortList DEF Represents
<1>2. DOMAIN s = 1..Len(s)
  BY LenProperties
<1> QED BY <1>1, <1>2 DEF Represents, IsList

(* The pointers always hold values of their types. *)
THEOREM TypeCorrect == Spec => []TypeOK
<1>1. IInv => TypeOK
  BY DEF IInv
<1> QED BY <1>1, InductiveInvariant, PTL

(* For every set of faulty sockets and every schedule of failures, the     *)
(* links form one acyclic list that ends at the tail pointer: the          *)
(* "internal error" of push cannot be raised.                              *)
THEOREM ListAlwaysWellFormed == Spec => []ListWellFormed
<1>1. IInv => ListWellFormed
  BY RepresentsIsList DEF IInv, ListWellFormed, Represents
<1> QED BY <1>1, InductiveInvariant, PTL

(* A failing socket never costs another port its place in the queue: every *)
(* port whose socket works and that has data to emit is in the list, or is *)
(* an A429 bus whose send() has returned with a full datagram and that was *)
(* not written since.  This holds whichever emissions of a bus leave data, *)
(* and however much.                                                       *)
THEOREM HealthyPortsStayQueued == Spec => []HealthyPendingIsQueued
<1>1. IInv => HealthyPendingIsQueued
  BY RepresentsIsList DEF IInv, TypeOK, HealthyPendingIsQueued, Represents, Queued
<1> QED BY <1>1, InductiveInvariant, PTL

(* The early return of push is right for every port whose socket works.    *)
THEOREM HealthyPushIsNeverDropped == Spec => []HealthyPushIsNotDropped
<1>1. ASSUME IInv, ~sending, NEW p \in Healthy, SaysQueued(p)
      PROVE  Queued(p)
  <2>1. PICK s \in Seq(Ports) : Represents(s)
    BY <1>1 DEF IInv
  <2>2. p \in Range(s)
    <3>1. CASE nextQueuedPort[p] # NULL
      BY <2>1, <3>1 DEF Represents
    <3>2. CASE lastPort = p
      <4>1. s # <<>>
        BY <2>1, <3>2, <1>1 DEF Represents
      <4>2. Len(s) \in 1..Len(s) /\ s[Len(s)] = p
        BY <4>1, <2>1, <3>2, PortSeqFacts DEF Represents
      <4> QED BY <4>2, PortSeqFacts DEF Healthy
    <3> QED BY <1>1, <3>1, <3>2 DEF SaysQueued
  <2> QED BY <2>1, <2>2, RepresentsIsList DEF Queued
<1>2. IInv => HealthyPushIsNotDropped
  BY <1>1 DEF HealthyPushIsNotDropped
<1> QED BY <1>2, InductiveInvariant, PTL

-----------------------------------------------------------------------------
(* A set that holds zero, and with every number the next one, up to n.     *)
LEMMA UpToInduction ==
  ASSUME NEW n \in Nat, NEW S, 0 \in S, \A i \in 1..n : i - 1 \in S => i \in S
  PROVE  \A i \in 0..n : i \in S
<1> DEFINE T == {i \in 0..n : i \notin S}
<1> SUFFICES ASSUME T # {} PROVE FALSE
  OBVIOUS
<1>1. T \subseteq Nat
  OBVIOUS
<1>2. PICK i \in T : \A j \in T : ~(<<j, i>> \in OpToRel(<, Nat))
  BY <1>1, NatLessThanWellFounded, WFMin
<1>3. \A j \in T : ~(j < i)
  BY <1>1, <1>2 DEF OpToRel
<1>4. i \in 1..n /\ i - 1 \in 0..n /\ i - 1 < i
  OBVIOUS
<1>5. i - 1 \in S
  BY <1>3, <1>4
<1> QED
  BY <1>4, <1>5

(* The recursive function of HealthyOf: what is left of the fronts of s.   *)
Fronts(f, s, n) ==
  /\ f \in [0..n -> Seq(Healthy)]
  /\ f[0] = <<>>
  /\ \A k \in 1..n : f[k] = IF s[k] \in Healthy THEN Append(f[k - 1], s[k]) ELSE f[k - 1]

LEMMA FrontsExist ==
  ASSUME NEW s, NEW n \in Nat
  PROVE  \E f : Fronts(f, s, n)
<1> DEFINE T == {k \in 0..n : \E f : Fronts(f, s, k)}
<1>1. 0 \in T
  <2> DEFINE g == [i \in 0..0 |-> <<>>]
  <2>1. Fronts(g, s, 0)
    BY EmptySeq DEF Fronts
  <2> HIDE DEF g
  <2> QED
    BY <2>1
<1>2. ASSUME NEW k \in 1..n, k - 1 \in T
      PROVE  k \in T
  <2>1. PICK f : Fronts(f, s, k - 1)
    BY <1>2
  <2> DEFINE next == IF s[k] \in Healthy THEN Append(f[k - 1], s[k]) ELSE f[k - 1]
             g == [i \in 0..k |-> IF i = k THEN next ELSE f[i]]
  <2>2. next \in Seq(Healthy)
    <3>1. f[k - 1] \in Seq(Healthy)
      BY <2>1 DEF Fronts
    <3> QED
      BY <3>1, AppendProperties
  <2>3. \A i \in 0..k : i # k => i \in 0..(k - 1)
    OBVIOUS
  <2>4. \A i \in 0..k : g[i] \in Seq(Healthy)
    BY <2>1, <2>2, <2>3 DEF Fronts
  <2>5. g[0] = <<>>
    BY <2>1 DEF Fronts
  <2>6. ASSUME NEW i \in 1..k
        PROVE  g[i] = IF s[i] \in Healthy THEN Append(g[i - 1], s[i]) ELSE g[i - 1]
    <3>1. CASE i = k
      <4>1. k \in 0..k /\ k - 1 \in 0..k /\ k - 1 # k
        OBVIOUS
      <4>2. g[k] = next /\ g[k - 1] = f[k - 1]
        BY <4>1
      <4> QED
        BY <3>1, <4>2
    <3>2. CASE i # k
      <4>1. i \in 1..(k - 1)
        BY <3>2
      <4>2. g[i] = f[i] /\ g[i - 1] = f[i - 1]
        BY <3>2, <4>1
      <4>3. f[i] = IF s[i] \in Healthy THEN Append(f[i - 1], s[i]) ELSE f[i - 1]
        BY <2>1, <4>1 DEF Fronts
      <4> QED
        BY <4>2, <4>3
    <3> QED
      BY <3>1, <3>2
  <2>7. g \in [0..k -> Seq(Healthy)]
    BY <2>4
  <2> HIDE DEF g, next
  <2>8. Fronts(g, s, k)
    BY <2>5, <2>6, <2>7 DEF Fronts
  <2> QED
    BY <2>8
<1> HIDE DEF T
<1>3. \A k \in 1..n : k - 1 \in T => k \in T
  BY <1>2
<1>4. \A k \in 0..n : k \in T
  BY <1>1, <1>3, UpToInduction
<1> QED
  BY <1>4 DEF T

LEMMA HealthyOfIsLastFront ==
  ASSUME NEW s \in Seq(Ports)
  PROVE  \E f : Fronts(f, s, Len(s)) /\ HealthyOf(s) = f[Len(s)]
<1> DEFINE n == Len(s)
           P(h) == h = [k \in 0..n |->
                          IF k = 0 THEN <<>>
                          ELSE IF s[k] \in Healthy THEN Append(h[k - 1], s[k]) ELSE h[k - 1]]
           e == CHOOSE h : P(h)
<1>1. n \in Nat
  BY LenProperties
<1>2. PICK f : Fronts(f, s, n)
  BY <1>1, FrontsExist
<1>3. P(f)
  <2>1. ASSUME NEW k \in 0..n
        PROVE  f[k] = IF k = 0 THEN <<>>
                      ELSE IF s[k] \in Healthy THEN Append(f[k - 1], s[k]) ELSE f[k - 1]
    <3>1. k = 0 \/ k \in 1..n
      BY <1>1
    <3> QED
      BY <1>2, <3>1 DEF Fronts
  <2>2. f = [k \in 0..n |-> f[k]]
    BY <1>2 DEF Fronts
  <2> QED
    BY <2>1, <2>2
<1>4. P(e)
  <2> HIDE DEF P
  <2> QED
    BY <1>3
<1>5. HealthyOf(s) = e[n]
  BY DEF HealthyOf
<1> HIDE DEF e
<1>6. \A k \in 0..n : e[k] = IF k = 0 THEN <<>>
                             ELSE IF s[k] \in Healthy THEN Append(e[k - 1], s[k]) ELSE e[k - 1]
  BY <1>4
<1> HIDE DEF P
<1>7. e[0] = <<>>
  BY <1>1, <1>6
<1>8. \A k \in 1..n : e[k] = IF s[k] \in Healthy THEN Append(e[k - 1], s[k]) ELSE e[k - 1]
  BY <1>1, <1>6
<1> DEFINE T == {k \in 0..n : e[k] = f[k]}
<1>9. \A k \in 0..n : k \in T
  <2>1. 0 \in T
    BY <1>1, <1>2, <1>7 DEF Fronts
  <2>2. \A k \in 1..n : k - 1 \in T => k \in T
    BY <1>1, <1>2, <1>8 DEF Fronts
  <2> HIDE DEF T
  <2> QED
    BY <1>1, <2>1, <2>2, UpToInduction
<1>10. e[n] = f[n]
  BY <1>1, <1>9
<1> QED
  BY <1>2, <1>5, <1>10

LEMMA RangeOfAppend ==
  ASSUME NEW S, NEW s \in Seq(S), NEW x \in S
  PROVE  \A y : y \in Range(Append(s, x)) <=> y \in Range(s) \/ y = x
<1> DEFINE t == Append(s, x)
<1>1. /\ t \in Seq(S) /\ Len(t) = Len(s) + 1 /\ Len(s) \in Nat
      /\ \A k \in 1..Len(s) : t[k] = s[k]
      /\ t[Len(s) + 1] = x
  BY AppendProperties, LenProperties
<1>2. DOMAIN t = 1..Len(t) /\ DOMAIN s = 1..Len(s)
  BY <1>1, LenProperties
<1> HIDE DEF t
<1>3. \A y : y \in Range(t) <=> \E k \in 1..Len(t) : t[k] = y
  BY <1>2 DEF Range
<1>4. \A y : y \in Range(s) <=> \E k \in 1..Len(s) : s[k] = y
  BY <1>2 DEF Range
<1> QED
  BY <1>1, <1>3, <1>4 DEF t

LEMMA HealthyOfEmpty == HealthyOf(<<>>) = <<>>
<1>1. <<>> \in Seq(Ports) /\ Len(<<>>) = 0
  BY EmptySeq, PortSeqFacts
<1>2. PICK f : Fronts(f, <<>>, 0) /\ HealthyOf(<<>>) = f[0]
  BY <1>1, HealthyOfIsLastFront
<1> QED
  BY <1>2 DEF Fronts

(* A port at the end of the list is the last of what is left, if it works. *)
LEMMA HealthyOfAppend ==
  ASSUME NEW s \in Seq(Ports), NEW p \in Ports
  PROVE  HealthyOf(Append(s, p))
           = IF p \in Healthy THEN Append(HealthyOf(s), p) ELSE HealthyOf(s)
<1> DEFINE t == Append(s, p)
           n == Len(s)
<1>1. n \in Nat
  BY LenProperties
<1>2. /\ t \in Seq(Ports)
      /\ Len(t) = n + 1
      /\ \A k \in 1..n : t[k] = s[k]
      /\ t[n + 1] = p
  BY AppendProperties
<1> HIDE DEF t
<1>3. PICK f : Fronts(f, s, n) /\ HealthyOf(s) = f[n]
  BY HealthyOfIsLastFront
<1>4. PICK g : Fronts(g, t, n + 1) /\ HealthyOf(t) = g[n + 1]
  BY <1>2, HealthyOfIsLastFront
<1> HIDE DEF n
<1> DEFINE T == {k \in 0..n : f[k] = g[k]}
<1>5. 0 \in T
  BY <1>1, <1>3, <1>4 DEF Fronts
<1>6. ASSUME NEW k \in 1..n, k - 1 \in T PROVE k \in T
  <2>1. k \in 1..(n + 1)
    BY <1>1
  <2>2. g[k] = IF t[k] \in Healthy THEN Append(g[k - 1], t[k]) ELSE g[k - 1]
    BY <2>1, <1>4 DEF Fronts
  <2>3. f[k] = IF s[k] \in Healthy THEN Append(f[k - 1], s[k]) ELSE f[k - 1]
    BY <1>3 DEF Fronts
  <2>4. f[k - 1] = g[k - 1] /\ s[k] = t[k]
    BY <1>2, <1>6
  <2> QED
    BY <2>2, <2>3, <2>4
<1>7. f[n] = g[n]
  <2>1. \A k \in 0..n : k \in T
    <3> HIDE DEF T
    <3>1. \A k \in 1..n : k - 1 \in T => k \in T
      BY <1>6
    <3> QED
      BY <1>1, <1>5, <3>1, UpToInduction
  <2> QED
    BY <1>1, <2>1
<1>8. g[n + 1] = IF t[n + 1] \in Healthy THEN Append(g[n], t[n + 1]) ELSE g[n]
  <2>1. n + 1 \in 1..(n + 1) /\ (n + 1) - 1 = n
    BY <1>1
  <2> QED
    BY <2>1, <1>4 DEF Fronts
<1> QED
  BY <1>2, <1>3, <1>4, <1>7, <1>8 DEF t

(* The head of the list is the head of what is left, if it works. *)
LEMMA HealthyOfTail ==
  ASSUME NEW s \in Seq(Ports), s # <<>>
  PROVE  IF Head(s) \in Healthy
         THEN /\ HealthyOf(s) # <<>>
              /\ Head(HealthyOf(s)) = Head(s)
              /\ HealthyOf(Tail(s)) = Tail(HealthyOf(s))
         ELSE HealthyOf(Tail(s)) = HealthyOf(s)
<1> DEFINE t == Tail(s)
           n == Len(t)
           h == Head(s)
<1>1. n \in Nat /\ Len(s) = n + 1 /\ t \in Seq(Ports)
  BY HeadTailProperties, LenProperties
<1>2. h = s[1] /\ \A k \in 1..n : t[k] = s[k + 1]
  BY HeadTailProperties
<1>3. PICK f : Fronts(f, s, n + 1) /\ HealthyOf(s) = f[n + 1]
  BY <1>1, HealthyOfIsLastFront
<1>4. PICK g : Fronts(g, t, n) /\ HealthyOf(t) = g[n]
  BY <1>1, HealthyOfIsLastFront
<1> HIDE DEF n, t, h
<1> DEFINE Shifted(k) == IF h \in Healthy
                         THEN /\ f[k + 1] # <<>>
                              /\ Head(f[k + 1]) = h
                              /\ g[k] = Tail(f[k + 1])
                         ELSE g[k] = f[k + 1]
           T == {k \in 0..n : Shifted(k)}
<1>5. Shifted(0)
  <2>1. 1 \in 1..(n + 1) /\ 0 + 1 = 1 /\ 1 - 1 = 0
    BY <1>1
  <2>2. f[1] = IF s[1] \in Healthy THEN Append(f[0], s[1]) ELSE f[0]
    BY <2>1, <1>3 DEF Fronts
  <2>3. f[0] = <<>> /\ g[0] = <<>> /\ <<>> \in Seq(Healthy)
    BY <1>3, <1>4, EmptySeq DEF Fronts
  <2>4. ASSUME h \in Healthy PROVE Append(<<>>, h) # <<>>
                                   /\ Head(Append(<<>>, h)) = h
                                   /\ Tail(Append(<<>>, h)) = <<>>
    BY <2>3, <2>4, HeadTailAppend, AppendProperties
  <2> QED
    BY <2>1, <2>2, <2>3, <2>4, <1>2
<1>6. ASSUME NEW k \in 1..n, Shifted(k - 1) PROVE Shifted(k)
  <2>1. k + 1 \in 1..(n + 1) /\ (k + 1) - 1 = k /\ (k - 1) + 1 = k /\ k \in 0..(n + 1)
        /\ k - 1 \in 0..n
    BY <1>1
  <2>2. g[k] = IF t[k] \in Healthy THEN Append(g[k - 1], t[k]) ELSE g[k - 1]
    BY <1>4 DEF Fronts
  <2>3. f[k + 1] = IF s[k + 1] \in Healthy THEN Append(f[k], s[k + 1]) ELSE f[k]
    BY <2>1, <1>3 DEF Fronts
  <2>4. f[k] \in Seq(Healthy) /\ g[k - 1] \in Seq(Healthy)
    BY <2>1, <1>3, <1>4 DEF Fronts
  <2>5. t[k] = s[k + 1]
    BY <1>2
  <2>6. CASE t[k] \notin Healthy
    BY <1>6, <2>1, <2>2, <2>3, <2>5, <2>6
  <2>7. CASE t[k] \in Healthy /\ h \notin Healthy
    BY <1>6, <2>1, <2>2, <2>3, <2>5, <2>7
  <2>8. CASE t[k] \in Healthy /\ h \in Healthy
    <3>1. f[k] # <<>> /\ Head(f[k]) = h /\ g[k - 1] = Tail(f[k])
      BY <1>6, <2>1, <2>8
    <3>2. /\ Append(f[k], t[k]) # <<>>
          /\ Head(Append(f[k], t[k])) = Head(f[k])
          /\ Tail(Append(f[k], t[k])) = Append(Tail(f[k]), t[k])
      BY <2>4, <2>8, <3>1, HeadTailAppend, AppendProperties
    <3>3. f[k + 1] = Append(f[k], t[k]) /\ g[k] = Append(g[k - 1], t[k])
      BY <2>2, <2>3, <2>5, <2>8
    <3> QED
      BY <3>1, <3>2, <3>3, <2>8
  <2> QED
    BY <2>6, <2>7, <2>8
<1>7. Shifted(n)
  <2> HIDE DEF Shifted
  <2>1. 0 \in T
    BY <1>1, <1>5
  <2>2. \A k \in 1..n : k - 1 \in T => k \in T
    BY <1>6
  <2>3. \A k \in 0..n : k \in T
    <3> HIDE DEF T
    <3> QED
      BY <1>1, <2>1, <2>2, UpToInduction
  <2> QED
    BY <1>1, <2>3
<1> QED
  BY <1>3, <1>4, <1>7 DEF h, t

(* What is left holds the ports of the list that work. *)
LEMMA HealthyOfRange ==
  ASSUME NEW s \in Seq(Ports)
  PROVE  /\ HealthyOf(s) \in Seq(Healthy)
         /\ \A p \in Healthy : p \in Range(HealthyOf(s)) <=> p \in Range(s)
<1> DEFINE n == Len(s)
<1>1. n \in Nat
  BY LenProperties
<1>2. PICK f : Fronts(f, s, n) /\ HealthyOf(s) = f[n]
  BY HealthyOfIsLastFront
<1>3. \A p \in Ports : p \in Range(s) <=> \E i \in 1..n : s[i] = p
  BY PortSeqFacts
<1> HIDE DEF n
<1> DEFINE Holds(k) == \A p \in Healthy : p \in Range(f[k]) <=> \E i \in 1..k : s[i] = p
           T == {k \in 0..n : Holds(k)}
<1>4. Holds(0)
  <2>1. Range(<<>>) = {}
    BY EmptySeq DEF Range
  <2> QED
    BY <1>2, <2>1 DEF Fronts
<1>5. ASSUME NEW k \in 1..n, Holds(k - 1) PROVE Holds(k)
  <2>1. f[k] = IF s[k] \in Healthy THEN Append(f[k - 1], s[k]) ELSE f[k - 1]
    BY <1>2 DEF Fronts
  <2>2. k - 1 \in 0..n
    BY <1>1
  <2>3. f[k - 1] \in Seq(Healthy)
    BY <1>2, <2>2 DEF Fronts
  <2>4. ASSUME NEW p \in Healthy, s[k] \in Healthy
        PROVE  p \in Range(Append(f[k - 1], s[k])) <=> p \in Range(f[k - 1]) \/ p = s[k]
    BY <2>3, <2>4, RangeOfAppend
  <2>5. \A p : (\E i \in 1..k : s[i] = p) <=> (\E i \in 1..(k - 1) : s[i] = p) \/ s[k] = p
    BY <1>1
  <2> QED
    BY <1>5, <2>1, <2>4, <2>5
<1>6. Holds(n)
  <2> HIDE DEF Holds
  <2>1. 0 \in T
    BY <1>1, <1>4
  <2>2. \A k \in 1..n : k - 1 \in T => k \in T
    BY <1>5
  <2>3. \A k \in 0..n : k \in T
    <3> HIDE DEF T
    <3> QED
      BY <1>1, <2>1, <2>2, UpToInduction
  <2> QED
    BY <1>1, <2>3
<1>7. \A p \in Healthy : p \in Range(HealthyOf(s)) <=> p \in Range(s)
  BY <1>2, <1>3, <1>6 DEF Healthy
<1>8. HealthyOf(s) \in Seq(Healthy)
  BY <1>1, <1>2 DEF Fronts
<1> QED
  BY <1>7, <1>8

-----------------------------------------------------------------------------
(* The pointers represent one list only: both lists of a pair start at the *)
(* same port and go on along the same links.                               *)
LEMMA OneListIsAPrefix ==
  ASSUME NEW s \in Seq(Ports), NEW t \in Seq(Ports), IsList(s), IsList(t)
  PROVE  \A i \in 1..Len(s) : i <= Len(t) /\ s[i] = t[i]
<1> DEFINE n == Len(s)
           T == {i \in 0..n : i = 0 \/ (i <= Len(t) /\ s[i] = t[i])}
<1>1. /\ n \in Nat /\ Len(t) \in Nat
      /\ \A i \in 1..n : s[i] \in Ports
      /\ s = <<>> <=> n = 0
      /\ t = <<>> <=> Len(t) = 0
  BY PortSeqFacts
<1>2. DOMAIN s = 1..n /\ DOMAIN t = 1..Len(t)
  BY LenProperties
<1>3. /\ firstPort = IF s = <<>> THEN NULL ELSE s[1]
      /\ firstPort = IF t = <<>> THEN NULL ELSE t[1]
      /\ \A i \in 1..n : nextQueuedPort[s[i]] = IF i = n THEN NULL ELSE s[i+1]
      /\ \A i \in 1..Len(t) : nextQueuedPort[t[i]] = IF i = Len(t) THEN NULL ELSE t[i+1]
  BY <1>2 DEF IsList
<1> HIDE DEF n
<1>4. ASSUME NEW i \in 1..n, i - 1 \in T PROVE i \in T
  <2>1. s[i] \in Ports /\ s[i] # NULL
    BY <1>1, OutputQueueAssumption
  <2>2. CASE i = 1
    <3>1. firstPort = s[1]
      BY <1>1, <1>3, <2>2
    <3>2. t # <<>> /\ t[1] = s[1] /\ 1 <= Len(t)
      BY <1>1, <1>3, <2>1, <2>2, <3>1
    <3> QED
      BY <2>2, <3>2
  <2>3. CASE i # 1
    <3>1. i - 1 \in 1..n /\ i - 1 # n /\ (i - 1) + 1 = i
      BY <1>1, <2>3
    <3>2. i - 1 <= Len(t) /\ s[i - 1] = t[i - 1]
      BY <1>4, <3>1
    <3>3. nextQueuedPort[s[i - 1]] = s[i]
      BY <1>3, <3>1
    <3>4. i - 1 \in 1..Len(t)
      BY <1>1, <3>1, <3>2
    <3>5. nextQueuedPort[t[i - 1]] = IF i - 1 = Len(t) THEN NULL ELSE t[(i - 1) + 1]
      BY <1>3, <3>4
    <3>6. i - 1 # Len(t) /\ t[i] = s[i]
      BY <2>1, <3>1, <3>2, <3>3, <3>5
    <3> QED
      BY <1>1, <3>2, <3>6
  <2> QED
    BY <2>2, <2>3
<1>5. \A i \in 0..n : i \in T
  <2>1. 0 \in T
    BY <1>1
  <2> HIDE DEF T
  <2> QED
    BY <1>1, <1>4, <2>1, UpToInduction
<1> QED
  BY <1>5 DEF n

LEMMA TheListIs ==
  ASSUME NEW s \in Seq(Ports), Represents(s)
  PROVE  TheList = s
<1>1. s \in PortLists /\ IsList(s)
  BY RepresentsIsList
<1> DEFINE t == TheList
<1>2. t \in PortLists /\ IsList(t)
  BY <1>1 DEF TheList
<1>3. t \in Seq(Ports)
  <2>1. PICK n \in 0..Cardinality(Ports) : t \in [1..n -> Ports]
    BY <1>2 DEF PortLists
  <2>2. n \in Nat
    BY <2>1, FS_CardinalityType, OutputQueueAssumption
  <2> QED
    BY <2>1, <2>2, SeqDef
<1> HIDE DEF t
<1>4. Len(s) \in Nat /\ Len(t) \in Nat
  BY <1>3, LenProperties
<1>5. /\ \A i \in 1..Len(s) : i <= Len(t) /\ s[i] = t[i]
      /\ \A i \in 1..Len(t) : i <= Len(s) /\ t[i] = s[i]
  BY <1>1, <1>2, <1>3, OneListIsAPrefix
<1>6. Len(s) = Len(t)
  BY <1>4, <1>5
<1>7. s = t
  BY <1>3, <1>5, <1>6, SeqEqual
<1> QED
  BY <1>7 DEF t

(* What the abstract queue holds in a state, and in the next one. *)
LEMMA TheListIsAlways == \A s \in Seq(Ports) : Represents(s) => TheList = s
  BY TheListIs

LEMMA TheNextListIs ==
  ASSUME TRUE
  PROVE  \A s \in Seq(Ports) : Represents(s)' => TheList' = s
<1>1. (\A s \in Seq(Ports) : Represents(s) => TheList = s)'
  BY TheListIsAlways, PTL
<1> QED
  BY <1>1

(* Every step of the code is a step of the abstract queue, or leaves it    *)
(* alone.                                                                  *)
LEMMA WriteIsAbstract ==
  ASSUME TypeOK, NEW p \in Ports, Write(p), NEW s \in Seq(Ports), Represents(s)
  PROVE  [Fifo!Next]_(Fifo!vars)
<1>1. PICK t \in Seq(Ports) :
        /\ t = IF SaysQueued(p) THEN s ELSE Append(s, p)
        /\ Represents(t)'
  BY WriteKeepsList
<1>2. /\ ~SaysQueued(p) => p \notin Range(s)
      /\ SaysQueued(p) /\ p \in Healthy => p \in Range(s)
  BY WriteKeepsList
<1>3. TheList = s /\ TheList' = t
  BY <1>1, TheListIs, TheNextListIs
<1>4. HealthyOf(TheList) = HealthyOf(s) /\ HealthyOf(TheList)' = HealthyOf(t)
  BY <1>3
<1>5. pending' = pending \cup {p}
  BY DEF Write
<1>6. CASE p \in Healthy
  <2>1. p \in Range(HealthyOf(s)) <=> p \in Range(s)
    BY <1>6, HealthyOfRange
  <2>2. HealthyOf(t) = IF p \in Range(HealthyOf(s)) THEN HealthyOf(s) ELSE Append(HealthyOf(s), p)
    BY <1>1, <1>2, <1>6, <2>1, HealthyOfAppend
  <2>3. (pending \cap Healthy)' = (pending \cap Healthy) \cup {p}
    BY <1>5, <1>6
  <2>4. Fifo!Write(p)
    BY <1>4, <2>2, <2>3 DEF Fifo!Write, Fifo!Range, Range
  <2> QED
    BY <1>6, <2>4 DEF Fifo!Next
<1>7. CASE p \notin Healthy
  <2>1. HealthyOf(t) = HealthyOf(s)
    BY <1>1, <1>7, HealthyOfAppend
  <2>2. (pending \cap Healthy)' = pending \cap Healthy
    BY <1>5, <1>7
  <2> QED
    BY <1>4, <2>1, <2>2 DEF Fifo!vars
<1> QED
  BY <1>6, <1>7

LEMMA TurnIsAbstract ==
  ASSUME TypeOK, SendPort \/ SendPortThrows, NEW s \in Seq(Ports), Represents(s)
  PROVE  [Fifo!Next]_(Fifo!vars)
<1>1. PICK t \in Seq(Ports) : t = Tail(s) /\ Represents(t)'
  BY TurnKeepsList
<1>2. s # <<>> /\ Head(s) = firstPort
  BY TurnKeepsList
<1>3. TheList = s /\ TheList' = t
  BY <1>1, TheListIs, TheNextListIs
<1>4. HealthyOf(TheList) = HealthyOf(s) /\ HealthyOf(TheList)' = HealthyOf(t)
  BY <1>3
<1>5. CASE firstPort \in Healthy
  <2>1. SendPort
    BY <1>5 DEF SendPortThrows, Healthy
  <2>2. /\ HealthyOf(s) # <<>>
        /\ Head(HealthyOf(s)) = firstPort
        /\ HealthyOf(t) = Tail(HealthyOf(s))
    BY <1>1, <1>2, <1>5, HealthyOfTail
  <2>3. PICK rest \in MayLeave : pending' = (pending \ {firstPort}) \cup rest
    BY <2>1 DEF SendPort
  <2> DEFINE mine == pending \cap Healthy
  <2>5. rest \in SUBSET ({firstPort} \cap (Limited \cap Healthy) \cap mine)
    BY <1>5, <2>3 DEF MayLeave
  <2>6. mine' = (mine \ {firstPort}) \cup rest
    BY <2>3, <2>5
  <2>4. Fifo!Emit
    BY <1>4, <2>2, <2>5, <2>6 DEF Fifo!Emit
  <2> QED
    BY <2>4 DEF Fifo!Next
<1>6. CASE firstPort \notin Healthy
  <2>1. HealthyOf(t) = HealthyOf(s)
    BY <1>1, <1>2, <1>6, HealthyOfTail
  <2>2. \A q \in Healthy : q \in pending' <=> q \in pending
    BY <1>6 DEF SendPort, SendPortThrows, MayLeave
  <2>3. (pending \cap Healthy)' = pending \cap Healthy
    BY <1>6, <2>2
  <2> QED
    BY <1>4, <2>1, <2>3 DEF Fifo!vars
<1> QED
  BY <1>5, <1>6

LEMMA OtherStepsAreAbstract ==
  ASSUME TypeOK, NEW s \in Seq(Ports), Represents(s),
         \/ \E p \in Ports : Reset(p)
         \/ BeginSendAll
         \/ EndSendAll
         \/ UNCHANGED vars
  PROVE  [Fifo!Next]_(Fifo!vars)
<1>1. Represents(s)'
  BY OtherStepsKeepList
<1>2. TheList = s /\ TheList' = s
  BY <1>1, TheListIs, TheNextListIs
<1>3. HealthyOf(TheList)' = HealthyOf(TheList)
  BY <1>2
<1>4. ASSUME NEW p \in Ports, Reset(p), p \in Healthy
      PROVE  Fifo!Next
  <2>1. (pending \cap Healthy)' = (pending \cap Healthy) \ {p}
    BY <1>4 DEF Reset
  <2>2. Fifo!Reset(p)
    BY <1>3, <2>1 DEF Fifo!Reset
  <2> QED
    BY <1>4, <2>2 DEF Fifo!Next
<1>5. ASSUME NEW p \in Ports, Reset(p), p \notin Healthy
      PROVE  UNCHANGED Fifo!vars
  <2>1. (pending \cap Healthy)' = pending \cap Healthy
    BY <1>5 DEF Reset
  <2> QED
    BY <1>3, <2>1 DEF Fifo!vars
<1>6. CASE BeginSendAll \/ EndSendAll \/ UNCHANGED vars
  <2>1. pending' = pending
    BY <1>6 DEF BeginSendAll, EndSendAll, vars
  <2> QED
    BY <1>3, <2>1 DEF Fifo!vars
<1> QED
  BY <1>4, <1>5, <1>6

(* Seen from the ports whose sockets work, whatever the other sockets do,  *)
(* the linked list is a first-in first-out queue without duplicates: each  *)
(* port has its place from its first write, ims_send_all takes the ports   *)
(* in that order, and no step of the code does anything else to the queue  *)
(* or to the data of these ports.  What an emission leaves on an A429 bus  *)
(* waits for the next write of the bus, which queues it again.  (The       *)
(* fairness of the abstract queue is left to the run.)                     *)
THEOREM ListImplementsFifo == Spec => Fifo!Spec
<1>1. Init => Fifo!Init
  <2> SUFFICES ASSUME Init PROVE Fifo!Init
    OBVIOUS
  <2>1. <<>> \in Seq(Ports) /\ Represents(<<>>)
    BY InitRepresentsNothing
  <2>2. HealthyOf(TheList) = <<>>
    BY <2>1, TheListIs, HealthyOfEmpty
  <2>3. pending \cap Healthy = {}
    BY DEF Init
  <2> QED
    BY <2>2, <2>3 DEF Fifo!Init
<1>2. IInv /\ [Next]_vars => [Fifo!Next]_(Fifo!vars)
  <2> SUFFICES ASSUME TypeOK, NEW s \in Seq(Ports), Represents(s), [Next]_vars
               PROVE  [Fifo!Next]_(Fifo!vars)
    BY DEF IInv
  <2>1. CASE \E p \in Ports : Write(p)
    BY <2>1, WriteIsAbstract
  <2>2. CASE SendPort \/ SendPortThrows
    BY <2>2, TurnIsAbstract
  <2>3. CASE (\E p \in Ports : Reset(p)) \/ BeginSendAll \/ EndSendAll \/ UNCHANGED vars
    BY <2>3, OtherStepsAreAbstract
  <2> QED
    BY <2>1, <2>2, <2>3 DEF Next
<1> QED
  BY <1>1, <1>2, InductiveInvariant, PTL DEF Spec, Fifo!Spec
=============================================================================
