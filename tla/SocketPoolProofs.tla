-------------------------- MODULE SocketPoolProofs --------------------------
(***************************************************************************)
(* Proofs about SocketPool, for all finite sets of channels, whatever      *)
(* their addresses and their order in the pool, and any number of          *)
(* commands.                                                               *)
(*                                                                         *)
(* Two facts carry all of it: no two sockets share a descriptor            *)
(* (DistinctFds), so that what a replacement takes out of the set of       *)
(* select() is its own; and what the current pass still has to look at     *)
(* had a datagram when select() was called (PassIsHonest), unless a        *)
(* command of the same pass has replaced it.                               *)
(***************************************************************************)
EXTENDS SocketPool, SequenceTheorems, FiniteSetTheorems, WellFoundedInduction, TLAPS

Elements == Channels \cup {Control}

DistinctFds ==
  \A e, f \in Elements : fd[e] = fd[f] /\ fd[e] # INVALID_SOCKET => e = f

(* Only sockets have datagrams, the current pass has the answer of         *)
(* select(), and receive() blocks where the loop is.                       *)
DatagramsHaveSockets == \A ch \in datagrams : fd[ch] # INVALID_SOCKET

PassIsHonest ==
  \A i \in 1..Len(PoolOrder) :
    LET ch == PoolOrder[i] IN
      position > 0 /\ i >= position /\ ch # Control /\ ch \notin replaced /\ IsSet(ch)
        => ch \in datagrams

BlockedInThePass ==
  Blocked => /\ position \in 1..Len(PoolOrder)
             /\ blocked = PoolOrder[position]
             /\ blocked \in replaced

-----------------------------------------------------------------------------
(* A set of numbers that is not empty has a smallest one. *)
LEMMA MinOfNaturals ==
  ASSUME NEW T \in SUBSET Nat, T # {}
  PROVE  Min(T) \in T /\ \A y \in T : Min(T) <= y
<1>1. IsWellFoundedOn(OpToRel(<, Nat), Nat)
  BY NatLessThanWellFounded
<1>2. \E x \in T : \A y \in T : ~(<<y, x>> \in OpToRel(<, Nat))
  BY <1>1, WFMin
<1>3. \A x, y \in T : x <= y \/ <<y, x>> \in OpToRel(<, Nat)
  BY DEF OpToRel
<1>4. \E x \in T : \A y \in T : x <= y
  BY <1>2, <1>3
<1> QED BY <1>4 DEF Min

(* There are more descriptors than sockets. *)
LEMMA LowestFreeIsFree ==
  ASSUME DOMAIN fd = Elements, fd \in [Elements -> Fds \cup {INVALID_SOCKET}]
  PROVE  LowestFree \in Fds /\ LowestFree \notin Open
<1> DEFINE n == Cardinality(Channels)
<1>1. IsFiniteSet(Channels) /\ n \in Nat
  BY SocketPoolAssumption, FS_Union, FS_CardinalityType DEF Channels
<1>2. IsFiniteSet(Elements) /\ Cardinality(Elements) <= n + 1 /\ Cardinality(Elements) \in Nat
  BY <1>1, FS_AddElement, FS_CardinalityType DEF Elements
<1>3. fd \in Surjection(Elements, Range(fd))
  BY DEF Surjection, Range
<1>4. IsFiniteSet(Range(fd)) /\ Cardinality(Range(fd)) <= n + 1 /\ Cardinality(Range(fd)) \in Nat
  BY <1>1, <1>2, <1>3, FS_Surjection, FS_CardinalityType
<1>5. IsFiniteSet(Fds) /\ Cardinality(Fds) = n + 2
  BY <1>1, FS_Interval DEF Fds
<1>6. ~(Fds \subseteq Open)
  <2> SUFFICES ASSUME Fds \subseteq Open PROVE FALSE
    OBVIOUS
  <2>1. Fds \in SUBSET Range(fd)
    BY DEF Open
  <2>2. Cardinality(Fds) <= Cardinality(Range(fd))
    BY <1>4, <2>1, FS_Subset
  <2> QED BY <1>1, <1>4, <1>5, <2>2
<1>7. Fds \ Open \in SUBSET Nat /\ Fds \ Open # {}
  BY <1>1, <1>6 DEF Fds
<1>8. Min(Fds \ Open) \in Fds \ Open
  BY <1>7, MinOfNaturals
<1> QED BY <1>8 DEF LowestFree

(* A set of numbers with a bound has a greatest one. *)
LEMMA MaxOfBounded ==
  ASSUME NEW n \in Nat, NEW T \in SUBSET (0..n), T # {}
  PROVE  Max(T) \in T /\ \A y \in T : Max(T) >= y
<1> DEFINE U == {n - x : x \in T}
<1>1. U \in SUBSET Nat /\ U # {}
  <2>1. \A x \in T : x \in Nat /\ n - x \in Nat
    OBVIOUS
  <2>2. \A u \in U : u \in Nat
    BY <2>1
  <2>3. PICK x \in T : TRUE
    OBVIOUS
  <2>4. n - x \in U
    BY <2>3
  <2> QED BY <2>2, <2>4
<1>2. Min(U) \in U /\ \A y \in U : Min(U) <= y
  BY <1>1, MinOfNaturals
<1>3. PICK x \in T : Min(U) = n - x
  BY <1>2
<1>4. \A y \in T : x >= y
  <2> SUFFICES ASSUME NEW y \in T PROVE x >= y
    OBVIOUS
  <2>1. n - x <= n - y
    BY <1>2, <1>3
  <2>2. x \in Nat /\ y \in Nat
    OBVIOUS
  <2> QED BY <2>1, <2>2
<1> QED BY <1>4 DEF Max

(* The elements of the pool, and the bounds of the descriptors. *)
LEMMA PoolFacts ==
  /\ Len(PoolOrder) \in Nat
  /\ \A i \in 1..Len(PoolOrder) : PoolOrder[i] \in Inputs \cup {Control}
  /\ \A i, j \in 1..Len(PoolOrder) : PoolOrder[i] = PoolOrder[j] => i = j
  /\ Inputs \cup Outputs = Channels /\ Control \notin Channels
  /\ Inputs \cap Outputs = {}
  /\ Cardinality(Channels) \in Nat
  /\ INVALID_SOCKET = -1 /\ INVALID_SOCKET \notin Fds
  /\ Fds = 0..(Cardinality(Channels) + 1)
<1>1. PoolOrder \in Seq(Inputs \cup {Control}) /\ IsInjective(PoolOrder)
  BY SocketPoolAssumption
<1>2. /\ Len(PoolOrder) \in Nat
      /\ DOMAIN PoolOrder = 1..Len(PoolOrder)
      /\ \A i \in 1..Len(PoolOrder) : PoolOrder[i] \in Inputs \cup {Control}
  BY <1>1, LenProperties, ElementOfSeq
<1>3. \A i, j \in 1..Len(PoolOrder) : PoolOrder[i] = PoolOrder[j] => i = j
  BY <1>1, <1>2 DEF IsInjective
<1>4. IsFiniteSet(Channels) /\ Cardinality(Channels) \in Nat
  BY SocketPoolAssumption, FS_Union, FS_CardinalityType DEF Channels
<1> QED BY <1>2, <1>3, <1>4, SocketPoolAssumption DEF Channels, INVALID_SOCKET, Fds

IInv ==
  /\ TypeOK
  /\ SelectSetIsOpen
  /\ ListenersAreWatched
  /\ DistinctFds
  /\ DatagramsHaveSockets
  /\ PassIsHonest
  /\ BlockedInThePass

-----------------------------------------------------------------------------
LEMMA InitHolds == Init => IInv
<1> SUFFICES ASSUME Init PROVE IInv
  OBVIOUS
<1> DEFINE n == Cardinality(Channels)
<1>1. /\ fd \in [Elements -> Fds]
      /\ \A e, f \in Elements : fd[e] = fd[f] => e = f
  BY DEF Init, Elements, IsInjective
<1>2. selectSet = {fd[e] : e \in Inputs \cup {Control}}
  <2>1. Range(PoolOrder) = Inputs \cup {Control}
    BY SocketPoolAssumption
  <2>2. selectSet = {fd[e] : e \in Range(PoolOrder)}
    BY DEF Init
  <2> QED BY <2>1, <2>2
<1>3. selectSet \in SUBSET Fds /\ selectSet # {}
  <2>1. Inputs \cup {Control} \subseteq Elements
    BY DEF Elements, Channels
  <2> QED BY <1>1, <1>2, <2>1
<1>4. Max(selectSet) \in Fds /\ \A f \in selectSet : Max(selectSet) >= f
  <2>1. n + 1 \in Nat /\ selectSet \in SUBSET (0..(n + 1))
    BY <1>3, PoolFacts
  <2>2. Max(selectSet) \in selectSet /\ \A f \in selectSet : Max(selectSet) >= f
    BY <1>3, <2>1, MaxOfBounded
  <2> QED BY <1>3, <2>2
<1>5. selectNfds \in 0..(n + 2) /\ \A f \in selectSet : f < selectNfds
  <2>1. selectNfds = Max(selectSet) + 1
    BY DEF Init
  <2>2. n \in Nat /\ Fds = 0..(n + 1)
    BY PoolFacts
  <2> QED BY <1>3, <1>4, <2>1, <2>2
<1>6. TypeOK
  <2>1. fd \in [Channels \cup {Control} -> Fds \cup {INVALID_SOCKET}]
    BY <1>1 DEF Elements
  <2>2. pending \in 0..MaxPending /\ sent \in 0..MaxCommands /\ position \in 0..(Len(PoolOrder) + 1)
    BY SocketPoolAssumption, PoolFacts DEF Init
  <2> QED BY <1>3, <1>5, <2>1, <2>2 DEF Init, TypeOK
<1>7. SelectSetIsOpen
  <2>1. INVALID_SOCKET \notin selectSet
    BY <1>3, PoolFacts
  <2> QED BY <1>2, <1>5, <2>1 DEF SelectSetIsOpen
<1>8. ListenersAreWatched
  BY <1>2 DEF ListenersAreWatched
<1>9. DistinctFds
  BY <1>1 DEF DistinctFds
<1>10. DatagramsHaveSockets /\ PassIsHonest /\ BlockedInThePass
  BY PoolFacts DEF Init, DatagramsHaveSockets, PassIsHonest, BlockedInThePass, Blocked
<1> QED BY <1>6, <1>7, <1>8, <1>9, <1>10 DEF IInv

(* A step that leaves the sockets alone leaves the set of select() alone.  *)
LEMMA SameSockets ==
  ASSUME IInv, UNCHANGED <<fd, place, selectSet, selectNfds, deaf>>
  PROVE  SelectSetIsOpen' /\ ListenersAreWatched' /\ DistinctFds'
  BY DEF IInv, SelectSetIsOpen, ListenersAreWatched, DistinctFds

(* The environment. *)
LEMMA EnvironmentKeeps ==
  ASSUME IInv, (\E ch \in Inputs : DatagramArrives(ch)) \/ CommandArrives
  PROVE  IInv'
<1>1. /\ UNCHANGED <<fd, place, selectSet, selectNfds, deaf>>
      /\ UNCHANGED <<pass, position, blocked, work, goal, replaced>>
  BY DEF DatagramArrives, CommandArrives, netVars, loopVars, commandVars
<1>2. /\ datagrams \subseteq datagrams'
      /\ datagrams' \subseteq Inputs
      /\ \A ch \in datagrams' : fd[ch] # INVALID_SOCKET
  BY DEF DatagramArrives, CommandArrives, netVars, IInv, TypeOK, DatagramsHaveSockets
<1>3. pending' \in 0..MaxPending /\ sent' \in 0..MaxCommands
  BY SocketPoolAssumption DEF DatagramArrives, CommandArrives, commandVars, IInv, TypeOK
<1>4. TypeOK'
  BY <1>1, <1>2, <1>3 DEF IInv, TypeOK
<1>5. DatagramsHaveSockets'
  BY <1>1, <1>2 DEF DatagramsHaveSockets
<1>6. PassIsHonest'
  BY <1>1, <1>2 DEF IInv, PassIsHonest, IsSet
<1>7. BlockedInThePass'
  BY <1>1 DEF IInv, BlockedInThePass, Blocked
<1> QED BY <1>1, <1>4, <1>5, <1>6, <1>7, SameSockets DEF IInv

(* The beginning and the end of a pass. *)
LEMMA PassKeeps ==
  ASSUME IInv, BeginPass \/ EndPass \/ UnknownCommand
  PROVE  IInv'
<1>1. UNCHANGED <<fd, place, selectSet, selectNfds, datagrams, deaf, blocked, sent, work, goal>>
  BY DEF BeginPass, EndPass, UnknownCommand, netVars, commandVars
<1>2. DatagramsHaveSockets'
  BY <1>1 DEF IInv, DatagramsHaveSockets
<1>3. ~Blocked
  BY PoolFacts DEF IInv, BlockedInThePass, BeginPass, EndPass, UnknownCommand, AtElement, Importing
<1>4. BlockedInThePass'
  BY <1>1, <1>3 DEF BlockedInThePass, Blocked
<1>5. CASE BeginPass
  <2>1. pass' = Readable \cap selectSet /\ position' = 1 /\ UNCHANGED <<replaced, pending>>
    BY <1>5 DEF BeginPass, commandVars
  <2>2. PassIsHonest'
    <3> SUFFICES ASSUME NEW i \in 1..Len(PoolOrder), PoolOrder[i] # Control,
                        fd[PoolOrder[i]] # INVALID_SOCKET, fd[PoolOrder[i]] \in pass'
                 PROVE  PoolOrder[i] \in datagrams
      BY <1>1 DEF PassIsHonest, IsSet
    <3>1. PoolOrder[i] \in Elements /\ Control \in Elements /\ datagrams \subseteq Elements
      BY PoolFacts DEF Elements, IInv, TypeOK
    <3>2. \/ \E ch \in datagrams : fd[PoolOrder[i]] = fd[ch]
          \/ fd[PoolOrder[i]] = fd[Control]
      BY <2>1 DEF Readable
    <3> QED BY <3>1, <3>2 DEF IInv, DistinctFds
  <2>3. pass' \subseteq Fds /\ position' \in 0..(Len(PoolOrder) + 1)
    <3>1. selectSet \subseteq Fds
      BY DEF IInv, TypeOK
    <3>2. 1 \in 0..(Len(PoolOrder) + 1)
      BY PoolFacts
    <3> QED BY <2>1, <3>1, <3>2
  <2>4. TypeOK'
    BY <1>1, <2>1, <2>3 DEF IInv, TypeOK
  <2> QED BY <1>1, <1>2, <1>4, <2>2, <2>4, SameSockets DEF IInv
<1>6. CASE EndPass \/ UnknownCommand
  <2>1. pass' = {} /\ position' = 0 /\ replaced' = {}
    BY <1>6 DEF EndPass, UnknownCommand
  <2>2. PassIsHonest'
    BY <2>1 DEF PassIsHonest
  <2>3. pending' \in 0..MaxPending
    BY <1>6, SocketPoolAssumption DEF EndPass, UnknownCommand, commandVars, IInv, TypeOK
  <2>4. TypeOK'
    BY <1>1, <2>1, <2>3, PoolFacts DEF IInv, TypeOK
  <2> QED BY <1>1, <1>2, <1>4, <2>2, <2>4, SameSockets DEF IInv
<1> QED BY <1>5, <1>6

(* The loop passes an element; the datagram of another one stays. *)
LEMMA ElementKeeps ==
  ASSUME IInv, SkipElement \/ ReceiveData \/ Unblock \/ ControlDone
  PROVE  IInv'
<1>1. /\ UNCHANGED <<fd, place, selectSet, selectNfds, deaf, pass>>
      /\ UNCHANGED <<pending, sent, work, goal, replaced>>
  BY DEF SkipElement, ReceiveData, Unblock, ControlDone, netVars, commandVars
<1>2. position \in 1..Len(PoolOrder) /\ Element = PoolOrder[position]
  BY DEF SkipElement, ReceiveData, Unblock, ControlDone, AtElement, Element, IInv, BlockedInThePass
<1>3. /\ datagrams' \subseteq datagrams
      /\ datagrams \ {Element} \subseteq datagrams'
  BY <1>2 DEF SkipElement, ReceiveData, Unblock, ControlDone, netVars, IInv, BlockedInThePass
<1>4. \/ position' = position + 1 /\ ~Blocked'
      \/ position' = position /\ blocked' = Element /\ Element \in replaced /\ datagrams' = datagrams
  <2>1. CASE SkipElement \/ ControlDone \/ Unblock
    BY <2>1 DEF SkipElement, ControlDone, Unblock, Advance, AtElement, Blocked, loopVars
  <2>2. CASE ReceiveData /\ Element \in datagrams
    BY <2>2 DEF ReceiveData, Advance, AtElement, Blocked
  <2>3. CASE ReceiveData /\ Element \notin datagrams
    <3>1. Element # Control /\ IsSet(Element) /\ blocked' = Element
          /\ UNCHANGED <<datagrams, position>>
      BY <2>3 DEF ReceiveData
    <3>2. Element \in replaced
      BY <1>2, <2>3, <3>1 DEF IInv, PassIsHonest
    <3> QED BY <3>1, <3>2
  <2> QED BY <2>1, <2>2, <2>3
<1>5. PassIsHonest'
  <2> SUFFICES ASSUME NEW i \in 1..Len(PoolOrder), position' > 0, i >= position',
                      PoolOrder[i] # Control, PoolOrder[i] \notin replaced, IsSet(PoolOrder[i])
               PROVE  PoolOrder[i] \in datagrams'
    BY <1>1 DEF PassIsHonest, IsSet
  <2>1. PoolOrder[i] \in datagrams
    BY <1>2, <1>4 DEF IInv, PassIsHonest
  <2>2. CASE position' = position + 1
    <3>1. PoolOrder[i] # Element
      BY <1>2, <2>2, PoolFacts
    <3> QED BY <1>3, <2>1, <3>1
  <2> QED BY <1>4, <2>1, <2>2
<1>6. DatagramsHaveSockets'
  BY <1>1, <1>3 DEF IInv, DatagramsHaveSockets
<1>7. BlockedInThePass'
  BY <1>1, <1>2, <1>4 DEF BlockedInThePass, Blocked
<1>8. TypeOK'
  <2>1. position' \in 0..(Len(PoolOrder) + 1)
    BY <1>2, <1>4, PoolFacts
  <2>2. blocked' \in Inputs \cup {Control}
    BY <1>2, <1>4, PoolFacts DEF Blocked
  <2> QED BY <1>1, <1>3, <2>1, <2>2 DEF IInv, TypeOK
<1> QED BY <1>1, <1>5, <1>6, <1>7, <1>8, SameSockets DEF IInv

(* A command is read. *)
LEMMA CommandKeeps ==
  ASSUME IInv, NEW S \in SUBSET Channels, NEW p \in {"home", "away", "void"}, Command(S, p)
  PROVE  IInv'
<1>1. /\ UNCHANGED <<fd, place, selectSet, selectNfds, datagrams, deaf>>
      /\ UNCHANGED <<pass, position, blocked, sent, replaced>>
      /\ work' = S /\ goal' = p
  BY DEF Command, netVars, loopVars
<1>2. pending' \in 0..MaxPending
  BY SocketPoolAssumption DEF Command, IInv, TypeOK
<1>3. TypeOK'
  BY <1>1, <1>2 DEF IInv, TypeOK
<1>4. DatagramsHaveSockets' /\ PassIsHonest' /\ BlockedInThePass'
  BY <1>1 DEF IInv, DatagramsHaveSockets, PassIsHonest, IsSet, BlockedInThePass, Blocked
<1> QED BY <1>1, <1>3, <1>4, SameSockets DEF IInv

(* The socket of a channel is replaced: what leaves the set of select() is *)
(* its old descriptor, what enters it is one that nobody had.              *)
LEMMA ReplaceKeeps ==
  ASSUME IInv, NEW ch \in Channels, Replace(ch)
  PROVE  IInv'
<1> DEFINE removed == IF ch \in Inputs THEN {fd[ch]} ELSE {}
<1> DEFINE added == IF ch \in Inputs /\ goal # "void" THEN {NewFd} ELSE {}
<1> DEFINE n == Cardinality(Channels)
<1>1. ReplaceWith(ch, NewFd, removed, added)
  BY DEF Replace
<1>2. /\ fd \in [Elements -> Fds \cup {INVALID_SOCKET}]
      /\ place \in [Channels -> {"home", "away", "void"}]
      /\ goal \in {"home", "away", "void"} /\ selectNfds \in 0..(n + 2)
      /\ ch \in Elements /\ Inputs \cup {Control} \subseteq Elements /\ Control \notin Channels
  BY PoolFacts DEF IInv, TypeOK, Elements
<1>3. /\ fd' = [fd EXCEPT ![ch] = NewFd]
      /\ selectSet' = (selectSet \ removed) \cup added
      /\ selectNfds' = Max({selectNfds} \cup {f + 1 : f \in added})
      /\ place' = [place EXCEPT ![ch] = goal]
      /\ datagrams' = datagrams \ {ch}
      /\ deaf' = deaf \ {ch}
      /\ replaced' = replaced \cup {ch}
      /\ work' = work \ {ch}
      /\ UNCHANGED <<pass, position, blocked, pending, sent, goal>>
  BY <1>1 DEF ReplaceWith, loopVars
<1>4. /\ goal = "void" => NewFd = INVALID_SOCKET
      /\ goal # "void" => NewFd \in Fds /\ NewFd \notin Open
  BY <1>2, LowestFreeIsFree DEF NewFd
<1>5. /\ fd' \in [Elements -> Fds \cup {INVALID_SOCKET}]
      /\ fd'[ch] = NewFd
      /\ \A e \in Elements \ {ch} : fd'[e] = fd[e]
  BY <1>2, <1>3, <1>4
<1>6. \A e \in Elements : fd[e] # INVALID_SOCKET => fd[e] \in Open
  BY <1>2 DEF Open, Range
<1>7. DistinctFds'
  <2> SUFFICES ASSUME NEW e \in Elements, NEW f \in Elements, fd'[e] = fd'[f],
                      fd'[e] # INVALID_SOCKET
               PROVE  e = f
    BY DEF DistinctFds
  <2>1. CASE e = ch \/ f = ch
    BY <1>4, <1>5, <1>6, <2>1
  <2>2. CASE e # ch /\ f # ch
    BY <1>5, <2>2 DEF IInv, DistinctFds
  <2> QED BY <2>1, <2>2
<1>8. /\ selectNfds' \in 0..(n + 2)
      /\ selectNfds' >= selectNfds
      /\ \A f \in added : f < selectNfds'
  <2>1. added \subseteq Fds
    BY <1>4
  <2> DEFINE T == {selectNfds} \cup {f + 1 : f \in added}
  <2>2. n \in Nat /\ Fds = 0..(n + 1)
    BY PoolFacts
  <2>3. n + 2 \in Nat /\ T \in SUBSET (0..(n + 2)) /\ T # {}
    BY <1>2, <2>1, <2>2
  <2>4. Max(T) \in T /\ \A y \in T : Max(T) >= y
    BY <2>3, MaxOfBounded
  <2>5. selectNfds' = Max(T)
    BY <1>3
  <2>6. \A f \in added : selectNfds' >= f + 1
    BY <2>4, <2>5
  <2>7. \A f \in added : f \in Nat
    BY <2>1, <2>2
  <2>8. selectNfds' \in 0..(n + 2) /\ selectNfds' >= selectNfds
    BY <2>3, <2>4, <2>5
  <2> QED BY <2>2, <2>6, <2>7, <2>8
<1>9. SelectSetIsOpen'
  <2>1. ASSUME NEW f \in selectSet'
        PROVE  f \in {fd'[e] : e \in Inputs \cup {Control}} /\ f # INVALID_SOCKET /\ f < selectNfds'
    <3>1. CASE f \in added
      <4>1. ch \in Inputs /\ f = fd'[ch] /\ f \in Fds
        BY <1>4, <1>5, <3>1
      <4> QED BY <1>8, <3>1, <4>1, PoolFacts
    <3>2. CASE f \in selectSet /\ f \notin removed
      <4>1. PICK e \in Inputs \cup {Control} : f = fd[e]
        BY <3>2 DEF IInv, SelectSetIsOpen
      <4>2. e # ch
        BY <1>2, <3>2, <4>1
      <4>3. f = fd'[e]
        BY <1>2, <1>5, <4>1, <4>2
      <4>4. f # INVALID_SOCKET /\ f < selectNfds
        BY <3>2 DEF IInv, SelectSetIsOpen
      <4>5. f \in Nat
        BY <3>2, PoolFacts DEF IInv, TypeOK
      <4>6. f < selectNfds'
        BY <1>2, <1>8, <4>4, <4>5, PoolFacts
      <4> QED BY <4>3, <4>4, <4>6
    <3> QED BY <1>3, <2>1, <3>1, <3>2
  <2> QED BY <2>1 DEF SelectSetIsOpen
<1>10. ListenersAreWatched'
  <2> SUFFICES ASSUME NEW c \in Inputs, c \notin deaf', fd'[c] # INVALID_SOCKET
               PROVE  fd'[c] \in selectSet'
    BY DEF ListenersAreWatched
  <2>1. CASE c = ch
    BY <1>3, <1>4, <1>5, <2>1
  <2>2. CASE c # ch
    <3>1. fd'[c] = fd[c] /\ c \notin deaf /\ c \in Elements
      BY <1>2, <1>3, <1>5, <2>2
    <3>2. fd[c] \in selectSet
      BY <3>1 DEF IInv, ListenersAreWatched
    <3>3. fd[c] \notin removed
      BY <1>2, <2>2, <3>1 DEF IInv, DistinctFds
    <3> QED BY <1>3, <3>1, <3>2, <3>3
  <2> QED BY <2>1, <2>2
<1>11. DatagramsHaveSockets'
  BY <1>2, <1>3, <1>5, PoolFacts DEF IInv, TypeOK, DatagramsHaveSockets
<1>12. PassIsHonest'
  <2> SUFFICES ASSUME NEW i \in 1..Len(PoolOrder), position > 0, i >= position,
                      PoolOrder[i] # Control, PoolOrder[i] \notin replaced', IsSet(PoolOrder[i])'
               PROVE  PoolOrder[i] \in datagrams'
    BY <1>3 DEF PassIsHonest
  <2>1. PoolOrder[i] # ch /\ PoolOrder[i] \notin replaced /\ PoolOrder[i] \in Elements
    BY <1>2, <1>3, PoolFacts
  <2>2. IsSet(PoolOrder[i])
    BY <1>3, <1>5, <2>1 DEF IsSet
  <2>3. PoolOrder[i] \in datagrams
    BY <2>1, <2>2 DEF IInv, PassIsHonest
  <2> QED BY <1>3, <2>1, <2>3
<1>13. BlockedInThePass'
  BY <1>3 DEF IInv, BlockedInThePass, Blocked
<1>14. TypeOK'
  <2>1. selectSet' \subseteq Fds
    BY <1>3, <1>4 DEF IInv, TypeOK
  <2>2. place' \in [Channels -> {"home", "away", "void"}]
    BY <1>2, <1>3
  <2>3. /\ datagrams' \subseteq Inputs /\ deaf' \subseteq Channels
        /\ replaced' \subseteq Channels /\ work' \subseteq Channels
    BY <1>3 DEF IInv, TypeOK
  <2> QED BY <1>3, <1>5, <1>8, <2>1, <2>2, <2>3 DEF IInv, TypeOK, Elements
<1> QED BY <1>7, <1>9, <1>10, <1>11, <1>12, <1>13, <1>14 DEF IInv

(* The creation of the new socket fails: its channel is no longer heard,   *)
(* and no other one.                                                       *)
LEMMA ReplaceThrowsKeeps ==
  ASSUME IInv, NEW ch \in Channels, ReplaceThrows(ch)
  PROVE  IInv'
<1>1. /\ work' = {}
      /\ selectSet' = IF ch \in Inputs THEN selectSet \ {fd[ch]} ELSE selectSet
      /\ deaf' = deaf \cup {ch}
      /\ UNCHANGED <<fd, place, selectNfds, datagrams, pass, position, blocked>>
      /\ UNCHANGED <<pending, sent, goal, replaced>>
  BY DEF ReplaceThrows, loopVars
<1>2. SelectSetIsOpen'
  BY <1>1 DEF IInv, SelectSetIsOpen
<1>3. ListenersAreWatched'
  <2> SUFFICES ASSUME NEW c \in Inputs, c \notin deaf', fd[c] # INVALID_SOCKET
               PROVE  fd[c] \in selectSet'
    BY <1>1 DEF ListenersAreWatched
  <2>1. c # ch /\ fd[c] \in selectSet
    BY <1>1 DEF IInv, ListenersAreWatched
  <2>2. fd[c] # fd[ch]
    BY <2>1, PoolFacts DEF IInv, DistinctFds, Elements
  <2> QED BY <1>1, <2>1, <2>2
<1>4. /\ DistinctFds' /\ DatagramsHaveSockets' /\ PassIsHonest' /\ BlockedInThePass'
  BY <1>1 DEF IInv, DistinctFds, DatagramsHaveSockets, PassIsHonest, IsSet, BlockedInThePass, Blocked
<1>5. TypeOK'
  BY <1>1 DEF IInv, TypeOK
<1> QED BY <1>2, <1>3, <1>4, <1>5 DEF IInv

LEMMA StutteringKeeps == IInv /\ UNCHANGED vars => IInv'
<1> SUFFICES ASSUME IInv, UNCHANGED vars PROVE IInv'
  OBVIOUS
<1> USE DEF vars, netVars, loopVars, commandVars
<1>1. SelectSetIsOpen' /\ ListenersAreWatched' /\ DistinctFds'
  BY SameSockets
<1>2. DatagramsHaveSockets' /\ PassIsHonest' /\ BlockedInThePass'
  BY DEF IInv, DatagramsHaveSockets, PassIsHonest, IsSet, BlockedInThePass, Blocked
<1>3. TypeOK'
  BY DEF IInv, TypeOK
<1> QED BY <1>1, <1>2, <1>3 DEF IInv

LEMMA NextKeeps == IInv /\ [Next]_vars => IInv'
<1> SUFFICES ASSUME IInv, [Next]_vars PROVE IInv'
  OBVIOUS
<1>1. CASE \E ch \in Channels :
             Stop(ch) \/ StopFull(ch) \/ Start(ch) \/ RedirectStart(ch) \/ RedirectStop(ch)
  <2> PICK ch \in Channels :
             Stop(ch) \/ StopFull(ch) \/ Start(ch) \/ RedirectStart(ch) \/ RedirectStop(ch)
    BY <1>1
  <2>1. {ch} \in SUBSET Channels /\ Group(ch) \in SUBSET Channels
    BY DEF Group
  <2> QED BY <2>1, CommandKeeps DEF Stop, StopFull, Start, RedirectStart, RedirectStop
<1>2. CASE Refuse
  <2>1. {} \in SUBSET Channels /\ goal \in {"home", "away", "void"}
    BY DEF IInv, TypeOK
  <2> QED BY <1>2, <2>1, CommandKeeps DEF Refuse
<1>3. CASE \E ch \in Channels : Replace(ch) \/ ReplaceThrows(ch)
  BY <1>3, ReplaceKeeps, ReplaceThrowsKeeps
<1>4. CASE BeginPass \/ EndPass \/ UnknownCommand
  BY <1>4, PassKeeps
<1>5. CASE SkipElement \/ ReceiveData \/ Unblock \/ ControlDone
  BY <1>5, ElementKeeps
<1>6. CASE (\E ch \in Inputs : DatagramArrives(ch)) \/ CommandArrives
  BY <1>6, EnvironmentKeeps
<1>7. CASE UNCHANGED vars
  BY <1>7, StutteringKeeps
<1> QED BY <1>1, <1>2, <1>3, <1>4, <1>5, <1>6, <1>7 DEF Next, ImportStep

-----------------------------------------------------------------------------
(* The inductive invariant always holds. *)
THEOREM InductiveInvariant == Spec => []IInv
  BY InitHolds, NextKeeps, PTL DEF Spec

(* Descriptors, sets and the position keep their types. *)
THEOREM TypeCorrect == Spec => []TypeOK
<1>1. IInv => TypeOK
  BY DEF IInv
<1> QED BY InductiveInvariant, <1>1, PTL

(* Whatever is stopped, started, redirected or fails to be, the set of     *)
(* select() holds no closed descriptor and the bound covers it.            *)
THEOREM SelectSetIsAlwaysOpen == Spec => []SelectSetIsOpen
<1>1. IInv => SelectSetIsOpen
  BY DEF IInv
<1> QED BY InductiveInvariant, <1>1, PTL

(* Every channel with a socket is watched, unless its own last replacement *)
(* failed.                                                                 *)
THEOREM ListenersAreAlwaysWatched == Spec => []ListenersAreWatched
<1>1. IInv => ListenersAreWatched
  BY DEF IInv
<1> QED BY InductiveInvariant, <1>1, PTL

(* receive() blocks at most on a socket that the same pass has put there.  *)
THEOREM BlocksAtMostOnReplaced == Spec => []BlocksOnlyIfReplaced
<1>1. IInv => BlocksOnlyIfReplaced
  BY DEF IInv, BlockedInThePass, BlocksOnlyIfReplaced
<1> QED BY InductiveInvariant, <1>1, PTL
=============================================================================
