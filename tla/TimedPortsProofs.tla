--------------------------- MODULE TimedPortsProofs ---------------------------
(***************************************************************************)
(* Proofs about what depends on the simulation time: the validity of input *)
(* messages (InputValidity) and the periodic output ports (PeriodicPorts), *)
(* for every set of ports, messages, periods, durations and steps of time. *)
(*                                                                         *)
(* Validity.  What makes "valid" mean "fresh" relates the recorded arrival *)
(* date to the true age of the data (DatesTellAge): a recorded date is     *)
(* never in the future, although the clock goes back to zero, so that the  *)
(* unsigned subtraction never wraps.                                       *)
(*                                                                         *)
(* Periodic ports.  That the slots are served is not inductive: a port     *)
(* that is passed over must have emitted before, in the same slot.  The    *)
(* inductive invariant relates the date of a port to its last emission     *)
(* (DateFollows), which only writes and resets may put back, and keeps     *)
(* account of the ports that the current ims_send_all has passed           *)
(* (PassedAreServed).                                                      *)
(***************************************************************************)
EXTENDS InputValidity, PeriodicPorts, SequenceTheorems, TLAPS

(* The recorded dates tell the true age of the data. *)
DatesTellAge ==
  \A m \in Readable :
    /\ age[m] <= timeUs
    /\ dataTime[m] # INVALID_DATE =>
         dataTime[m] <= timeUs /\ age[m] = timeUs - dataTime[m]

ValidityInv == ValidityTypeOK /\ DatesTellAge

(* What read_sampling calls valid, without the other answers. *)
IsValid(m) ==
  /\ m \in hasData
  /\ \/ m \in Nad
     \/ duration[m] = 0
     \/ dataTime[m] # INVALID_DATE /\ Minus(timeUs, dataTime[m]) < duration[m]

LEMMA ReadIsValid == ASSUME NEW m \in Readable PROVE Read(m) = "valid" <=> IsValid(m)
<1>1. CASE m \in Nad
  BY <1>1 DEF Read, ReadNad, IsValid, Timed
<1>2. CASE m \in Timed \cap hasData
  BY <1>2 DEF Read, InTime, IsValid, Timed
<1>3. CASE m \in Timed \ hasData
  BY <1>3 DEF Read, IsValid, Timed
<1> QED
  BY <1>1, <1>2, <1>3 DEF Timed

LEMMA MaxTimeIsNat == MaxTime \in Nat /\ Steps \subseteq Nat /\ Durations \subseteq Nat
  BY InputValidityAssumption, SimulationTimeAssumption

LEMMA InvalidIsNoTime == INVALID_DATE \in Nat /\ INVALID_DATE \notin 0..MaxTime
  BY MaxTimeIsNat DEF INVALID_DATE, TimeModulus

(* The subtraction of an earlier date does not wrap. *)
LEMMA NoWrap ==
  ASSUME NEW a \in 0..MaxTime, NEW b \in 0..a
  PROVE  Minus(a, b) = a - b
<1>1. ASSUME NEW n \in Nat, n > 0, NEW x \in 0..(n-1) PROVE x % n = x
  BY <1>1, SMT
<1>2. TimeModulus \in Nat /\ TimeModulus > 0 /\ a - b \in 0..(TimeModulus - 1)
  BY MaxTimeIsNat DEF TimeModulus
<1> QED
  BY <1>1, <1>2 DEF Minus

LEMMA ValidityInitHolds == ValidityInit => ValidityInv
  BY MaxTimeIsNat DEF ValidityInit, ValidityInv, ValidityTypeOK, DatesTellAge, NeverReceived, Timed

-----------------------------------------------------------------------------
(* Every arrival is one of messages that can be read. *)
LEMMA ReceivesArrive ==
  ASSUME NEW p \in InputPorts, ReceiveBus(p) \/ ReceiveWired(p) \/ ReceiveNad(p)
  PROVE  \E S \in SUBSET Readable : Arrive(S)
<1>1. Range(MessageList[p]) \subseteq Messages
  BY DEF Messages
<1>2. CASE ReceiveBus(p)
  BY <1>1, <1>2 DEF ReceiveBus, Readable
<1>3. CASE ReceiveWired(p) \/ ReceiveNad(p)
  <2>1. Range(MessageList[p]) \cap Queuing = {}
    BY <1>3, InputValidityAssumption DEF ReceiveWired, ReceiveNad
  <2> QED
    BY <1>1, <1>3, <2>1 DEF ReceiveWired, ReceiveNad, Readable
<1> QED
  BY <1>2, <1>3

LEMMA ValidityNextKeeps == ValidityInv /\ [ValidityNext]_validityVars => ValidityInv'
<1> SUFFICES ASSUME ValidityInv, [ValidityNext]_validityVars PROVE ValidityInv'
  OBVIOUS
<1> USE MaxTimeIsNat
<1>1. ASSUME NEW m \in Readable, SetValidityDuration(m) PROVE ValidityInv'
  BY <1>1 DEF SetValidityDuration, ValidityInv, ValidityTypeOK, DatesTellAge
<1>2. ASSUME NEW S, InvalidateMessages(S) PROVE ValidityInv'
  <2>1. ValidityTypeOK'
    BY <1>2 DEF InvalidateMessages, ValidityInv, ValidityTypeOK
  <2>2. DatesTellAge'
    BY <1>2 DEF InvalidateMessages, ValidityInv, ValidityTypeOK, DatesTellAge
  <2> QED
    BY <2>1, <2>2 DEF ValidityInv
<1>3. ASSUME NEW m \in Readable, Reset(m) PROVE ValidityInv'
  <2>1. ValidityTypeOK'
    BY <1>3 DEF Reset, ValidityInv, ValidityTypeOK
  <2>2. DatesTellAge'
    BY <1>3 DEF Reset, ValidityInv, ValidityTypeOK, DatesTellAge, NeverReceived
  <2> QED
    BY <2>1, <2>2 DEF ValidityInv
<1>4. ASSUME NEW S \in SUBSET Readable, Arrive(S) PROVE ValidityInv'
  <2>1. ValidityTypeOK'
    BY <1>4 DEF Arrive, ValidityInv, ValidityTypeOK
  <2>2. DatesTellAge'
    BY <1>4 DEF Arrive, ValidityInv, ValidityTypeOK, DatesTellAge
  <2> QED
    BY <2>1, <2>2 DEF ValidityInv
<1>5. CASE ResetAllInputs
  BY <1>5 DEF ResetAllInputs, ValidityInv, ValidityTypeOK, DatesTellAge, NeverReceived
<1>6. ASSUME NEW d \in Steps, ProgressInputs(d) PROVE ValidityInv'
  <2>1. d \in Nat
    BY MaxTimeIsNat
  <2>2. DatesTellAge'
    <3> SUFFICES ASSUME NEW m \in Readable
                 PROVE  /\ age'[m] <= timeUs'
                        /\ dataTime'[m] # INVALID_DATE =>
                             dataTime'[m] <= timeUs' /\ age'[m] = timeUs' - dataTime'[m]
      BY DEF DatesTellAge
    <3>1. /\ timeUs \in 0..MaxTime /\ dataTime[m] \in 0..MaxTime \cup {INVALID_DATE}
          /\ age[m] \in 0..MaxTime \cup {-1}
          /\ age[m] <= timeUs
          /\ dataTime[m] # INVALID_DATE =>
               dataTime[m] <= timeUs /\ age[m] = timeUs - dataTime[m]
      BY DEF ValidityInv, ValidityTypeOK, DatesTellAge, NeverReceived
    <3>2. /\ timeUs' = timeUs + d /\ dataTime' = dataTime
          /\ age'[m] = IF age[m] = -1 THEN -1 ELSE age[m] + d
      BY <1>6 DEF ProgressInputs, Elapse, NeverReceived
    <3>3. dataTime[m] # INVALID_DATE => age[m] # -1
      BY <3>1
    <3> QED
      BY <2>1, <3>1, <3>2, <3>3
  <2>3. ValidityTypeOK'
    <3>1. timeUs' \in 0..MaxTime
      BY <1>6, <2>1 DEF ProgressInputs, Elapse, ValidityInv, ValidityTypeOK
    <3>2. \A m \in Readable : age[m] # NeverReceived => age[m] + d \in 0..MaxTime
      BY <1>6, <2>1 DEF ProgressInputs, Elapse, ValidityInv, ValidityTypeOK, DatesTellAge
    <3> QED
      BY <1>6, <3>1, <3>2 DEF ProgressInputs, Elapse, ValidityInv, ValidityTypeOK
  <2> QED
    BY <2>2, <2>3 DEF ValidityInv
<1>7. CASE UNCHANGED validityVars
  BY <1>7 DEF validityVars, ValidityInv, ValidityTypeOK, DatesTellAge
<1> QED
  BY <1>1, <1>2, <1>3, <1>4, <1>5, <1>6, <1>7, ReceivesArrive
  DEF ValidityNext, Invalidate, InvalidateAll, Timed

LEMMA InvImpliesFresh == ValidityInv => ValidMeansFresh
<1> SUFFICES ASSUME ValidityInv, NEW m \in Timed, Read(m) = "valid", duration[m] # 0
             PROVE  age[m] \in 0..(duration[m] - 1)
  BY DEF ValidMeansFresh
<1>0. m \in Readable /\ m \notin Nad
  BY DEF Timed
<1>1. dataTime[m] # INVALID_DATE /\ Minus(timeUs, dataTime[m]) < duration[m]
  BY <1>0, ReadIsValid DEF IsValid
<1>2. /\ dataTime[m] <= timeUs /\ age[m] = timeUs - dataTime[m]
      /\ timeUs \in 0..MaxTime /\ dataTime[m] \in 0..MaxTime /\ duration[m] \in Nat
  BY <1>0, <1>1, MaxTimeIsNat DEF ValidityInv, ValidityTypeOK, DatesTellAge
<1>3. Minus(timeUs, dataTime[m]) = timeUs - dataTime[m]
  BY <1>2, NoWrap, MaxTimeIsNat
<1> QED
  BY <1>1, <1>2, <1>3, MaxTimeIsNat

(* Type correctness. *)
THEOREM ValidityTypeCorrect == ValiditySpec => []ValidityTypeOK
<1>1. ValidityInv => ValidityTypeOK
  BY DEF ValidityInv
<1> QED
  BY ValidityInitHolds, ValidityNextKeeps, <1>1, PTL DEF ValiditySpec

(* A message read as valid under a limited validity arrived less than its  *)
(* validity duration ago, whatever the application does to the clock, to   *)
(* this message and to the others.                                         *)
THEOREM ValidIsAlwaysFresh == ValiditySpec => []ValidMeansFresh
  BY ValidityInitHolds, ValidityNextKeeps, InvImpliesFresh, PTL DEF ValiditySpec

-----------------------------------------------------------------------------
(* What a step other than an arrival may do to the validity of m. *)
TurnsValidRightly(m) ==
  Read(m) # "valid" /\ Read(m)' = "valid"
    => age'[m] = 0 \/ duration'[m] # duration[m]

LEMMA TurnsValid ==
  ASSUME NEW m \in Readable
  PROVE  TurnsValidRightly(m)
           <=> (~IsValid(m) /\ IsValid(m)' => age'[m] = 0 \/ duration'[m] # duration[m])
<1>1. Read(m)' = "valid" <=> IsValid(m)'
  <2>1. CASE m \in Nad
    BY <2>1 DEF Read, ReadNad, IsValid, Timed
  <2>2. CASE m \in Timed \cap hasData'
    BY <2>2 DEF Read, InTime, IsValid, Timed
  <2>3. CASE m \in Timed \ hasData'
    BY <2>3 DEF Read, IsValid, Timed
  <2> QED
    BY <2>1, <2>2, <2>3 DEF Timed
<1> QED
  BY <1>1, ReadIsValid DEF TurnsValidRightly

LEMMA StepTurnsValidRightly ==
  ASSUME ValidityInv, [ValidityNext]_validityVars, NEW m \in Readable
  PROVE  ~IsValid(m) /\ IsValid(m)' => age'[m] = 0 \/ duration'[m] # duration[m]
<1> SUFFICES ASSUME ~IsValid(m), IsValid(m)', duration'[m] = duration[m]
             PROVE  age'[m] = 0
  OBVIOUS
<1>0. /\ timeUs \in 0..MaxTime /\ duration[m] \in Nat
      /\ dataTime[m] # INVALID_DATE => dataTime[m] \in 0..timeUs
  <2>1. timeUs \in 0..MaxTime /\ duration[m] \in Durations
        /\ dataTime[m] \in 0..MaxTime \cup {INVALID_DATE}
    BY DEF ValidityInv, ValidityTypeOK
  <2>2. dataTime[m] # INVALID_DATE => dataTime[m] <= timeUs
    BY DEF ValidityInv, DatesTellAge
  <2>3. duration[m] \in Nat
    BY <2>1, MaxTimeIsNat
  <2> QED
    BY <2>1, <2>2, <2>3, MaxTimeIsNat
<1>1. ASSUME NEW k \in Readable, SetValidityDuration(k) PROVE FALSE
  BY <1>1 DEF SetValidityDuration, IsValid
<1>2. ASSUME NEW S, InvalidateMessages(S) PROVE FALSE
  BY <1>2 DEF InvalidateMessages, IsValid
<1>3. ASSUME NEW k \in Readable, Reset(k) PROVE FALSE
  BY <1>3 DEF Reset, IsValid, ValidityInv, ValidityTypeOK
<1>4. ASSUME NEW S, Arrive(S) PROVE age'[m] = 0
  BY <1>4 DEF Arrive, IsValid
<1>5. CASE ResetAllInputs
  BY <1>5 DEF ResetAllInputs, IsValid
<1>6. ASSUME NEW d \in Steps, ProgressInputs(d) PROVE FALSE
  <2>1. /\ timeUs' = timeUs + d /\ timeUs + d <= MaxTime
        /\ hasData' = hasData /\ dataTime' = dataTime /\ duration' = duration
    BY <1>6 DEF ProgressInputs, Elapse
  <2>2. dataTime[m] # INVALID_DATE /\ Minus(timeUs', dataTime[m]) < duration[m]
    BY <2>1 DEF IsValid, Minus
  <2>3. ~(Minus(timeUs, dataTime[m]) < duration[m])
    BY <2>1, <2>2 DEF IsValid
  <2>4. dataTime[m] \in 0..timeUs /\ timeUs \in 0..MaxTime
    BY <1>0, <2>2
  <2>5. timeUs' \in 0..MaxTime /\ dataTime[m] \in 0..timeUs' /\ d \in Nat
    BY <2>1, <2>4, MaxTimeIsNat
  <2>6. Minus(timeUs, dataTime[m]) = timeUs - dataTime[m]
    BY <2>4, NoWrap
  <2>7. Minus(timeUs', dataTime[m]) = timeUs' - dataTime[m]
    BY <2>5, NoWrap
  <2>8. /\ timeUs \in Int /\ d \in Nat /\ dataTime[m] \in Int /\ duration[m] \in Int
        /\ ~(timeUs - dataTime[m] < duration[m])
        /\ timeUs + d - dataTime[m] < duration[m]
    BY <1>0, <2>1, <2>2, <2>3, <2>4, <2>5, <2>6, <2>7, MaxTimeIsNat
  <2> QED
    BY <2>8
<1>7. CASE UNCHANGED validityVars
  BY <1>7 DEF validityVars, IsValid
<1> QED
  BY <1>1, <1>2, <1>3, <1>4, <1>5, <1>6, <1>7, ReceivesArrive
  DEF ValidityNext, Invalidate, InvalidateAll, Timed

(* A message turns valid only by an arrival or by a change of its own      *)
(* duration.                                                               *)
THEOREM ValidityIsNeverSpontaneous == ValiditySpec => NoSpontaneousValidity
<1>1. ValidityInv /\ [ValidityNext]_validityVars =>
        [\A m \in Readable :
           Read(m) # "valid" /\ Read(m)' = "valid"
             => age'[m] = 0 \/ duration'[m] # duration[m]]_validityVars
  BY StepTurnsValidRightly, TurnsValid DEF TurnsValidRightly
<1> QED
  BY ValidityInitHolds, ValidityNextKeeps, <1>1, PTL DEF ValiditySpec, NoSpontaneousValidity

-----------------------------------------------------------------------------
Served(p) == IF Period[p] = 0 THEN sentAt[p] = timeUs ELSE InSlotOf(p, sentAt[p])

(* A date in the future is the end of the slot of the last emission. *)
DateFollows ==
  \A p \in Ports :
    Period[p] > 0 /\ nextDate[p] > timeUs =>
      /\ sentAt[p] # Never
      /\ sentAt[p] <= timeUs
      /\ nextDate[p] = (sentAt[p] \div Period[p] + 1) * Period[p]

PassedAreServed == \A i \in DOMAIN PortOrder : i < position => Served(PortOrder[i])

IInv == TypeOK /\ DateFollows /\ PassedAreServed

-----------------------------------------------------------------------------
(* Two times with no end of a slot between them are in the same slot. *)
LEMMA SameSlot ==
  ASSUME NEW n \in Nat, n > 0, NEW s \in Nat, NEW t \in Nat,
         s <= t, t < (s \div n + 1) * n
  PROVE  s \div n = t \div n
<1> DEFINE q == s \div n
<1> DEFINE r == t \div n
<1>1. q \in Nat /\ r \in Nat
  OBVIOUS
<1>2. n * q <= s /\ s < n * q + n /\ n * r <= t /\ t < n * r + n
  OBVIOUS
<1> HIDE DEF q, r
<1>3. t < n * q + n
  BY <1>1 DEF q
<1>4. n * r < n * (q + 1) /\ n * q < n * (r + 1)
  BY <1>1, <1>2, <1>3
<1>5. r < q + 1
  BY <1>1, <1>4
<1>6. q < r + 1
  BY <1>1, <1>4
<1> QED BY <1>1, <1>5, <1>6 DEF q, r

(* The end of a slot is a date. *)
LEMMA EndOfSlot ==
  ASSUME NEW n \in Nat, n > 0, NEW t \in Nat
  PROVE  (t \div n + 1) * n \in Nat
<1>1. t \div n \in Nat
  OBVIOUS
<1> QED BY <1>1

LEMMA PortFacts ==
  /\ Len(PortOrder) \in Nat
  /\ DOMAIN PortOrder = 1..Len(PortOrder)
  /\ \A i \in 1..Len(PortOrder) : PortOrder[i] \in Ports
  /\ \A p \in Ports : \E i \in 1..Len(PortOrder) : PortOrder[i] = p
  /\ \A p \in Ports : Period[p] \in Nat
<1>1. PortOrder \in Seq(Ports) /\ Period \in [Ports -> Nat]
  BY PeriodicPortsAssumption, SimulationTimeAssumption
<1>2. /\ Len(PortOrder) \in Nat
      /\ DOMAIN PortOrder = 1..Len(PortOrder)
      /\ \A i \in 1..Len(PortOrder) : PortOrder[i] \in Ports
  BY <1>1, LenProperties, ElementOfSeq
<1>3. \A p \in Ports : \E i \in 1..Len(PortOrder) : PortOrder[i] = p
  BY <1>2 DEF Ports, Range
<1> QED BY <1>1, <1>2, <1>3

-----------------------------------------------------------------------------
(* A date that is put back to zero asks for an emission. *)
LEMMA DatesMayFall ==
  ASSUME DateFollows, timeUs \in 0..MaxTime, MaxTime \in Nat, UNCHANGED <<timeUs, sentAt>>,
         \A q \in Ports : nextDate'[q] \in {nextDate[q], 0}
  PROVE  DateFollows'
<1> SUFFICES ASSUME NEW p \in Ports, Period[p] > 0, nextDate'[p] > timeUs
             PROVE  /\ sentAt[p] # Never
                    /\ sentAt[p] <= timeUs
                    /\ nextDate'[p] = (sentAt[p] \div Period[p] + 1) * Period[p]
  BY DEF DateFollows
<1>1. nextDate'[p] = nextDate[p]
  <2>1. nextDate'[p] # 0
    OBVIOUS
  <2> QED BY <2>1
<1> QED BY <1>1 DEF DateFollows

LEMMA InitHolds == Init => IInv
<1> SUFFICES ASSUME Init PROVE IInv
  OBVIOUS
<1>1. TypeOK
  BY PortFacts, PeriodicPortsAssumption, SimulationTimeAssumption DEF Init, TypeOK, Never
<1>2. DateFollows
  BY DEF Init, DateFollows
<1>3. PassedAreServed
  BY PortFacts DEF Init, PassedAreServed
<1> QED BY <1>1, <1>2, <1>3 DEF IInv

(* A write or a reset of a message, as far as the proofs are concerned. *)
Sets(p, v) ==
  /\ Put(p, v)
  /\ nextDate' = nextDate \/ nextDate' = [nextDate EXCEPT ![p] = 0]

(* The calls of the application between two ims_send_all. *)
LEMMA ApplicationKeeps ==
  ASSUME IInv,
         \/ \E p \in Ports, v \in Values : WriteDiscrete(p, v) \/ WriteOther(p, v)
         \/ \E p \in Ports : ResetDiscrete(p) \/ ResetOther(p)
         \/ ResetAll
         \/ \E d \in Steps : Progress(d)
  PROVE  IInv'
<1>1. /\ timeUs \in 0..MaxTime /\ MaxTime \in Nat
      /\ nextDate \in [Ports -> Nat] /\ value \in [Ports -> Values]
      /\ position \in 0..(Len(PortOrder) + 1)
      /\ sentValue \in [Ports -> Values] /\ sentAt \in [Ports -> 0..MaxTime \cup {Never}]
      /\ DateFollows
  BY PeriodicPortsAssumption, SimulationTimeAssumption DEF IInv, TypeOK
<1>0. \/ \E p \in Ports, v \in Values : Sets(p, v)
      \/ ResetAll
      \/ \E d \in Steps : Progress(d)
  BY PeriodicPortsAssumption, SimulationTimeAssumption
  DEF WriteDiscrete, WriteOther, ResetDiscrete, ResetOther, MarkModified, Sets
<1>2. position = 0 /\ position' = 0
  BY <1>0, <1>1, PortFacts DEF Sets, Put, ResetAll, Progress, Elapse, Sending
<1>3. PassedAreServed'
  BY <1>2, PortFacts DEF PassedAreServed
<1>4. CASE \E p \in Ports, v \in Values : Sets(p, v)
  <2> PICK p \in Ports, v \in Values : Sets(p, v)
    BY <1>4
  <2>1. nextDate' \in [Ports -> Nat] /\ \A q \in Ports : nextDate'[q] \in {nextDate[q], 0}
    <3>1. nextDate' = nextDate \/ nextDate' = [nextDate EXCEPT ![p] = 0]
      BY DEF Sets
    <3> QED BY <1>1, <3>1
  <2>2. timeUs' = timeUs /\ sentAt' = sentAt /\ sentValue' = sentValue
    BY DEF Sets, Put
  <2>3. value' \in [Ports -> Values]
    BY <1>1 DEF Sets, Put
  <2>4. DateFollows'
    BY <1>1, <2>1, <2>2, DatesMayFall
  <2> QED BY <1>1, <1>2, <1>3, <2>1, <2>2, <2>3, <2>4, PortFacts DEF IInv, TypeOK
<1>6. CASE ResetAll
  <2>1. DateFollows'
    BY <1>6 DEF ResetAll, DateFollows
  <2>2. TypeOK'
    BY <1>1, <1>2, <1>6, PortFacts, PeriodicPortsAssumption, SimulationTimeAssumption DEF ResetAll, TypeOK
  <2> QED BY <1>3, <2>1, <2>2 DEF IInv
<1>7. CASE \E d \in Steps : Progress(d)
  <2> PICK d \in Steps : Progress(d)
    BY <1>7
  <2>1. d \in Nat /\ timeUs' = timeUs + d /\ timeUs' \in 0..MaxTime
    BY <1>1, PeriodicPortsAssumption, SimulationTimeAssumption DEF Progress, Elapse
  <2>2. UNCHANGED <<nextDate, value, sentValue, sentAt>>
    BY DEF Progress, Elapse
  <2>3. DateFollows'
    <3> SUFFICES ASSUME NEW p \in Ports, Period[p] > 0, nextDate[p] > timeUs'
                 PROVE  /\ sentAt[p] # Never
                        /\ sentAt[p] <= timeUs'
                        /\ nextDate[p] = (sentAt[p] \div Period[p] + 1) * Period[p]
      BY <2>2 DEF DateFollows
    <3>1. nextDate[p] > timeUs
      BY <1>1, <2>1
    <3>2. /\ sentAt[p] # Never
          /\ sentAt[p] <= timeUs
          /\ nextDate[p] = (sentAt[p] \div Period[p] + 1) * Period[p]
      BY <1>1, <3>1 DEF DateFollows
    <3>3. sentAt[p] \in Int
      BY <1>1 DEF Never
    <3> QED BY <1>1, <2>1, <3>2, <3>3
  <2> QED BY <1>1, <1>2, <1>3, <2>1, <2>2, <2>3, PortFacts DEF IInv, TypeOK
<1> QED BY <1>0, <1>4, <1>6, <1>7

(* A port that is not due has emitted in the current slot. *)
LEMMA NotDueIsServed ==
  ASSUME IInv, NEW p \in Ports, ~Due(p)
  PROVE  Served(p)
<1>1. Period[p] \in Nat /\ Period[p] > 0 /\ nextDate[p] > timeUs
  BY PortFacts DEF Due, IInv, TypeOK
<1>2. /\ sentAt[p] # Never
      /\ sentAt[p] <= timeUs
      /\ nextDate[p] = (sentAt[p] \div Period[p] + 1) * Period[p]
  BY <1>1 DEF IInv, DateFollows
<1>3. sentAt[p] \in Nat /\ timeUs \in Nat
  BY <1>2, PeriodicPortsAssumption, SimulationTimeAssumption DEF IInv, TypeOK
<1>4. sentAt[p] \div Period[p] = timeUs \div Period[p]
  BY <1>1, <1>2, <1>3, SameSlot
<1> QED BY <1>1, <1>2, <1>4 DEF Served, InSlotOf

(* The loop of ims_send_all: a port is passed when it has been served. *)
LEMMA SendAllKeeps ==
  ASSUME IInv,
         BeginSendAll \/ SkipPort \/ SendPort \/ SendThrows \/ EndSendAll
  PROVE  IInv'
<1>1. /\ timeUs \in 0..MaxTime /\ timeUs \in Nat
      /\ nextDate \in [Ports -> Nat] /\ value \in [Ports -> Values]
      /\ position \in 0..(Len(PortOrder) + 1)
      /\ sentValue \in [Ports -> Values] /\ sentAt \in [Ports -> 0..MaxTime \cup {Never}]
      /\ DateFollows /\ PassedAreServed
  BY PeriodicPortsAssumption, SimulationTimeAssumption DEF IInv, TypeOK
<1>2. timeUs' = timeUs /\ value' = value
  BY DEF BeginSendAll, SkipPort, SendPort, SendThrows, EndSendAll
<1>3. CASE BeginSendAll \/ SendThrows \/ EndSendAll
  <2>1. UNCHANGED <<nextDate, sentValue, sentAt>> /\ position' \in {0, 1}
    BY <1>3 DEF BeginSendAll, SendThrows, EndSendAll
  <2>2. DateFollows'
    BY <1>1, <1>2, <2>1 DEF DateFollows
  <2>3. PassedAreServed'
    BY <2>1, PortFacts DEF PassedAreServed
  <2>4. TypeOK'
    BY <1>1, <1>2, <2>1, PortFacts DEF TypeOK
  <2> QED BY <2>2, <2>3, <2>4 DEF IInv
<1>4. ASSUME AtPort
      PROVE  /\ position \in 1..Len(PortOrder)
             /\ Port \in Ports
             /\ position + 1 \in 0..(Len(PortOrder) + 1)
             /\ \A i \in 1..Len(PortOrder) : i < position + 1 => i < position \/ i = position
  BY <1>4, PortFacts DEF AtPort, Port
<1>5. CASE SkipPort
  <2>1. AtPort /\ ~Due(Port) /\ position' = position + 1
        /\ UNCHANGED <<nextDate, sentValue, sentAt>>
    BY <1>5 DEF SkipPort
  <2>2. DateFollows'
    BY <1>1, <1>2, <2>1 DEF DateFollows
  <2>3. \A i \in 1..Len(PortOrder) : i < position + 1 => Served(PortOrder[i])
    <3>1. Served(PortOrder[position])
      BY <1>4, <2>1, NotDueIsServed DEF Port
    <3> QED BY <1>1, <1>4, <2>1, <3>1, PortFacts DEF PassedAreServed
  <2>4. PassedAreServed'
    BY <1>2, <2>1, <2>3, PortFacts DEF PassedAreServed, Served, InSlotOf
  <2>5. TypeOK'
    BY <1>1, <1>2, <1>4, <2>1 DEF TypeOK
  <2> QED BY <2>2, <2>4, <2>5 DEF IInv
<1>6. CASE SendPort
  <2>1. /\ AtPort /\ position' = position + 1
        /\ sentValue' = [sentValue EXCEPT ![Port] = value[Port]]
        /\ sentAt' = [sentAt EXCEPT ![Port] = timeUs]
        /\ nextDate' = IF Period[Port] > 0
                       THEN [nextDate EXCEPT ![Port] = FollowingDate(Port)]
                       ELSE nextDate
    BY <1>6 DEF SendPort
  <2>2. sentAt' \in [Ports -> 0..MaxTime \cup {Never}] /\ sentAt'[Port] = timeUs
        /\ \A p \in Ports \ {Port} : sentAt'[p] = sentAt[p]
    BY <1>1, <1>4, <2>1
  <2>3. /\ nextDate' \in [Ports -> Nat]
        /\ Period[Port] > 0 => nextDate'[Port] = (timeUs \div Period[Port] + 1) * Period[Port]
        /\ \A p \in Ports \ {Port} : nextDate'[p] = nextDate[p]
    <3>1. Port \in Ports /\ Period[Port] \in Nat
      BY <1>4, <2>1, PortFacts
    <3>2. CASE Period[Port] > 0
      <4>1. FollowingDate(Port) \in Nat
        BY <1>1, <3>1, <3>2, EndOfSlot DEF FollowingDate
      <4> QED BY <1>1, <2>1, <3>1, <3>2, <4>1 DEF FollowingDate
    <3>3. CASE ~(Period[Port] > 0)
      BY <1>1, <2>1, <3>1, <3>3
    <3> QED BY <3>2, <3>3
  <2>4. DateFollows'
    <3> SUFFICES ASSUME NEW p \in Ports, Period[p] > 0, nextDate'[p] > timeUs
                 PROVE  /\ sentAt'[p] # Never
                        /\ sentAt'[p] <= timeUs
                        /\ nextDate'[p] = (sentAt'[p] \div Period[p] + 1) * Period[p]
      BY <1>2 DEF DateFollows
    <3>1. CASE p = Port
      <4>1. sentAt'[p] = timeUs /\ timeUs # Never
        BY <1>1, <2>2, <3>1 DEF Never
      <4>2. nextDate'[p] = (timeUs \div Period[p] + 1) * Period[p]
        BY <2>3, <3>1
      <4>3. timeUs <= timeUs
        BY <1>1
      <4> QED BY <4>1, <4>2, <4>3
    <3>2. CASE p # Port
      <4>1. sentAt'[p] = sentAt[p] /\ nextDate'[p] = nextDate[p]
        BY <2>2, <2>3, <3>2
      <4>2. /\ sentAt[p] # Never
            /\ sentAt[p] <= timeUs
            /\ nextDate[p] = (sentAt[p] \div Period[p] + 1) * Period[p]
        BY <1>1, <4>1 DEF DateFollows
      <4> QED BY <4>1, <4>2
    <3> QED BY <3>1, <3>2
  <2>5. \A i \in 1..Len(PortOrder) : i < position + 1 => Served(PortOrder[i])'
    <3> SUFFICES ASSUME NEW i \in 1..Len(PortOrder), i < position + 1
                 PROVE  Served(PortOrder[i])'
      OBVIOUS
    <3>1. CASE PortOrder[i] = Port
      <4>1. sentAt'[PortOrder[i]] = timeUs' /\ timeUs' # Never
        BY <1>1, <1>2, <2>2, <3>1 DEF Never
      <4> QED BY <4>1 DEF Served, InSlotOf
    <3>2. CASE PortOrder[i] # Port
      <4>1. i < position
        BY <1>4, <2>1, <3>2 DEF Port
      <4>2. Served(PortOrder[i]) /\ sentAt'[PortOrder[i]] = sentAt[PortOrder[i]]
        BY <1>1, <2>2, <3>2, <4>1, PortFacts DEF PassedAreServed
      <4> QED BY <1>2, <4>2 DEF Served, InSlotOf
    <3> QED BY <3>1, <3>2
  <2>6. PassedAreServed'
    BY <2>1, <2>5, PortFacts DEF PassedAreServed
  <2>7. TypeOK'
    <3>1. sentValue' \in [Ports -> Values]
      BY <1>1, <1>4, <2>1
    <3>2. position' \in 0..(Len(PortOrder) + 1)
      BY <1>4, <2>1
    <3> QED BY <1>1, <1>2, <2>2, <2>3, <3>1, <3>2 DEF TypeOK
  <2> QED BY <2>4, <2>6, <2>7 DEF IInv
<1> QED BY <1>3, <1>5, <1>6

LEMMA StutteringKeeps == IInv /\ UNCHANGED vars => IInv'
  BY DEF vars, IInv, TypeOK, DateFollows, PassedAreServed, Served, InSlotOf

LEMMA NextKeeps == IInv /\ [Next]_vars => IInv'
  BY ApplicationKeeps, SendAllKeeps, StutteringKeeps DEF Next

-----------------------------------------------------------------------------
(* The inductive invariant always holds. *)
THEOREM InductiveInvariant == Spec => []IInv
  BY InitHolds, NextKeeps, PTL DEF Spec

(* The dates and values keep their types: the next date always is a date   *)
(* that the clock can reach, whatever the period.                          *)
THEOREM TypeCorrect == Spec => []TypeOK
<1>1. IInv => TypeOK
  BY DEF IInv
<1> QED BY InductiveInvariant, <1>1, PTL

(* An ims_send_all that comes to its end leaves every port with an         *)
(* emission in the current slot of its period.                             *)
THEOREM EverySlotIsServed == Spec => SlotIsServed
<1>1. IInv => (EndSendAll => \A p \in Ports : Served(p))
  <2> SUFFICES ASSUME IInv, EndSendAll, NEW p \in Ports
               PROVE  Served(p)
    OBVIOUS
  <2>1. PICK i \in 1..Len(PortOrder) : PortOrder[i] = p
    BY PortFacts
  <2>2. i < position
    BY <2>1, PortFacts DEF EndSendAll, IInv, TypeOK
  <2> QED BY <2>1, <2>2, PortFacts DEF IInv, PassedAreServed
<1>2. IInv => (EndSendAll => \A p \in Ports : IF Period[p] = 0 THEN sentAt[p] = timeUs
                                                             ELSE InSlotOf(p, sentAt[p]))
  BY <1>1 DEF Served
<1> QED BY InductiveInvariant, <1>2, PTL DEF SlotIsServed
=============================================================================
