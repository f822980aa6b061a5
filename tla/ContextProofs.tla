---------------------------- MODULE ContextProofs ----------------------------
(***************************************************************************)
(* Proofs about a context: its control by the simulation server            *)
(* (SynchroControl) and its creation from the configuration (Creation),    *)
(* for every period, every set of numbers of steps and every number of     *)
(* requests, and for every configuration and network file.                 *)
(*                                                                         *)
(* Control.  None of the properties is inductive.  The steps are enough    *)
(* because the application uses them up only while it is paced by them,    *)
(* and that agrees with the state on record (Pace).  An answer is not      *)
(* early because the delay covers the request accepted last (Covered), and *)
(* not late because, with nothing to excuse it, at most one request is     *)
(* open and the delay is what that request still has to wait (Exact).      *)
(*                                                                         *)
(* Creation.  What is loaded stays sound (Sound): every name leads to a    *)
(* message of what its declaration says, every message was made by a       *)
(* declaration of its kind, and its sizes agree with each other and with   *)
(* the buffer of the port.  That the order of the declarations does not    *)
(* matter is shown through a property of the set of them (Compatible):     *)
(* accepted declarations have it, and one that has it is accepted in any   *)
(* order, by induction on the declarations loaded so far.                  *)
(***************************************************************************)
EXTENDS SynchroControl, Creation, SequenceTheorems, FiniteSetTheorems, WellFoundedInduction, TLAPS

(* The application is paced exactly in the state "step", if it can be. *)
Pace == autonomous <=> ~(runningState = "step" /\ stepByStepEnabled)

(* The answer that is awaited is not before the end of the last request. *)
Covered == timeBeforeNotify > 0 => due # <<>> /\ due[Len(due)] <= timeBeforeNotify

(* Without an excuse there is no request open, or one and its delay. *)
Exact ==
  ~excused =>
    \/ due = <<>> /\ timeBeforeNotify = 0
    \/ Len(due) = 1 /\ due[1] = timeBeforeNotify /\ timeBeforeNotify > 0

IInv == TypeOK /\ Pace /\ EnoughSteps /\ Covered /\ Exact

ToVc == {FSynchro(n) : n \in StepCounts} \cup {FState(s) : s \in States \cup {UnknownState}}
ToServer == {RSynchro(n) : n \in 0..1} \cup {RState(n) : n \in 0..2}

-----------------------------------------------------------------------------
(* What a step takes from a connection and puts on it. *)
LEMMA HeadOfRequests ==
  ASSUME NEW s \in Seq(ToVc), s # <<>>
  PROVE  /\ Tail(s) \in Seq(ToVc)
         /\ Head(s).id = "F_SYNCHRO" => Head(s).arg \in StepCounts
         /\ Head(s).id = "F_STATE" => Head(s).arg \in States \cup {UnknownState}
<1>1. Head(s) \in ToVc /\ Tail(s) \in Seq(ToVc)
  BY HeadTailProperties
<1>2. CASE \E n \in StepCounts : Head(s) = FSynchro(n)
  BY <1>1, <1>2 DEF FSynchro
<1>3. CASE \E q \in States \cup {UnknownState} : Head(s) = FState(q)
  BY <1>1, <1>3 DEF FState
<1> QED BY <1>1, <1>2, <1>3 DEF ToVc

(* The multiples of the period. *)
LEMMA Periods ==
  /\ PeriodUs \in Nat /\ PeriodUs > 0
  /\ \A n \in StepCounts : n \in Nat /\ n * PeriodUs \in Nat /\ (n > 0 <=> n * PeriodUs > 0)
<1>1. PeriodUs \in Nat /\ PeriodUs > 0 /\ StepCounts \subseteq Nat
  BY SynchroControlAssumption
<1>2. ASSUME NEW n \in StepCounts
      PROVE  n \in Nat /\ n * PeriodUs \in Nat /\ (n > 0 <=> n * PeriodUs > 0)
  <2>1. n \in Nat
    BY <1>1
  <2>2. n = 0 => n * PeriodUs = 0
    BY <1>1
  <2>3. n > 0 => n * PeriodUs >= PeriodUs
    BY <1>1, <2>1
  <2> QED BY <1>1, <2>1, <2>2, <2>3
<1> QED BY <1>1, <1>2

(* A period less to run, and a period less to wait. *)
LEMMA OnePeriodLess ==
  ASSUME NEW p \in Nat, NEW r \in Nat, NEW t \in Nat, NEW u \in Nat, NEW w \in Nat,
         u >= t - 1, (r + t) * p >= w
  PROVE  (r + u) * p >= IF w > p THEN w - p ELSE 0
<1>1. PICK m \in Nat : u = (t - 1) + m
  <2>1. u - (t - 1) \in Nat /\ u = (t - 1) + (u - (t - 1))
    OBVIOUS
  <2> QED BY <2>1
<1>2. m * p \in Nat /\ (r + t) * p \in Nat /\ (r + u) * p \in Nat
  OBVIOUS
<1>3. (r + u) * p = (r + t) * p - p + m * p
  BY <1>1
<1> QED BY <1>2, <1>3

(* The time that goes by is taken from every open request. *)
LEMMA ElapseType ==
  ASSUME due \in Seq(Nat), NEW d \in Nat
  PROVE  /\ Elapse(d) \in Seq(Nat)
         /\ Len(Elapse(d)) = Len(due)
         /\ \A i \in 1..Len(due) : Elapse(d)[i] = IF due[i] > d THEN due[i] - d ELSE 0
         /\ due # <<>> => Len(due) >= 1 /\ SubSeq(Elapse(d), 1, Len(due) - 1) \in Seq(Nat)
<1>1. Len(due) \in Nat /\ DOMAIN due = 1..Len(due) /\ \A i \in 1..Len(due) : due[i] \in Nat
  BY ElementOfSeq, LenProperties
<1>2. Elapse(d) = [i \in 1..Len(due) |-> IF due[i] > d THEN due[i] - d ELSE 0]
  BY <1>1 DEF Elapse
<1>3. \A i \in 1..Len(due) : (IF due[i] > d THEN due[i] - d ELSE 0) \in Nat
  BY <1>1
<1>4. Elapse(d) \in Seq(Nat) /\ Len(Elapse(d)) = Len(due)
  BY <1>1, <1>2, <1>3
<1>5. due # <<>> => Len(due) >= 1
  BY <1>1, EmptySeq
<1>6. ASSUME due # <<>>
      PROVE  SubSeq(Elapse(d), 1, Len(due) - 1) \in Seq(Nat)
  <2>1. Len(due) - 1 \in Int /\ 1 \in Int
    BY <1>1
  <2>2. \A i \in 1..(Len(due) - 1) : Elapse(d)[i] \in Nat
    BY <1>1, <1>2, <1>3
  <2> QED BY <2>1, <2>2, SubSeqProperties
<1> QED BY <1>2, <1>4, <1>5, <1>6

-----------------------------------------------------------------------------
LEMMA InitHolds == Init => IInv
<1> SUFFICES ASSUME Init PROVE IInv
  OBVIOUS
<1>1. TypeOK
  <2>1. toVc \in Seq(ToVc) /\ toServer \in Seq(ToServer) /\ due \in Seq(Nat)
    BY EmptySeq DEF Init
  <2>2. requests \in 0..MaxRequests
    BY SynchroControlAssumption DEF Init
  <2> QED BY <2>1, <2>2 DEF Init, TypeOK, ToVc, ToServer, States
<1>2. Pace /\ Covered /\ Exact
  BY DEF Init, Pace, Covered, Exact
<1>3. EnoughSteps
  BY SynchroControlAssumption DEF Init, EnoughSteps
<1> QED BY <1>1, <1>2, <1>3 DEF IInv

(* The server's steps: they only concern the connections. *)
LEMMA ServerKeeps ==
  ASSUME IInv,
         \/ \E s \in States \cup {UnknownState} : AskState(s)
         \/ \E n \in StepCounts : AskSteps(n)
         \/ ServerReceive
  PROVE  IInv'
<1> USE DEF IInv
<1>1. UNCHANGED <<contextVars, todo, history>>
  BY DEF AskState, AskSteps, ServerReceive
<1>2. Pace' /\ EnoughSteps' /\ Covered' /\ Exact'
  BY <1>1 DEF Pace, EnoughSteps, Covered, Exact, contextVars, history
<1>3. toVc \in Seq(ToVc) /\ toServer \in Seq(ToServer) /\ requests \in 0..MaxRequests
      /\ waiting \in BOOLEAN
  BY DEF TypeOK, ToVc, ToServer
<1>4. /\ stepByStepEnabled' \in BOOLEAN /\ runningState' \in States
      /\ autonomous' \in BOOLEAN /\ stepsRequested' \in StepCounts \cup {0}
      /\ timeBeforeNotify' \in Nat /\ todo' \in Nat /\ due' \in Seq(Nat)
      /\ excused' \in BOOLEAN
  BY <1>1 DEF TypeOK, contextVars, history
<1>5. /\ toVc' \in Seq(ToVc) /\ toServer' \in Seq(ToServer)
      /\ requests' \in 0..MaxRequests /\ waiting' \in BOOLEAN
  <2>1. CASE \E s \in States \cup {UnknownState} : AskState(s)
    <3> PICK s \in States \cup {UnknownState} : AskState(s)
      BY <2>1
    <3>1. FState(s) \in ToVc
      BY DEF ToVc
    <3>2. toVc' \in Seq(ToVc)
      BY <1>3, <3>1, AppendProperties DEF AskState
    <3> QED BY <1>3, <3>2, SynchroControlAssumption DEF AskState
  <2>2. CASE \E n \in StepCounts : AskSteps(n)
    <3> PICK n \in StepCounts : AskSteps(n)
      BY <2>2
    <3>1. FSynchro(n) \in ToVc
      BY DEF ToVc
    <3>2. toVc' \in Seq(ToVc)
      BY <1>3, <3>1, AppendProperties DEF AskSteps
    <3> QED BY <1>3, <3>2, SynchroControlAssumption DEF AskSteps
  <2>3. CASE ServerReceive
    <3>1. toServer' \in Seq(ToServer)
      BY <1>3, <2>3, HeadTailProperties DEF ServerReceive
    <3> QED BY <1>3, <2>3, <3>1 DEF ServerReceive
  <2> QED BY <2>1, <2>2, <2>3
<1>6. TypeOK'
  BY <1>4, <1>5 DEF TypeOK, ToVc, ToServer
<1> QED BY <1>2, <1>6

(* The steps of the context keep its types, and what they put on the       *)
(* connections is a request or an answer.                                  *)
LEMMA ContextKeepsTypes ==
  ASSUME IInv,
         ParseState \/ ParseSynchroRefused \/ ParseSynchro
           \/ GetSynchroStepsRequest \/ Cycle \/ ResetAll
  PROVE  TypeOK'
<1> USE DEF IInv
<1>1. toVc \in Seq(ToVc) /\ toServer \in Seq(ToServer) /\ due \in Seq(Nat)
      /\ timeBeforeNotify \in Nat /\ todo \in Nat /\ stepsRequested \in Nat
  BY SynchroControlAssumption DEF TypeOK, ToVc, ToServer
<1>2. /\ \A n \in 0..1 : RSynchro(n) \in ToServer
      /\ \A n \in 0..2 : RState(n) \in ToServer
  BY DEF ToServer
<1>3. PeriodUs \in Nat
  BY Periods
<1>4. /\ toVc' \in Seq(ToVc) /\ toServer' \in Seq(ToServer)
      /\ runningState' \in States /\ autonomous' \in BOOLEAN
  <2>1. CASE ParseState
    <3> DEFINE s == Head(toVc).arg
    <3>1. toVc' \in Seq(ToVc)
      BY <1>1, <2>1, HeadOfRequests DEF ParseState
    <3>2. StateStatus(s) \in 0..2
      BY DEF StateStatus
    <3>3. RState(StateStatus(s)) \in ToServer
      BY <1>2, <3>2
    <3>4. toServer' \in Seq(ToServer)
      BY <1>1, <2>1, <3>3, AppendProperties DEF ParseState
    <3> QED BY <2>1, <3>1, <3>4 DEF ParseState, TypeOK
  <2>2. CASE ParseSynchroRefused
    <3>1. toVc' \in Seq(ToVc)
      BY <1>1, <2>2, HeadOfRequests DEF ParseSynchroRefused
    <3>2. toServer' \in Seq(ToServer)
      BY <1>1, <1>2, <2>2, AppendProperties DEF ParseSynchroRefused
    <3> QED BY <2>2, <3>1, <3>2 DEF ParseSynchroRefused, TypeOK, contextVars
  <2>3. CASE ParseSynchro
    <3>1. toVc' \in Seq(ToVc)
      BY <1>1, <2>3, HeadOfRequests DEF ParseSynchro
    <3> QED BY <1>1, <2>3, <3>1 DEF ParseSynchro, TypeOK
  <2>4. CASE GetSynchroStepsRequest
    BY <1>1, <2>4 DEF GetSynchroStepsRequest, TypeOK
  <2>5. CASE Cycle
    <3>1. toServer' \in Seq(ToServer)
      BY <1>1, <1>2, <2>5, AppendProperties DEF Cycle, Notify
    <3> QED BY <1>1, <2>5, <3>1 DEF Cycle, TypeOK
  <2>6. CASE ResetAll
    BY <1>1, <2>6 DEF ResetAll, TypeOK
  <2> QED BY <2>1, <2>2, <2>3, <2>4, <2>5, <2>6
<1>5. /\ stepsRequested' \in StepCounts \cup {0} /\ timeBeforeNotify' \in Nat
      /\ todo' \in Nat /\ due' \in Seq(Nat)
  <2>1. CASE ParseState \/ ParseSynchroRefused
    BY <2>1 DEF ParseState, ParseSynchroRefused, TypeOK, contextVars, history
  <2>2. CASE ParseSynchro
    <3>1. Head(toVc).arg \in StepCounts
      BY <1>1, <2>2, HeadOfRequests DEF ParseSynchro
    <3>2. Head(toVc).arg * PeriodUs \in Nat
      BY <3>1, Periods
    <3>3. due' \in Seq(Nat)
      BY <1>1, <2>2, <3>2, AppendProperties DEF ParseSynchro
    <3> QED BY <1>1, <2>2, <3>1, <3>2, <3>3 DEF ParseSynchro
  <2>3. CASE GetSynchroStepsRequest
    BY <1>1, <2>3 DEF GetSynchroStepsRequest, history
  <2>4. CASE Cycle
    <3>1. timeBeforeNotify' \in Nat
      BY <1>1, <1>3, <2>4 DEF Cycle, Notify
    <3>2. todo' \in Nat
      BY <1>1, <2>4 DEF Cycle, MayRun, Pace, TypeOK, States
    <3>3. due' \in Seq(Nat)
      BY <1>1, <1>3, <2>4, ElapseType DEF Cycle, NotifyReached, Covered
    <3> QED BY <2>4, <3>1, <3>2, <3>3 DEF Cycle, TypeOK
  <2>5. CASE ResetAll
    BY <1>1, <2>5 DEF ResetAll, TypeOK
  <2> QED BY <2>1, <2>2, <2>3, <2>4, <2>5
<1>6. /\ requests' \in 0..MaxRequests /\ waiting' \in BOOLEAN
      /\ stepByStepEnabled' \in BOOLEAN /\ excused' \in BOOLEAN
  BY DEF TypeOK, ParseState, ParseSynchroRefused, ParseSynchro, GetSynchroStepsRequest,
         Cycle, ResetAll, contextVars, history
<1> QED BY <1>4, <1>5, <1>6 DEF TypeOK, ToVc, ToServer

(* The pace follows the state: "step" is recorded also when it is refused, *)
(* but then the application has no step by step.                           *)
LEMMA ContextKeepsPace ==
  ASSUME IInv,
         ParseState \/ ParseSynchroRefused \/ ParseSynchro
           \/ GetSynchroStepsRequest \/ Cycle \/ ResetAll
  PROVE  Pace'
<1>1. Pace /\ runningState \in States /\ autonomous \in BOOLEAN /\ stepByStepEnabled \in BOOLEAN
  BY DEF IInv, TypeOK
<1>2. CASE ParseState
  <2> DEFINE s == Head(toVc).arg
  <2>1. CASE s \notin States
    <3>1. StateStatus(s) = 1
      BY <2>1 DEF StateStatus, States
    <3> QED BY <1>1, <1>2, <2>1, <3>1 DEF ParseState, Pace
  <2>2. CASE s = "step" /\ ~stepByStepEnabled
    <3>1. StateStatus(s) = 2 /\ s \in States
      BY <2>2 DEF StateStatus, States
    <3> QED BY <1>1, <1>2, <2>2, <3>1 DEF ParseState, Pace
  <2>3. CASE s \in States /\ ~(s = "step" /\ ~stepByStepEnabled)
    <3>1. StateStatus(s) = 0
      BY <2>3 DEF StateStatus
    <3> QED BY <1>1, <1>2, <2>3, <3>1 DEF ParseState, Pace
  <2> QED BY <2>1, <2>2, <2>3
<1>3. CASE ParseSynchroRefused \/ ParseSynchro \/ GetSynchroStepsRequest \/ Cycle \/ ResetAll
  <2>1. UNCHANGED <<autonomous, runningState, stepByStepEnabled>>
    BY <1>3 DEF ParseSynchroRefused, ParseSynchro, GetSynchroStepsRequest, Cycle, ResetAll,
                contextVars
  <2> QED BY <1>1, <2>1 DEF Pace
<1> QED BY <1>2, <1>3

(* A period that is run is one of those handed out, or no delay is paced.  *)
LEMMA ContextKeepsEnoughSteps ==
  ASSUME IInv,
         ParseState \/ ParseSynchroRefused \/ ParseSynchro
           \/ GetSynchroStepsRequest \/ Cycle \/ ResetAll
  PROVE  EnoughSteps'
<1>1. /\ stepsRequested \in Nat /\ todo \in Nat /\ timeBeforeNotify \in Nat
      /\ PeriodUs \in Nat /\ PeriodUs > 0
      /\ (stepsRequested + todo) * PeriodUs >= timeBeforeNotify
  BY SynchroControlAssumption DEF IInv, TypeOK, EnoughSteps
<1>2. CASE ParseState \/ ParseSynchroRefused
  BY <1>1, <1>2 DEF ParseState, ParseSynchroRefused, EnoughSteps, contextVars
<1>3. CASE ParseSynchro
  <2> DEFINE n == Head(toVc).arg
  <2>1. n \in Nat
    BY <1>3, HeadOfRequests, Periods DEF ParseSynchro, IInv, TypeOK, ToVc
  <2>2. stepsRequested' = n /\ timeBeforeNotify' = n * PeriodUs /\ todo' = todo
    BY <1>3 DEF ParseSynchro
  <2> HIDE DEF n
  <2>3. (n + todo) * PeriodUs = n * PeriodUs + todo * PeriodUs /\ todo * PeriodUs >= 0
    BY <1>1, <2>1
  <2>4. n * PeriodUs \in Nat /\ todo * PeriodUs \in Nat
    BY <1>1, <2>1
  <2>5. (n + todo) * PeriodUs >= n * PeriodUs
    BY <2>3, <2>4
  <2> QED BY <2>2, <2>5 DEF EnoughSteps
<1>4. CASE GetSynchroStepsRequest
  <2>1. stepsRequested' + todo' = stepsRequested + todo /\ timeBeforeNotify' = timeBeforeNotify
    BY <1>1, <1>4 DEF GetSynchroStepsRequest
  <2> QED BY <1>1, <2>1 DEF EnoughSteps
<1>5. CASE Cycle
  <2>1. stepsRequested' = stepsRequested
        /\ timeBeforeNotify' = IF timeBeforeNotify > PeriodUs THEN timeBeforeNotify - PeriodUs ELSE 0
    BY <1>5 DEF Cycle, Notify
  <2>2. todo' \in Nat /\ todo' >= todo - 1
    BY <1>1, <1>5 DEF Cycle, MayRun, IInv, TypeOK, Pace, States
  <2>3. (stepsRequested + todo') * PeriodUs >= timeBeforeNotify'
    BY <1>1, <2>1, <2>2, OnePeriodLess
  <2> QED BY <2>1, <2>3 DEF EnoughSteps
<1>6. CASE ResetAll
  BY <1>1, <1>6 DEF ResetAll, EnoughSteps
<1> QED BY <1>2, <1>3, <1>4, <1>5, <1>6

(* A cycle takes its time from the delay and from the requests alike, and  *)
(* what it answers is the last of them.                                    *)
LEMMA ContextKeepsDelay ==
  ASSUME IInv,
         ParseState \/ ParseSynchroRefused \/ ParseSynchro
           \/ GetSynchroStepsRequest \/ Cycle \/ ResetAll
  PROVE  Covered' /\ Exact'
<1>1. /\ due \in Seq(Nat) /\ timeBeforeNotify \in Nat /\ PeriodUs \in Nat /\ PeriodUs > 0
      /\ Covered /\ Exact /\ excused \in BOOLEAN
  BY SynchroControlAssumption DEF IInv, TypeOK
<1>2. /\ Len(due) \in Nat
      /\ due = <<>> <=> Len(due) = 0
      /\ \A i \in 1..Len(due) : due[i] \in Nat
  BY <1>1, EmptySeq, LenProperties, ElementOfSeq
<1>3. CASE ParseState \/ ParseSynchroRefused \/ GetSynchroStepsRequest
  <2>1. UNCHANGED <<timeBeforeNotify, due, excused>>
    BY <1>3 DEF ParseState, ParseSynchroRefused, GetSynchroStepsRequest, contextVars, history
  <2> QED BY <1>1, <2>1 DEF Covered, Exact
<1>4. CASE ParseSynchro
  <2> DEFINE n == Head(toVc).arg
  <2>1. n \in StepCounts /\ n \in Nat /\ n * PeriodUs \in Nat /\ (n > 0 <=> n * PeriodUs > 0)
    BY <1>4, HeadOfRequests, Periods DEF ParseSynchro, IInv, TypeOK, ToVc
  <2>2. /\ timeBeforeNotify' = n * PeriodUs
        /\ due' = Append(due, n * PeriodUs)
        /\ excused' = (excused \/ due # <<>> \/ n = 0)
    BY <1>4 DEF ParseSynchro
  <2> HIDE DEF n
  <2>3. /\ Len(due') = Len(due) + 1
        /\ due'[Len(due) + 1] = n * PeriodUs
        /\ due' # <<>>
    BY <1>1, <1>2, <2>1, <2>2, AppendProperties
  <2>4. Covered'
    BY <2>1, <2>2, <2>3 DEF Covered
  <2>5. Exact'
    <3>1. ASSUME ~excused' PROVE due = <<>> /\ n # 0
      BY <2>2, <3>1
    <3>2. ASSUME ~excused' PROVE Len(due') = 1 /\ due'[1] = timeBeforeNotify' /\ timeBeforeNotify' > 0
      BY <1>2, <2>1, <2>2, <2>3, <3>1, <3>2
    <3> QED BY <3>2 DEF Exact
  <2> QED BY <2>4, <2>5
<1>5. CASE Cycle
  <2>1. timeBeforeNotify' = IF timeBeforeNotify > PeriodUs THEN timeBeforeNotify - PeriodUs ELSE 0
    BY <1>5 DEF Cycle, Notify
  <2>0. excused' = excused
    BY <1>5 DEF Cycle
  <2>2. /\ Elapse(PeriodUs) \in Seq(Nat)
        /\ Len(Elapse(PeriodUs)) = Len(due)
        /\ \A i \in 1..Len(due) :
             Elapse(PeriodUs)[i] = IF due[i] > PeriodUs THEN due[i] - PeriodUs ELSE 0
    BY <1>1, ElapseType
  <2>3. CASE NotifyReached(PeriodUs)
    <3>1. timeBeforeNotify' = 0
      BY <1>1, <2>1, <2>3 DEF NotifyReached
    <3>4. Covered'
      BY <3>1 DEF Covered
    <3>2. ASSUME ~excused PROVE due' = <<>>
      <4>1. Len(due) = 1
        BY <1>1, <2>3, <3>2 DEF Exact, NotifyReached
      <4>2. due' = SubSeq(Elapse(PeriodUs), 1, 0)
        BY <1>5, <2>3, <4>1 DEF Cycle
      <4> QED BY <4>2, SubSeqEmpty
    <3>3. Exact'
      BY <2>0, <3>1, <3>2 DEF Exact
    <3> QED BY <3>3, <3>4
  <2>4. CASE ~NotifyReached(PeriodUs)
    <3>1. due' = Elapse(PeriodUs)
      BY <1>5, <2>4 DEF Cycle
    <3>2. Len(due') = Len(due) /\ (due' = <<>> <=> due = <<>>)
      BY <1>2, <2>2, <3>1, EmptySeq
    <3>3. timeBeforeNotify = 0 \/ timeBeforeNotify > PeriodUs
      BY <1>1, <2>4 DEF NotifyReached
    <3>4. Covered'
      BY <1>1, <1>2, <2>1, <2>2, <3>1, <3>2, <3>3 DEF Covered
    <3>5. ASSUME ~excused
          PROVE  \/ due' = <<>> /\ timeBeforeNotify' = 0
                 \/ Len(due') = 1 /\ due'[1] = timeBeforeNotify' /\ timeBeforeNotify' > 0
      <4>1. CASE due = <<>> /\ timeBeforeNotify = 0
        BY <1>1, <2>1, <3>2, <4>1
      <4>2. CASE Len(due) = 1 /\ due[1] = timeBeforeNotify /\ timeBeforeNotify > 0
        BY <1>1, <2>1, <2>2, <3>1, <3>2, <3>3, <4>2
      <4> QED BY <1>1, <3>5, <4>1, <4>2 DEF Exact
    <3>6. Exact'
      BY <2>0, <3>5 DEF Exact
    <3> QED BY <3>4, <3>6
  <2> QED BY <2>3, <2>4
<1>6. CASE ResetAll
  <2>1. timeBeforeNotify' = 0 /\ due' = due /\ excused' = (excused \/ timeBeforeNotify > 0)
    BY <1>6 DEF ResetAll
  <2>2. ASSUME ~excused' PROVE due = <<>>
    <3>1. ~excused /\ ~(timeBeforeNotify > 0)
      BY <2>1, <2>2
    <3> QED BY <1>1, <3>1 DEF Exact
  <2> QED BY <2>1, <2>2 DEF Covered, Exact
<1> QED BY <1>3, <1>4, <1>5, <1>6

LEMMA StutteringKeeps == IInv /\ UNCHANGED vars => IInv'
  BY DEF vars, contextVars, history, IInv, TypeOK, Pace, EnoughSteps, Covered, Exact

LEMMA NextKeeps == IInv /\ [Next]_vars => IInv'
  BY ServerKeeps, ContextKeepsTypes, ContextKeepsPace, ContextKeepsEnoughSteps,
     ContextKeepsDelay, StutteringKeeps DEF Next, IInv

-----------------------------------------------------------------------------
(* The inductive invariant always holds. *)
THEOREM InductiveInvariant == Spec => []IInv
  BY InitHolds, NextKeeps, PTL DEF Spec

(* The variables keep their types; in particular the application never has *)
(* less than no period left to run.                                        *)
THEOREM TypeCorrect == Spec => []TypeOK
<1>1. IInv => TypeOK
  BY DEF IInv
<1> QED BY InductiveInvariant, <1>1, PTL

(* The steps handed out reach the end of the request, however requests and *)
(* changes of state overlap: server and application do not wait for each   *)
(* other.                                                                  *)
THEOREM StepsAreEnough == Spec => []EnoughSteps
<1>1. IInv => EnoughSteps
  BY DEF IInv
<1> QED BY InductiveInvariant, <1>1, PTL

(* A request that nothing excuses has its answer as soon as its time is    *)
(* over.                                                                   *)
THEOREM AlwaysAnsweredWhenDue == Spec => []AnsweredWhenDue
<1>1. IInv => AnsweredWhenDue
  <2> SUFFICES ASSUME IInv, ~excused, NEW i \in DOMAIN due
               PROVE  due[i] > 0
    BY DEF AnsweredWhenDue, AllAnswered
  <2>1. due \in Seq(Nat) /\ timeBeforeNotify \in Nat
    BY DEF IInv, TypeOK
  <2>2. DOMAIN due = 1..Len(due) /\ (due = <<>> => Len(due) = 0)
    BY <2>1, LenProperties, EmptySeq
  <2>3. Len(due) = 1 /\ due[1] = timeBeforeNotify /\ timeBeforeNotify > 0
    BY <2>2 DEF IInv, Exact
  <2> QED BY <2>2, <2>3
<1> QED BY InductiveInvariant, <1>1, PTL

(* An answer only goes out in the cycle that ends the request accepted     *)
(* last, or after it.                                                      *)
THEOREM NeverAnsweredEarly == Spec => NoEarlyAnswer
<1>1. IInv => (Cycle /\ NotifyReached(PeriodUs) => due # <<>> /\ due[Len(due)] <= PeriodUs)
  <2> SUFFICES ASSUME IInv, NotifyReached(PeriodUs)
               PROVE  due # <<>> /\ due[Len(due)] <= PeriodUs
    OBVIOUS
  <2>1. due \in Seq(Nat) /\ timeBeforeNotify \in Nat /\ PeriodUs \in Nat
    BY SynchroControlAssumption DEF IInv, TypeOK
  <2>2. timeBeforeNotify > 0 /\ timeBeforeNotify <= PeriodUs
    BY DEF NotifyReached
  <2>3. due # <<>> /\ due[Len(due)] <= timeBeforeNotify
    BY <2>1, <2>2 DEF IInv, Covered
  <2>4. Len(due) \in 1..Len(due)
    BY <2>1, <2>3, EmptySeq
  <2>5. due[Len(due)] \in Nat
    BY <2>1, <2>4, ElementOfSeq
  <2> QED BY <2>1, <2>2, <2>3, <2>5
<1> QED BY InductiveInvariant, <1>1, PTL DEF NoEarlyAnswer

-----------------------------------------------------------------------------
(* CREATION.                                                               *)

(* No position of a signal, with the header before it, reaches 2^32: the   *)
(* tests of the ports add the two in 32 bits.                              *)
OffsetsDoNotWrap ==
  \A c \in Channels : \A s \in DOMAIN c.signals : c.signals[s].offset + HeaderSize < Modulus

(* A message of the kind, its sizes, and what the port's buffer of so many *)
(* bytes says of it.                                                       *)
IsMessage(m) ==
  /\ m = [kind |-> m.kind, dir |-> m.dir, encoding |-> m.encoding, max |-> m.max,
          expected |-> m.expected, depth |-> m.depth, user |-> m.user, init |-> m.init]
  /\ m.kind \in Kinds
  /\ m.max \in Nat /\ m.expected \in Nat /\ m.depth \in Nat /\ m.user \in Nat /\ m.init \in Nat

SizesAgree(m) ==
  CASE m.kind = "discrete" -> m.max = 1
    [] m.kind = "analogue" -> m.max = AnalogueSize
    [] m.kind = "nad" -> TRUE
    [] m.kind = "a429_queuing" -> m.user =< m.max /\ LabelSize * m.depth =< m.max
    [] OTHER -> m.max =< m.expected

FitsAt(m, key, fifo) ==
  OffsetsDoNotWrap /\ m.kind \in Grouped =>
    \/ HeaderSize + key + m.max =< fifo
    \/ m.kind = "nad" /\ m.max > fifo

IsPort(p) ==
  /\ p = [class |-> p.class, route |-> p.route, header |-> p.header, fifo |-> p.fifo,
          messages |-> p.messages]
  /\ p.fifo \in Nat
  /\ \A k \in DOMAIN p.messages :
       LET m == p.messages[k]
       IN  /\ IsMessage(m) /\ SizesAgree(m) /\ FitsAt(m, k, p.fifo)
           /\ PortClass(m.kind) = p.class

(* The declaration has been given an initial value. *)
HasInit(d) == Mode(d.kind) = "sampling" /\ d.kind # "nad" /\ HasValue(InitKey(d))

Obtained(m, d) ==
  /\ m.dir = d.dir /\ m.encoding = d.encoding
  /\ HasInit(d) => m.init > 0

(* Every name leads to a message of what it declares.                      *)
NamesLead(s) ==
  \A n \in DOMAIN s.names :
    LET e == s.names[n]
    IN  /\ e.declared \in Declarations
        /\ e.addr = Address(e.declared) /\ e.key = Key(e.declared)
        /\ e.addr \in DOMAIN s.ports /\ e.key \in DOMAIN s.ports[e.addr].messages
        /\ s.ports[e.addr].class = PortClass(e.declared.kind)
        /\ Obtained(s.ports[e.addr].messages[e.key], e.declared)

(* Every message was made by a declaration of its kind.                    *)
MessagesAreDeclared(s) ==
  \A a \in DOMAIN s.ports : \A k \in DOMAIN s.ports[a].messages :
    \E n \in DOMAIN s.names :
      /\ s.names[n].addr = a /\ s.names[n].key = k
      /\ s.names[n].declared.kind = s.ports[a].messages[k].kind

Sound(s) ==
  /\ \A a \in DOMAIN s.ports : IsPort(s.ports[a])
  /\ NamesLead(s)
  /\ MessagesAreDeclared(s)

-----------------------------------------------------------------------------
LEMMA NothingInEmpty == DOMAIN Empty = {}
  BY DEF Empty

LEMMA Configuration ==
  /\ Modulus \in Nat /\ Modulus > 0
  /\ \A d \in Declarations :
       /\ d.kind \in Kinds /\ d.dir \in {"in", "out"}
       /\ d.size \in Nat /\ d.size > 0 /\ d.depth \in Nat
  /\ \A d, e \in Declarations :
       {d.kind, e.kind} \cap {"discrete", "analogue"} = {} => d.encoding = e.encoding
  /\ \A c \in Channels : c.maxSize \in Nat
  /\ \A c \in Channels : \A s \in DOMAIN c.signals : c.signals[s].offset \in Nat
<1>1. \A d \in Declarations : d.size \in Nat /\ d.size > 0
  BY CreationAssumption
<1> QED
  BY <1>1, CreationAssumption

LEMMA KindsAre ==
  Kinds = {"afdx_sampling", "afdx_queuing", "can", "a429_sampling", "a429_queuing",
           "discrete", "analogue", "nad"}
  BY DEF Kinds, A429Kinds, Grouped

(* The channel of a declaration is one of the network file. *)
LEMMA ChannelFacts ==
  ASSUME NEW d \in Declarations, Described(d)
  PROVE  /\ Channel(d) \in Channels
         /\ Channel(d).maxSize \in Nat
         /\ d.kind \in Grouped => d.name \in DOMAIN Channel(d).signals /\ Slot(d).offset \in Nat
<1>1. Candidates(d) # {}
  BY FS_EmptySet DEF Described
<1>2. Channel(d) \in Candidates(d)
  BY <1>1 DEF Channel
<1>3. Channel(d) \in Channels
  BY <1>2 DEF Candidates, FindPort, FindGroupElement
<1>4. d.kind \in Grouped => d.name \in DOMAIN Channel(d).signals
  BY <1>2 DEF Candidates, FindGroupElement
<1>5. d.kind \in Grouped => Slot(d).offset \in Nat
  BY <1>3, <1>4, Configuration DEF Slot
<1> QED
  BY <1>3, <1>4, <1>5, Configuration

LEMMA BufferSizeFacts ==
  ASSUME NEW d \in Declarations, Described(d)
  PROVE  BufferSize(d) \in Nat /\ BufferSize(d) =< d.size
<1>1. Channel(d).maxSize \in Nat /\ d.size \in Nat
  BY ChannelFacts, Configuration
<1> QED
  BY <1>1 DEF BufferSize, Lesser

LEMMA NewPortIsPort ==
  ASSUME NEW d \in Declarations, Described(d)
  PROVE  IsPort(NewPort(d)) /\ NewPort(d).class = PortClass(d.kind)
<1> DEFINE size == CASE d.kind \in A429Kinds -> 4 * Channel(d).maxSize + HeaderSize
                     [] d.kind \in {"afdx_sampling", "afdx_queuing"} -> BufferSize(d) + HeaderSize
                     [] OTHER -> Channel(d).maxSize + HeaderSize
<1>1. size \in Nat
  <2>1. Channel(d).maxSize \in Nat /\ BufferSize(d) \in Nat /\ HeaderSize \in Nat
    BY ChannelFacts, BufferSizeFacts DEF HeaderSize
  <2>2. CASE d.kind \in A429Kinds
    BY <2>1, <2>2 DEF A429Kinds
  <2>3. CASE d.kind \in {"afdx_sampling", "afdx_queuing"}
    BY <2>1, <2>3 DEF A429Kinds
  <2>4. CASE d.kind \notin A429Kinds /\ d.kind \notin {"afdx_sampling", "afdx_queuing"}
    BY <2>1, <2>4
  <2> QED
    BY <2>2, <2>3, <2>4
<1>2. NewPort(d) = [class |-> PortClass(d.kind), route |-> Channel(d).route,
                    header |-> Channel(d).header, fifo |-> size, messages |-> Empty]
  BY DEF NewPort
<1> HIDE DEF size
<1> QED
  BY <1>1, <1>2, NothingInEmpty DEF IsPort

(* A new message is of the declared kind, with sizes that agree. *)
LEMMA NewMessageFacts ==
  ASSUME NEW d \in Declarations, Described(d)
  PROVE  LET m == NewMessage(d)
         IN  /\ IsMessage(m) /\ SizesAgree(m)
             /\ m.kind = d.kind /\ m.dir = d.dir /\ m.encoding = d.encoding
             /\ m.init = 0
             /\ d.kind = "nad" => m.max = d.size
<1> DEFINE m == NewMessage(d)
<1>1. /\ d.kind \in Kinds /\ d.size \in Nat /\ d.depth \in Nat
      /\ BufferSize(d) \in Nat /\ BufferSize(d) =< d.size
  BY Configuration, BufferSizeFacts
<1>2. LabelSize = 4 /\ AnalogueSize = 4
  BY DEF LabelSize, AnalogueSize
<1>3. /\ LabelSize \in Nat /\ AnalogueSize \in Nat
      /\ 4 * LabelSize * d.depth \in Nat /\ LabelSize * d.depth =< 4 * LabelSize * d.depth
  BY <1>1, <1>2
<1> USE DEF Message
<1>a. CASE d.kind = "afdx_sampling"
  <2>1. m = SamplingMessage(d)
    BY <1>a DEF NewMessage
  <2> QED
    BY <1>1, <1>a, <2>1 DEF SamplingMessage, IsMessage, SizesAgree
<1>b. CASE d.kind = "afdx_queuing"
  <2>1. m = AfdxQueuingMessage(d)
    BY <1>b DEF NewMessage
  <2> QED
    BY <1>1, <1>b, <2>1 DEF AfdxQueuingMessage, IsMessage, SizesAgree
<1>c. CASE d.kind = "a429_sampling"
  <2>1. m = SamplingLabel(d)
    BY <1>c DEF NewMessage
  <2> QED
    BY <1>1, <1>3, <1>c, <2>1 DEF SamplingLabel, IsMessage, SizesAgree
<1>d. CASE d.kind = "a429_queuing"
  <2>1. m = QueuingLabel(d)
    BY <1>d DEF NewMessage
  <2> QED
    BY <1>1, <1>3, <1>d, <2>1 DEF QueuingLabel, IsMessage, SizesAgree
<1>e. CASE d.kind = "can"
  <2>1. m = CanMessage(d)
    BY <1>e DEF NewMessage
  <2> QED
    BY <1>1, <1>e, <2>1 DEF CanMessage, IsMessage, SizesAgree
<1>f. CASE d.kind = "discrete"
  <2>1. m = DiscreteMessage(d)
    BY <1>f DEF NewMessage
  <2> QED
    BY <1>1, <1>f, <2>1 DEF DiscreteMessage, IsMessage, SizesAgree
<1>g. CASE d.kind = "analogue"
  <2>1. m = AnalogueMessage(d)
    BY <1>g DEF NewMessage
  <2> QED
    BY <1>1, <1>3, <1>g, <2>1 DEF AnalogueMessage, IsMessage, SizesAgree
<1>h. CASE d.kind = "nad"
  <2>1. m = NadMessage(d)
    BY <1>h DEF NewMessage
  <2> QED
    BY <1>1, <1>h, <2>1 DEF NadMessage, IsMessage, SizesAgree
<1> QED
  BY <1>1, <1>a, <1>b, <1>c, <1>d, <1>e, <1>f, <1>g, <1>h, KindsAre

(* What the port has checked is that the message is inside its buffer. *)
LEMMA NewMessageFits ==
  ASSUME NEW d \in Declarations, Described(d), NEW p, p.fifo \in Nat,
         d.kind \in Grouped => WireFits(p, d)
  PROVE  FitsAt(NewMessage(d), Key(d), p.fifo)
<1> DEFINE m == NewMessage(d)
<1>1. m.kind = d.kind /\ SizesAgree(m) /\ m.max \in Nat /\ (d.kind = "nad" => m.max = d.size)
  BY NewMessageFacts DEF IsMessage
<1> HIDE DEF m
<1> SUFFICES ASSUME OffsetsDoNotWrap, d.kind \in Grouped
             PROVE  \/ HeaderSize + Key(d) + m.max =< p.fifo
                    \/ m.kind = "nad" /\ m.max > p.fifo
  BY <1>1 DEF FitsAt, m
<1> DEFINE offset == Slot(d).offset
<1>2. Key(d) = offset
  BY DEF Key, Grouped, A429Kinds
<1>3. /\ offset \in Nat /\ offset + HeaderSize < Modulus
      /\ Modulus \in Nat /\ Modulus > 0 /\ HeaderSize = 20 /\ AnalogueSize = 4
  BY ChannelFacts, Configuration DEF OffsetsDoNotWrap, Slot, HeaderSize, AnalogueSize
<1> HIDE DEF offset
<1>4. \A x, n \in Nat : x < n => x % n = x
  BY SMT
<1>5. (offset + HeaderSize) % Modulus = offset + HeaderSize
  BY <1>3, <1>4
<1>6. WireFits(p, d)
  OBVIOUS
<1>a. CASE d.kind = "discrete"
  <2>1. offset + HeaderSize < p.fifo
    BY <1>5, <1>6, <1>a DEF WireFits, offset
  <2>2. m.max = 1
    BY <1>1, <1>a DEF SizesAgree
  <2> QED
    BY <1>2, <1>3, <2>1, <2>2
<1>b. CASE d.kind = "analogue"
  <2>1. offset + HeaderSize =< p.fifo - AnalogueSize
    BY <1>5, <1>6, <1>b DEF WireFits, offset
  <2>2. m.max = AnalogueSize
    BY <1>1, <1>b DEF SizesAgree
  <2> QED
    BY <1>2, <1>3, <2>1, <2>2
<1>c. CASE d.kind = "nad"
  <2>1. offset + HeaderSize =< (p.fifo - d.size) % Modulus
    BY <1>5, <1>6, <1>c DEF WireFits, offset
  <2>2. m.max = d.size /\ d.size \in Nat
    BY <1>1, <1>c, Configuration
  <2>3. CASE d.size > p.fifo
    BY <1>1, <1>c, <2>2, <2>3
  <2>4. CASE d.size =< p.fifo
    <3>1. p.fifo - d.size \in Nat
      BY <2>2, <2>4
    <3>2. \A x, n \in Nat : n > 0 => x % n =< x
      BY SMT
    <3>3. (p.fifo - d.size) % Modulus \in Nat /\ (p.fifo - d.size) % Modulus =< p.fifo - d.size
      BY <1>3, <3>1, <3>2
    <3> QED
      BY <1>2, <1>3, <2>1, <2>2, <3>1, <3>3
  <2> QED
    BY <2>2, <2>3, <2>4
<1> QED
  BY <1>a, <1>b, <1>c DEF Grouped

(* A number of the last entry for a name exists, if there is an entry. *)
LEMMA LastEntry ==
  ASSUME NEW key, HasValue(key)
  PROVE  \E i \in InitValues(key) : InitValue(key) = ValueSize(InitFile[i])
<1> DEFINE S == InitValues(key)
           n == Len(InitFile)
<1>1. n \in Nat /\ S \subseteq 1..n /\ S # {}
  <2>1. InitFile \in Seq(Range(InitFile))
    BY CreationAssumption
  <2>2. n \in Nat /\ DOMAIN InitFile = 1..n
    BY <2>1, LenProperties
  <2> QED
    BY <2>2 DEF InitValues, HasValue
<1> HIDE DEF S, n
<1>2. PICK i0 \in S : TRUE
  BY <1>1
<1>3. \E i \in S : \A j \in S : j =< i
  <2> DEFINE T == {n - i : i \in S}
  <2>1. T \subseteq Nat /\ n - i0 \in T
    BY <1>1, <1>2
  <2>2. PICK k \in T : \A j \in T : ~(<<j, k>> \in OpToRel(<, Nat))
    BY <2>1, NatLessThanWellFounded, WFMin
  <2>3. \A j \in T : ~(j < k)
    BY <2>1, <2>2 DEF OpToRel
  <2>4. PICK i \in S : k = n - i
    OBVIOUS
  <2>5. \A j \in S : j =< i
    <3> TAKE j \in S
    <3>1. n - j \in T /\ i \in 1..n /\ j \in 1..n
      BY <1>1
    <3>2. ~(n - j < n - i)
      BY <2>3, <2>4, <3>1
    <3> QED
      BY <1>1, <3>1, <3>2
  <2> QED
    BY <2>5
<1>4. (CHOOSE i \in S : \A j \in S : j =< i) \in S
  BY <1>3
<1> QED
  BY <1>4 DEF InitValue, S

(* An initial value has at least one byte; that of a signal has the size   *)
(* of the signal.                                                          *)
LEMMA InitSizeFacts ==
  ASSUME NEW d \in Declarations, HasInit(d)
  PROVE  /\ InitSize(d) \in Nat /\ InitSize(d) > 0
         /\ d.kind = "discrete" => InitSize(d) = 1
         /\ d.kind = "analogue" => InitSize(d) = AnalogueSize
<1>1. d.kind \in {"afdx_sampling", "can", "a429_sampling", "discrete", "analogue"}
  BY Configuration, KindsAre DEF HasInit, Mode
<1>2. HasValue(InitKey(d))
  BY DEF HasInit
<1>3. PICK i \in InitValues(InitKey(d)) : InitValue(InitKey(d)) = ValueSize(InitFile[i])
  BY <1>2, LastEntry
<1> DEFINE entry == InitFile[i]
<1>4. i \in DOMAIN InitFile /\ <<entry.protocol, entry.local>> = InitKey(d)
  BY <1>3 DEF InitValues
<1>5. entry \in Range(InitFile)
  BY <1>4 DEF Range
<1>6. entry.protocol = Protocol(d.kind)
  BY <1>4 DEF InitKey
<1> HIDE DEF entry
<1>7. d.size \in Nat /\ d.size > 0 /\ LabelSize = 4 /\ AnalogueSize = 4
  BY Configuration DEF LabelSize, AnalogueSize
<1>8. InitValue(InitKey(d)) = ValueSize(entry)
  BY <1>3 DEF entry
<1>a. CASE d.kind = "afdx_sampling"
  <2>1. Protocol(d.kind) = "afdx"
    BY <1>a DEF Protocol, A429Kinds
  <2>2. ValueSize(entry) = HexBytes(entry.digits) /\ entry.digits \in Nat /\ entry.digits > 0
    BY <1>5, <1>6, <2>1, CreationAssumption DEF ValueSize
  <2>3. HexBytes(entry.digits) \in Nat /\ HexBytes(entry.digits) > 0
    BY <2>2 DEF HexBytes
  <2>4. InitSize(d) = Lesser(ValueSize(entry), d.size)
    BY <1>8, <1>a, <2>1 DEF InitSize
  <2> QED
    BY <1>7, <1>a, <2>2, <2>3, <2>4 DEF Lesser
<1>b. CASE d.kind = "can"
  <2>1. InitSize(d) = d.size
    BY <1>b DEF InitSize, Protocol, A429Kinds
  <2> QED
    BY <1>7, <1>b, <2>1
<1>c. CASE d.kind = "a429_sampling"
  <2>1. InitSize(d) = LabelSize
    BY <1>c DEF InitSize, Protocol, A429Kinds
  <2> QED
    BY <1>7, <1>c, <2>1
<1>d. CASE d.kind = "discrete"
  <2>1. Protocol(d.kind) = "discrete"
    BY <1>d DEF Protocol, A429Kinds
  <2>2. ValueSize(entry) = 1
    BY <1>6, <2>1 DEF ValueSize
  <2>3. InitSize(d) = ValueSize(entry)
    BY <1>8, <1>d, <2>1 DEF InitSize
  <2> QED
    BY <1>d, <2>2, <2>3
<1>e. CASE d.kind = "analogue"
  <2>1. Protocol(d.kind) = "analogue"
    BY <1>e DEF Protocol, A429Kinds
  <2>2. ValueSize(entry) = AnalogueSize
    BY <1>6, <2>1 DEF ValueSize
  <2>3. InitSize(d) = ValueSize(entry)
    BY <1>8, <1>e, <2>1 DEF InitSize
  <2> QED
    BY <1>7, <1>e, <2>2, <2>3
<1> QED
  BY <1>1, <1>a, <1>b, <1>c, <1>d, <1>e

(* Kinds of one class of port: the two modes of a label share one. *)
LEMMA ClassFacts ==
  ASSUME NEW k \in Kinds, NEW l \in Kinds, PortClass(k) = PortClass(l)
  PROVE  \/ k = l
         \/ k \in A429Kinds /\ l \in A429Kinds
<1>1. k # "a429" /\ l # "a429"
  BY KindsAre
<1>2. \A j : j \in A429Kinds => PortClass(j) = "a429"
  BY DEF PortClass
<1>3. \A j : j \notin A429Kinds => PortClass(j) = j
  BY DEF PortClass
<1> QED
  BY <1>1, <1>2, <1>3

(* Only the initial value of a message may change when a declaration that  *)
(* has one meets it.                                                       *)
SameButInit(m, n) ==
  /\ n.kind = m.kind /\ n.dir = m.dir /\ n.encoding = m.encoding /\ n.max = m.max
  /\ m.init > 0 => n.init > 0

LEMMA InitialisedFacts ==
  ASSUME NEW d \in Declarations, NEW m, IsMessage(m), SizesAgree(m),
         PortClass(m.kind) = PortClass(d.kind)
  PROVE  LET n == Initialised(m, d)
         IN  /\ IsMessage(n) /\ SizesAgree(n) /\ SameButInit(m, n)
             /\ HasInit(d) => n.init > 0
<1> DEFINE n == Initialised(m, d)
<1>1. CASE ~HasInit(d)
  <2>1. n = m
    BY <1>1 DEF Initialised, HasInit
  <2> QED
    BY <1>1, <2>1 DEF SameButInit
<1>2. CASE HasInit(d)
  <2> DEFINE size == InitSize(d)
  <2>1. size \in Nat /\ size > 0
    BY <1>2, InitSizeFacts
  <2>2. n = InitData(m, size)
    BY <1>2 DEF Initialised, HasInit
  <2>3. m.kind \in Kinds /\ d.kind \in Kinds
    BY Configuration DEF IsMessage
  <2>4. m.kind \in {"discrete", "analogue"} => d.kind = m.kind
    BY <2>3, ClassFacts DEF A429Kinds
  <2>5. m.kind \in {"discrete", "analogue"} => size = m.max
    BY <1>2, <2>4, InitSizeFacts DEF SizesAgree
  <2>6. n = [m EXCEPT !.init = size]
    BY <2>2, <2>5 DEF InitData
  <2> HIDE DEF size, n
  <2>7. n = [kind |-> m.kind, dir |-> m.dir, encoding |-> m.encoding, max |-> m.max,
             expected |-> m.expected, depth |-> m.depth, user |-> m.user, init |-> size]
    BY <2>6 DEF IsMessage
  <2>8. IsMessage(n)
    BY <2>1, <2>7 DEF IsMessage
  <2>9. SizesAgree(n) /\ SameButInit(m, n) /\ n.init > 0
    BY <2>1, <2>7 DEF SizesAgree, SameButInit
  <2> QED
    BY <2>8, <2>9 DEF n
<1> QED
  BY <1>1, <1>2

-----------------------------------------------------------------------------
(* The message a declaration gets, shared or new, is what it declares.     *)
LEMMA MessageOfFacts ==
  ASSUME NEW s, Sound(s), NEW d \in Declarations, Accepts(s, d)
  PROVE  LET p == PortOf(s, d)
             m == MessageOf(p, d)
         IN  /\ IsPort(p) /\ p.class = PortClass(d.kind)
             /\ IsMessage(m) /\ SizesAgree(m) /\ FitsAt(m, Key(d), p.fifo)
             /\ PortClass(m.kind) = p.class
             /\ m.dir = d.dir /\ m.encoding = d.encoding
             /\ Key(d) \notin DOMAIN p.messages => m.kind = d.kind
             /\ Key(d) \in DOMAIN p.messages => Address(d) \in DOMAIN s.ports
<1> DEFINE a == Address(d)
           k == Key(d)
           p == PortOf(s, d)
           m == MessageOf(p, d)
<1>1. Described(d) /\ PortAgrees(p, d)
  BY DEF Accepts
<1>2. p.class = PortClass(d.kind)
  BY <1>1 DEF PortAgrees
<1>3. IsPort(p)
  <2>1. CASE a \in DOMAIN s.ports
    BY <2>1 DEF PortOf, Sound
  <2>2. CASE a \notin DOMAIN s.ports
    BY <1>1, <2>2, NewPortIsPort DEF PortOf
  <2> QED
    BY <2>1, <2>2
<1>4. k \in DOMAIN p.messages => a \in DOMAIN s.ports /\ p = s.ports[a]
  <2>1. a \notin DOMAIN s.ports => p.messages = Empty
    BY DEF PortOf, NewPort
  <2>2. a \in DOMAIN s.ports => p = s.ports[a]
    BY DEF PortOf
  <2> QED
    BY <2>1, <2>2, NothingInEmpty
<1>5. /\ k \in DOMAIN p.messages => MessageAgrees(p.messages[k], d)
      /\ k \notin DOMAIN p.messages => MessageFits(p, d)
  BY DEF Accepts
<1> HIDE DEF p
<1>a. CASE k \in DOMAIN p.messages
  <2>1. m = p.messages[k]
    BY <1>a DEF MessageOf
  <2>2. IsMessage(m) /\ SizesAgree(m) /\ FitsAt(m, k, p.fifo) /\ PortClass(m.kind) = p.class
    BY <1>3, <1>a, <2>1 DEF IsPort
  <2>3. PICK n \in DOMAIN s.names :
          /\ s.names[n].addr = a /\ s.names[n].key = k
          /\ s.names[n].declared.kind = m.kind
    BY <1>4, <1>a, <2>1 DEF Sound, MessagesAreDeclared
  <2> DEFINE e == s.names[n].declared
  <2>4. e \in Declarations /\ Address(e) = a /\ Obtained(m, e)
    BY <1>4, <1>a, <2>1, <2>3 DEF Sound, NamesLead
  <2>5. e.kind = m.kind
    BY <2>3
  <2> HIDE DEF e, m
  <2>6. m.dir = d.dir
    <3>1. <<e.dir, Channel(e).addr>> = <<d.dir, Channel(d).addr>>
      BY <2>4 DEF Address
    <3>2. e.dir = d.dir
      BY <3>1
    <3> QED
      BY <2>4, <3>2 DEF Obtained
  <2>7. m.encoding = d.encoding
    <3>1. CASE d.kind \in {"discrete", "analogue"}
      BY <1>5, <1>a, <2>1, <3>1 DEF MessageAgrees, SignalAgrees
    <3>2. CASE d.kind \notin {"discrete", "analogue"}
      <4>1. d.kind \in Kinds /\ m.kind \in Kinds /\ PortClass(m.kind) = PortClass(d.kind)
        BY <1>2, <2>2, Configuration DEF IsMessage
      <4>2. m.kind \notin {"discrete", "analogue"}
        BY <3>2, <4>1, ClassFacts DEF A429Kinds
      <4>3. {d.kind, e.kind} \cap {"discrete", "analogue"} = {}
        BY <2>5, <3>2, <4>2
      <4>4. e.encoding = d.encoding
        BY <2>4, <4>3, Configuration
      <4> QED
        BY <2>4, <4>4 DEF Obtained
    <3> QED
      BY <3>1, <3>2
  <2> QED
    BY <1>2, <1>3, <1>4, <1>a, <2>2, <2>6, <2>7 DEF p, m
<1>b. CASE k \notin DOMAIN p.messages
  <2>1. m = NewMessage(d)
    BY <1>b DEF MessageOf
  <2>2. /\ IsMessage(m) /\ SizesAgree(m)
        /\ m.kind = d.kind /\ m.dir = d.dir /\ m.encoding = d.encoding
    BY <1>1, <2>1, NewMessageFacts
  <2>3. d.kind \in Grouped => WireFits(p, d)
    BY <1>5, <1>b DEF MessageFits, Grouped, A429Kinds
  <2>4. p.fifo \in Nat
    BY <1>3 DEF IsPort
  <2>5. FitsAt(m, k, p.fifo)
    BY <1>1, <2>1, <2>3, <2>4, NewMessageFits
  <2>6. PortClass(m.kind) = p.class
    BY <1>2, <2>2
  <2> HIDE DEF m
  <2> QED
    BY <1>2, <1>3, <1>b, <2>2, <2>5, <2>6 DEF p, m
<1> QED
  BY <1>a, <1>b

(* One message is put, in place of one that differs at most in what        *)
(* SameButInit and IsPort leave open, or as a new one with a new name.     *)
LEMMA SoundAfterPut ==
  ASSUME NEW s, Sound(s), NEW t, NEW a, NEW k,
         DOMAIN t.ports = DOMAIN s.ports \cup {a},
         \A b \in DOMAIN s.ports : b # a => t.ports[b] = s.ports[b],
         IsPort(t.ports[a]),
         k \in DOMAIN t.ports[a].messages,
         \A l \in DOMAIN t.ports[a].messages :
           l # k => /\ a \in DOMAIN s.ports /\ l \in DOMAIN s.ports[a].messages
                    /\ t.ports[a].messages[l] = s.ports[a].messages[l],
         a \in DOMAIN s.ports =>
           /\ t.ports[a].class = s.ports[a].class
           /\ DOMAIN s.ports[a].messages \subseteq DOMAIN t.ports[a].messages
           /\ k \in DOMAIN s.ports[a].messages =>
                SameButInit(s.ports[a].messages[k], t.ports[a].messages[k]),
         DOMAIN s.names \subseteq DOMAIN t.names,
         \A n \in DOMAIN s.names : t.names[n] = s.names[n],
         \A n \in DOMAIN t.names \ DOMAIN s.names :
           LET e == t.names[n]
           IN  /\ e.declared \in Declarations
               /\ e.addr = Address(e.declared) /\ e.key = Key(e.declared)
               /\ e.addr = a /\ e.key = k
               /\ t.ports[a].class = PortClass(e.declared.kind)
               /\ Obtained(t.ports[a].messages[k], e.declared),
         \/ a \in DOMAIN s.ports /\ k \in DOMAIN s.ports[a].messages
         \/ \E n \in DOMAIN t.names :
              /\ t.names[n].addr = a /\ t.names[n].key = k
              /\ t.names[n].declared.kind = t.ports[a].messages[k].kind
  PROVE  Sound(t)
<1>1. ASSUME NEW b \in DOMAIN t.ports
      PROVE  IsPort(t.ports[b])
  BY <1>1 DEF Sound
<1>2. NamesLead(t)
  <2> SUFFICES ASSUME NEW n \in DOMAIN t.names
               PROVE  LET e == t.names[n]
                      IN  /\ e.declared \in Declarations
                          /\ e.addr = Address(e.declared) /\ e.key = Key(e.declared)
                          /\ e.addr \in DOMAIN t.ports
                          /\ e.key \in DOMAIN t.ports[e.addr].messages
                          /\ t.ports[e.addr].class = PortClass(e.declared.kind)
                          /\ Obtained(t.ports[e.addr].messages[e.key], e.declared)
    BY DEF NamesLead
  <2>1. CASE n \notin DOMAIN s.names
    BY <2>1
  <2>2. CASE n \in DOMAIN s.names
    <3> DEFINE e == s.names[n]
               old == s.ports[e.addr].messages[e.key]
               new == t.ports[e.addr].messages[e.key]
    <3>1. /\ e.declared \in Declarations
          /\ e.addr = Address(e.declared) /\ e.key = Key(e.declared)
          /\ e.addr \in DOMAIN s.ports /\ e.key \in DOMAIN s.ports[e.addr].messages
          /\ s.ports[e.addr].class = PortClass(e.declared.kind)
          /\ Obtained(old, e.declared)
      BY <2>2 DEF Sound, NamesLead
    <3>2. t.names[n] = e
      BY <2>2
    <3> HIDE DEF e
    <3>3. /\ e.addr \in DOMAIN t.ports /\ e.key \in DOMAIN t.ports[e.addr].messages
          /\ t.ports[e.addr].class = s.ports[e.addr].class
      BY <3>1
    <3>4. new = old \/ SameButInit(old, new)
      BY <3>1, <3>3
    <3> HIDE DEF old, new
    <3>5. Obtained(new, e.declared)
      BY <3>1, <3>4 DEF Obtained, SameButInit
    <3> QED
      BY <3>1, <3>2, <3>3, <3>5 DEF new
  <2> QED
    BY <2>1, <2>2
<1>3. MessagesAreDeclared(t)
  <2> SUFFICES ASSUME NEW b \in DOMAIN t.ports, NEW l \in DOMAIN t.ports[b].messages
               PROVE  \E n \in DOMAIN t.names :
                        /\ t.names[n].addr = b /\ t.names[n].key = l
                        /\ t.names[n].declared.kind = t.ports[b].messages[l].kind
    BY DEF MessagesAreDeclared
  <2>1. CASE b \in DOMAIN s.ports /\ l \in DOMAIN s.ports[b].messages
    <3>1. PICK n \in DOMAIN s.names :
            /\ s.names[n].addr = b /\ s.names[n].key = l
            /\ s.names[n].declared.kind = s.ports[b].messages[l].kind
      BY <2>1 DEF Sound, MessagesAreDeclared
    <3>2. n \in DOMAIN t.names /\ t.names[n] = s.names[n]
      OBVIOUS
    <3>3. t.ports[b].messages[l].kind = s.ports[b].messages[l].kind
      BY <2>1 DEF SameButInit
    <3> QED
      BY <3>1, <3>2, <3>3
  <2>2. CASE ~(b \in DOMAIN s.ports /\ l \in DOMAIN s.ports[b].messages)
    <3>1. b = a /\ l = k
      BY <2>2
    <3> QED
      BY <2>2, <3>1
  <2> QED
    BY <2>1, <2>2
<1> QED
  BY <1>1, <1>2, <1>3 DEF Sound

(* What is loaded, in terms of what was there: the names, and the port.    *)
LEMMA LoadedNames ==
  ASSUME NEW s, NEW d, Accepts(s, d)
  PROVE  LET t == Loaded(s, d)
         IN  /\ Name(d) \notin DOMAIN s.names
             /\ DOMAIN t.names = DOMAIN s.names \cup {Name(d)}
             /\ t.names[Name(d)].addr = Address(d) /\ t.names[Name(d)].key = Key(d)
             /\ t.names[Name(d)].declared = d
             /\ \A n \in DOMAIN s.names : t.names[n] = s.names[n]
<1> DEFINE entry == [addr |-> Address(d), key |-> Key(d),
                     wrapper |-> Key(d) \in DOMAIN PortOf(s, d).messages, declared |-> d]
           t == Loaded(s, d)
<1>1. Name(d) \notin DOMAIN s.names
  BY DEF Accepts
<1>2. t.names = Put(s.names, Name(d), entry)
  BY DEF Loaded
<1>3. entry.addr = Address(d) /\ entry.key = Key(d) /\ entry.declared = d
  OBVIOUS
<1> HIDE DEF t, entry
<1> QED
  BY <1>1, <1>2, <1>3 DEF Put, t

LEMMA LoadedPort ==
  ASSUME NEW s, Sound(s), NEW d \in Declarations, Accepts(s, d)
  PROVE  LET t == Loaded(s, d)
             a == Address(d)
             k == Key(d)
             p == PortOf(s, d)
             q == t.ports[a]
         IN  /\ DOMAIN t.ports = DOMAIN s.ports \cup {a}
             /\ \A b \in DOMAIN s.ports : b # a => t.ports[b] = s.ports[b]
             /\ q.route = p.route /\ q.header = p.header /\ q.class = p.class /\ q.fifo = p.fifo
             /\ DOMAIN q.messages = DOMAIN p.messages \cup {k}
             /\ \A l \in DOMAIN p.messages : l # k => q.messages[l] = p.messages[l]
             /\ q = [class |-> q.class, route |-> q.route, header |-> q.header, fifo |-> q.fifo,
                     messages |-> q.messages]
             /\ SameButInit(MessageOf(p, d), q.messages[k])
             /\ IsMessage(q.messages[k]) /\ SizesAgree(q.messages[k])
             /\ HasInit(d) => q.messages[k].init > 0
<1> DEFINE a == Address(d)
           k == Key(d)
           p == PortOf(s, d)
           o == MessageOf(p, d)
           m == Initialised(o, d)
           q == [p EXCEPT !.messages = Put(p.messages, k, m)]
           t == Loaded(s, d)
<1>1. /\ IsPort(p) /\ p.class = PortClass(d.kind)
      /\ IsMessage(o) /\ SizesAgree(o) /\ PortClass(o.kind) = p.class
  BY MessageOfFacts
<1>2. t.ports = Put(s.ports, a, q)
  BY DEF Loaded
<1> HIDE DEF p, o, t
<1>3. /\ IsMessage(m) /\ SizesAgree(m) /\ SameButInit(o, m)
      /\ HasInit(d) => m.init > 0
  BY <1>1, InitialisedFacts
<1> HIDE DEF m
<1>4. /\ q.route = p.route /\ q.header = p.header /\ q.class = p.class /\ q.fifo = p.fifo
      /\ q.messages = Put(p.messages, k, m)
      /\ q = [class |-> q.class, route |-> q.route, header |-> q.header, fifo |-> q.fifo,
              messages |-> q.messages]
  BY <1>1 DEF IsPort
<1> HIDE DEF q
<1>5. /\ DOMAIN q.messages = DOMAIN p.messages \cup {k}
      /\ q.messages[k] = m
      /\ \A l \in DOMAIN p.messages : l # k => q.messages[l] = p.messages[l]
  BY <1>4 DEF Put
<1>6. /\ DOMAIN t.ports = DOMAIN s.ports \cup {a}
      /\ t.ports[a] = q
      /\ \A b \in DOMAIN s.ports : b # a => t.ports[b] = s.ports[b]
  BY <1>2 DEF Put
<1> HIDE DEF a, k
<1> QED
  BY <1>3, <1>4, <1>5, <1>6 DEF a, k, p, o, t

LEMMA LoadedIsSound ==
  ASSUME NEW s, Sound(s), NEW d \in Declarations, Accepts(s, d)
  PROVE  Sound(Loaded(s, d))
<1> DEFINE a == Address(d)
           k == Key(d)
           p == PortOf(s, d)
           o == MessageOf(p, d)
           t == Loaded(s, d)
           q == t.ports[a]
           m == q.messages[k]
<1>1. /\ IsPort(p) /\ p.class = PortClass(d.kind)
      /\ FitsAt(o, k, p.fifo) /\ PortClass(o.kind) = p.class
      /\ o.dir = d.dir /\ o.encoding = d.encoding
      /\ k \notin DOMAIN p.messages => o.kind = d.kind
      /\ k \in DOMAIN p.messages => a \in DOMAIN s.ports
  BY MessageOfFacts
<1>2. k \in DOMAIN p.messages => o = p.messages[k]
  BY DEF MessageOf
<1>3. a \in DOMAIN s.ports => p = s.ports[a]
  BY DEF PortOf
<1>4. a \notin DOMAIN s.ports => DOMAIN p.messages = {}
  BY NothingInEmpty DEF PortOf, NewPort
<1>5. /\ DOMAIN t.names = DOMAIN s.names \cup {Name(d)}
      /\ t.names[Name(d)].addr = a /\ t.names[Name(d)].key = k
      /\ t.names[Name(d)].declared = d
      /\ \A n \in DOMAIN s.names : t.names[n] = s.names[n]
      /\ DOMAIN t.ports = DOMAIN s.ports \cup {a}
      /\ \A b \in DOMAIN s.ports : b # a => t.ports[b] = s.ports[b]
      /\ q.class = p.class /\ q.fifo = p.fifo
      /\ DOMAIN q.messages = DOMAIN p.messages \cup {k}
      /\ \A l \in DOMAIN p.messages : l # k => q.messages[l] = p.messages[l]
      /\ q = [class |-> q.class, route |-> q.route, header |-> q.header, fifo |-> q.fifo,
              messages |-> q.messages]
      /\ SameButInit(o, m) /\ IsMessage(m) /\ SizesAgree(m)
      /\ HasInit(d) => m.init > 0
  BY LoadedNames, LoadedPort
<1> HIDE DEF p, o, t, q, m
<1>6. FitsAt(m, k, p.fifo) /\ PortClass(m.kind) = q.class
  BY <1>1, <1>5 DEF FitsAt, SameButInit
<1>7. IsPort(q)
  <2>1. ASSUME NEW l \in DOMAIN q.messages
        PROVE  LET n == q.messages[l]
               IN  /\ IsMessage(n) /\ SizesAgree(n) /\ FitsAt(n, l, q.fifo)
                   /\ PortClass(n.kind) = q.class
    <3>1. CASE l = k
      BY <1>5, <1>6, <3>1 DEF m
    <3>2. CASE l # k
      BY <1>1, <1>5, <3>2 DEF IsPort
    <3> QED
      BY <3>1, <3>2
  <2>2. q.fifo \in Nat
    BY <1>1, <1>5 DEF IsPort
  <2> QED
    BY <1>5, <2>1, <2>2 DEF IsPort
<1>8. Obtained(m, d)
  BY <1>1, <1>5 DEF Obtained, SameButInit
<1>9. \A n \in DOMAIN t.names \ DOMAIN s.names :
        LET e == t.names[n]
        IN  /\ e.declared \in Declarations
            /\ e.addr = Address(e.declared) /\ e.key = Key(e.declared)
            /\ e.addr = a /\ e.key = k
            /\ q.class = PortClass(e.declared.kind)
            /\ Obtained(m, e.declared)
  BY <1>1, <1>5, <1>8
<1>10. k \in DOMAIN q.messages /\ \A l \in DOMAIN q.messages :
         l # k => /\ a \in DOMAIN s.ports /\ l \in DOMAIN s.ports[a].messages
                  /\ q.messages[l] = s.ports[a].messages[l]
  BY <1>3, <1>4, <1>5
<1>11. a \in DOMAIN s.ports =>
         /\ q.class = s.ports[a].class
         /\ DOMAIN s.ports[a].messages \subseteq DOMAIN q.messages
         /\ k \in DOMAIN s.ports[a].messages => SameButInit(s.ports[a].messages[k], m)
  BY <1>2, <1>3, <1>5
<1>12. \/ a \in DOMAIN s.ports /\ k \in DOMAIN s.ports[a].messages
       \/ \E n \in DOMAIN t.names :
            /\ t.names[n].addr = a /\ t.names[n].key = k
            /\ t.names[n].declared.kind = m.kind
  <2>1. CASE k \in DOMAIN p.messages
    BY <1>1, <1>3, <2>1
  <2>2. CASE k \notin DOMAIN p.messages
    <3>1. m.kind = d.kind
      BY <1>1, <1>5, <2>2 DEF SameButInit
    <3> QED
      BY <1>5, <3>1
  <2> QED
    BY <2>1, <2>2
<1> HIDE DEF a, k
<1>13. Sound(t)
  BY <1>5, <1>7, <1>9, <1>10, <1>11, <1>12, SoundAfterPut DEF q, m
<1> QED
  BY <1>13 DEF t

(* A name in a sound context leads to a message with all that IsPort says. *)
LEMMA NameLeads ==
  ASSUME Sound(Context), NEW n \in DOMAIN names
  PROVE  LET m == MessageAt(n)
             d == names[n].declared
         IN  /\ names[n].addr \in DOMAIN ports
             /\ names[n].key \in DOMAIN ports[names[n].addr].messages
             /\ IsPort(ports[names[n].addr])
             /\ IsMessage(m) /\ SizesAgree(m)
             /\ FitsAt(m, names[n].key, ports[names[n].addr].fifo)
             /\ d \in Declarations /\ m.dir = d.dir /\ Obtained(m, d)
             /\ PortClass(m.kind) = PortClass(d.kind)
<1> DEFINE a == names[n].addr
           k == names[n].key
           m == ports[a].messages[k]
           d == names[n].declared
<1>1. Context.ports = ports /\ Context.names = names
  BY DEF Context
<1>2. /\ a \in DOMAIN ports /\ k \in DOMAIN ports[a].messages
      /\ ports[a].class = PortClass(d.kind)
      /\ d \in Declarations /\ Obtained(m, d)
  BY <1>1 DEF Sound, NamesLead
<1>3. IsPort(ports[a])
  BY <1>1, <1>2 DEF Sound
<1>4. /\ IsMessage(m) /\ SizesAgree(m) /\ FitsAt(m, k, ports[a].fifo)
      /\ PortClass(m.kind) = ports[a].class
  BY <1>2, <1>3 DEF IsPort
<1> HIDE DEF a, k, m, d
<1>5. m.dir = d.dir
  BY <1>2 DEF Obtained
<1> QED
  BY <1>2, <1>3, <1>4, <1>5 DEF MessageAt, a, k, m, d

LEMMA UserSizeFacts ==
  ASSUME NEW m, IsMessage(m), SizesAgree(m), NEW asked \in Asked
  PROVE  /\ UserSize(m, asked) \in Nat
         /\ m.kind = "a429_queuing" => UserSize(m, asked) =< m.max
<1> DEFINE u == UserSize(m, asked)
<1>1. asked.depth \in Nat /\ LabelSize = 4 /\ m.depth \in Nat /\ m.max \in Nat /\ m.user \in Nat
  <2>1. asked.depth \in UNION {{1, d.depth} : d \in Declarations}
    BY DEF Asked
  <2>2. PICK d \in Declarations : asked.depth \in {1, d.depth}
    BY <2>1
  <2> QED
    BY <2>2, Configuration DEF LabelSize, IsMessage
<1>2. LabelSize * asked.depth \in Nat
  BY <1>1
<1>3. CASE asked.protocol = Protocol(m.kind) /\ m.kind = "a429_queuing"
           /\ CheckQueuingLabel(m, asked)
  <2>1. u = LabelSize * asked.depth
    BY <1>3 DEF UserSize
  <2>2. asked.depth =< m.depth /\ LabelSize * m.depth =< m.max
    BY <1>3 DEF CheckQueuingLabel, SizesAgree
  <2> QED
    BY <1>1, <1>2, <2>1, <2>2
<1>4. CASE asked.protocol = Protocol(m.kind) /\ m.kind = "discrete" /\ asked.size \in {1, 4}
  <2>1. u = asked.size
    BY <1>4 DEF UserSize
  <2> QED
    BY <1>4, <2>1
<1>5. CASE /\ ~(/\ asked.protocol = Protocol(m.kind) /\ m.kind = "a429_queuing"
                /\ CheckQueuingLabel(m, asked))
           /\ ~(asked.protocol = Protocol(m.kind) /\ m.kind = "discrete" /\ asked.size \in {1, 4})
  <2>1. u = m.user
    <3>1. CASE asked.protocol # Protocol(m.kind)
      BY <3>1 DEF UserSize
    <3>2. CASE asked.protocol = Protocol(m.kind)
      <4>1. /\ ~(m.kind = "discrete" /\ asked.size \in {1, 4})
            /\ ~(m.kind = "a429_queuing" /\ CheckQueuingLabel(m, asked))
        BY <1>5, <3>2
      <4> QED
        BY <3>2, <4>1 DEF UserSize
    <3> QED
      BY <3>1, <3>2
  <2> QED
    BY <1>1, <2>1 DEF SizesAgree
<1> QED
  BY <1>3, <1>4, <1>5

(* What get_message leaves in the message, and nowhere else.               *)
LEMMA GetMessageFacts ==
  ASSUME Sound(Context), NEW n \in DOMAIN names, NEW asked \in Asked,
         GetMessage(n, asked)
  PROVE  LET a == names[n].addr
             k == names[n].key
             m == ports[a].messages[k]
             new == ports'[a].messages[k]
         IN  /\ DOMAIN ports' = DOMAIN ports
             /\ \A b \in DOMAIN ports : b # a => ports'[b] = ports[b]
             /\ IsPort(ports'[a])
             /\ ports'[a].class = ports[a].class
             /\ DOMAIN ports'[a].messages = DOMAIN ports[a].messages
             /\ \A l \in DOMAIN ports[a].messages :
                  l # k => ports'[a].messages[l] = ports[a].messages[l]
             /\ new = [m EXCEPT !.user = UserSize(m, asked)]
             /\ SameButInit(m, new) /\ IsMessage(new) /\ SizesAgree(new)
<1> DEFINE a == names[n].addr
           k == names[n].key
           p == ports[a]
           m == p.messages[k]
           u == UserSize(m, asked)
           new == [m EXCEPT !.user = u]
           ms == [p.messages EXCEPT ![k] = new]
           q == [p EXCEPT !.messages = ms]
<1>1. /\ a \in DOMAIN ports /\ k \in DOMAIN p.messages /\ IsPort(p)
      /\ IsMessage(m) /\ SizesAgree(m) /\ FitsAt(m, k, p.fifo) /\ PortClass(m.kind) = p.class
  <2>1. /\ a \in DOMAIN ports /\ k \in DOMAIN p.messages /\ IsPort(p)
    BY NameLeads
  <2> HIDE DEF a, k
  <2> QED
    BY <2>1 DEF IsPort
<1>2. ports' = [ports EXCEPT ![a] = q]
  BY DEF GetMessage, MessageAt
<1>3. u \in Nat /\ (m.kind = "a429_queuing" => u =< m.max)
  <2> HIDE DEF m
  <2> QED
    BY <1>1, UserSizeFacts
<1> HIDE DEF a, k, u
<1>4. /\ new = [kind |-> m.kind, dir |-> m.dir, encoding |-> m.encoding, max |-> m.max,
                expected |-> m.expected, depth |-> m.depth, user |-> u, init |-> m.init]
  BY <1>1 DEF IsMessage
<1> HIDE DEF m, new
<1>5. IsMessage(new) /\ SameButInit(m, new) /\ FitsAt(new, k, p.fifo) /\ PortClass(new.kind) = p.class
  BY <1>1, <1>3, <1>4 DEF IsMessage, SameButInit, FitsAt
<1>6. SizesAgree(new)
  BY <1>1, <1>3, <1>4 DEF SizesAgree
<1>7. /\ q.fifo = p.fifo /\ q.class = p.class /\ q.messages = ms
      /\ q = [class |-> q.class, route |-> q.route, header |-> q.header, fifo |-> q.fifo,
              messages |-> q.messages]
  BY <1>1 DEF IsPort
<1>8. /\ DOMAIN ms = DOMAIN p.messages /\ ms[k] = new
      /\ \A l \in DOMAIN p.messages : l # k => ms[l] = p.messages[l]
  BY <1>1
<1> HIDE DEF ms, q
<1>9. IsPort(q)
  <2>1. ASSUME NEW l \in DOMAIN q.messages
        PROVE  LET o == q.messages[l]
               IN  /\ IsMessage(o) /\ SizesAgree(o) /\ FitsAt(o, l, q.fifo)
                   /\ PortClass(o.kind) = q.class
    <3>1. CASE l = k
      BY <1>5, <1>6, <1>7, <1>8, <3>1
    <3>2. CASE l # k
      BY <1>1, <1>7, <1>8, <3>2 DEF IsPort
    <3> QED
      BY <3>1, <3>2
  <2>2. q.fifo \in Nat
    BY <1>1, <1>7 DEF IsPort
  <2> QED
    BY <1>7, <2>1, <2>2 DEF IsPort
<1>10. DOMAIN ports' = DOMAIN ports /\ ports'[a] = q /\ \A b \in DOMAIN ports : b # a => ports'[b] = ports[b]
  BY <1>1, <1>2
<1>11. ports'[a].messages[k] = new
  BY <1>7, <1>8, <1>10
<1>12. new = [m EXCEPT !.user = UserSize(m, asked)]
  BY DEF new, u, m
<1> QED
  BY <1>5, <1>6, <1>7, <1>8, <1>9, <1>10, <1>11, <1>12 DEF a, k, m, p

LEMMA GetMessageKeepsSound ==
  ASSUME Sound(Context), NEW n \in DOMAIN names, NEW asked \in Asked,
         GetMessage(n, asked)
  PROVE  Sound(Context)'
<1> DEFINE a == names[n].addr
           k == names[n].key
           s == Context
           t == [ports |-> ports', names |-> names']
<1>1. /\ DOMAIN ports' = DOMAIN ports
      /\ \A b \in DOMAIN ports : b # a => ports'[b] = ports[b]
      /\ IsPort(ports'[a])
      /\ ports'[a].class = ports[a].class
      /\ DOMAIN ports'[a].messages = DOMAIN ports[a].messages
      /\ \A l \in DOMAIN ports[a].messages :
           l # k => ports'[a].messages[l] = ports[a].messages[l]
      /\ SameButInit(ports[a].messages[k], ports'[a].messages[k])
  BY GetMessageFacts
<1>2. a \in DOMAIN ports /\ k \in DOMAIN ports[a].messages
  BY NameLeads
<1>3. s.ports = ports /\ s.names = names /\ t.ports = ports' /\ t.names = names /\ t = Context'
  BY DEF Context, GetMessage
<1> HIDE DEF a, k, s, t
<1>4. Sound(s)
  BY DEF s
<1>5. Sound(t)
  BY <1>1, <1>2, <1>3, <1>4, SoundAfterPut
<1> QED
  BY <1>3, <1>5 DEF Sound, NamesLead, MessagesAreDeclared

(* Sound is inductive: what a name leads to is never replaced by something *)
(* that its declaration does not say.                                      *)
LEMMA AlwaysSound == CreationSpec => []Sound(Context)
<1>1. CreationInit => Sound(Context)
  <2> SUFFICES ASSUME CreationInit
               PROVE  Sound(Context)
    OBVIOUS
  <2>1. DOMAIN Context.ports = {} /\ DOMAIN Context.names = {}
    BY NothingInEmpty DEF CreationInit, Context
  <2> QED
    BY <2>1 DEF Sound, NamesLead, MessagesAreDeclared
<1>2. Sound(Context) /\ [CreationNext]_creationVars => Sound(Context)'
  <2> SUFFICES ASSUME Sound(Context), [CreationNext]_creationVars
               PROVE  Sound(Context)'
    OBVIOUS
  <2>1. CASE UNCHANGED <<ports, names>>
    <3>1. Context' = Context
      BY <2>1 DEF Context
    <3> QED
      BY <3>1 DEF Sound, NamesLead, MessagesAreDeclared
  <2>2. CASE ports' = Empty /\ names' = Empty
    <3>1. DOMAIN Context'.ports = {} /\ DOMAIN Context'.names = {}
      BY <2>2, NothingInEmpty DEF Context
    <3> QED
      BY <3>1 DEF Sound, NamesLead, MessagesAreDeclared
  <2>3. ASSUME NEW d \in Declarations, Declare(d)
        PROVE  Sound(Context)'
    <3>1. Sound(Loaded(Context, d))
      BY <2>3, LoadedIsSound DEF Declare
    <3>2. Context' = Loaded(Context, d)
      BY <2>3 DEF Declare, Context, Loaded
    <3> QED
      BY <3>1, <3>2 DEF Sound, NamesLead, MessagesAreDeclared
  <2>4. ASSUME NEW n, NEW asked \in Asked, GetMessage(n, asked)
        PROVE  Sound(Context)'
    <3>1. n \in DOMAIN names
      BY <2>4 DEF GetMessage, FindMessage
    <3> QED
      BY <2>4, <3>1, GetMessageKeepsSound
  <2>5. \/ UNCHANGED <<ports, names>>
        \/ ports' = Empty /\ names' = Empty
        \/ \E d \in Declarations : Declare(d)
        \/ \E n \in {Name(d) : d \in Declarations} : \E asked \in Asked : GetMessage(n, asked)
    BY DEF CreationNext, Refuse, Crash, Build, BuildFails, Fail, NextInList, creationVars
  <2> QED
    BY <2>1, <2>2, <2>3, <2>4, <2>5
<1> QED
  BY <1>1, <1>2, PTL DEF CreationSpec

-----------------------------------------------------------------------------
(* No wired message ever reaches beyond the buffer of its port, however    *)
(* many declarations share the port and whichever of them made it, if the  *)
(* positions of the network file do not wrap around.                       *)
THEOREM SlotsAlwaysFit == OffsetsDoNotWrap => (CreationSpec => []SlotsFit)
<1> SUFFICES ASSUME OffsetsDoNotWrap
             PROVE  CreationSpec => []SlotsFit
  OBVIOUS
<1>1. Sound(Context) => SlotsFit
  <2> SUFFICES ASSUME Sound(Context), NEW n \in DOMAIN names, MessageAt(n).kind \in Grouped
               PROVE  LET m == MessageAt(n)
                          fifo == ports[names[n].addr].fifo
                      IN  \/ HeaderSize + names[n].key + m.max =< fifo
                          \/ m.kind = "nad" /\ m.max > fifo
    BY DEF SlotsFit
  <2>1. FitsAt(MessageAt(n), names[n].key, ports[names[n].addr].fifo)
    BY NameLeads
  <2> QED
    BY <2>1 DEF FitsAt
<1> QED
  BY <1>1, AlwaysSound, PTL

(* The functions of the declared mode and direction work on the message of *)
(* every name, and its encoding is the declared one; the one exception is  *)
(* a label declared in both modes.                                         *)
THEOREM AlwaysObtainedAsDeclared == CreationSpec => []ObtainedAsDeclared
<1>1. Sound(Context) => ObtainedAsDeclared
  <2> SUFFICES ASSUME Sound(Context), NEW n \in DOMAIN names
               PROVE  LET d == names[n].declared IN
                      \/ Uses(d) \subseteq Operations(n) /\ MessageAt(n).encoding = d.encoding
                      \/ /\ d.kind \in A429Kinds
                         /\ \E o \in DOMAIN names \ {n} :
                              /\ names[o].addr = names[n].addr
                              /\ names[o].declared.id = d.id
                              /\ names[o].declared.kind # d.kind
    BY DEF ObtainedAsDeclared
  <2> DEFINE d == names[n].declared
             m == MessageAt(n)
  <2>1. /\ d \in Declarations /\ m.dir = d.dir /\ Obtained(m, d)
        /\ PortClass(m.kind) = PortClass(d.kind) /\ m.kind \in Kinds
        /\ names[n].addr \in DOMAIN ports
        /\ names[n].key \in DOMAIN ports[names[n].addr].messages
    BY NameLeads DEF IsMessage
  <2>2. d.kind \in Kinds /\ d.dir \in {"in", "out"}
    BY <2>1, Configuration
  <2>3. CASE m.kind = d.kind
    <3>1. m.encoding = d.encoding
      BY <2>1 DEF Obtained
    <3>2. Uses(d) \subseteq Operations(n)
      <4> HIDE DEF d
      <4>1. CASE d.kind = "nad"
        <5>0. Mode(d.kind) # "queuing"
          BY <4>1 DEF Mode
        <5>1. CASE d.dir = "in"
          <6>1. Uses(d) = {"read_nad"} /\ MayReadNad(m)
            BY <2>1, <2>3, <4>1, <5>0, <5>1 DEF Uses, MayReadNad
          <6> QED
            BY <6>1 DEF Operations
        <5>2. CASE d.dir # "in"
          <6>1. Uses(d) = {"write_nad"} /\ MayWriteNad(m)
            BY <2>1, <2>2, <2>3, <4>1, <5>0, <5>2 DEF Uses, MayWriteNad
          <6> QED
            BY <6>1 DEF Operations
        <5> QED
          BY <5>1, <5>2
      <4>2. CASE d.kind # "nad" /\ Mode(d.kind) = "queuing"
        BY <2>1, <2>2, <2>3, <4>2 DEF Uses, Operations, MayPop, MayPush, MayCountPending
      <4>3. CASE d.kind # "nad" /\ Mode(d.kind) # "queuing"
        <5>1. Mode(d.kind) = "sampling"
          BY <4>3 DEF Mode
        <5> QED
          BY <2>1, <2>2, <2>3, <4>3, <5>1 DEF Uses, Operations, MayRead, MayWrite, MayInvalidate
      <4> QED
        BY <4>1, <4>2, <4>3
    <3> QED
      BY <3>1, <3>2
  <2>4. CASE m.kind # d.kind
    <3>1. d.kind \in A429Kinds /\ m.kind \in A429Kinds
      BY <2>1, <2>2, <2>4, ClassFacts
    <3>2. Context.ports = ports /\ Context.names = names
      BY DEF Context
    <3>3. PICK o \in DOMAIN names :
            /\ names[o].addr = names[n].addr /\ names[o].key = names[n].key
            /\ names[o].declared.kind = m.kind
      BY <2>1, <3>2 DEF Sound, MessagesAreDeclared, MessageAt
    <3> DEFINE e == names[o].declared
    <3>4. Key(e) = names[o].key /\ Key(d) = names[n].key
      BY <3>2 DEF Sound, NamesLead
    <3>5. e.kind \in A429Kinds /\ e.kind # d.kind /\ o # n
      BY <2>4, <3>1, <3>3
    <3> HIDE DEF d, e
    <3>6. Key(d) = <<d.id, SdiEncode(d.sdi)>> /\ Key(e) = <<e.id, SdiEncode(e.sdi)>>
      BY <3>1, <3>5 DEF Key, A429Kinds, Grouped
    <3>7. e.id = d.id
      BY <3>3, <3>4, <3>6
    <3> QED
      BY <3>1, <3>3, <3>5, <3>7 DEF d, e
  <2> QED
    BY <2>3, <2>4
<1> QED
  BY <1>1, AlwaysSound, PTL

(* A name for which the init file has a value leads to a message with one, *)
(* whoever declared the message first.                                     *)
THEOREM InitValueAlwaysGiven == CreationSpec => []InitValueIsGiven
<1>1. Sound(Context) => InitValueIsGiven
  <2> SUFFICES ASSUME Sound(Context), NEW n \in DOMAIN names,
                      NEW i \in DOMAIN InitFile,
                      <<InitFile[i].protocol, InitFile[i].local>>
                        = <<Protocol(names[n].declared.kind), names[n].declared.local>>,
                      names[n].declared.kind \notin {"nad", "afdx_queuing", "a429_queuing"},
                      ~(/\ names[n].declared.kind \in {"discrete", "analogue"}
                        /\ names[n].declared.local # names[n].declared.name)
               PROVE  MessageAt(n).init > 0
    BY DEF InitValueIsGiven
  <2> DEFINE d == names[n].declared
  <2>1. Obtained(MessageAt(n), d)
    BY NameLeads
  <2>2. InitKey(d) = <<Protocol(d.kind), d.local>>
    BY DEF InitKey
  <2>3. i \in InitValues(InitKey(d))
    BY <2>2 DEF InitValues
  <2>4. HasInit(d)
    BY <2>3 DEF HasInit, HasValue, Mode
  <2> QED
    BY <2>1, <2>4 DEF Obtained
<1> QED
  BY <1>1, AlwaysSound, PTL

(* What a handle that has passed the checks gets is what its message       *)
(* delivers.                                                               *)
LEMMA CheckedFits ==
  ASSUME NEW m, IsMessage(m), SizesAgree(m), NEW asked \in Asked, Check(m, asked),
         NEW new, new = [m EXCEPT !.user = UserSize(m, asked)]
  PROVE  \/ /\ new.kind = "a429_queuing"
            /\ Delivers(new) =< asked.size * asked.depth
         \/ /\ new.kind # "a429_queuing"
            /\ Delivers(new) =< asked.size \/ new.init > new.max
<1>1. /\ m.kind \in Kinds
      /\ m.max \in Nat /\ m.expected \in Nat /\ m.init \in Nat /\ m.depth \in Nat
  BY DEF IsMessage
<1>2. /\ new.kind = m.kind /\ new.max = m.max /\ new.init = m.init
      /\ new.user = UserSize(m, asked)
  <2> HIDE DEF UserSize
  <2> QED
    BY DEF IsMessage
<1>3. asked.size \in Nat /\ asked.depth \in Nat
  <2>1. /\ asked.size \in UNION {{1, 4, 8} \cup {d.size} : d \in Declarations}
        /\ asked.depth \in UNION {{1, d.depth} : d \in Declarations}
    BY DEF Asked
  <2>2. asked.size \in Nat
    BY <2>1, Configuration
  <2>3. asked.depth \in Nat
    BY <2>1, Configuration
  <2> QED
    BY <2>2, <2>3
<1>4. asked.protocol = Protocol(m.kind)
  BY DEF Check
<1>a. CASE m.kind = "a429_queuing"
  <2>1. CheckQueuingLabel(m, asked)
    BY <1>a DEF Check
  <2>2. UserSize(m, asked) = LabelSize * asked.depth
    BY <1>4, <1>a, <2>1 DEF UserSize
  <2>3. Delivers(new) = LabelSize * asked.depth
    BY <1>2, <1>a, <2>2 DEF Delivers
  <2>4. asked.size = 4 /\ LabelSize = 4
    BY <2>1 DEF CheckQueuingLabel, LabelSize
  <2>5. Delivers(new) = asked.size * asked.depth /\ Delivers(new) \in Nat
    BY <1>3, <2>3, <2>4
  <2> QED
    BY <1>2, <1>a, <2>5
<1>b. CASE m.kind = "discrete"
  <2>1. CheckDiscrete(m, asked)
    BY <1>b DEF Check
  <2>2. asked.size \in {1, 4}
    BY <2>1 DEF CheckDiscrete
  <2>3. UserSize(m, asked) = asked.size
    BY <1>4, <1>b, <2>2 DEF UserSize
  <2>4. Delivers(new) = asked.size
    BY <1>2, <1>b, <2>3 DEF Delivers
  <2> QED
    BY <1>2, <1>3, <1>b, <2>4
<1>c. CASE m.kind \notin {"discrete", "a429_queuing"}
  <2>1. Delivers(new) = Greater(m.max, m.init)
    BY <1>2, <1>c DEF Delivers
  <2>2. m.max =< asked.size
    <3>1. CASE m.kind = "analogue"
      <4>1. CheckAnalogue(m, asked)
        BY <3>1 DEF Check
      <4> QED
        BY <1>3, <3>1, <4>1 DEF CheckAnalogue, SizesAgree
    <3>2. CASE m.kind = "nad"
      <4>1. CheckNad(m, asked)
        BY <3>2 DEF Check
      <4> QED
        BY <1>3, <4>1 DEF CheckNad
    <3>3. CASE m.kind \notin {"analogue", "nad"}
      <4>1. asked.size \in {m.max, m.expected}
        BY <1>c, <3>3 DEF Check, CheckSampling, CheckAfdxQueuing, AfdxSizeAgrees
      <4>2. m.max =< m.expected
        BY <1>c, <3>3 DEF SizesAgree
      <4> QED
        BY <1>1, <4>1, <4>2
    <3> QED
      BY <3>1, <3>2, <3>3
  <2>3. Greater(m.max, m.init) =< asked.size \/ m.init > m.max
    BY <1>1, <1>3, <2>2 DEF Greater
  <2> QED
    BY <1>2, <1>c, <2>1, <2>3
<1> QED
  BY <1>a, <1>b, <1>c

(* A message never delivers more than it reports.                          *)
LEMMA ReportedFits ==
  ASSUME NEW m, IsMessage(m), SizesAgree(m)
  PROVE  \/ /\ m.kind = "a429_queuing"
            /\ Delivers(m) =< Reported(m).size * Reported(m).depth
         \/ /\ m.kind # "a429_queuing"
            /\ Delivers(m) =< Reported(m).size \/ m.init > m.max
<1>1. m.max \in Nat /\ m.init \in Nat /\ m.user \in Nat
  BY DEF IsMessage
<1>a. CASE m.kind = "a429_queuing"
  <2>1. Delivers(m) = m.user
    BY <1>a DEF Delivers
  <2>2. Reported(m).size = m.max /\ Reported(m).depth = 1
    BY <1>a DEF Reported
  <2>3. m.user =< m.max
    BY <1>a DEF SizesAgree
  <2>4. Reported(m).size * Reported(m).depth = m.max
    BY <1>1, <2>2
  <2> QED
    BY <1>a, <2>1, <2>3, <2>4
<1>b. CASE m.kind = "discrete"
  <2>1. Delivers(m) = m.user /\ Reported(m).size = m.user
    BY <1>b DEF Delivers, Reported
  <2> QED
    BY <1>1, <1>b, <2>1
<1>c. CASE m.kind \notin {"discrete", "a429_queuing"}
  <2>1. Delivers(m) = Greater(m.max, m.init) /\ Reported(m).size = m.max
    BY <1>c DEF Delivers, Reported
  <2>2. Greater(m.max, m.init) =< m.max \/ m.init > m.max
    BY <1>1 DEF Greater
  <2> QED
    BY <1>c, <2>1, <2>2
<1> QED
  BY <1>a, <1>b, <1>c

(* No read or pop through a new handle stores more than the application    *)
(* has made room for: the size it has asked for, or the size and depth     *)
(* reported to it; only an initial value longer than the channel does.     *)
THEOREM HandlesFit == CreationSpec => HandleFitsWhenGiven
<1> DEFINE Fits(h) ==
      \/ Delivers(MessageAt(h.name)') =< Room(h)'
      \/ MessageAt(h.name)'.init > MessageAt(h.name)'.max
<1>1. Sound(Context) /\ [CreationNext]_creationVars
        => [\A h \in handles' \ handles : Fits(h)]_creationVars
  <2> SUFFICES ASSUME Sound(Context), CreationNext, NEW h \in handles' \ handles
               PROVE  Fits(h)
    OBVIOUS
  <2>1. ASSUME NEW n \in DOMAIN names, NEW asked \in Asked, GetMessage(n, asked)
        PROVE  Fits(h)
    <3> DEFINE m == MessageAt(n)
               new == ports'[names[n].addr].messages[names[n].key]
    <3>1. Check(m, asked) /\ h = [name |-> n, size |-> asked.size, depth |-> asked.depth]
      BY <2>1 DEF GetMessage
    <3>2. new = [m EXCEPT !.user = UserSize(m, asked)]
      BY <2>1, GetMessageFacts DEF MessageAt
    <3>3. MessageAt(h.name)' = new /\ h.name = n /\ h.size = asked.size /\ h.depth = asked.depth
      BY <2>1, <3>1 DEF GetMessage, MessageAt
    <3>4. IsMessage(m) /\ SizesAgree(m)
      BY NameLeads
    <3> HIDE DEF m, new
    <3>5. \/ /\ new.kind = "a429_queuing"
             /\ Delivers(new) =< asked.size * asked.depth
          \/ /\ new.kind # "a429_queuing"
             /\ Delivers(new) =< asked.size \/ new.init > new.max
      BY <3>1, <3>2, <3>4, CheckedFits
    <3>6. Room(h)' = asked.size * (IF new.kind = "a429_queuing" THEN asked.depth ELSE 1)
      BY <3>3 DEF Room
    <3>7. asked.size \in Nat
      <4>1. asked.size \in UNION {{1, 4, 8} \cup {d.size} : d \in Declarations}
        BY DEF Asked
      <4> QED
        BY <4>1, Configuration
    <3> QED
      BY <3>3, <3>5, <3>6, <3>7
  <2>2. ASSUME NEW n \in DOMAIN names, NextInList(n)
        PROVE  Fits(h)
    <3> DEFINE m == MessageAt(n)
    <3>1. h = [name |-> n, size |-> Reported(m).size, depth |-> Reported(m).depth]
      BY <2>2 DEF NextInList
    <3>2. MessageAt(n)' = m
      BY <2>2 DEF NextInList, MessageAt
    <3>3. IsMessage(m) /\ SizesAgree(m)
      BY NameLeads
    <3> HIDE DEF m
    <3>4. h.name = n /\ h.size = Reported(m).size /\ h.depth = Reported(m).depth
      BY <3>1
    <3>5. Room(h)' = Reported(m).size * (IF m.kind = "a429_queuing" THEN Reported(m).depth ELSE 1)
      BY <3>2, <3>4 DEF Room
    <3>6. Reported(m).size \in Nat
      BY <3>3 DEF Reported, IsMessage
    <3> QED
      BY <3>2, <3>3, <3>4, <3>5, <3>6, ReportedFits
  <2>3. \/ \E n \in DOMAIN names : NextInList(n)
        \/ \E n \in DOMAIN names : \E asked \in Asked : GetMessage(n, asked)
    BY DEF CreationNext, Declare, Refuse, Crash, Build, BuildFails, Fail, GetMessage, FindMessage
  <2> QED
    BY <2>1, <2>2, <2>3
<1> QED
  BY <1>1, AlwaysSound, PTL DEF CreationSpec, HandleFitsWhenGiven

-----------------------------------------------------------------------------
(* THE ORDER OF THE DECLARATIONS.  A set of declarations that was accepted *)
(* in one order is Compatible, which says nothing of an order; and of a    *)
(* compatible set each declaration is accepted after any of the others.    *)

(* The keys of the messages that the declarations D ask for at an address. *)
KeysAt(D, a) == {Key(d) : d \in {e \in D : Address(e) = a}}

OnBus(d) == d.kind = "can" \/ d.kind \in A429Kinds
Unit(d) == IF d.kind = "can" THEN FrameSize ELSE LabelSize

(* Two declarations of one port, and of one message. *)
Agree(d, e) ==
  Address(d) = Address(e) =>
    /\ Channel(d).route = Channel(e).route /\ Channel(d).header = Channel(e).header
    /\ Channel(d).maxSize = Channel(e).maxSize
    /\ PortClass(d.kind) = PortClass(e.kind)
    /\ Key(d) = Key(e) =>
         /\ d.kind = "afdx_sampling" => BufferSize(d) = BufferSize(e)
         /\ d.kind \in {"discrete", "analogue"} => d.encoding = e.encoding
         /\ d.kind = "nad" => d.size = e.size
    /\ d.kind \in A429Kinds /\ d.id = e.id /\ SdiEncode(e.sdi) = DD
         => SdiEncode(d.sdi) = DD

Compatible(D) ==
  /\ \A d \in D :
       /\ Described(d)
       /\ d.kind \in Grouped => WireFits(NewPort(d), d)
       /\ OnBus(d) => Cardinality(KeysAt(D, Address(d))) * Unit(d) =< NewPort(d).fifo
  /\ \A d, e \in D : Agree(d, e)
  /\ \A d, e \in D : Name(d) = Name(e) => d = e

(* What has been loaded, s, are the declarations D. *)
Holds(s, D) ==
  /\ DOMAIN s.names = {Name(d) : d \in D}
  /\ DOMAIN s.ports = {Address(d) : d \in D}
  /\ \A d \in D :
       LET p == s.ports[Address(d)]
       IN  /\ DOMAIN p.messages = KeysAt(D, Address(d))
           /\ p.route = Channel(d).route /\ p.header = Channel(d).header
           /\ p.class = PortClass(d.kind)
           /\ d.kind \notin {"afdx_sampling", "afdx_queuing"} => p.fifo = NewPort(d).fifo
           /\ MessageAgrees(p.messages[Key(d)], d)

(* The two cases in which the order matters. *)
XxAndNone(D) ==
  \E d, e \in D :
    /\ d.kind \in A429Kinds /\ e.kind \in A429Kinds
    /\ d.id = e.id /\ SdiEncode(d.sdi) = XX /\ SdiEncode(e.sdi) = DD
SizesDiffer(D) ==
  \E d, e \in D :
    /\ Address(d) = Address(e)
    /\ Channel(d).maxSize # Channel(e).maxSize

LEMMA SdiEncodeRange ==
  ASSUME NEW sdi
  PROVE  SdiEncode(sdi) \in 0..5
<1> DEFINE first == IF sdi[1] = "0" THEN 0 ELSE 1
<1>1. first \in {0, 1}
  OBVIOUS
<1> HIDE DEF first
<1>2. SdiEncode(sdi) =
        IF ~ Len(sdi) \in 1..2 \/ ~ sdi[1] \in {"0", "1", "X"} THEN DD
        ELSE IF Len(sdi) = 1 THEN first
        ELSE CASE sdi[2] = "0" -> 2 * first
               [] sdi[2] = "1" -> 2 * first + 1
               [] sdi[2] = "X" -> 4 * first
               [] OTHER -> DD
  BY DEF SdiEncode, first
<1>3. 2 * first \in 0..5 /\ 2 * first + 1 \in 0..5 /\ 4 * first \in 0..5 /\ first \in 0..5 /\ DD \in 0..5
  BY <1>1 DEF DD
<1> DEFINE two == 2 * first
           three == 2 * first + 1
           four == 4 * first
<1> HIDE DEF two, three, four
<1>4. SdiEncode(sdi) \in {DD, first, two, three, four}
  BY <1>2 DEF two, three, four
<1> QED
  BY <1>3, <1>4 DEF two, three, four

(* The keys of labels. *)
LEMMA LabelKeys ==
  ASSUME NEW d, d.kind \in A429Kinds
  PROVE  Key(d) = <<d.id, SdiEncode(d.sdi)>> /\ d.kind \notin Grouped
  BY DEF Key, A429Kinds, Grouped

(* Ports of one class and size are alike, but for those of AFDX. *)
LEMMA FifoOfClass ==
  ASSUME NEW d \in Declarations, NEW e \in Declarations, PortClass(d.kind) = PortClass(e.kind),
         Channel(d).maxSize = Channel(e).maxSize,
         d.kind \notin {"afdx_sampling", "afdx_queuing"}
  PROVE  NewPort(d).fifo = NewPort(e).fifo /\ e.kind \notin {"afdx_sampling", "afdx_queuing"}
<1>1. d.kind \in Kinds /\ e.kind \in Kinds
  BY Configuration
<1>2. \/ d.kind = e.kind
      \/ d.kind \in A429Kinds /\ e.kind \in A429Kinds
  BY <1>1, ClassFacts
<1>3. e.kind \notin {"afdx_sampling", "afdx_queuing"}
  BY <1>2 DEF A429Kinds
<1>4. d.kind \in A429Kinds <=> e.kind \in A429Kinds
  BY <1>2
<1>5. CASE d.kind \in A429Kinds
  <2>1. NewPort(d).fifo = 4 * Channel(d).maxSize + HeaderSize
    BY <1>5 DEF NewPort, A429Kinds
  <2>2. NewPort(e).fifo = 4 * Channel(e).maxSize + HeaderSize
    BY <1>4, <1>5 DEF NewPort, A429Kinds
  <2> QED
    BY <1>3, <2>1, <2>2
<1>6. CASE d.kind \notin A429Kinds
  <2>1. NewPort(d).fifo = Channel(d).maxSize + HeaderSize
    BY <1>6 DEF NewPort
  <2>2. NewPort(e).fifo = Channel(e).maxSize + HeaderSize
    BY <1>3, <1>4, <1>6 DEF NewPort
  <2> QED
    BY <1>3, <2>1, <2>2
<1> QED
  BY <1>5, <1>6

(* The port that a declaration finds, with the messages of the others. *)
LEMMA PortOfFacts ==
  ASSUME NEW E, E \subseteq Declarations, NEW s, Holds(s, E), NEW d \in Declarations,
         \A e \in E : Agree(d, e)
  PROVE  LET p == PortOf(s, d)
         IN  /\ PortAgrees(p, d)
             /\ d.kind \notin {"afdx_sampling", "afdx_queuing"} => p.fifo = NewPort(d).fifo
             /\ DOMAIN p.messages = KeysAt(E, Address(d))
<1> DEFINE p == PortOf(s, d)
<1>1. CASE Address(d) \in DOMAIN s.ports
  <2>1. PICK e \in E : Address(e) = Address(d)
    BY <1>1 DEF Holds
  <2>2. p = s.ports[Address(e)]
    BY <1>1, <2>1 DEF PortOf
  <2>3. /\ DOMAIN p.messages = KeysAt(E, Address(d))
        /\ p.route = Channel(e).route /\ p.header = Channel(e).header
        /\ p.class = PortClass(e.kind)
        /\ e.kind \notin {"afdx_sampling", "afdx_queuing"} => p.fifo = NewPort(e).fifo
    BY <2>1, <2>2 DEF Holds
  <2> HIDE DEF p
  <2>4. /\ Channel(d).route = Channel(e).route /\ Channel(d).header = Channel(e).header
        /\ Channel(d).maxSize = Channel(e).maxSize
        /\ PortClass(d.kind) = PortClass(e.kind)
    BY <2>1 DEF Agree
  <2>5. d.kind \notin {"afdx_sampling", "afdx_queuing"} =>
          NewPort(d).fifo = NewPort(e).fifo /\ e.kind \notin {"afdx_sampling", "afdx_queuing"}
    BY <2>4, FifoOfClass
  <2>6. PortAgrees(p, d)
    BY <2>3, <2>4 DEF PortAgrees
  <2> QED
    BY <2>3, <2>5, <2>6 DEF p
<1>2. CASE Address(d) \notin DOMAIN s.ports
  <2>1. p = NewPort(d)
    BY <1>2 DEF PortOf
  <2>2. DOMAIN NewPort(d).messages = {}
    BY NothingInEmpty DEF NewPort
  <2>3. KeysAt(E, Address(d)) = {}
    BY <1>2 DEF KeysAt, Holds
  <2>4. PortAgrees(NewPort(d), d)
    BY DEF PortAgrees, NewPort
  <2> QED
    BY <2>1, <2>2, <2>3, <2>4
<1> QED
  BY <1>1, <1>2

(* What a message says of one declaration it says of those that agree.     *)
LEMMA MessageAgreesWithBoth ==
  ASSUME NEW d \in Declarations, NEW e \in Declarations, Agree(d, e),
         Address(d) = Address(e), Key(d) = Key(e), NEW m, MessageAgrees(m, e)
  PROVE  MessageAgrees(m, d)
<1>1. d.kind \in Kinds /\ e.kind \in Kinds /\ PortClass(d.kind) = PortClass(e.kind)
  BY Configuration DEF Agree
<1>2. d.kind \notin A429Kinds => d.kind = e.kind
  BY <1>1, ClassFacts
<1>3. CASE d.kind \in A429Kinds
  BY <1>3 DEF MessageAgrees, A429Kinds
<1>4. CASE d.kind \notin A429Kinds
  BY <1>2, <1>4 DEF MessageAgrees, AfdxSamplingAgrees, SignalAgrees, NadAgrees, Agree
<1> QED
  BY <1>3, <1>4

(* A label finds none beside it that excludes it.                          *)
LEMMA NoneBeside ==
  ASSUME NEW d \in Declarations, d.kind \in A429Kinds, NEW E, E \subseteq Declarations,
         \A e \in E : Agree(d, e) /\ Agree(e, d)
  PROVE  /\ SdiEncode(d.sdi) =< XX => <<d.id, DD>> \notin KeysAt(E, Address(d))
         /\ SdiEncode(d.sdi) > XX => \A i \in 0..3 : <<d.id, i>> \notin KeysAt(E, Address(d))
<1>1. SdiEncode(d.sdi) \in 0..5 /\ XX = 4 /\ DD = 5
  BY SdiEncodeRange DEF XX, DD
<1>2. ASSUME NEW x, <<d.id, x>> \in KeysAt(E, Address(d))
      PROVE  \E e \in E : /\ Address(e) = Address(d) /\ e.kind \in A429Kinds
                          /\ e.id = d.id /\ SdiEncode(e.sdi) = x
  <2>1. PICK e \in E : Address(e) = Address(d) /\ Key(e) = <<d.id, x>>
    BY <1>2 DEF KeysAt
  <2>2. e.kind \in Kinds /\ d.kind \in Kinds /\ PortClass(d.kind) = PortClass(e.kind)
    BY <2>1, Configuration DEF Agree
  <2>3. e.kind \in A429Kinds
    BY <2>2, ClassFacts
  <2>4. Key(e) = <<e.id, SdiEncode(e.sdi)>>
    BY <2>3, LabelKeys
  <2> QED
    BY <2>1, <2>3, <2>4
<1>3. ASSUME SdiEncode(d.sdi) =< XX, <<d.id, DD>> \in KeysAt(E, Address(d))
      PROVE  FALSE
  <2>1. PICK e \in E : /\ Address(e) = Address(d)
                       /\ e.id = d.id /\ SdiEncode(e.sdi) = DD
    BY <1>2, <1>3
  <2>2. SdiEncode(d.sdi) = DD
    BY <2>1 DEF Agree
  <2> QED
    BY <1>1, <1>3, <2>2
<1>4. ASSUME SdiEncode(d.sdi) > XX, NEW i \in 0..3, <<d.id, i>> \in KeysAt(E, Address(d))
      PROVE  FALSE
  <2>1. PICK e \in E : /\ Address(e) = Address(d) /\ e.kind \in A429Kinds
                       /\ e.id = d.id /\ SdiEncode(e.sdi) = i
    BY <1>2, <1>4
  <2>2. SdiEncode(d.sdi) = DD
    BY <1>1, <1>4
  <2>3. SdiEncode(e.sdi) = DD
    BY <2>1, <2>2 DEF Agree
  <2> QED
    BY <1>1, <2>1, <2>3
<1> QED
  BY <1>3, <1>4

LEMMA KeysAreFinite ==
  ASSUME NEW D, IsFiniteSet(D), NEW a
  PROVE  IsFiniteSet(KeysAt(D, a)) /\ Cardinality(KeysAt(D, a)) \in Nat
<1> DEFINE S == {e \in D : Address(e) = a}
<1>1. IsFiniteSet(S)
  BY FS_Subset
<1> DEFINE T == {Key(d) : d \in S}
           f == [d \in S |-> Key(d)]
<1>2. f \in Surjection(S, T)
  BY DEF Surjection
<1>3. T = KeysAt(D, a)
  BY DEF KeysAt
<1> HIDE DEF S, T, f
<1>4. IsFiniteSet(T)
  BY <1>1, <1>2, FS_Surjection
<1> QED
  BY <1>3, <1>4, FS_CardinalityType

(* Of a compatible set each declaration is accepted, whichever others have *)
(* been loaded before it.                                                  *)
LEMMA CompatibleIsAccepted ==
  ASSUME NEW D, D \subseteq Declarations, IsFiniteSet(D), Compatible(D),
         NEW E, E \subseteq D, NEW d \in D, d \notin E, NEW s, Holds(s, E)
  PROVE  Accepts(s, d)
<1> DEFINE a == Address(d)
           k == Key(d)
           p == PortOf(s, d)
<1>1. /\ Described(d)
      /\ d.kind \in Grouped => WireFits(NewPort(d), d)
      /\ OnBus(d) => Cardinality(KeysAt(D, a)) * Unit(d) =< NewPort(d).fifo
  BY DEF Compatible
<1>2. \A e \in E : Agree(d, e) /\ Agree(e, d)
  BY DEF Compatible
<1>3. Name(d) \notin DOMAIN s.names
  BY DEF Compatible, Holds
<1>4. E \subseteq Declarations /\ d \in Declarations /\ d.kind \in Kinds
  BY Configuration
<1>5. /\ PortAgrees(p, d)
      /\ d.kind \notin {"afdx_sampling", "afdx_queuing"} => p.fifo = NewPort(d).fifo
      /\ DOMAIN p.messages = KeysAt(E, a)
  BY <1>2, <1>4, PortOfFacts
<1>6. k \in DOMAIN p.messages => MessageAgrees(p.messages[k], d)
  <2> SUFFICES ASSUME k \in DOMAIN p.messages
               PROVE  MessageAgrees(p.messages[k], d)
    OBVIOUS
  <2>1. PICK e \in E : Address(e) = a /\ Key(e) = k
    BY <1>5 DEF KeysAt
  <2>2. p = s.ports[a]
    BY <2>1 DEF Holds, PortOf
  <2>3. MessageAgrees(p.messages[k], e)
    BY <2>1, <2>2 DEF Holds
  <2> HIDE DEF p
  <2> QED
    BY <1>2, <1>4, <2>1, <2>3, MessageAgreesWithBoth
<1> HIDE DEF p
<1>7. d.kind \in A429Kinds =>
        /\ k = <<d.id, SdiEncode(d.sdi)>>
        /\ SdiEncode(d.sdi) =< XX => <<d.id, DD>> \notin DOMAIN p.messages
        /\ SdiEncode(d.sdi) > XX => \A i \in 0..3 : <<d.id, i>> \notin DOMAIN p.messages
  BY <1>2, <1>4, <1>5, NoneBeside, LabelKeys
<1>8. k \notin DOMAIN p.messages => MessageFits(p, d)
  <2> SUFFICES ASSUME k \notin DOMAIN p.messages
               PROVE  MessageFits(p, d)
    OBVIOUS
  <2>1. OnBus(d) => BusFits(p, d)
    <3> SUFFICES ASSUME OnBus(d)
                 PROVE  BusFits(p, d)
      OBVIOUS
    <3> DEFINE K == KeysAt(E, a)
               L == KeysAt(D, a)
    <3>1. IsFiniteSet(L) /\ Cardinality(L) \in Nat
      BY KeysAreFinite
    <3>2. K \subseteq L /\ k \in L /\ k \notin K
      BY <1>5 DEF KeysAt
    <3> HIDE DEF K, L, k
    <3>3. IsFiniteSet(K) /\ IsFiniteSet(K \cup {k})
          /\ Cardinality(K) \in Nat /\ Cardinality(K \cup {k}) = Cardinality(K) + 1
      BY <3>1, <3>2, FS_Subset, FS_AddElement, FS_CardinalityType
    <3>4. Cardinality(K) + 1 =< Cardinality(L)
      BY <3>1, <3>2, <3>3, FS_Subset
    <3>5. Unit(d) = (IF d.kind = "can" THEN FrameSize ELSE LabelSize) /\ Unit(d) \in {4, 14}
      BY DEF Unit, FrameSize, LabelSize
    <3>6. d.kind \notin {"afdx_sampling", "afdx_queuing"}
      BY DEF OnBus, A429Kinds
    <3>7. NewPort(d).fifo \in Nat
      BY <1>1, <1>4, NewPortIsPort DEF IsPort
    <3>8. Cardinality(L) * Unit(d) =< p.fifo /\ p.fifo \in Nat
      BY <1>1, <1>5, <3>6, <3>7 DEF L
    <3>9. (Cardinality(K) + 1) * Unit(d) =< p.fifo
      <4>1. CASE Unit(d) = 4
        BY <3>1, <3>3, <3>4, <3>8, <4>1
      <4>2. CASE Unit(d) = 14
        BY <3>1, <3>3, <3>4, <3>8, <4>2
      <4> QED
        BY <3>5, <4>1, <4>2
    <3> QED
      BY <1>5, <3>5, <3>9 DEF BusFits, K
  <2>2. d.kind \in A429Kinds => SdiAgree(p, d)
    <3> SUFFICES ASSUME d.kind \in A429Kinds
                 PROVE  SdiAgree(p, d)
      OBVIOUS
    <3>1. Key(d)[2] = SdiEncode(d.sdi) /\ SdiEncode(d.sdi) \in 0..5 /\ XX = 4
      BY <1>7, SdiEncodeRange DEF XX
    <3> QED
      BY <1>7, <3>1 DEF SdiAgree
  <2>3. d.kind \in Grouped => WireFits(p, d)
    <3>1. d.kind \in Grouped => p.fifo = NewPort(d).fifo
      BY <1>5 DEF Grouped
    <3> QED
      BY <1>1, <3>1 DEF WireFits
  <2>a. CASE d.kind \in Grouped
    BY <2>3, <2>a DEF MessageFits, Grouped, A429Kinds
  <2>b. CASE d.kind = "can"
    BY <2>1, <2>b DEF MessageFits, Grouped, A429Kinds, OnBus
  <2>c. CASE d.kind \in A429Kinds
    BY <2>1, <2>2, <2>c DEF MessageFits, Grouped, A429Kinds, OnBus
  <2>d. CASE d.kind \notin Grouped /\ d.kind # "can" /\ d.kind \notin A429Kinds
    BY <2>d DEF MessageFits
  <2> QED
    BY <2>a, <2>b, <2>c, <2>d
<1>9. k \in DOMAIN p.messages /\ d.kind \in A429Kinds /\ k[2] =< XX
        => <<d.id, DD>> \notin DOMAIN p.messages
  BY <1>7
<1> QED
  BY <1>1, <1>3, <1>5, <1>6, <1>8, <1>9 DEF Accepts, p

LEMMA NewMessageAgrees ==
  ASSUME NEW d \in Declarations, Described(d)
  PROVE  MessageAgrees(NewMessage(d), d)
<1>1. NewMessage(d).encoding = d.encoding /\ (d.kind = "nad" => NewMessage(d).max = d.size)
  BY NewMessageFacts
<1>2. d.kind = "afdx_sampling" => NewMessage(d).max = BufferSize(d)
  BY DEF NewMessage, SamplingMessage, Message
<1> QED
  BY <1>1, <1>2 DEF MessageAgrees, AfdxSamplingAgrees, SignalAgrees, NadAgrees

(* The port that an accepted declaration finds. *)
LEMMA FoundPort ==
  ASSUME NEW E, E \subseteq Declarations, NEW s, Holds(s, E), NEW d \in Declarations,
         Accepts(s, d),
         \A e \in E : Address(d) = Address(e) => Channel(d).maxSize = Channel(e).maxSize
  PROVE  LET p == PortOf(s, d)
         IN  /\ DOMAIN p.messages = KeysAt(E, Address(d))
             /\ p.route = Channel(d).route /\ p.header = Channel(d).header
             /\ p.class = PortClass(d.kind)
             /\ d.kind \notin {"afdx_sampling", "afdx_queuing"} => p.fifo = NewPort(d).fifo
             /\ \A e \in E : Address(e) = Address(d) => p = s.ports[Address(e)]
<1> DEFINE p == PortOf(s, d)
<1>1. p.route = Channel(d).route /\ p.header = Channel(d).header /\ p.class = PortClass(d.kind)
  BY DEF Accepts, PortAgrees
<1>2. \A e \in E : Address(e) = Address(d) => p = s.ports[Address(e)]
  BY DEF Holds, PortOf
<1>3. CASE Address(d) \in DOMAIN s.ports
  <2>1. PICK e \in E : Address(e) = Address(d)
    BY <1>3 DEF Holds
  <2>2. p = s.ports[Address(e)]
    BY <1>2, <2>1
  <2> HIDE DEF p
  <2>3. /\ DOMAIN p.messages = KeysAt(E, Address(d))
        /\ p.class = PortClass(e.kind)
        /\ e.kind \notin {"afdx_sampling", "afdx_queuing"} => p.fifo = NewPort(e).fifo
    BY <2>1, <2>2 DEF Holds
  <2>4. Channel(d).maxSize = Channel(e).maxSize /\ PortClass(d.kind) = PortClass(e.kind)
    BY <1>1, <2>1, <2>3
  <2>5. d.kind \notin {"afdx_sampling", "afdx_queuing"} =>
          NewPort(d).fifo = NewPort(e).fifo /\ e.kind \notin {"afdx_sampling", "afdx_queuing"}
    BY <2>4, FifoOfClass
  <2> QED
    BY <1>1, <1>2, <2>3, <2>5 DEF p
<1>4. CASE Address(d) \notin DOMAIN s.ports
  <2>1. p = NewPort(d)
    BY <1>4 DEF PortOf
  <2>2. DOMAIN NewPort(d).messages = {}
    BY NothingInEmpty DEF NewPort
  <2>3. KeysAt(E, Address(d)) = {}
    BY <1>4 DEF KeysAt, Holds
  <2> QED
    BY <1>1, <1>2, <2>1, <2>2, <2>3
<1> QED
  BY <1>3, <1>4

LEMMA LoadedHolds ==
  ASSUME NEW E, E \subseteq Declarations, NEW s, Sound(s), Holds(s, E),
         NEW d \in Declarations, Accepts(s, d),
         \A e \in E : Address(d) = Address(e) => Channel(d).maxSize = Channel(e).maxSize
  PROVE  Holds(Loaded(s, d), E \cup {d})
<1> DEFINE t == Loaded(s, d)
           a == Address(d)
           k == Key(d)
           p == PortOf(s, d)
           o == MessageOf(p, d)
           q == t.ports[a]
           F == E \cup {d}
<1>0. DOMAIN t.names = DOMAIN s.names \cup {Name(d)}
  BY LoadedNames
<1>1. /\ DOMAIN t.ports = DOMAIN s.ports \cup {a}
      /\ \A b \in DOMAIN s.ports : b # a => t.ports[b] = s.ports[b]
      /\ q.route = p.route /\ q.header = p.header /\ q.class = p.class /\ q.fifo = p.fifo
      /\ DOMAIN q.messages = DOMAIN p.messages \cup {k}
      /\ \A l \in DOMAIN p.messages : l # k => q.messages[l] = p.messages[l]
      /\ q = [class |-> q.class, route |-> q.route, header |-> q.header, fifo |-> q.fifo,
              messages |-> q.messages]
      /\ SameButInit(o, q.messages[k])
  BY LoadedPort
<1>2. /\ DOMAIN p.messages = KeysAt(E, a)
      /\ p.route = Channel(d).route /\ p.header = Channel(d).header
      /\ p.class = PortClass(d.kind)
      /\ d.kind \notin {"afdx_sampling", "afdx_queuing"} => p.fifo = NewPort(d).fifo
      /\ \A e \in E : Address(e) = a => p = s.ports[Address(e)]
  BY FoundPort
<1>3. DOMAIN t.names = {Name(e) : e \in F} /\ DOMAIN t.ports = {Address(e) : e \in F}
  BY <1>0, <1>1 DEF Holds
<1>4. KeysAt(F, a) = KeysAt(E, a) \cup {k}
  BY DEF KeysAt
<1>5. \A b : b # a => KeysAt(F, b) = KeysAt(E, b)
  BY DEF KeysAt
<1>6. MessageAgrees(o, d)
  BY NewMessageAgrees DEF Accepts, MessageOf
<1>7. k \in DOMAIN p.messages => o = p.messages[k]
  BY DEF MessageOf
<1>8. \A e : MessageAgrees(o, e) => MessageAgrees(q.messages[k], e)
  BY <1>1 DEF SameButInit, MessageAgrees, AfdxSamplingAgrees, SignalAgrees, NadAgrees
<1> HIDE DEF t, p, o
<1>9. ASSUME NEW e \in F
      PROVE  LET r == t.ports[Address(e)]
             IN  /\ DOMAIN r.messages = KeysAt(F, Address(e))
                 /\ r.route = Channel(e).route /\ r.header = Channel(e).header
                 /\ r.class = PortClass(e.kind)
                 /\ e.kind \notin {"afdx_sampling", "afdx_queuing"} => r.fifo = NewPort(e).fifo
                 /\ MessageAgrees(r.messages[Key(e)], e)
  <2>1. CASE Address(e) # a
    <3>1. e \in E /\ Address(e) \in DOMAIN s.ports
      BY <2>1 DEF Holds
    <3>2. t.ports[Address(e)] = s.ports[Address(e)]
      BY <1>1, <2>1, <3>1
    <3>3. KeysAt(F, Address(e)) = KeysAt(E, Address(e))
      BY <1>5, <2>1
    <3> HIDE DEF F, a
    <3> QED
      BY <3>1, <3>2, <3>3 DEF Holds
  <2>2. CASE e = d
    <3>1. MessageAgrees(q.messages[k], e)
      BY <1>6, <1>8, <2>2
    <3> HIDE DEF F, q
    <3> QED
      BY <1>1, <1>2, <1>4, <2>2, <3>1 DEF q
  <2>3. CASE e # d /\ Address(e) = a
    <3>1. e \in E /\ p = s.ports[Address(e)]
      BY <1>2, <2>3
    <3>2. /\ p.route = Channel(e).route /\ p.header = Channel(e).header
          /\ p.class = PortClass(e.kind)
          /\ e.kind \notin {"afdx_sampling", "afdx_queuing"} => p.fifo = NewPort(e).fifo
          /\ MessageAgrees(p.messages[Key(e)], e)
      BY <3>1 DEF Holds
    <3>3. Key(e) \in DOMAIN p.messages
      BY <1>2, <2>3, <3>1 DEF KeysAt
    <3>4. MessageAgrees(q.messages[Key(e)], e)
      <4>1. CASE Key(e) = k
        <5>1. MessageAgrees(o, e)
          BY <1>7, <3>2, <3>3, <4>1
        <5> QED
          BY <1>8, <4>1, <5>1
      <4>2. CASE Key(e) # k
        <5>1. q.messages[Key(e)] = p.messages[Key(e)]
          BY <1>1, <3>3, <4>2
        <5> QED
          BY <3>2, <5>1
      <4> QED
        BY <4>1, <4>2
    <3> HIDE DEF F, q
    <3> QED
      BY <1>1, <1>2, <1>4, <2>3, <3>2, <3>4 DEF q
  <2> QED
    BY <2>1, <2>2, <2>3
<1> HIDE DEF F
<1>10. Holds(t, F)
  BY <1>3, <1>9 DEF Holds
<1> QED
  BY <1>10 DEF t, F

(* A declaration that is accepted agrees with those accepted before it.    *)
LEMMA AcceptedAgrees ==
  ASSUME NEW E, E \subseteq Declarations, NEW s, Holds(s, E), \A e, f \in E : Agree(e, f),
         NEW d \in Declarations, Accepts(s, d),
         ~XxAndNone(E \cup {d}), ~SizesDiffer(E \cup {d}),
         NEW e \in E, Address(e) = Address(d)
  PROVE  Agree(d, e) /\ Agree(e, d)
<1> DEFINE a == Address(d)
           k == Key(d)
           p == PortOf(s, d)
<1>1. \A f \in E : Address(d) = Address(f) => Channel(d).maxSize = Channel(f).maxSize
  BY DEF SizesDiffer
<1>2. /\ DOMAIN p.messages = KeysAt(E, a)
      /\ p.route = Channel(d).route /\ p.header = Channel(d).header
      /\ p.class = PortClass(d.kind)
      /\ \A f \in E : Address(f) = a => p = s.ports[Address(f)]
  BY <1>1, FoundPort
<1>3. /\ Described(d)
      /\ k \in DOMAIN p.messages =>
           /\ MessageAgrees(p.messages[k], d)
           /\ d.kind \in A429Kinds /\ k[2] =< XX => <<d.id, DD>> \notin DOMAIN p.messages
      /\ k \notin DOMAIN p.messages => MessageFits(p, d)
  BY DEF Accepts
<1> HIDE DEF p
<1>4. \A f \in E : Address(f) = a =>
        /\ p.route = Channel(f).route /\ p.header = Channel(f).header
        /\ p.class = PortClass(f.kind)
        /\ MessageAgrees(p.messages[Key(f)], f)
        /\ Key(f) \in DOMAIN p.messages
  BY <1>2 DEF Holds, KeysAt
<1>5. /\ Channel(d).route = Channel(e).route /\ Channel(d).header = Channel(e).header
      /\ Channel(d).maxSize = Channel(e).maxSize
      /\ PortClass(d.kind) = PortClass(e.kind)
  BY <1>1, <1>2, <1>4
<1>6. d.kind \in Kinds /\ e.kind \in Kinds /\ \A f \in E : f.kind \in Kinds
  BY Configuration
<1>7. d.kind \notin A429Kinds \/ e.kind \notin A429Kinds => d.kind = e.kind
  BY <1>5, <1>6, ClassFacts
<1>8. Key(d) = Key(e) =>
        /\ d.kind = "afdx_sampling" \/ e.kind = "afdx_sampling" => BufferSize(d) = BufferSize(e)
        /\ d.kind \in {"discrete", "analogue"} \/ e.kind \in {"discrete", "analogue"}
             => d.encoding = e.encoding
        /\ d.kind = "nad" \/ e.kind = "nad" => d.size = e.size
  <2> SUFFICES ASSUME Key(d) = Key(e)
               PROVE  /\ d.kind = "afdx_sampling" \/ e.kind = "afdx_sampling"
                           => BufferSize(d) = BufferSize(e)
                      /\ d.kind \in {"discrete", "analogue"} \/ e.kind \in {"discrete", "analogue"}
                           => d.encoding = e.encoding
                      /\ d.kind = "nad" \/ e.kind = "nad" => d.size = e.size
    OBVIOUS
  <2> DEFINE m == p.messages[k]
  <2>1. MessageAgrees(m, d) /\ MessageAgrees(m, e)
    BY <1>3, <1>4
  <2> HIDE DEF m
  <2>2. CASE d.kind \in A429Kinds /\ e.kind \in A429Kinds
    BY <2>2 DEF A429Kinds
  <2>3. CASE ~(d.kind \in A429Kinds /\ e.kind \in A429Kinds)
    <3>1. d.kind = e.kind
      BY <1>7, <2>3
    <3> QED
      BY <2>1, <3>1 DEF MessageAgrees, AfdxSamplingAgrees, SignalAgrees, NadAgrees
  <2> QED
    BY <2>2, <2>3
<1>9. ASSUME d.kind \in A429Kinds, NEW f \in E, Address(f) = a
      PROVE  f.kind \in A429Kinds /\ Key(f) = <<f.id, SdiEncode(f.sdi)>>
  <2>1. PortClass(d.kind) = PortClass(f.kind)
    BY <1>2, <1>4, <1>9
  <2> QED
    BY <1>6, <1>9, <2>1, ClassFacts, LabelKeys
<1>10. /\ XX = 4 /\ DD = 5
       /\ SdiEncode(d.sdi) \in 0..5 /\ SdiEncode(e.sdi) \in 0..5
  BY SdiEncodeRange DEF XX, DD
<1>11. d.kind \in A429Kinds /\ k \notin DOMAIN p.messages => SdiAgree(p, d)
  BY <1>3 DEF MessageFits, Grouped, A429Kinds
<1>12. ASSUME d.kind \in A429Kinds, d.id = e.id, SdiEncode(e.sdi) = DD, SdiEncode(d.sdi) # DD
       PROVE  FALSE
  <2>1. k[2] = SdiEncode(d.sdi) /\ k[2] =< XX
    BY <1>10, <1>12, LabelKeys
  <2>2. <<d.id, DD>> \in DOMAIN p.messages
    BY <1>4, <1>9, <1>12
  <2>3. k \notin DOMAIN p.messages
    BY <1>3, <1>12, <2>1, <2>2
  <2>4. SdiAgree(p, d)
    BY <1>11, <1>12, <2>3
  <2> QED
    BY <1>10, <2>1, <2>2, <2>4 DEF SdiAgree
<1>13. ASSUME d.kind \in A429Kinds, d.id = e.id, SdiEncode(d.sdi) = DD, SdiEncode(e.sdi) # DD
       PROVE  FALSE
  <2>1. k = <<d.id, DD>> /\ k[2] > XX
    BY <1>10, <1>13, LabelKeys
  <2>2. e.kind \in A429Kinds /\ Key(e) = <<d.id, SdiEncode(e.sdi)>> /\ Key(e) \in DOMAIN p.messages
    BY <1>4, <1>9, <1>13
  <2>3. SdiEncode(e.sdi) # XX
    BY <1>13, <2>2 DEF XxAndNone
  <2>4. SdiEncode(e.sdi) \in 0..3
    BY <1>10, <1>13, <2>3
  <2>5. CASE k \notin DOMAIN p.messages
    <3>1. SdiAgree(p, d)
      BY <1>11, <1>13, <2>5
    <3>2. <<d.id, SdiEncode(e.sdi)>> \notin DOMAIN p.messages
      BY <2>1, <2>4, <3>1 DEF SdiAgree
    <3> QED
      BY <2>2, <3>2
  <2>6. CASE k \in DOMAIN p.messages
    <3>1. PICK f \in E : Address(f) = a /\ Key(f) = k
      BY <1>2, <2>6 DEF KeysAt
    <3>2. f.id = d.id /\ SdiEncode(f.sdi) = DD
      BY <1>9, <1>13, <2>1, <3>1
    <3>3. Agree(e, f) /\ Address(e) = Address(f)
      BY <3>1
    <3> QED
      BY <1>13, <2>2, <3>2, <3>3 DEF Agree
  <2> QED
    BY <2>5, <2>6
<1>14. e.kind \in A429Kinds => d.kind \in A429Kinds
  BY <1>7
<1>15. Agree(d, e)
  BY <1>5, <1>8, <1>12 DEF Agree
<1>16. Agree(e, d)
  BY <1>5, <1>8, <1>13, <1>14 DEF Agree
<1> QED
  BY <1>15, <1>16

(* With it the set stays compatible.                                       *)
LEMMA AcceptedIsCompatible ==
  ASSUME NEW E, E \subseteq Declarations, IsFiniteSet(E), Compatible(E),
         NEW s, Holds(s, E), NEW d \in Declarations, Accepts(s, d),
         ~XxAndNone(E \cup {d}), ~SizesDiffer(E \cup {d})
  PROVE  Compatible(E \cup {d})
<1> DEFINE a == Address(d)
           k == Key(d)
           p == PortOf(s, d)
           F == E \cup {d}
<1>1. \A e \in E : Address(d) = Address(e) => Channel(d).maxSize = Channel(e).maxSize
  BY DEF SizesDiffer
<1>2. /\ DOMAIN p.messages = KeysAt(E, a)
      /\ p.class = PortClass(d.kind)
      /\ d.kind \notin {"afdx_sampling", "afdx_queuing"} => p.fifo = NewPort(d).fifo
      /\ \A e \in E : Address(e) = a => p = s.ports[Address(e)]
  BY <1>1, FoundPort
<1>3. /\ Described(d) /\ Name(d) \notin DOMAIN s.names
      /\ k \in DOMAIN p.messages => MessageAgrees(p.messages[k], d)
      /\ k \notin DOMAIN p.messages => MessageFits(p, d)
  BY DEF Accepts
<1> HIDE DEF p
<1>4. \A e \in E : Address(e) = a => Agree(d, e) /\ Agree(e, d)
  BY AcceptedAgrees DEF Compatible
<1>5. Agree(d, d)
  BY DEF Agree
<1>6. \A e, f \in F : Agree(e, f)
  <2>1. \A e, f \in E : Agree(e, f)
    BY DEF Compatible
  <2>2. \A e \in E : Agree(d, e) /\ Agree(e, d)
    BY <1>4 DEF Agree
  <2> QED
    BY <1>5, <2>1, <2>2
<1>7. \A e, f \in F : Name(e) = Name(f) => e = f
  <2>1. \A e \in E : Name(e) # Name(d)
    BY <1>3 DEF Holds
  <2> QED
    BY <2>1 DEF Compatible
<1>8. d.kind \in Kinds /\ \A e \in E : e.kind \in Kinds
  BY Configuration
<1>9. ASSUME d.kind \in Grouped
      PROVE  WireFits(NewPort(d), d)
  <2>1. p.fifo = NewPort(d).fifo
    BY <1>2, <1>9 DEF Grouped
  <2>2. CASE k \notin DOMAIN p.messages
    <3>1. WireFits(p, d)
      BY <1>3, <1>9, <2>2 DEF MessageFits, Grouped, A429Kinds
    <3> QED
      BY <2>1, <3>1 DEF WireFits
  <2>3. CASE k \in DOMAIN p.messages
    <3>1. PICK e \in E : Address(e) = a /\ Key(e) = k
      BY <1>2, <2>3 DEF KeysAt
    <3>2. Agree(d, e)
      BY <1>4, <3>1
    <3>3. PortClass(d.kind) = PortClass(e.kind) /\ Channel(d).maxSize = Channel(e).maxSize
      BY <3>1, <3>2 DEF Agree
    <3>4. d.kind = e.kind
      BY <1>8, <1>9, <3>3, ClassFacts DEF A429Kinds, Grouped
    <3>5. NewPort(d).fifo = NewPort(e).fifo
      BY <1>9, <3>3, FifoOfClass DEF Grouped
    <3>6. WireFits(NewPort(e), e)
      BY <1>9, <3>4 DEF Compatible
    <3>7. Slot(d).offset = Slot(e).offset
      BY <1>9, <3>1, <3>4 DEF Key, Grouped, A429Kinds
    <3>8. d.kind = "nad" => d.size = e.size
      BY <3>1, <3>2 DEF Agree
    <3> QED
      BY <1>9, <3>4, <3>5, <3>6, <3>7, <3>8 DEF WireFits, Grouped
  <2> QED
    BY <2>2, <2>3
<1>10. KeysAt(F, a) = KeysAt(E, a) \cup {k} /\ \A b : b # a => KeysAt(F, b) = KeysAt(E, b)
  BY DEF KeysAt
<1>11. ASSUME OnBus(d)
       PROVE  Cardinality(KeysAt(F, a)) * Unit(d) =< NewPort(d).fifo
  <2>1. d.kind \notin {"afdx_sampling", "afdx_queuing"} /\ p.fifo = NewPort(d).fifo
    BY <1>2, <1>11 DEF OnBus, A429Kinds
  <2>2. Unit(d) = IF d.kind = "can" THEN FrameSize ELSE LabelSize
    BY DEF Unit
  <2>3. CASE k \notin DOMAIN p.messages
    <3> DEFINE K == KeysAt(E, a)
    <3>1. IsFiniteSet(K) /\ Cardinality(K) \in Nat
      BY KeysAreFinite
    <3>2. KeysAt(F, a) = K \cup {k} /\ k \notin K
      BY <1>2, <1>10, <2>3
    <3>3. BusFits(p, d)
      BY <1>3, <1>11, <2>3 DEF MessageFits, Grouped, A429Kinds, OnBus
    <3>4. (Cardinality(K) + 1) * Unit(d) =< p.fifo
      BY <1>2, <2>2, <3>3 DEF BusFits
    <3> HIDE DEF K, k
    <3>5. Cardinality(K \cup {k}) = Cardinality(K) + 1
      BY <3>1, <3>2, FS_AddElement
    <3> QED
      BY <2>1, <3>2, <3>4, <3>5
  <2>4. CASE k \in DOMAIN p.messages
    <3>1. PICK e \in E : Address(e) = a /\ Key(e) = k
      BY <1>2, <2>4 DEF KeysAt
    <3>2. PortClass(d.kind) = PortClass(e.kind) /\ Channel(d).maxSize = Channel(e).maxSize
      BY <1>4, <3>1 DEF Agree
    <3>3. OnBus(e) /\ Unit(d) = Unit(e)
      BY <1>8, <1>11, <3>2, ClassFacts DEF OnBus, Unit, A429Kinds
    <3>4. NewPort(d).fifo = NewPort(e).fifo
      BY <2>1, <3>2, FifoOfClass
    <3>5. Cardinality(KeysAt(E, a)) * Unit(e) =< NewPort(e).fifo
      BY <3>1, <3>3 DEF Compatible
    <3>6. KeysAt(F, a) = KeysAt(E, a)
      BY <1>2, <1>10, <2>4
    <3> QED
      BY <3>3, <3>4, <3>5, <3>6
  <2> QED
    BY <2>3, <2>4
<1>12. ASSUME NEW e \in F
       PROVE  /\ Described(e)
              /\ e.kind \in Grouped => WireFits(NewPort(e), e)
              /\ OnBus(e) => Cardinality(KeysAt(F, Address(e))) * Unit(e) =< NewPort(e).fifo
  <2>1. CASE e = d
    BY <1>3, <1>9, <1>11, <2>1
  <2>2. CASE e # d /\ Address(e) # a
    BY <1>10, <2>2 DEF Compatible
  <2>3. CASE e # d /\ Address(e) = a
    <3>1. e \in E
      BY <2>3
    <3>2. PortClass(d.kind) = PortClass(e.kind) /\ Channel(d).maxSize = Channel(e).maxSize
      BY <1>4, <2>3, <3>1 DEF Agree
    <3>3. ASSUME OnBus(e)
          PROVE  Cardinality(KeysAt(F, a)) * Unit(e) =< NewPort(e).fifo
      <4>1. OnBus(d) /\ Unit(d) = Unit(e)
        BY <1>8, <3>1, <3>2, <3>3, ClassFacts DEF OnBus, Unit, A429Kinds
      <4>2. NewPort(d).fifo = NewPort(e).fifo
        BY <3>1, <3>2, <4>1, FifoOfClass DEF OnBus, A429Kinds
      <4> QED
        BY <1>11, <4>1, <4>2
    <3>4. Described(e) /\ (e.kind \in Grouped => WireFits(NewPort(e), e))
      BY <3>1 DEF Compatible
    <3> QED
      BY <2>3, <3>3, <3>4
  <2> QED
    BY <2>1, <2>2, <2>3
<1> HIDE DEF F
<1>13. Compatible(F)
  BY <1>6, <1>7, <1>12 DEF Compatible
<1> QED
  BY <1>13 DEF F

(* Induction up to a bound, with the set of the numbers for which a fact   *)
(* holds.                                                                  *)
LEMMA UpToInduction ==
  ASSUME NEW n \in Nat, NEW S, 0 \in S, \A i \in 1..n : i - 1 \in S => i \in S
  PROVE  \A i \in 0..n : i \in S
<1> DEFINE T == {i \in 0..n : i \notin S}
<1> SUFFICES ASSUME T # {} PROVE FALSE
  OBVIOUS
<1>1. T \subseteq Nat
  OBVIOUS
<1>2. PICK i \in T : \A j \in T : ~(<<j, i>> \in OpToRel(<, Nat))
  BY <1>1, NatLessThanWellFounded, WFMin
<1>3. \A j \in T : ~(j < i)
  BY <1>1, <1>2 DEF OpToRel
<1>4. i \in 1..n /\ i - 1 \in 0..n /\ i - 1 < i
  OBVIOUS
<1>5. i - 1 \in S
  BY <1>3, <1>4
<1> QED
  BY <1>4, <1>5

(* What is loaded, declaration after declaration. *)
Stages(f, s, n) ==
  f = [i \in 0..n |->
         IF i = 0 THEN [ports |-> Empty, names |-> Empty] ELSE Loaded(f[i - 1], s[i])]

LEMMA StagesExist ==
  ASSUME NEW s, NEW n \in Nat
  PROVE  \E f : Stages(f, s, n)
<1> DEFINE T == {k \in 0..n : \E f : Stages(f, s, k)}
           first == [ports |-> Empty, names |-> Empty]
<1>1. 0 \in T
  <2> DEFINE g == [i \in 0..0 |-> first]
  <2>1. Stages(g, s, 0)
    BY DEF Stages
  <2> HIDE DEF g
  <2> QED
    BY <2>1
<1>2. ASSUME NEW k \in 1..n, k - 1 \in T
      PROVE  k \in T
  <2>1. PICK f : Stages(f, s, k - 1)
    BY <1>2
  <2> DEFINE g == [i \in 0..k |-> IF i = k THEN Loaded(f[k - 1], s[k]) ELSE f[i]]
             h == [i \in 0..k |-> IF i = 0 THEN first ELSE Loaded(g[i - 1], s[i])]
  <2>2. \A i \in 0..(k - 1) : f[i] = IF i = 0 THEN first ELSE Loaded(f[i - 1], s[i])
    BY <2>1 DEF Stages
  <2>3. k \in Nat /\ k > 0
    BY <1>2
  <2>4. ASSUME NEW i \in 0..k
        PROVE  g[i] = IF i = 0 THEN first ELSE Loaded(g[i - 1], s[i])
    <3>1. CASE i = k
      <4>1. g[k] = Loaded(f[k - 1], s[k]) /\ g[k - 1] = f[k - 1]
        BY <2>3
      <4> QED
        BY <2>3, <3>1, <4>1
    <3>2. CASE i # k /\ i # 0
      <4>1. i \in 0..(k - 1) /\ i - 1 \in 0..k /\ i - 1 # k
        BY <2>3, <3>2
      <4>2. g[i] = f[i] /\ g[i - 1] = f[i - 1]
        BY <3>2, <4>1
      <4> QED
        BY <2>2, <3>2, <4>1, <4>2
    <3>3. CASE i = 0
      <4>1. g[0] = f[0] /\ 0 \in 0..(k - 1)
        BY <2>3
      <4>2. f[0] = first
        BY <2>2, <4>1
      <4> QED
        BY <3>3, <4>1, <4>2
    <3> QED
      BY <3>1, <3>2, <3>3
  <2>5. g = h
    <3>1. \A i \in 0..k : g[i] = h[i]
      BY <2>4
    <3> QED
      BY <3>1
  <2>6. Stages(g, s, k)
    BY <2>5 DEF Stages
  <2> HIDE DEF g
  <2> QED
    BY <2>6
<1>3. \A k \in 1..n : k - 1 \in T => k \in T
  BY <1>2
<1> HIDE DEF T
<1>4. \A k \in 0..n : k \in T
  BY <1>1, <1>3, UpToInduction
<1> QED
  BY <1>4 DEF T

(* In whatever order a compatible set is declared, all of it is accepted.  *)
LEMMA CompatibleIsAcceptable ==
  ASSUME NEW D, D \subseteq Declarations, IsFiniteSet(D), Compatible(D),
         NEW s \in SetToSeqs(D)
  PROVE  Acceptable(s)
<1> DEFINE n == Len(s)
           first == [ports |-> Empty, names |-> Empty]
           e == CHOOSE f : Stages(f, s, n)
           S(k) == {s[j] : j \in 1..k}
<1>1. /\ n \in Nat /\ \A i \in 1..n : s[i] \in D
      /\ \A i, j \in 1..n : i # j => s[i] # s[j]
  <2>1. Cardinality(D) \in Nat
    BY FS_CardinalityType
  <2>2. /\ s \in [1..Cardinality(D) -> D]
        /\ \A i, j \in 1..Cardinality(D) : i # j => s[i] # s[j]
    BY DEF SetToSeqs
  <2>3. s \in Seq(D)
    BY <2>1, <2>2, SeqDef
  <2>4. n = Cardinality(D)
    BY <2>1, <2>2, <2>3, LenProperties
  <2> HIDE DEF n
  <2> QED
    BY <2>1, <2>2, <2>4
<1>2. Stages(e, s, n)
  BY <1>1, StagesExist
<1>3. Acceptable(s) <=> \A i \in 1..n : Accepts(e[i - 1], s[i])
  BY DEF Acceptable, Stages
<1> HIDE DEF e, n
<1>4. e[0] = first /\ \A i \in 1..n : e[i] = Loaded(e[i - 1], s[i])
  <2>1. \A i \in 0..n : e[i] = IF i = 0 THEN first ELSE Loaded(e[i - 1], s[i])
    BY <1>2 DEF Stages
  <2> QED
    BY <1>1, <2>1
<1>5. ASSUME NEW i \in 1..n, Sound(e[i - 1]), Holds(e[i - 1], S(i - 1))
      PROVE  Accepts(e[i - 1], s[i]) /\ Sound(e[i]) /\ Holds(e[i], S(i))
  <2> DEFINE E == S(i - 1)
             d == s[i]
             t == e[i - 1]
  <2>1. i - 1 \in Nat /\ \A j \in 1..(i - 1) : j \in 1..n /\ j # i
    BY <1>1
  <2>2. E \subseteq D /\ d \in D /\ d \notin E
    BY <1>1, <2>1
  <2>3. S(i) = E \cup {d}
    <3>1. \A j : j \in 1..i <=> j \in 1..(i - 1) \/ j = i
      BY <1>1
    <3> QED
      BY <3>1
  <2>4. Sound(t) /\ Holds(t, E)
    BY <1>5
  <2> HIDE DEF E, d, t
  <2>5. Accepts(t, d)
    BY <2>2, <2>4, CompatibleIsAccepted
  <2>6. \A f \in E : Address(d) = Address(f) => Channel(d).maxSize = Channel(f).maxSize
    BY <2>2 DEF Compatible, Agree
  <2>7. E \subseteq Declarations /\ d \in Declarations
    BY <2>2
  <2>8. Sound(Loaded(t, d)) /\ Holds(Loaded(t, d), E \cup {d})
    BY <2>4, <2>5, <2>6, <2>7, LoadedIsSound, LoadedHolds
  <2>9. e[i] = Loaded(t, d)
    BY <1>4 DEF t, d
  <2> HIDE DEF S
  <2> QED
    BY <2>3, <2>5, <2>8, <2>9 DEF t, d
<1> DEFINE T == {k \in 0..n : Sound(e[k]) /\ Holds(e[k], S(k))}
<1>6. 0 \in T
  <2>1. S(0) = {}
    OBVIOUS
  <2> HIDE DEF S
  <2>2. DOMAIN first.ports = {} /\ DOMAIN first.names = {}
    BY NothingInEmpty
  <2> HIDE DEF first
  <2>3. Sound(first) /\ Holds(first, {})
    BY <2>2 DEF Sound, NamesLead, MessagesAreDeclared, Holds
  <2> QED
    BY <1>1, <1>4, <2>1, <2>3
<1>7. \A k \in 1..n : k - 1 \in T => k \in T
  <2> HIDE DEF S
  <2> QED
    BY <1>1, <1>5
<1> HIDE DEF T
<1>8. \A k \in 0..n : k \in T
  BY <1>1, <1>6, <1>7, UpToInduction
<1>9. \A i \in 1..n : Accepts(e[i - 1], s[i])
  <2> HIDE DEF S
  <2> TAKE i \in 1..n
  <2>1. i - 1 \in 0..n
    BY <1>1
  <2>2. Sound(e[i - 1]) /\ Holds(e[i - 1], S(i - 1))
    BY <1>8, <2>1 DEF T
  <2> QED
    BY <1>5, <2>2
<1> QED
  BY <1>3, <1>9

(* The declarations that have been accepted are what has been loaded, and  *)
(* they are compatible, as long as neither exception has occurred: once it *)
(* has, it stays.                                                          *)
Declared == {names[n].declared : n \in DOMAIN names}
OrderInv ==
  phase = "loading" =>
    /\ IsFiniteSet(Declared)
    /\ \/ XxAndNone(Declared) \/ SizesDiffer(Declared)
       \/ Holds(Context, Declared) /\ Compatible(Declared)

LEMMA DeclareKeepsOrderInv ==
  ASSUME Sound(Context), OrderInv, NEW d \in Declarations, Declare(d)
  PROVE  OrderInv'
<1> DEFINE E == Declared
           F == E \cup {d}
           t == Loaded(Context, d)
<1>1. phase = "loading" /\ Accepts(Context, d) /\ Context' = t
  BY DEF Declare, Reads, Context, Loaded
<1>2. Declared' = F
  <2>1. /\ DOMAIN t.names = DOMAIN names \cup {Name(d)}
        /\ t.names[Name(d)].declared = d
        /\ \A n \in DOMAIN names : t.names[n] = names[n]
    <3>1. Context.names = names
      BY DEF Context
    <3> QED
      BY <1>1, <3>1, LoadedNames
  <2>2. names' = t.names
    BY DEF Declare
  <2>3. Declared' = {t.names[n].declared : n \in DOMAIN t.names}
    BY <2>2 DEF Declared
  <2> HIDE DEF t
  <2>4. \A n \in DOMAIN t.names : t.names[n].declared \in F
    BY <2>1 DEF Declared
  <2>5. d \in Declared'
    BY <2>1, <2>3
  <2>6. \A n \in DOMAIN names : names[n].declared \in Declared'
    <3> TAKE n \in DOMAIN names
    <3>1. n \in DOMAIN t.names /\ t.names[n].declared = names[n].declared
      BY <2>1
    <3> QED
      BY <2>3, <3>1
  <2>7. E \subseteq Declared'
    BY <2>6 DEF Declared
  <2>8. Declared' \subseteq F
    BY <2>3, <2>4
  <2> QED
    BY <2>5, <2>7, <2>8
<1>3. E \subseteq Declarations
  BY DEF Sound, NamesLead, Context, Declared
<1>4. IsFiniteSet(E) /\ IsFiniteSet(F)
  <2>1. IsFiniteSet(E)
    BY <1>1 DEF OrderInv
  <2> HIDE DEF E
  <2> QED
    BY <2>1, FS_AddElement
<1> HIDE DEF E, F, t
<1>5. CASE XxAndNone(F) \/ SizesDiffer(F)
  BY <1>2, <1>4, <1>5 DEF OrderInv, XxAndNone, SizesDiffer
<1>6. CASE ~XxAndNone(F) /\ ~SizesDiffer(F)
  <2>1. ~XxAndNone(E) /\ ~SizesDiffer(E)
    BY <1>6 DEF XxAndNone, SizesDiffer, F
  <2>2. Holds(Context, E) /\ Compatible(E)
    BY <1>1, <2>1 DEF OrderInv, E
  <2>3. Compatible(F)
    BY <1>1, <1>3, <1>4, <1>6, <2>2, AcceptedIsCompatible DEF F
  <2>4. \A e \in E : Address(d) = Address(e) => Channel(d).maxSize = Channel(e).maxSize
    BY <1>6 DEF SizesDiffer, F
  <2>5. Holds(t, F)
    BY <1>1, <1>3, <2>2, <2>4, LoadedHolds DEF F, t
  <2>6. Holds(Context, Declared)' /\ Compatible(Declared)'
    BY <1>1, <1>2, <2>3, <2>5 DEF Holds, Compatible, KeysAt
  <2> QED
    BY <1>2, <1>4, <2>6 DEF OrderInv
<1> QED
  BY <1>5, <1>6

(* Whether a set of declarations is accepted does not depend on its order, *)
(* not even across the nodes; the exceptions are a label with any SDI      *)
(* beside one without, and channels of one address that differ in size.    *)
THEOREM OrderNeverMatters == CreationSpec => []OrderDoesNotMatter
<1>1. CreationInit => OrderInv
  <2> SUFFICES ASSUME CreationInit
               PROVE  OrderInv
    OBVIOUS
  <2>1. DOMAIN Context.ports = {} /\ DOMAIN Context.names = {} /\ Declared = {}
    BY NothingInEmpty DEF CreationInit, Context, Declared
  <2>2. Holds(Context, {}) /\ Compatible({})
    BY <2>1 DEF Holds, Compatible
  <2> QED
    BY <2>1, <2>2, FS_EmptySet DEF OrderInv
<1>2. Sound(Context) /\ OrderInv /\ [CreationNext]_creationVars => OrderInv'
  <2> SUFFICES ASSUME Sound(Context), OrderInv, [CreationNext]_creationVars
               PROVE  OrderInv'
    OBVIOUS
  <2>1. CASE \E d \in Declarations : Declare(d)
    BY <2>1, DeclareKeepsOrderInv
  <2>2. CASE phase' # "loading"
    BY <2>2 DEF OrderInv
  <2>3. CASE UNCHANGED creationVars
    <3>1. Context' = Context /\ Declared' = Declared /\ phase' = phase
      BY <2>3 DEF creationVars, Context, Declared
    <3> QED
      BY <3>1 DEF OrderInv, XxAndNone, SizesDiffer, Holds, Compatible, KeysAt
  <2>4. \/ \E d \in Declarations : Declare(d)
        \/ phase' # "loading"
        \/ UNCHANGED creationVars
    BY DEF CreationNext, Refuse, Crash, Build, BuildFails, Fail, NextInList, GetMessage
  <2> QED
    BY <2>1, <2>2, <2>3, <2>4
<1>3. Sound(Context) /\ OrderInv => OrderDoesNotMatter
  <2> SUFFICES ASSUME Sound(Context), OrderInv, phase = "loading",
                      ~XxAndNone(Declared), ~SizesDiffer(Declared),
                      NEW s \in SetToSeqs(Declared)
               PROVE  Acceptable(s)
    BY DEF OrderDoesNotMatter, Declared, XxAndNone, SizesDiffer
  <2>1. IsFiniteSet(Declared) /\ Compatible(Declared)
    BY DEF OrderInv
  <2>2. Declared \subseteq Declarations
    BY DEF Sound, NamesLead, Context, Declared
  <2> HIDE DEF Declared
  <2> QED
    BY <2>1, <2>2, CompatibleIsAcceptable
<1> QED
  BY <1>1, <1>2, <1>3, AlwaysSound, PTL DEF CreationSpec
=============================================================================
