--------------------------- MODULE SynchroControl ---------------------------
(***************************************************************************)
(* The control of an application by the simulation server: F_STATE and     *)
(* F_SYNCHRO requests on a TCP connection, handled inside ims_import       *)
(* (VISTAS/src/vistas_port_instrumentation.cpp), and the step-by-step      *)
(* protocol between ims_get_synchro_steps_request, ims_progress and the    *)
(* acknowledgement R_SYNCHRO (VISTAS/src/vistas_context.cpp and            *)
(* vistas_context.hh).                                                     *)
(*                                                                         *)
(* The server and the application are not part of the library.  The        *)
(* application follows the documentation: it imports, does nothing while   *)
(* it is held, runs freely in the state "run", and in the state "step"     *)
(* runs the number of periods that ims_get_synchro_steps_request gave it.  *)
(***************************************************************************)
EXTENDS Integers, Sequences

CONSTANTS
  PeriodUs,           \* context::_period_us
  StepCounts,         \* the numbers of steps the server asks for
  Overlap,            \* whether the server asks again before the answer
  ResetAllowed,       \* whether the application calls ims_reset_all
  MaxRequests         \* bound: requests of the server in a behaviour

ASSUME SynchroControlAssumption ==
  /\ PeriodUs \in Nat \ {0}
  /\ StepCounts \subseteq Nat
  /\ Overlap \in BOOLEAN
  /\ ResetAllowed \in BOOLEAN
  /\ MaxRequests \in Nat

States == {"run", "step", "hold", "reset"}
UnknownState == "unknown"

FSynchro(n) == [id |-> "F_SYNCHRO", arg |-> n]
FState(s) == [id |-> "F_STATE", arg |-> s]
RSynchro(status) == [id |-> "R_SYNCHRO", status |-> status]
RState(status) == [id |-> "R_STATE", status |-> status]

VARIABLES
  toVc,              \* requests on the TCP connection
  toServer,          \* answers on the TCP connection
  requests,          \* requests the server has sent
  waiting,           \* the server waits for an R_SYNCHRO
  stepByStepEnabled, \* context::_step_by_step_enabled, from the configuration
  runningState,      \* context::_running_state
  autonomous,        \* context::_autonomous_realtime
  stepsRequested,    \* context::_steps_requested
  timeBeforeNotify,  \* context::_time_us_before_notify
  todo,              \* periods the application still has to run
  due,               \* for every request accepted and not acknowledged, the
                     \* time it still has to wait; not seen by the code
  excused            \* a request has met a case in which the code does not
                     \* acknowledge it; not seen by the code

contextVars == <<stepByStepEnabled, runningState, autonomous, stepsRequested, timeBeforeNotify>>
history == <<due, excused>>
vars == <<toVc, toServer, requests, waiting, contextVars, todo, history>>

Init ==
  /\ toVc = <<>>
  /\ toServer = <<>>
  /\ requests = 0
  /\ waiting = FALSE
  /\ stepByStepEnabled \in BOOLEAN
  /\ runningState = "run"
  /\ autonomous = TRUE
  /\ stepsRequested = 0
  /\ timeBeforeNotify = 0
  /\ todo = 0
  /\ due = <<>>
  /\ excused = FALSE

-----------------------------------------------------------------------------
(* The server.                                                             *)
AskState(s) ==
  /\ requests < MaxRequests
  /\ requests' = requests + 1
  /\ toVc' = Append(toVc, FState(s))
  /\ UNCHANGED <<toServer, waiting, contextVars, todo, history>>

AskSteps(n) ==
  /\ requests < MaxRequests
  /\ waiting => Overlap
  /\ requests' = requests + 1
  /\ toVc' = Append(toVc, FSynchro(n))
  /\ waiting' = TRUE
  /\ UNCHANGED <<toServer, contextVars, todo, history>>

ServerReceive ==
  /\ toServer # <<>>
  /\ toServer' = Tail(toServer)
  /\ waiting' = (waiting /\ Head(toServer).id # "R_SYNCHRO")
  /\ UNCHANGED <<toVc, requests, contextVars, todo, history>>

-----------------------------------------------------------------------------
(* The status of the answer to F_STATE: 1 is the generic error, 2 means     *)
(* step by step not supported.                                             *)
StateStatus(s) ==
  CASE s \notin States -> 1
    [] s = "step" /\ ~stepByStepEnabled -> 2
    [] OTHER -> 0

(* parse_state: a known state is recorded first; if it is "step" and the   *)
(* application does not support it, the answer is an error and the pace is *)
(* left as it was.                                                         *)
ParseState ==
  LET s == Head(toVc).arg
  IN  /\ toVc # <<>>
      /\ Head(toVc).id = "F_STATE"
      /\ toVc' = Tail(toVc)
      /\ runningState' = IF s \in States THEN s ELSE runningState
      /\ autonomous' = IF StateStatus(s) = 0 THEN s # "step" ELSE autonomous
      /\ toServer' = Append(toServer, RState(StateStatus(s)))
      /\ UNCHANGED <<requests, waiting, stepByStepEnabled, stepsRequested,
                     timeBeforeNotify, todo, due, excused>>

(* parse_synchro of an application without step by step. *)
ParseSynchroRefused ==
  /\ toVc # <<>>
  /\ Head(toVc).id = "F_SYNCHRO"
  /\ ~stepByStepEnabled
  /\ toVc' = Tail(toVc)
  /\ toServer' = Append(toServer, RSynchro(1))
  /\ UNCHANGED <<requests, waiting, contextVars, todo, history>>

(* Variant of ParseSynchro that adds the time of the steps to the delay.   *)
ParseSynchroAddsTime ==
  /\ toVc # <<>>
  /\ Head(toVc).id = "F_SYNCHRO"
  /\ stepByStepEnabled
  /\ toVc' = Tail(toVc)
  /\ stepsRequested' = Head(toVc).arg
  /\ timeBeforeNotify' = timeBeforeNotify + Head(toVc).arg * PeriodUs
  /\ due' = Append(due, Head(toVc).arg * PeriodUs)
  /\ excused' = (excused \/ due # <<>> \/ Head(toVc).arg = 0)
  /\ UNCHANGED <<toServer, requests, waiting, stepByStepEnabled, runningState,
                 autonomous, todo>>

(* parse_synchro and set_synchro_steps_request: no answer yet. *)
ParseSynchro ==
  /\ toVc # <<>>
  /\ Head(toVc).id = "F_SYNCHRO"
  /\ stepByStepEnabled
  /\ toVc' = Tail(toVc)
  /\ stepsRequested' = Head(toVc).arg
  /\ timeBeforeNotify' = Head(toVc).arg * PeriodUs
  /\ due' = Append(due, Head(toVc).arg * PeriodUs)
  /\ excused' = (excused \/ due # <<>> \/ Head(toVc).arg = 0)
  /\ UNCHANGED <<toServer, requests, waiting, stepByStepEnabled, runningState,
                 autonomous, todo>>

(* Variant of GetSynchroStepsRequest that counts the current period.       *)
GetSynchroStepsLessOne ==
  /\ stepsRequested > 0
  /\ stepsRequested' = 0
  /\ todo' = todo + stepsRequested - 1
  /\ UNCHANGED <<toVc, toServer, requests, waiting, stepByStepEnabled, runningState,
                 autonomous, timeBeforeNotify, history>>

(* ims_get_synchro_steps_request: the number of steps is given once. *)
GetSynchroStepsRequest ==
  /\ stepsRequested > 0
  /\ stepsRequested' = 0
  /\ todo' = todo + stepsRequested
  /\ UNCHANGED <<toVc, toServer, requests, waiting, stepByStepEnabled, runningState,
                 autonomous, timeBeforeNotify, history>>

(* Variants of NotifyReached: strictly before the end of the step; also    *)
(* without a request.                                                      *)
NotifyPassed(d) == timeBeforeNotify > 0 /\ timeBeforeNotify < d

NotifyAlways(d) == timeBeforeNotify <= d

(* ims_progress(d): the answer goes out in the call that reaches the end   *)
(* of the requested steps.                                                 *)
NotifyReached(d) == timeBeforeNotify > 0 /\ timeBeforeNotify <= d

Notify(d) ==
  /\ timeBeforeNotify' = IF timeBeforeNotify > d THEN timeBeforeNotify - d ELSE 0
  /\ toServer' = IF NotifyReached(d) THEN Append(toServer, RSynchro(0)) ELSE toServer

Elapse(d) == [i \in DOMAIN due |-> IF due[i] > d THEN due[i] - d ELSE 0]

(* One period of the application. *)
MayRun ==
  \/ runningState = "run"
  \/ runningState = "step" /\ (autonomous \/ todo > 0)

Cycle ==
  /\ MayRun
  /\ Notify(PeriodUs)
  /\ todo' = IF autonomous THEN todo ELSE todo - 1
  /\ due' = IF NotifyReached(PeriodUs)
            THEN SubSeq(Elapse(PeriodUs), 1, Len(due) - 1)
            ELSE Elapse(PeriodUs)
  /\ UNCHANGED <<toVc, requests, waiting, stepByStepEnabled, runningState, autonomous,
                 stepsRequested, excused>>

(* The application answers the state "reset" with ims_reset_all, as far as *)
(* this protocol is concerned: the delay of the answer is forgotten.       *)
ResetAll ==
  /\ ResetAllowed
  /\ runningState = "reset"
  /\ timeBeforeNotify' = 0
  /\ todo' = 0
  /\ excused' = (excused \/ timeBeforeNotify > 0)
  /\ UNCHANGED <<toVc, toServer, requests, waiting, stepByStepEnabled, runningState,
                 autonomous, stepsRequested, due>>

Import == ParseState \/ ParseSynchroRefused \/ ParseSynchro

Next ==
  \/ \E s \in States \cup {UnknownState} : AskState(s)
  \/ \E n \in StepCounts : AskSteps(n)
  \/ ServerReceive
  \/ ParseState
  \/ ParseSynchroRefused
  \/ ParseSynchro
  \/ GetSynchroStepsRequest
  \/ Cycle
  \/ ResetAll

Spec == Init /\ [][Next]_vars

(* The application loops: it imports, asks for steps and, while it may,    *)
(* runs.  The server reads its answers; it owes no request.                *)
Fairness ==
  /\ WF_vars(ServerReceive)
  /\ WF_vars(Import)
  /\ WF_vars(GetSynchroStepsRequest)
  /\ WF_vars(Cycle)

FairSpec == Spec /\ Fairness

-----------------------------------------------------------------------------
TypeOK ==
  /\ toVc \in Seq({FSynchro(n) : n \in StepCounts} \cup {FState(s) : s \in States \cup {UnknownState}})
  /\ toServer \in Seq({RSynchro(n) : n \in 0..1} \cup {RState(n) : n \in 0..2})
  /\ requests \in 0..MaxRequests
  /\ waiting \in BOOLEAN
  /\ stepByStepEnabled \in BOOLEAN
  /\ runningState \in States
  /\ autonomous \in BOOLEAN
  /\ stepsRequested \in StepCounts \cup {0}
  /\ timeBeforeNotify \in Nat
  /\ todo \in Nat
  /\ due \in Seq(Nat)
  /\ excused \in BOOLEAN

(* No R_SYNCHRO before the requested steps have been run, whatever changes *)
(* of state happen between the request and its end.                        *)
NoEarlyAnswer ==
  [][Cycle /\ NotifyReached(PeriodUs)
       => due # <<>> /\ due[Len(due)] <= PeriodUs]_vars

(* ims.h on the steps request: "When the expected number of steps is       *)
(* executed (...) LIBIMS will acknowledge automatically the request": no   *)
(* accepted request has had its time and is still without an answer.       *)
(* Three kinds of requests are excused: one followed by another before its *)
(* end, one interrupted by ims_reset_all, and one for zero steps.          *)
AllAnswered == \A i \in DOMAIN due : due[i] > 0
AnsweredWhenDue == excused \/ AllAnswered

(* Nobody starves: the steps the application knows of or is about to be    *)
(* told of are enough to reach the end of the request, so server and       *)
(* application never wait for each other.                                  *)
EnoughSteps == (stepsRequested + todo) * PeriodUs >= timeBeforeNotify

(* Every request for steps is answered, as long as the application is not  *)
(* held.                                                                   *)
StepsAreAnswered ==
  waiting ~> ~waiting \/ runningState \in {"hold", "reset"} \/ excused
=============================================================================
