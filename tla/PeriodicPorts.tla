--------------------------- MODULE PeriodicPorts ---------------------------
(***************************************************************************)
(* The second half of ims_send_all (VISTAS/src/vistas_context.cpp): the    *)
(* discrete, analogue and NAD output ports, which are asked to send in     *)
(* every cycle and decide from the simulation time whether they do         *)
(* (vistas_port_discrete.cpp, vistas_port_analogue.cpp,                    *)
(* vistas_port_nad.cpp and their messages).                                *)
(*                                                                         *)
(* A port emits at most once in a slot of its period, except that a        *)
(* discrete that changes is emitted at once.  Simulation time goes by      *)
(* steps of any length and goes back to zero with ims_reset_all.  A socket *)
(* call that fails throws, and the ports after it are not asked.           *)
(*                                                                         *)
(* The signals of a port are one value here: a datagram carries them all,  *)
(* and a change of any of them is a change of the port.                    *)
(***************************************************************************)
EXTENDS SimulationTime, Sequences, Functions

CONSTANTS
  PortOrder,    \* context::_periodic_output_ports, in order
  Discrete,     \* the discrete ports among them
  Period,       \* _send_period_us of every port; 0 means every ims_send_all
  Faulty,       \* the ports whose socket may refuse a datagram
  Values,       \* the values of a port
  DefaultValue  \* the one after a reset

Ports == Range(PortOrder)

ASSUME PeriodicPortsAssumption ==
  /\ PortOrder \in Seq(Ports)
  /\ IsInjective(PortOrder)
  /\ Discrete \subseteq Ports
  /\ Faulty \subseteq Ports
  /\ Period \in [Ports -> Nat]
  /\ DefaultValue \in Values

VARIABLES
  nextDate,  \* _send_next_date_us, for every port
  value,     \* the value that the next datagram of a port will carry
  position,  \* the port of the loop of send_all; 0 outside of it
  sentValue, \* the value of the last datagram of a port
  sentAt     \* its time, or Never; not seen by the code

vars == <<timeUs, nextDate, value, position, sentValue, sentAt>>

(* No datagram since the start or since ims_reset_all. *)
Never == -1

Init ==
  /\ timeUs = 0
  /\ nextDate = [p \in Ports |-> 0]
  /\ value = [p \in Ports |-> DefaultValue]
  /\ position = 0
  /\ sentValue = value
  /\ sentAt = [p \in Ports |-> Never]

-----------------------------------------------------------------------------
Sending == position > 0
Port == PortOrder[position]
AtPort == position \in DOMAIN PortOrder

Put(p, v) ==
  /\ ~Sending
  /\ value' = [value EXCEPT ![p] = v]
  /\ UNCHANGED <<timeUs, position, sentValue, sentAt>>
MarkModified(p) == nextDate' = [nextDate EXCEPT ![p] = 0]

(* Variant of WriteDiscrete that leaves the date. *)
WriteDiscreteQuietly(p, v) == p \in Discrete /\ Put(p, v) /\ UNCHANGED nextDate

(* ims_write_sampling_message of a discrete: a change marks the port. *)
WriteDiscrete(p, v) ==
  /\ p \in Discrete
  /\ Put(p, v)
  /\ IF v # value[p] THEN MarkModified(p) ELSE UNCHANGED nextDate

(* ims_write_sampling_message of an analogue, ims_write_nad_message. *)
WriteOther(p, v) == p \notin Discrete /\ Put(p, v) /\ UNCHANGED nextDate

(* ims_reset_message; a discrete marks its port in any case. *)
ResetDiscrete(p) == p \in Discrete /\ Put(p, DefaultValue) /\ MarkModified(p)
ResetOther(p) == p \notin Discrete /\ Put(p, DefaultValue) /\ UNCHANGED nextDate

(* Variant of ResetAll that resets the clock but only the dates of the     *)
(* ports whose messages mark them.                                         *)
ResetAllKeepsDates ==
  /\ ~Sending
  /\ timeUs' = 0
  /\ value' = [p \in Ports |-> DefaultValue]
  /\ nextDate' = [p \in Ports |-> IF p \in Discrete THEN 0 ELSE nextDate[p]]
  /\ sentAt' = [p \in Ports |-> Never]
  /\ UNCHANGED <<position, sentValue>>

(* ims_reset_all: the clock, then reset_messages of every port, which also *)
(* resets its date.                                                        *)
ResetAll ==
  /\ ~Sending
  /\ timeUs' = 0
  /\ value' = [p \in Ports |-> DefaultValue]
  /\ nextDate' = [p \in Ports |-> 0]
  /\ sentAt' = [p \in Ports |-> Never]
  /\ UNCHANGED <<position, sentValue>>

(* ims_progress *)
Progress(d) ==
  /\ ~Sending
  /\ Elapse(d)
  /\ UNCHANGED <<nextDate, value, position, sentValue, sentAt>>

-----------------------------------------------------------------------------
(* ims_send_all has served the output queue.  A call in which a port of    *)
(* that queue throws does not come here and changes nothing.               *)
BeginSendAll ==
  /\ ~Sending
  /\ position' = 1
  /\ UNCHANGED <<timeUs, nextDate, value, sentValue, sentAt>>

Due(p) == Period[p] = 0 \/ nextDate[p] <= timeUs

(* The beginning of the next slot of the period. *)
FollowingDate(p) == (timeUs \div Period[p] + 1) * Period[p]

SkipPort ==
  /\ AtPort
  /\ ~Due(Port)
  /\ position' = position + 1
  /\ UNCHANGED <<timeUs, nextDate, value, sentValue, sentAt>>

SendPort ==
  /\ AtPort
  /\ Due(Port)
  /\ sentValue' = [sentValue EXCEPT ![Port] = value[Port]]
  /\ sentAt' = [sentAt EXCEPT ![Port] = timeUs]
  /\ nextDate' = IF Period[Port] > 0
                 THEN [nextDate EXCEPT ![Port] = FollowingDate(Port)]
                 ELSE nextDate
  /\ position' = position + 1
  /\ UNCHANGED <<timeUs, value>>

(* The socket refuses the datagram: the date does not move, and the ports  *)
(* after this one are not asked.                                           *)
SendThrows ==
  /\ AtPort
  /\ Due(Port)
  /\ Port \in Faulty
  /\ position' = 0
  /\ UNCHANGED <<timeUs, nextDate, value, sentValue, sentAt>>

EndSendAll ==
  /\ position > Len(PortOrder)
  /\ position' = 0
  /\ UNCHANGED <<timeUs, nextDate, value, sentValue, sentAt>>

Next ==
  \/ \E p \in Ports, v \in Values : WriteDiscrete(p, v) \/ WriteOther(p, v)
  \/ \E p \in Ports : ResetDiscrete(p) \/ ResetOther(p)
  \/ ResetAll
  \/ \E d \in Steps : Progress(d)
  \/ BeginSendAll \/ SkipPort \/ SendPort \/ SendThrows \/ EndSendAll

Spec == Init /\ [][Next]_vars

(* The application calls ims_send_all in every cycle, and a call runs to   *)
(* its end, without a failure in the output queue.  Time need not advance, *)
(* and no faulty socket recovers.                                          *)
Fairness ==
  /\ WF_vars(BeginSendAll)
  /\ WF_vars(SkipPort \/ SendPort \/ SendThrows)
  /\ WF_vars(EndSendAll)

FairSpec == Spec /\ Fairness

-----------------------------------------------------------------------------
TypeOK ==
  /\ timeUs \in 0..MaxTime
  /\ nextDate \in [Ports -> Nat]
  /\ value \in [Ports -> Values]
  /\ position \in 0..(Len(PortOrder) + 1)
  /\ sentValue \in [Ports -> Values]
  /\ sentAt \in [Ports -> 0..MaxTime \cup {Never}]

InSlotOf(p, t) == t # Never /\ t \div Period[p] = timeUs \div Period[p]

(* After an ims_send_all that came to its end, every port has emitted in   *)
(* the current slot of its period, counted from the last ims_reset_all: a  *)
(* step of time longer than a period, a failure or the return of the clock *)
(* to zero costs no slot that the application visits.                      *)
SlotIsServed ==
  [][EndSendAll =>
       \A p \in Ports : IF Period[p] = 0 THEN sentAt[p] = timeUs
                                         ELSE InSlotOf(p, sentAt[p])]_vars

(* The discrete ports that no failing socket stands before. *)
Unhindered ==
  {p \in Discrete :
     \A i \in DOMAIN PortOrder :
       p \in Range(SubSeq(PortOrder, i, Len(PortOrder))) => PortOrder[i] \notin Faulty}

(* ims.h on ims_send_all: "Send wired periodically".  A change of a        *)
(* discrete is emitted in the end, if neither its own socket nor that of a *)
(* port before it keeps failing.                                           *)
HealthyChangesAreSent ==
  \A p \in Unhindered :
    sentValue[p] # value[p] ~> sentValue[p] = value[p]
=============================================================================
