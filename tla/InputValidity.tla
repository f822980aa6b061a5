--------------------------- MODULE InputValidity ---------------------------
(***************************************************************************)
(* The validity of input messages: what ims_read_sampling_message reports  *)
(* in its message_validity while datagrams arrive, simulation time         *)
(* advances, and messages are invalidated or reset one by one or all at    *)
(* once (vistas_message_sampling.cpp, vistas_message_discrete.cpp,         *)
(* vistas_message_analogue.cpp and vistas_message_nad.cpp for one message, *)
(* vistas_context.cpp and vistas_port_application.hh for all of them).     *)
(*                                                                         *)
(* A message records the simulation time at which its data arrived; it is  *)
(* valid while the difference to the current time, computed on unsigned    *)
(* integers, is below its validity duration.  Simulation time is not       *)
(* monotonic: ims_reset_all puts it back to zero.  A NAD message has no    *)
(* validity duration and is never invalid.                                 *)
(***************************************************************************)
EXTENDS SimulationTime, Sequences, FiniteSets, Functions

CONSTANTS
  InputPorts,   \* the input ports of the context
  MessageList,  \* port_application::_message_list, for every port
  Queuing,      \* the queuing messages (an A429 bus may have both kinds)
  WiredPorts,   \* the discrete and analogue ports
  NadPorts,     \* the NAD ports
  Durations     \* the validity durations in use; 0 means "no limit"

ASSUME InputValidityAssumption ==
  /\ WiredPorts \subseteq InputPorts /\ NadPorts \subseteq InputPorts
  /\ \A p \in WiredPorts \cup NadPorts : Range(MessageList[p]) \cap Queuing = {}
  /\ Durations \subseteq Nat

Messages == UNION {Range(MessageList[p]) : p \in InputPorts}
Readable == Messages \ Queuing
Nad == UNION {Range(MessageList[p]) : p \in NadPorts}
Timed == Readable \ Nad

(* Unsigned arithmetic, at a width that covers the bounded times, and the  *)
(* value (uint64_t)-1 of INVALID_DATE.                                     *)
TimeModulus == 4 * (MaxTime + 1)
INVALID_DATE == TimeModulus - 1
Minus(a, b) == (a - b) % TimeModulus

VARIABLES
  hasData,      \* the messages with data: _data_size > 0, or _has_data
  dataTime,     \* _data_time_us
  duration,     \* _validity_duration_us
  initialized,  \* the messages that the configuration gives a first value
  age           \* true time since the last arrival, not seen by the code

validityVars == <<timeUs, hasData, dataTime, duration, initialized, age>>

NeverReceived == -1

ValidityInit ==
  /\ timeUs = 0
  /\ hasData = {}
  /\ dataTime = [m \in Readable |-> INVALID_DATE]
  /\ duration \in [Readable -> Durations]
  /\ initialized \in SUBSET Timed
  /\ age = [m \in Readable |-> NeverReceived]

-----------------------------------------------------------------------------
(* Variant of InTime: one microsecond too long. *)
InTimeInclusive(m) ==
  \/ duration[m] = 0
  \/ dataTime[m] # INVALID_DATE /\ Minus(timeUs, dataTime[m]) <= duration[m]

(* An invalidation does not show in a message without validity limit. *)
InTime(m) ==
  \/ duration[m] = 0
  \/ dataTime[m] # INVALID_DATE /\ Minus(timeUs, dataTime[m]) < duration[m]

ReadNad(m) == IF m \in hasData THEN "valid" ELSE "never_received"

(* The validity that read_sampling, or read_nad, returns. *)
Read(m) ==
  CASE m \in Nad -> ReadNad(m)
    [] m \in Timed \cap hasData -> IF InTime(m) THEN "valid" ELSE "invalid"
    [] m \in Timed \ hasData ->
         IF m \in initialized THEN "never_received_but_initialized" ELSE "never_received"

(* A datagram of port p carries data for the messages of S. *)
Arrive(S) ==
  /\ hasData' = hasData \cup S
  /\ dataTime' = [m \in Readable |-> IF m \in S THEN timeUs ELSE dataTime[m]]
  /\ age' = [m \in Readable |-> IF m \in S THEN 0 ELSE age[m]]
  /\ UNCHANGED <<timeUs, duration, initialized>>

(* On a bus, for some of the messages of the port. *)
ReceiveBus(p) ==
  /\ p \notin WiredPorts \cup NadPorts
  /\ \E S \in SUBSET (Range(MessageList[p]) \ Queuing) : S # {} /\ Arrive(S)

(* That of a wired port has a place for each of them. *)
ReceiveWired(p) == p \in WiredPorts /\ Arrive(Range(MessageList[p]))

(* So has that of a NAD port, which does not look at the time. *)
ReceiveNad(p) == p \in NadPorts /\ Arrive(Range(MessageList[p]))

(* ims_set_sampling_message_timeout *)
SetValidityDuration(m) ==
  /\ duration' \in {[duration EXCEPT ![m] = d] : d \in Durations}
  /\ UNCHANGED <<timeUs, hasData, dataTime, initialized, age>>

(* Forget the arrival date of the messages of S. *)
InvalidateMessages(S) ==
  /\ dataTime' = [m \in Readable |-> IF m \in S THEN INVALID_DATE ELSE dataTime[m]]
  /\ UNCHANGED <<timeUs, hasData, duration, initialized, age>>

(* ims_invalidate_sampling_message *)
Invalidate(m) == InvalidateMessages({m})

(* The messages of a port that its invalidate_messages reaches: the loop   *)
(* ends at the first queuing or NAD message, whose invalidate throws.      *)
Reached(p) ==
  LET list == MessageList[p]
  IN  {list[i] : i \in {j \in DOMAIN list : \A k \in 1..j : list[k] \in Timed}}

(* ims_invalidate_all_sampling_messages: the exception of one port is      *)
(* ignored and the loop over the ports goes on.                            *)
InvalidateAll == InvalidateMessages(UNION {Reached(p) : p \in InputPorts})

(* ims_reset_message *)
Reset(m) ==
  /\ hasData' = hasData \ {m}
  /\ dataTime' = [dataTime EXCEPT ![m] = INVALID_DATE]
  /\ age' = [age EXCEPT ![m] = NeverReceived]
  /\ UNCHANGED <<timeUs, duration, initialized>>

(* Variant of ResetAllInputs: the clock and nothing else. *)
ResetClock ==
  /\ timeUs' = 0
  /\ UNCHANGED <<hasData, dataTime, duration, initialized, age>>

(* ims_reset_all: the clock, then every message of every port. *)
ResetAllInputs ==
  /\ timeUs' = 0
  /\ hasData' = {}
  /\ dataTime' = [m \in Readable |-> INVALID_DATE]
  /\ age' = [m \in Readable |-> NeverReceived]
  /\ UNCHANGED <<duration, initialized>>

(* ims_progress, as far as time is concerned *)
ProgressInputs(d) ==
  /\ Elapse(d)
  /\ age' = [m \in Readable |-> IF age[m] = NeverReceived THEN NeverReceived
                                                          ELSE age[m] + d]
  /\ UNCHANGED <<hasData, dataTime, duration, initialized>>

ValidityNext ==
  \/ \E m \in Timed : SetValidityDuration(m) \/ Invalidate(m)
  \/ \E m \in Readable : Reset(m)
  \/ \E p \in InputPorts : ReceiveBus(p) \/ ReceiveWired(p) \/ ReceiveNad(p)
  \/ InvalidateAll
  \/ ResetAllInputs
  \/ \E d \in Steps : ProgressInputs(d)

ValiditySpec == ValidityInit /\ [][ValidityNext]_validityVars

-----------------------------------------------------------------------------
ValidityTypeOK ==
  /\ timeUs \in 0..MaxTime
  /\ hasData \subseteq Readable
  /\ dataTime \in [Readable -> 0..MaxTime \cup {INVALID_DATE}]
  /\ duration \in [Readable -> Durations]
  /\ initialized \subseteq Timed
  /\ age \in [Readable -> 0..MaxTime \cup {NeverReceived}]

(* A message that reads "valid" under a limited validity did arrive less   *)
(* than its validity duration ago, in time that really passed: neither the *)
(* return of the clock to zero nor the unsigned subtraction makes old data *)
(* look fresh.                                                             *)
ValidMeansFresh ==
  \A m \in Timed :
    Read(m) = "valid" /\ duration[m] # 0 => age[m] \in 0..(duration[m] - 1)

(* A message turns valid only because data arrived or because the          *)
(* application changed its duration, never by the passing of time, an      *)
(* invalidation or a reset, of this message or of others.                  *)
NoSpontaneousValidity ==
  [][\A m \in Readable :
       Read(m) # "valid" /\ Read(m)' = "valid"
         => age'[m] = 0 \/ duration'[m] # duration[m]]_validityVars

=============================================================================
