--------------------------- MODULE ControlConnection ---------------------------
(***************************************************************************)
(* The connections to the simulation server, from the creation of the      *)
(* context to its end: the registrations (VISTAS/src/                      *)
(* vistas_context_factory.cpp, build; vistas_port_instrumentation.cpp,     *)
(* register_mode and so on), the packets cut out of the TCP streams        *)
(* (vistas_socket_tcp_message.cpp), the commands F_POWERSUPPLY and         *)
(* F_CONFIG with their answers, and the destructor of the port.  F_STATE   *)
(* and F_SYNCHRO are in SynchroControl, F_FAILURE in SocketPool.           *)
(*                                                                         *)
(* A stream is a sequence of packets, of which the last may have arrived   *)
(* in part.  The server (external) answers registrations, and sends        *)
(* commands on a connection as soon as it has accepted one there.          *)
(***************************************************************************)
EXTENDS Integers, Sequences, FiniteSets, Functions

CONSTANTS
  Addresses,    \* the configurations: the connection of every role that has one
  Pools,        \* the orders of the connections in the input pool
  MaxCommands   \* bound: commands of the server

Roles == {"power", "instrum", "sync", "mode"}

PowerCommands == {"on", "off", "power?"}
ConfigCommands == {"load", "apply", "config?"}
(* An unknown command, and one whose size is beyond the reader's buffer. *)
Oddities == {"unknown", "huge"}
Known == PowerCommands \cup ConfigCommands
Commands == Known \cup Oddities

ASSUME ControlConnectionAssumption ==
  /\ MaxCommands \in Nat
  /\ \A a \in Addresses : DOMAIN a \subseteq Roles /\ DOMAIN a # {}
  /\ \A p \in Pools : p \in Seq(Range(p)) /\ IsInjective(p)
  /\ \A a \in Addresses : \A p \in Pools : Range(a) \subseteq Range(p)

VARIABLES
  address,     \* the configuration
  pool,        \* the connections in the order of socket_pool::_input_pool
  phase,       \* "register", "await", "running", "failed", "freed", "terminated"
  step,        \* build is at the step-th role
  registered,  \* the roles whose flag _registered_* is set
  todo,        \* the connections that select has reported to the pass of
               \* socket_pool::import, and that it has not come to
  power,       \* context::_powersupply_on
  toApp,       \* the packets on the way to the application
  cut,         \* connections on which the last packet has arrived in part
  toServer,    \* the packets on the way to the server
  accepted,    \* the server's registrations
  awaited,     \* the answers that the server has to get on a connection
  wanted,      \* the power state that the server has commanded last
  commands     \* commands sent so far

app == <<phase, step, registered, todo, power>>
server == <<accepted, awaited, wanted, commands>>
config == <<address, pool>>
vars == <<config, app, toApp, cut, toServer, server>>

Connections == Range(pool)

(* The order in which build registers. *)
IfConfigured(r) == IF r \in DOMAIN address THEN <<r>> ELSE <<>>
Plan ==
  IfConfigured("power") \o IfConfigured("instrum") \o IfConfigured("sync") \o IfConfigured("mode")
Role == Plan[step]
Ack(r, status) == [kind |-> "ack", what |-> r, status |-> status]
Command(w) == [kind |-> "command", what |-> w, status |-> 0]

Init ==
  /\ address \in Addresses
  /\ pool \in Pools
  /\ phase = "register"
  /\ step = 1
  /\ registered = {}
  /\ todo = {}
  /\ power = FALSE
  /\ toApp = [c \in Connections |-> <<>>]
  /\ cut = {}
  /\ toServer = [c \in Connections |-> <<>>]
  /\ accepted = {}
  /\ awaited = [c \in Connections |-> <<>>]
  /\ wanted = FALSE
  /\ commands = 0

-----------------------------------------------------------------------------
(* The registrations. *)
Registration(r) == [kind |-> "register", what |-> r, status |-> 0]
Unregistration(r) == [kind |-> "unregister", what |-> r, status |-> 0]

(* Variant of Register that takes a connection on which another role is    *)
(* registered as registered.                                               *)
RegisterOncePerConnection ==
  /\ phase = "register"
  /\ step <= Len(Plan)
  /\ registered' = registered \cup {Role}
  /\ phase' = "await"
  /\ toServer' = IF \E r \in registered : address[r] = address[Role]
                 THEN toServer
                 ELSE [toServer EXCEPT ![address[Role]] = Append(@, Registration(Role))]
  /\ UNCHANGED <<config, step, todo, power, toApp, cut, server>>

(* Variant of Register that sets the flag with the acknowledgement. *)
RegisterFlagsLate ==
  /\ phase = "register"
  /\ step <= Len(Plan)
  /\ registered' = {Plan[i] : i \in 1..step - 1}
  /\ phase' = "await"
  /\ toServer' = [toServer EXCEPT ![address[Role]] = Append(@, Registration(Role))]
  /\ UNCHANGED <<config, step, todo, power, toApp, cut, server>>

(* register_power and the others: the flag, and the request. *)
Register ==
  /\ phase = "register"
  /\ step <= Len(Plan)
  /\ registered' = registered \cup {Role}
  /\ phase' = "await"
  /\ toServer' = [toServer EXCEPT ![address[Role]] = Append(@, Registration(Role))]
  /\ UNCHANGED <<config, step, todo, power, toApp, cut, server>>

(* Variant of IsAck that does not look at the id: the packet that turns    *)
(* the power off has a zero where the status of an acknowledgement is.     *)
IsAckOfAnyId(p) == (p.kind = "ack" /\ p.status = 0) \/ p = Command("off")

(* What register_generic makes of the first twelve bytes of a whole packet. *)
IsAck(p) == p = Ack(Role, 0)

(* Nothing but the beginning of a packet has come. *)
CutFirst(c) == c \in cut /\ Len(toApp[c]) = 1

Arrived(c) == toApp[c] # <<>>

(* register_generic: the blocking recv returns what is there, at most an   *)
(* acknowledgement.                                                        *)
Acknowledged ==
  LET c == address[Role]
  IN  /\ phase = "await"
      /\ Arrived(c) /\ ~CutFirst(c)
      /\ IsAck(Head(toApp[c]))
      /\ toApp' = [toApp EXCEPT ![c] = Tail(@)]
      /\ step' = step + 1
      /\ phase' = "register"
      /\ UNCHANGED <<config, registered, todo, power, cut, toServer, server>>

(* The destructors of the ports: a farewell for every flag, in the order   *)
(* in which ~port_instrumentation looks at them.                           *)
Farewell(r, c) ==
  IF r \in registered /\ address[r] = c THEN <<Unregistration(r)>> ELSE <<>>
Farewells(c) ==
  Farewell("instrum", c) \o Farewell("mode", c) \o Farewell("power", c) \o Farewell("sync", c)

Unregister == toServer' = [c \in Connections |-> toServer[c] \o Farewells(c)]

(* Anything else throws, and the creation fails.  The factory releases the *)
(* context before the ports, whose destructors ask it for the name of the  *)
(* component: the use of a destroyed object ends the program, or does not. *)
Refused ==
  LET c == address[Role]
  IN  /\ phase = "await"
      /\ Arrived(c)
      /\ CutFirst(c) \/ ~IsAck(Head(toApp[c]))
      /\ \/ phase' = "failed" /\ Unregister
         \/ phase' = "terminated" /\ UNCHANGED toServer
      /\ UNCHANGED <<config, step, registered, todo, power, toApp, cut, server>>

(* A role whose connection no role before it has opened: the server cannot *)
(* be reached, and the creation fails in the same way.                     *)
ConnectFails ==
  /\ phase = "register"
  /\ step <= Len(Plan)
  /\ \A r \in registered : address[r] # address[Role]
  /\ \/ phase' = "failed" /\ Unregister
     \/ phase' = "terminated" /\ registered # {} /\ UNCHANGED toServer
  /\ UNCHANGED <<config, step, registered, todo, power, toApp, cut, server>>

(* build returns the context. *)
Built ==
  /\ phase = "register"
  /\ step > Len(Plan)
  /\ phase' = "running"
  /\ UNCHANGED <<config, step, registered, todo, power, toApp, cut, toServer, server>>

-----------------------------------------------------------------------------
(* ims_import. *)

(* select() reports a connection also for a part of a packet. *)
BeginPass ==
  /\ phase = "running"
  /\ todo = {}
  /\ todo' = {c \in Connections : Arrived(c)}
  /\ todo' # {}
  /\ UNCHANGED <<config, phase, step, registered, power, toApp, cut, toServer, server>>

(* The pass goes through the pool in its order. *)
Current ==
  pool[CHOOSE i \in DOMAIN pool :
         pool[i] \in todo /\ \A j \in DOMAIN pool : j < i => pool[j] \notin todo]
Answer(what, status) == [kind |-> "answer", what |-> what, status |-> status]

(* Variant of Answers with one answer to every command. *)
AnswersOnce(w) ==
  IF w \in PowerCommands
  THEN <<Answer("power", IF w = "power?" THEN 1 ELSE 0)>>
  ELSE <<Answer("config", IF w = "config?" THEN 1 ELSE 0)>>

(* parse_powersupply and parse_config: a configuration that is to be       *)
(* applied is reported a second time, as done.                             *)
Answers(w) ==
  CASE w \in {"on", "off"} -> <<Answer("power", 0)>>
    [] w = "power?"        -> <<Answer("power", 1)>>
    [] w = "load"          -> <<Answer("config", 0)>>
    [] w = "apply"         -> <<Answer("config", 0), Answer("config", 2)>>
    [] w = "config?"       -> <<Answer("config", 1)>>

PowerAfter(w) == CASE w = "on" -> TRUE [] w = "off" -> FALSE [] OTHER -> power

(* receive_packet finds no whole packet: the header is peeked at, and the  *)
(* bytes that are available are counted.                                   *)
NothingWhole(c) == ~Arrived(c) \/ CutFirst(c)

Whole == todo # {} /\ ~NothingWhole(Current)
Word == Head(toApp[Current]).what

(* One turn of port_instrumentation::receive. *)
Handle ==
  /\ Whole
  /\ Word \in Known
  /\ toApp' = [toApp EXCEPT ![Current] = Tail(@)]
  /\ toServer' = [toServer EXCEPT ![Current] = @ \o Answers(Word)]
  /\ power' = PowerAfter(Word)
  /\ UNCHANGED <<config, phase, step, registered, todo, cut, server>>

(* The loop of receive is at its end. *)
NextConnection ==
  /\ todo # {}
  /\ NothingWhole(Current)
  /\ todo' = todo \ {Current}
  /\ UNCHANGED <<config, phase, step, registered, power, toApp, cut, toServer, server>>

(* Variant of Throw that leaves an unknown command in the stream. *)
ThrowUnread ==
  /\ Whole
  /\ Word \notin Known
  /\ todo' = {}
  /\ UNCHANGED <<config, phase, step, registered, power, toApp, cut, toServer, server>>

(* An exception ends receive, the pass and ims_import.  An unknown command *)
(* has been read; one that is too long stays for the next import.          *)
Throw ==
  /\ Whole
  /\ Word \notin Known
  /\ toApp' = IF Word = "huge" THEN toApp ELSE [toApp EXCEPT ![Current] = Tail(@)]
  /\ todo' = {}
  /\ UNCHANGED <<config, phase, step, registered, power, cut, toServer, server>>

(* ims_free_context. *)
Free ==
  /\ phase = "running"
  /\ todo = {}
  /\ phase' = "freed"
  /\ Unregister
  /\ UNCHANGED <<config, step, registered, todo, power, toApp, cut, server>>

-----------------------------------------------------------------------------
(* The server and the network.                                             *)
Transmit(c, p) ==
  /\ c \notin cut
  /\ toApp' = [toApp EXCEPT ![c] = Append(@, p)]
  /\ cut' \in {cut, cut \cup {c}}

RestArrives(c) ==
  /\ c \in cut
  /\ cut' = cut \ {c}
  /\ UNCHANGED <<config, app, toApp, toServer, server>>

(* What the server has to get for a command. *)
Expected(w) ==
  CASE w \in {"on", "off"} -> << <<"power", 0>> >>
    [] w = "power?"        -> << <<"power", 1>> >>
    [] w = "load"          -> << <<"config", 0>> >>
    [] w = "apply"         -> << <<"config", 0>>, <<"config", 2>> >>
    [] w = "config?"       -> << <<"config", 1>> >>
    [] OTHER               -> <<>>

(* Power commands come from the power supply controller. *)
SendCommand(c, w) ==
  /\ commands < MaxCommands
  /\ IF w \in PowerCommands
     THEN "power" \in accepted /\ address["power"] = c
     ELSE \E r \in accepted : address[r] = c
  /\ Transmit(c, Command(w))
  /\ awaited' = [awaited EXCEPT ![c] = @ \o Expected(w)]
  /\ wanted' = CASE w = "on" -> TRUE [] w = "off" -> FALSE [] OTHER -> wanted
  /\ commands' = commands + 1
  /\ UNCHANGED <<config, app, toServer, accepted>>

(* The server answers a registration, as it likes, and reads the rest. *)
ServerReceive(c) ==
  /\ toServer[c] # <<>>
  /\ LET p == Head(toServer[c]) IN
       \/ /\ p.kind = "register"
          /\ \E status \in {0, 1} :
               /\ Transmit(c, Ack(p.what, status))
               /\ accepted' = IF status = 0 THEN accepted \cup {p.what} ELSE accepted
          /\ UNCHANGED awaited
       \/ /\ p.kind = "unregister"
          /\ accepted' = accepted \ {p.what}
          /\ UNCHANGED <<toApp, cut, awaited>>
       \/ /\ p.kind = "answer"
          /\ awaited' = [awaited EXCEPT ![c] = IF @ = <<>> THEN @ ELSE Tail(@)]
          /\ UNCHANGED <<toApp, cut, accepted>>
  /\ toServer' = [toServer EXCEPT ![c] = Tail(@)]
  /\ UNCHANGED <<config, app, wanted, commands>>

Next ==
  \/ Register \/ Acknowledged \/ Refused \/ ConnectFails \/ Built
  \/ BeginPass \/ Handle \/ NextConnection \/ Throw \/ Free
  \/ \E c \in Connections :
       \/ RestArrives(c)
       \/ ServerReceive(c)
       \/ \E w \in Commands : SendCommand(c, w)

Spec == Init /\ [][Next]_vars

(* The creation and the import take their next step, the application keeps *)
(* importing, the server reads what comes and answers registrations, and   *)
(* TCP delivers.  No command and no end of the context is owed.            *)
Links == UNION {Range(p) : p \in Pools}

Fairness ==
  /\ WF_vars(Register \/ Acknowledged \/ Refused \/ ConnectFails \/ Built)
  /\ WF_vars(BeginPass)
  /\ WF_vars(Handle \/ NextConnection \/ Throw)
  /\ \A c \in Links : WF_vars(c \in Connections /\ RestArrives(c))
                   /\ WF_vars(c \in Connections /\ ServerReceive(c))

FairSpec == Spec /\ Fairness

-----------------------------------------------------------------------------
(* The registrations of the server once it has read what is on its way:    *)
(* what is accepted or asked for, and not taken back by a later packet.    *)
Stands(r, c, i) ==
  \A j \in DOMAIN toServer[c] : j > i => toServer[c][j] # Unregistration(r)

Upcoming(c) ==
  {r \in Roles :
     \/ r \in accepted /\ address[r] = c /\ Stands(r, c, 0)
     \/ \E i \in DOMAIN toServer[c] :
          toServer[c][i] = Registration(r) /\ Stands(r, c, i)}

(* A context that is gone leaves no registration behind, at whatever step  *)
(* its creation failed: also not the one whose acknowledgement came too    *)
(* late, in parts or after a command.  The exception is the program that   *)
(* the failing creation has ended.                                         *)
NoStaleRegistration ==
  phase \in {"failed", "freed"} => \A c \in Connections : Upcoming(c) = {}

(* A context that was created is registered for every role that has an     *)
(* address: what came first on a shared connection was not taken for the   *)
(* acknowledgement.                                                        *)
RunningIsRegistered == phase = "running" => accepted = DOMAIN address

(* What the server still gets on a connection from the packets under way:  *)
(* an answer, or the answers to a command that is to be read.              *)
UnderWay(c) == toServer[c] \o toApp[c]
Due(p) ==
  CASE p.kind = "answer"  -> << <<p.what, p.status>> >>
    [] p.kind = "command" -> Expected(p.what)
    [] OTHER              -> <<>>

(* Where the parts end that the packets are good for, one after the other. *)
Ends(packets) ==
  LET end[i \in 0..Len(packets)] ==
        IF i = 0 THEN 0 ELSE end[i - 1] + Len(Due(packets[i]))
  IN  end

Divided(what, packets) ==
  /\ Len(what) = Ends(packets)[Len(packets)]
  /\ \A i \in DOMAIN packets :
       SubSeq(what, Ends(packets)[i - 1] + 1, Ends(packets)[i]) = Due(packets[i])

(* Every command is answered, once, in order and with the right status,    *)
(* whatever the pieces it arrives in and the commands beside it: what the  *)
(* server waits for is cut into the parts that the packets under way are   *)
(* good for, from the answer that is next to the command sent last.        *)
AnsweredInOrder ==
  phase = "running" => \A c \in Connections : Divided(awaited[c], UnderWay(c))

(* The power that packets lead to, from the one that is on before them. *)
Switches(packets) == {i \in DOMAIN packets : packets[i].what \in {"on", "off"}}
LeadTo(packets, before, after) ==
  \/ Switches(packets) = {} /\ after = before
  \/ \E i \in Switches(packets) :
       /\ \A j \in Switches(packets) : j <= i
       /\ packets[i].what = IF after THEN "on" ELSE "off"

(* The power state is the one commanded last, but for the commands that    *)
(* were not read yet; a refused command leaves it as it is.                *)
PowerIsCommanded ==
  phase = "running" /\ "power" \in DOMAIN address =>
    LeadTo(toApp[address["power"]], power, wanted)

(* The server knows what became of its commands: it gets the answers it    *)
(* waits for and the power is what it commanded.                           *)
AsCommanded == AnsweredInOrder /\ PowerIsCommanded

(* The creation of a context ends, one way or the other: it never waits    *)
(* for an acknowledgement that was taken before or not asked for.          *)
CreationEnds == phase = "register" ~> phase \notin {"register", "await"}

(* A command is answered in the end, unless a packet that is too long for  *)
(* the buffer comes before it, on its connection or on one before in the   *)
(* pool: the exception ends every import at that point.                    *)
Jammed(c) ==
  \E i \in DOMAIN pool :
    /\ \E j \in i..Len(pool) : pool[j] = c
    /\ \E k \in DOMAIN toApp[pool[i]] : toApp[pool[i]][k].what = "huge"

CommandsAreAnswered ==
  \A c \in Links :
    c \in Connections /\ phase = "running" /\ awaited[c] # <<>>
      ~> \/ c \in Connections /\ (awaited[c] = <<>> \/ Jammed(c))
         \/ phase = "freed"
=============================================================================
