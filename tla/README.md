# Verification of LIBIMS

LIBIMS gives a simulated avionics application access to its messages
(A429, AFDX, CAN, discrete, analogue, NAD) and to the simulation server. This
directory holds TLA+ modules of the VISTAS implementation of the library
(`src/VISTAS/src`, with the creation of contexts in `src/ims`), TLC
configurations that check them on small instances, and proofs that TLAPS checks
for every value of the constants.

## 1. The system

An application is a single-threaded loop: `ims_import` reads what has arrived,
the application reads its inputs and writes its outputs, `ims_progress` advances
simulation time, `ims_send_all` emits. Before the loop, `ims_create_context` reads
the configuration and registers with the simulation server. There are no threads
in the library. What is hard is elsewhere:

* an exception that leaves a loop in the middle and becomes a return code, after
  which the application goes on with half-updated structures;
* commands of the simulation server, handled inside the import loop, that replace
  the sockets the loop is about to use;
* a clock that goes back to zero (`ims_reset_all`) under dates computed from it;
* ring buffers with two different limits;
* datagrams that carry several messages of which some have nothing to say;
* a request and answer protocol whose two ends are called from different places;
* messages shared by several declarations, and sizes that are agreed on in three
  different places;
* other processes: every datagram and every command interleaves with the loop.

| component | state | operations | interacts with | correct when |
|---|---|---|---|---|
| output queue (`vistas_output_queue.*`) | first and last port, a link per port | `push`, `send_all` | written messages push their port; `send_all` calls `port::send`, which may throw | the list stays one list; a written port is in it until it has been served, whatever fails elsewhere |
| AFDX queuing port (`vistas_port_afdx_queuing.*`) | ring, begin, count | `push`, `send`, `receive`, `pop`, `reset` | output queue, network | FIFO of the declared depth on output, of four times the depth on input; nothing lost without a reason |
| input messages and validity (`vistas_message_sampling/discrete/analogue/nad.*`) | data, arrival date, validity duration | read, invalidate, reset, duration | arrival through ports, time of the context | valid means recently arrived |
| periodic ports (`vistas_port_discrete/analogue/nad.*`) | next emission date, values | write, reset, `send` | context time, sockets | changes at once, every slot once |
| context (`vistas_context.*`) | time, running state, steps | `send_all`, `import`, `progress`, `reset_all`, `invalidate_all` | everything | the loops over ports reach every port they must |
| instrumentation port (`vistas_port_instrumentation.*`) | registration, parser, steps to acknowledge | `F_STATE`, `F_SYNCHRO`, `F_FAILURE`, `F_CONFIG`, `F_POWERSUPPLY`, register, unregister | server by TCP, context, socket pool | every command is answered, once, when its effect is there; who runs is registered, who is gone is not |
| socket pool (`vistas_socket_pool.*`) | sockets by port, descriptor set | `import`, stop, start, redirect | the operating system, instrumentation port | select() is given the descriptors of the live inputs; receive() does not block |
| A429 ports and queuing labels (`vistas_port_a429.*`, `vistas_message_queuing_a429.*`) | byte ring per label, bus buffer | push, pop, send, receive | output queue | no label lost or split |
| sampling buses (`vistas_port_can.*`, `vistas_port_afdx_sampling.*`, sampling labels) | data and size per message, CAN id | write, set id, send, receive, reset | output queue, network | what is read is one write, once; the last write arrives |
| emission header (`vistas_port_application.*`) | sequence number | `prepare_header`, reset | every send | numbers count emissions and never are zero |
| context factory (`vistas_context_factory.*`, `ims/ims_context_factory.cpp`) | ports and messages by address, names | one creation per declaration, lookup by name | everything that runs later | what is accepted fits, works as declared and does not depend on the order |
| C API and XML (`ims/*`) | none of its own | argument checks, conversion of exceptions to return codes, reading of files | | sequential translation |
| sockets (`vistas_socket*`) | descriptor | send, receive, framing of TCP packets | operating system | a packet is taken whole or left in the stream |

`PROJECT.json` lists the same components with their status, and the hazards with
the line where each one bites. Some of these the code does meet: a property then
holds with the case named as an exception, in the property and in section 3. So it
is with `ims_reset_all` during a request and with a request for zero steps, with a
NAD message larger than the whole buffer, with the two ways in which the order of
declarations matters, and with what a later handle does to earlier ones.

## 2. What is modelled

Modules are named after the component; `MC<module>` gives constants for TLC. A
definition announced by a comment "Variant of X" is a plausible bug, used to show
that a property notices it; no behaviour refers to it.

**OutputQueue**: the intrusive list of `output_queue`. The variables are the
code's pointers (`firstPort`, `lastPort`, `nextQueuedPort`), `sending` (control is
inside the loop), `pending`, the set of ports whose own buffer has data, and `left`,
those of them whose data is only what an emission has left behind (not in the code).
`Write` is a write or push of a message with the call of `output_queue::push`;
`SendPort` is one turn of the loop; `SendPortThrows` is a turn whose `send()`
throws and ends the call there. A `send()` that returns empties the port, unless it
is one of the `Limited` ones, the A429 buses: labels without room in the datagram
stay in their rings (`MayLeave`), and the bus has left the list all the same.
`EmissionFifo` is the abstract queue that a caller may think of; it promises that
every write queues its port and that the queue is served in order, not that a port
with data is in it.

**AfdxQueuingPort**: the ring of one port, input and output side; the data are
model values. Its constants and the size of the ring are in `AfdxRing`.
`BoundedFifo` is the abstract queue.
**AfdxChannel** instantiates the port twice, for the sender and the receiver of one
message, each with the depth that its own application configures, with the network
between them and the part of the output queue that one port sees (`queued`, with
the value `stale` for the pointers left by an aborted loop).

**InputValidity**: the arrival dates and validity durations of the input messages
of a context, on buses, on wired ports and on NAD ports; NAD messages have data or
not, and no date. Unsigned subtraction and the date -1 are modelled with a modulus.
The variable `age` is the true time since the arrival; the code does not have it,
and the properties compare against it.

The clock that InputValidity and PeriodicPorts go by is **SimulationTime**. TLC
checks the two modules each on its own; their proofs share a module.

**PeriodicPorts**: the second loop of `context::send_all`, with the writes and resets
of discrete messages, which mark their port, and of analogue and NAD messages,
which do not. `nextDate` is `_send_next_date_us`; `sentValue` and `sentAt` record the
last datagram.

**SynchroControl**: `F_STATE` and `F_SYNCHRO`, `ims_get_synchro_steps_request`,
`ims_progress` and the answers, on one FIFO per direction of the connection. The
server and the application's loop are external: the application does what
`ims.h` asks for in the section on steps. `due` holds, for every request accepted
and not acknowledged, the time it still has to wait; `excused` records that a
request met one of the three cases in which the code gives no acknowledgement
(section 3). The code has neither.

**ControlConnection**: the connections to the server over the life of a context:
the registrations one after the other, whose connection may fail to open, each
waiting for its acknowledgement on a connection that may carry commands as well,
packets that arrive in parts, the pass of the import over the connections,
`F_POWERSUPPLY` and `F_CONFIG` with their answers, commands that are unknown or too
long, and the destructor, which unregisters. `address` gives the connection of every role and `pool` the order in
which the import visits them. The server is external; `accepted`, `awaited` and
`wanted` are what it knows.

**SocketPool**: the import loop over the answer of `select()` and the
`F_FAILURE` commands. A descriptor is a number, a new socket gets the lowest free
one, as on POSIX; `datagrams` tells which sockets have something to read. One
action per element of the loop and one per replaced socket, since the
descriptor of a replaced socket is what the rest of the pass depends on.

**A429Ring** holds the cycle buffer of a queuing label as operators on a record, and
**A429Bus** two applications joined by a bus of such labels. A cell is one label: every
size that reaches the buffer is a multiple of four bytes. `Datagram` is what one
`port_a429::send` takes from the rings, `Recipients` the choice of `receive` among the
messages of one label number, which is fixed by their declaration. The receiver reads
a datagram into a buffer of its own size, `inRoom`, and what is beyond it is dropped
(`Received`, `Beyond`). `lost`, `cut` and `truncated` record the words that a failure, a
reset, a full ring or that buffer took; the code does not have them.

**SamplingBus**: a port of sampling messages between two applications: a CAN bus, an
AFDX channel or a bus of sampling labels, with the differences of the three in what a
datagram holds and in how the receiver finds and measures its message. A cell of a
message is a part of its payload and holds the rank of the write it comes from, so
that a mixture of two writes shows. The sender may write too little or too much,
change the id of a CAN message, reset one message or all; the receiver may declare
fewer messages, other sizes, or have a buffer for fewer frames. `seqNum` is the
sequence number of the header, at a width of `Width` bits. `written`, `got`, `lost`
and `emissions` are not in the code.

**Creation**: the loading of the declarations, node by node, as a function of what
has been loaded before: lookup in the network file, port by address, message or
wrapper around an existing one, agreement and space, initial value. Then the handles,
by name with the checks of `ims_get_message` or from a list without them. The files
are constants; the phase `crashed` is undefined behaviour of the code.

OutputQueue abstracts what the port modules detail: there, a port has data or not, and
a `send` that does not throw empties it or, on an A429 bus, may leave some. In turn
AfdxChannel, A429Bus and SamplingBus reduce the queue to the three states of one
port, which OutputQueue and its proofs justify: a port that has not failed itself is
in the list from each write until it is served, also when another port fails, and
only a port that has failed may be `stale`. That a bus can be out of the list with
words in its rings is in both: `left` there, `Stranded` in A429Bus.

## 3. What the runs check

Each component has one passing run, with its safety and action properties and its
liveness properties under one specification. The type invariants `TypeOK` are part
of the inductive invariants of section 4 and proved there; no run repeats them.

| run | question | properties |
|---|---|---|
| MCOutputQueue | can an aborted loop, or an emission that leaves data behind, damage the list, lose a written port that is healthy or keep it waiting? | `ListWellFormed` `HealthyPendingIsQueued` `HealthyPushIsNotDropped`, and the refinement `ImplementsFifo` of EmissionFifo with its fairness |
| MCAfdxChannel | order, accounting and delivery between two applications, over a lossy network, with an emission that fails in the middle and an input ring that overflows | `InPushOrder` `NothingVanishes` `FourCyclesFit` `AcceptedIsDelivered`, and the refinement `RingsAreFifos` of BoundedFifo on both sides |
| MCInputValidity | can old data look fresh? | `ValidMeansFresh` `NoSpontaneousValidity` |
| MCPeriodicPorts | are changes and slots emitted in the end? | `SlotIsServed` `HealthyChangesAreSent` |
| MCSynchro | is every request for steps acknowledged, when it is due and not before? | `AnsweredWhenDue` `EnoughSteps` `NoEarlyAnswer` `StepsAreAnswered` |
| MCControlConnection | who is registered, before, during and after; does every command take effect and get its answer? | `NoStaleRegistration` `RunningIsRegistered` `AsCommanded` `CreationEnds` `CommandsAreAnswered` |
| MCSocketPool | is the descriptor set right after any commands and failures, and is every datagram read? | `SelectSetIsOpen` `ListenersAreWatched` `BlocksOnlyIfReplaced` `DatagramsAreRead` |
| MCA429Bus | order, accounting and delivery of labels that wait in several rings, leave in datagrams that hold only some of them, are read by a receiver that may take less, and are given to several messages | `InPushOrder` `NothingVanishes` `FullBeforeLeftBehind` `AcceptedIsDelivered` |
| MCSamplingBus | is what is read one write, whole and once, whatever stands beside it in the datagram? | `ReadIsOneWrite` `LastWriteAccounted` `NumbersCountEmissions` `ArrivesOnce` `LastWriteArrives` |
| MCCreation | does what is accepted fit, work as declared, and not depend on the order of the declarations? | `SlotsFit` `OrderDoesNotMatter` `ObtainedAsDeclared` `InitValueIsGiven` `HandleFitsWhenGiven` |

The liveness properties need weak fairness, of steps that the code takes without
being asked:

| property | fairness and why |
|---|---|
| `ImplementsFifo` | the call of `ims_send_all` and its turns: the application is cyclic and a call runs to its end. Faulty sockets need not recover |
| `AcceptedIsDelivered` (both), `LastWriteArrives` | the same for the sender; the receiver imports (and pops) in each of its cycles. A write, a reset or a loss is never owed |
| `HealthyChangesAreSent` | `ims_send_all` is called and runs, without a failure in the output queue; time need not advance |
| `StepsAreAnswered` | the application's loop imports, asks for steps and runs while it may; the server reads answers but owes no request |
| `CreationEnds`, `CommandsAreAnswered` | the creation and the import take their next step, TCP delivers, the server reads and answers registrations. No command and no end of the context is owed |
| `DatagramsAreRead` | the application imports, and the import takes its next step |

Two runs end with a counterexample: of one property that states what a comment
or `ims.h` says and the code does not do. `PROJECT.json` quotes them.

| run | property | what it shows |
|---|---|---|
| MCAfdxChannelJam | `AcceptedLeavesTheSender` | messages accepted by `ims_push_queuing_message` that no later `ims_send_all` sends, after one failed socket call |
| MCCreationFrames | `FramesFit` | a CAN bus that is accepted although its frames, with the header, do not fit in the buffer of the port |

More of the same kind was met while modelling. It is in the modules as the code
has it, and where a property is concerned, an excuse in it.

Emission and reception:

* After its own failure a port may keep a pointer that makes `push` take it
  for queued (`queued = "stale"`; `Faulty` ports in the properties of OutputQueue).
* The exception of one periodic port ends the loop of `ims_send_all`; a port
  that keeps failing starves those after it (`Unhindered`).
* A push of size zero on an AFDX channel makes the receiver pop the old content of
  a slot (`EmptyPayloads`).
* Labels that do not fit in a datagram of an A429 bus wait, without any failure, not
  for the next `ims_send_all` (`ims.h:776`) but for the next successful push on the
  bus (`A429Bus!Stranded`, and `left` in OutputQueue); if they fill their ring to the declared depth, a push of
  the same label is refused and does not help.
* A receiver whose `MessageMaxSize` of a bus is smaller than the sender's reads only the
  front of a datagram; the labels behind it are lost, and neither side is told
  (`A429Bus!Beyond`, `vistas_port_a429.cpp:43`).
* The labels of a datagram whose socket call fails are gone: they left their rings
  before the call (`A429Bus!SendThrows`).
* A label declared with the SDI as payload gets only those words whose SDI is
  also declared on its own (`A429Bus!Recipients`).
* A write of a sampling label shorter than four bytes is reported as invalid and
  stored all the same; the datagram then carries four bytes, of which the rest are
  those of an earlier write (the exception for labels in `ReadIsOneWrite`).

Validity:

* `ims_invalidate_sampling_message` has no effect on the validity of a message
  without validity limit, although `ims.h:703` says that it marks input messages
  as invalid (`InputValidity!InTime`: a limit of 0 means valid).
* `ims_invalidate_all_sampling_messages` ends, for a port, at its first queuing or
  NAD message: the labels after it keep their validity (`InputValidity!Reached`,
  `ims.h:712`).
* `ims.h:754` says that wired messages are always valid; `read_sampling` of discrete
  and analogue messages returns the never-received validity before the first
  datagram and an invalid one when it is too old (`InputValidity!Read`).

Control:

* A second request for steps before the end of the first replaces it, and only
  one is acknowledged; a request for zero steps never is; `ims_reset_all` forgets
  the acknowledgement (`excused`, `ims.h:264`).
* An application that refuses the state `step` is in that state all the same
  (`SynchroControl!ParseState`).
* A socket replaced by a command of the same pass may be taken for readable
  because it has the number of one that was: `receive()`, and with it the import,
  blocks until a datagram comes, although `port.hh:38` rules blocking out
  (`BlocksOnlyIfReplaced`).
* A packet longer than the reader's buffer is never taken out of the stream: every
  import ends there with an exception, and what is behind it in the stream or in
  the pool is not read any more (`Jammed`).
* When the creation fails with a registration behind it, the destructor of the port
  asks a context that is already destroyed for its name (the phase `terminated`).

Creation:

* The first declaration of an address decides the size of the port's buffer, and
  labels with any SDI and labels without are accepted in one order and refused in
  the other (`OrderDoesNotMatter`).
* A label declared in both modes is one message, in the mode of the first
  declaration; a second name of a CAN message has no `ims_set_id`
  (`ObtainedAsDeclared`).
* The initial value of a signal is looked up by its name in the network, not by
  the local name (`ims.h:159`); that of an AFDX message may be larger than the
  channel (`InitValueIsGiven`, `HandleFitsWhenGiven`).
* A NAD message larger than the whole buffer of its port passes an unsigned
  comparison (`SlotsFit`).
* A label number with a leading zero makes `label_number_encode` write outside its
  array (`Undefined`); the SDI "X1" is taken for 3, "X0" for 2 and "1X" for "XX",
  although the comment of `sdi_encode` says that an invalid string gives a label
  without SDI (`SdiEncode`).
* `ims_get_message` compares sizes "only for consistency checks" (`ims.h:426`), and
  changes the size that a discrete or a queuing label delivers, for every handle
  of the message, also when it then refuses (`UserSize`).
* A queuing label taken from a list delivers nothing, and reports a size that
  `ims_get_message` would refuse (`NextInList`); the size `ims_get_message` wants for
  one is 4, with the depth beside it, not the depth times 4 that `ims.h:433` asks for.

### Bounds

* Output queue: four ports, two of them faulty and two of them A429 buses, one of
  which is faulty. A counterexample to the shape of a list needs a head, a middle, a
  tail and a port to append. No other bound.
* AFDX channel: the sender has depth 2, so that an emission of two messages can
  fail between them; the receiver has depth 1, a ring of four slots. `MaxPush`
  messages, numbered, so that order and identity are visible: five overflow the ring.
  `MaxAhead` bounds how many emissions the sender is ahead of a receiver with
  unread messages, 5, well beyond what `FourCyclesFit` allows before a loss.
  `MaxFailures`, 1, bounds the socket failures; `AcceptedIsDelivered` speaks of the
  behaviours without. The sender's index does not come to the end of its ring of
  eight slots within five messages; the proofs of section 4 have no bound. When the
  pushes are used up the system stops, hence `CHECK_DEADLOCK FALSE`.
* Validity: a bus with a queuing label before a sampling label, a wired port and a
  NAD port. `MaxTime` 5 with durations 0, 2, 3 and steps 1, 2: data expires, and
  the clock can be back at zero and reach the old dates again.
* Periodic ports: four ports, two of them discrete, periods 3, 2, 2 and 0, steps of
  1 and 5, `MaxTime` 7: slots are skipped, shared and left in the middle. The port
  whose socket fails is the second, with ports before and after it.
* Synchro: four requests, for 0, 1 or 2 steps: two overlap, the others change the
  state in between. The configuration of step by step is chosen in the initial
  state. When all are answered nothing may happen, hence `CHECK_DEADLOCK FALSE`.
* Control connection: four roles on two connections, so that each but the first of
  a connection may find a command before its acknowledgement, and two roles on
  one connection each, with both orders of the pool; two commands: one unknown or too long
  and one to be answered behind it. A context that is gone does nothing, hence
  `CHECK_DEADLOCK FALSE`.
* Socket pool: two inputs on one address, an output and the control connection,
  every assignment of descriptors to them, two commands, one waiting at a
  time: a command can stop a group and another restart it while a channel is
  readable. A blocked import may stay blocked, hence `CHECK_DEADLOCK FALSE`.
* A429 bus: labels of depth 2 and 1 and datagrams of `Room` 2, so that a label is cut
  in two; five words of the first, one more than the receiver's ring of depth 1
  holds, and one of the second, which two messages receive. `ReceiverRooms`: the receiver
  reads whole datagrams, and `MaxUpsets` is one failure or reset, or it reads half of
  them, and there is none. The pushes are used up in the end, hence
  `CHECK_DEADLOCK FALSE`.
* Sampling bus: five configurations, among them a CAN bus on which two ids belong to
  one message, a receiver whose buffer holds one frame less, and an AFDX channel
  that the receiver declares shorter. Two writes of each message suffice for an
  old and a new one, in full, too long or too short; `Width` 2 makes the sequence
  number wrap after three emissions; `MaxUpsets` is one failure, loss, reset or change
  of id; `MaxUnread` is two datagrams under way. The writes are used up in the
  end, hence `CHECK_DEADLOCK FALSE`.
* Creation: two nodes and every sequence of up to three out of 27 declarations: for each
  kind, one that fits, one that agrees with it, and one that differs or does not fit.
  Conflicts are between two declarations, and the third shows what a refused or a shared
  one leaves. Two handles, with every combination of the arguments that are compared.
  `Modulus`, 4096, stands for 2^32. `MaxDeclarations` and a built context
  end the behaviour, hence `CHECK_DEADLOCK FALSE`. `CreationAssumption` repeats what the
  XML schemas say of sizes and initial values; it leaves out CAN messages without a byte
  or with more than eight, which the schema accepts although `load_can_bus` passes
  initial values through an array of eight.

## 4. What is proved

| module | theorems |
|---|---|
| OutputQueueProofs | `TypeCorrect`, `ListAlwaysWellFormed`, `HealthyPortsStayQueued`, `HealthyPushIsNeverDropped`, `ListImplementsFifo` |
| AfdxChannelProofs | `TypeCorrect`, `NoMessageVanishes`, `PushOrderIsKept`, `RingsImplementFifos`, `FourCyclesAlwaysFit` |
| A429BusProofs | `PushKeepsRing`, `PopKeepsRing`, `PushAppends`, `PopTakesPrefix`, `TypeCorrect`, `WordsComeInPushOrder`, `NoWordVanishes`, `DatagramsAreFilled` |
| TimedPortsProofs | validity: `ValidityTypeCorrect`, `ValidIsAlwaysFresh`, `ValidityIsNeverSpontaneous`; periodic ports: `InductiveInvariant`, `TypeCorrect`, `EverySlotIsServed` |
| SamplingBusProofs | `TypeCorrect`, `NumbersAlwaysCount`, `ReadIsAlwaysOneWrite`, `LastWriteIsAccounted`, `WritesArriveOnce` |
| ContextProofs | control: `InductiveInvariant`, `TypeCorrect`, `StepsAreEnough`, `AlwaysAnsweredWhenDue`, `NeverAnsweredEarly`; creation: `SlotsAlwaysFit`, `OrderNeverMatters`, `AlwaysObtainedAsDeclared`, `InitValueAlwaysGiven`, `HandlesFit` |
| SocketPoolProofs | `InductiveInvariant`, `TypeCorrect`, `SelectSetIsAlwaysOpen`, `ListenersAreAlwaysWatched`, `BlocksAtMostOnReplaced` |
| ControlConnectionProofs | `InductiveInvariant`, `RunningIsAlwaysRegistered`, `NothingStaysRegistered`, `AnswersComeInOrder`, `CommandsTakeEffect` |

They hold for every value of the constants that satisfies the named assumption of
the module: a finite set of ports of which some are faulty; a positive depth;
validity durations, periods and time steps in Nat; any configuration of roles on
connections; any number of commands and requests; any configuration, network file and
init file of the kinds and sizes that the XML schemas permit.

*Output queue.* `ListWellFormed` alone is not inductive, since it says nothing of
the pointers of the ports that have left the list. The invariant names the list
explicitly as a sequence and adds: a port outside the list with a non-null link, or
designated by the tail pointer, is faulty or the one in hand; every pending healthy
port is in the sequence, unless its data is what an emission left behind (`left`). One lemma per action constructs the sequence of the next
state: appended, its tail, or the same. From the same invariant follows
`ListImplementsFifo`: seen from the ports with working sockets, the list is the queue
of EmissionFifo. The mapping, `HealthyOf`, leaves the other ports out of the list; it
is a recursive function, whose values exist by induction on the length (`Fronts`).

*AFDX channel.* The first part is about a ring of any size: slot arithmetic with at
most one wrap (`SlotWraps`), filling the slot behind the last message appends, moving
`begin` takes the head. From it every step of the two applications and of the network
is one of nine ways in which messages move between four sequences (`Flow`):
the sender's ring, the wire, the receiver's ring, what was popped. `NothingVanishes`
is kept by each of them. The order of a concatenation is not convenient to keep,
so the invariant `Ordered` says it place by place: each sequence increases, and all of it
was pushed before what is behind. `FourCyclesFit` rests on `Lag`: what the receiver has
to read, plus what the emission in progress will add, is at most `ahead` times the
sender's depth. The theorems on order, account and FIFO have the explicit hypothesis
`EmptyPayloads = {}`: a datagram without payload exposes the old content of the slot
(a hazard without a property); types and `FourCyclesFit` need no hypothesis.

*A429 ring.* `PushAppends` and `PopTakesPrefix` say that the ring is a queue, for every
number of cells, begin and number of labels moved: a push appends the labels that
fit, a pop returns a prefix and leaves the rest. The arithmetic is in four lemmas on
remainders, the rest is one lemma on concatenation (`JoinedSeq`).

*A429 bus.* A datagram joins the fronts of the rings of all labels. `Concatenation`
is a recursive function, and the facts about it (`UpToInduction`, `Fronts`,
`ConcatenationParts`) are proved by induction on the labels, through the set of those
for which the fact fails and its smallest element. They say that the words of one label in a
datagram are the front of its ring, whatever stands beside them, so an emission,
like a push or a pop, moves words of one label from the front of one sequence to the
back of the next. The invariant (`Fine`) is that of the AFDX channel for each label and
each message that receives it: every sequence increases, lies below what is behind
it, and with what was lost, cut or truncated makes up what was pushed. No datagram
under way is longer than `Room` (`Fits`), so a receiver of that size or more truncates
nothing. `DatagramsAreFilled` follows
from the lengths of the same fronts.

*Sampling bus.* One invariant carries all five theorems. It says of a message what it
has to send: its last write, which has not arrived (`MessageOK`); of a frame under way
that it carries one write, later than what has arrived and earlier than what the
message has to send (`FrameOK`); and that a later datagram carries later writes
(`InOrder`). That the last write is accounted for (`LastWriteAccounted`) needs in addition
that a frame does not move back in its datagram (`DatagramOK`): a message that both
sides have within their buffer is then within what the receiver keeps. The frames of
an emission are a recursive function over the messages (`OnlyIn`), of which
`OnlyInFacts` says that it keeps all it should, in order. The sequence number is
a function of the emissions (`NumberOf`), and the rest is arithmetic of remainders for
any modulus.

*Validity.* The invariant is `TypeOK` and `DatesTellAge`: a message with a date has
an age, and the date plus the age is the current time. `ims_reset_all` keeps it
only because it resets the messages with the clock.

*Periodic ports.* That the slots are served when an `ims_send_all` ends is not
inductive: a port that is passed over must have emitted before, in the same slot.
`DateFollows` says that a date in the future is the end of the slot of the last
emission, which only writes and resets may put back; `PassedAreServed` keeps account
of the ports that the current call has passed. The arithmetic is one lemma: two times
with no end of a slot between them are in the same slot.

*Synchro.* The steps are enough because the application is paced exactly in the
state `step` (`Pace`); an answer is not early because the delay covers the request
accepted last (`Covered`); and not late because, with nothing to excuse it, at most
one request is open and the delay is what that request still has to wait
(`Exact`).

*Creation.* What has been loaded is `Sound`: every name leads to a message of the class,
direction and encoding of its declaration, with an initial value if the declaration has
one; every message was made by a declaration of its kind, which is what lets a later
one share it without a comparison of the direction; its sizes agree with each other
and it lies in the buffer of its port. Sharing may only change the initial value,
and `ims_get_message` only the size delivered (`SoundAfterPut`). Four theorems are
consequences. `SlotsAlwaysFit` has the hypothesis `OffsetsDoNotWrap`: the ports add
the position of a signal and the header in 32 bits, so that a position within 20
bytes of 2^32 passes the test. The others have no hypothesis.

*Order of the declarations.* The fifth, `OrderNeverMatters`, compares a run with the
runs over all permutations of what it has loaded. The argument goes through the set
of declarations alone: `Compatible` says that any two of them agree about the port and
the message they share and exclude each other as labels in neither order, and that all
the keys of a bus together fit. An accepted declaration keeps the set compatible, unless
one of the two exceptions named in the property occurs (`AcceptedIsCompatible`), and of
a compatible set each declaration is accepted after any of the others
(`CompatibleIsAccepted`); the permutations follow by induction on what has been loaded.
The order of the nodes, which the property takes for granted, is not needed.

*Socket pool.* No two sockets share a descriptor (`DistinctFds`), so what a replacement
takes out of the set of `select()` is its own; what the pass still has to look at
had a datagram when `select()` was called, unless a command of the same pass has
replaced it (`PassIsHonest`), and the loop blocks only where it is
(`BlockedInThePass`). That a new socket gets the smallest free number needs the
existence of a smallest element, from the library's theorems on well-founded sets.

*Registration.* Registration goes role by role (`RegisteredSoFar`), no step is made
without an acknowledgement, and every acknowledgement under way tells of an
acceptance that stands (`AcksAreTrue`), as long as no farewell has left
(`NoFarewell`); the server knows only roles that have an address
(`RolesAreConfigured`). For the other direction (`NothingStaysRegistered`) the end of
a context must find each role with its farewell on the way: `EndInv` says for which
roles a farewell is owed, sent or answered at every point of the pass.

*Commands.* `AsCommanded` is two statements. The answers: what the server waits for on a
connection is the concatenation, packet by packet, of what the commands under way
ask and what the answers under way bring (`AnswersAreExpected`). A concatenation of
any number of parts would be a recursion; the proof says instead where the parts are
cut (`Cut`: an increasing sequence of ends), and shows how a cut changes when a part is
taken from the front, added at the back or split. The power: the last command that
switches it, of those already obeyed, decides the state (`LeadTo`, `PowerInv`).

Every invariant and action property of the runs is the statement of a theorem. Only
model-checked are the liveness properties, the fairness of `ImplementsFifo` included:
the prover has no rule for fairness or ENABLED that would apply here.

## 5. Not modelled

* The packing of number, SDI, data and parity of a label into 32 bits.
* A bus of labels that carries queuing and sampling labels at once, as far as
  emission is concerned: the datagram of SamplingBus or that of A429Bus.
* The parameters of a socket (interface, TTL, outgoing port): an address is the
  configured one, another one or none. After a stop and start the parameters of the
  configuration are not set again; the hazards name it.
* The control connections in the indexes of the socket pool by address and channel
  (`vistas_socket_pool.cpp:114-135`): `SocketPool!Group` holds the channels of the
  configuration, and a command that names the address of a controller is left out.
* The timeout of `ims_import`, and system calls that are interrupted.
* `prepare_header` but for the sequence number: time stamps and identifiers are
  copied, and nothing looks at them.
* Reading and validation of XML, argument checks, logging, the conversion of
  exceptions to return codes. They keep no state. (The functions that return a
  number, as `ims_message_get_validity_duration_us`, return the error code as one.)
* Tests, documentation, scripts and Python bindings.

## 6. Plan

The runs are kept to one per component and a counterexample where the code and its
documentation disagree.

1. **Cycle**: a composition of OutputQueue and PeriodicPorts in one `ims_send_all`,
   and of InputValidity with the import loop of SocketPool.
2. A bus of labels in both modes, from SamplingBus and A429Bus.
3. The parameters of sockets in SocketPool, for the hazard that no property covers.
