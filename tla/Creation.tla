------------------------------- MODULE Creation -------------------------------
(***************************************************************************)
(* The creation of a context: the declarations of the IMS configuration    *)
(* are loaded one after the other (ims/ims_context_factory.cpp), each is   *)
(* looked up in the network file and gets a port and a message, its own or *)
(* that of an earlier declaration (VISTAS/src/vistas_context_factory.cpp   *)
(* and get_message of the ports).  Then the application asks for its       *)
(* messages by name (ims/ims.cpp, ims_get_message, and check of the        *)
(* messages).                                                              *)
(*                                                                         *)
(* The XML files are constants.  Sizes are in bytes.                       *)
(***************************************************************************)
EXTENDS Integers, Sequences, FiniteSets, Functions, SequencesExt

CONSTANTS
  Nodes,            \* component, equipments and applications, as they are read
  Declarations,     \* what a node may declare
  Channels,         \* the channels of the network file
  InitFile,         \* the entries of the init file, in its order
  MaxDeclarations,  \* bound: declarations of one configuration
  MaxHandles,       \* bound: handles that the application asks for
  Modulus           \* 2^32, scaled to the sizes of the instance

HeaderSize == 20
LabelSize == 4
FrameSize == 14
AnalogueSize == 4

Grouped == {"discrete", "analogue", "nad"}
A429Kinds == {"a429_sampling", "a429_queuing"}
Kinds == {"afdx_sampling", "afdx_queuing", "can"} \cup A429Kinds \cup Grouped
Protocol(kind) ==
  CASE kind \in {"afdx_sampling", "afdx_queuing"} -> "afdx"
    [] kind \in A429Kinds -> "a429"
    [] OTHER -> kind
Mode(kind) == IF kind \in {"afdx_queuing", "a429_queuing"} THEN "queuing" ELSE "sampling"
(* The class of port: the labels of both modes share one. *)
PortClass(kind) == IF kind \in A429Kinds THEN "a429" ELSE kind

Lesser(x, y) == IF x < y THEN x ELSE y
Greater(x, y) == IF x < y THEN y ELSE x

(* What the XML schemas and the types of the program say.  Only signals    *)
(* have states, a scale and a gain (encoding).  The schema also allows CAN *)
(* messages without a byte or with more than eight: they are left out.     *)
ASSUME CreationAssumption ==
  /\ MaxDeclarations \in Nat /\ MaxHandles \in Nat /\ Modulus \in Nat \ {0}
  /\ \A d \in Declarations :
       /\ d.kind \in Kinds /\ d.dir \in {"in", "out"}
       /\ d.size \in 1..(IF d.kind = "can" THEN 8 ELSE Modulus - 1)
       /\ d.depth \in Nat
  /\ \A d, e \in Declarations :
       {d.kind, e.kind} \cap {"discrete", "analogue"} = {} => d.encoding = e.encoding
  /\ \A c \in Channels :
       /\ c.maxSize \in Nat
       /\ \A s \in DOMAIN c.signals : c.signals[s].offset \in Nat
  /\ InitFile \in Seq(Range(InitFile))
  /\ \A entry \in Range(InitFile) :
       /\ entry.protocol = "afdx" => entry.digits \in Nat \ {0}
       /\ entry.protocol = "a429" => entry.digits \in 2..8
       /\ entry.protocol = "can" => entry.digits \in 2..16

VARIABLES
  phase,    \* "loading", "built", "failed", "crashed"
  at,       \* the node whose declarations are read, as an index of Nodes
  ports,    \* address -> port, of the ports that exist
  names,    \* <<node, local name>> -> where its message is
  handles   \* the messages the application holds, with the size it asked for

creationVars == <<phase, at, ports, names, handles>>

Empty == [x \in {} |-> 0]
Put(f, x, y) == [z \in DOMAIN f \cup {x} |-> IF z = x THEN y ELSE f[z]]

(***************************************************************************)
(* Labels and SDI.  An SDI is one or two characters; 4 is XX, "any SDI",   *)
(* and 5 is DD, a label without SDI.                                       *)
(***************************************************************************)
XX == 4
DD == 5
SdiEncode(sdi) ==
  LET first == IF sdi[1] = "0" THEN 0 ELSE 1 IN
  IF ~ Len(sdi) \in 1..2 \/ ~ sdi[1] \in {"0", "1", "X"} THEN DD
  ELSE IF Len(sdi) = 1 THEN first
  ELSE CASE sdi[2] = "0" -> 2 * first
         [] sdi[2] = "1" -> 2 * first + 1
         [] sdi[2] = "X" -> 4 * first
         [] OTHER -> DD

(***************************************************************************)
(* The network file.                                                       *)
(***************************************************************************)
FindPort(d) ==
  {c \in Channels : c.name = d.name /\ c.protocol = Protocol(d.kind) /\ c.dir = d.dir}
FindGroupElement(d) ==
  {c \in Channels :
    c.protocol = Protocol(d.kind) /\ c.dir = d.dir /\ d.name \in DOMAIN c.signals}
Candidates(d) == IF d.kind \in Grouped THEN FindGroupElement(d) ELSE FindPort(d)
Channel(d) == CHOOSE c \in Candidates(d) : TRUE
Slot(d) == Channel(d).signals[d.name]

(* parse_port, and the sizes that the two configurations must agree on. *)
Described(d) ==
  /\ Cardinality(Candidates(d)) = 1
  /\ Channel(d).sockets = 1
  /\ d.kind = "afdx_queuing" => Channel(d).fifoSize = d.depth
  /\ d.kind = "nad" => Slot(d).size = d.size

BufferSize(d) == Lesser(Channel(d).maxSize, d.size)
Address(d) == <<d.dir, Channel(d).addr>>
Key(d) ==
  CASE d.kind \in Grouped -> Slot(d).offset
    [] d.kind \in A429Kinds -> <<d.id, SdiEncode(d.sdi)>>
    [] d.kind = "can" -> d.id
    [] OTHER -> 0

(***************************************************************************)
(* get_or_create_port.                                                     *)
(***************************************************************************)
NewPort(d) ==
  [class |-> PortClass(d.kind), route |-> Channel(d).route, header |-> Channel(d).header,
   fifo |-> CASE d.kind \in A429Kinds -> 4 * Channel(d).maxSize + HeaderSize
              [] d.kind \in {"afdx_sampling", "afdx_queuing"} -> BufferSize(d) + HeaderSize
              [] OTHER -> Channel(d).maxSize + HeaderSize,
   messages |-> Empty]
PortOf(s, d) ==
  IF Address(d) \in DOMAIN s.ports THEN s.ports[Address(d)] ELSE NewPort(d)
PortAgrees(p, d) ==
  /\ p.route = Channel(d).route
  /\ p.header = Channel(d).header
  /\ p.class = PortClass(d.kind)

(***************************************************************************)
(* get_message of the ports: an existing message is shared, if it agrees   *)
(* with the declaration where the port looks; a new one must fit.          *)
(***************************************************************************)
AfdxSamplingAgrees(m, d) == m.max = BufferSize(d)
SignalAgrees(m, d) == m.encoding = d.encoding
NadAgrees(m, d) == m.max = d.size

(* Variant of MessageAgrees: true and false states, scale and gain of the   *)
(* second declaration are not looked at.                                    *)
MessageAgreesInSize(m, d) ==
  /\ d.kind = "afdx_sampling" => AfdxSamplingAgrees(m, d)
  /\ d.kind = "nad" => NadAgrees(m, d)
MessageAgrees(m, d) ==
  /\ d.kind = "afdx_sampling" => AfdxSamplingAgrees(m, d)
  /\ d.kind \in {"discrete", "analogue"} => SignalAgrees(m, d)
  /\ d.kind = "nad" => NadAgrees(m, d)

(* Variant of SdiAgree: a label without SDI is accepted after labels with.  *)
SdiAgreeOneWay(p, d) == Key(d)[2] > XX \/ <<d.id, DD>> \notin DOMAIN p.messages
SdiAgree(p, d) ==
  LET sdi == Key(d)[2] IN
  IF sdi > XX
  THEN \A i \in 0..3 : <<d.id, i>> \notin DOMAIN p.messages
  ELSE <<d.id, DD>> \notin DOMAIN p.messages
(* Variant of WireFits: > in place of >= in port_discrete.                  *)
WireFitsOffByOne(p, d) ==
  LET offset == (Slot(d).offset + HeaderSize) % Modulus IN
  CASE d.kind = "discrete" -> offset =< p.fifo
    [] d.kind = "analogue" -> offset =< p.fifo - AnalogueSize
    [] d.kind = "nad" -> offset =< (p.fifo - d.size) % Modulus
WireFits(p, d) ==
  LET offset == (Slot(d).offset + HeaderSize) % Modulus IN
  CASE d.kind = "discrete" -> offset < p.fifo
    [] d.kind = "analogue" -> offset =< p.fifo - AnalogueSize
    [] d.kind = "nad" -> offset =< (p.fifo - d.size) % Modulus
BusFits(p, d) ==
  (Cardinality(DOMAIN p.messages) + 1) * (IF d.kind = "can" THEN FrameSize ELSE LabelSize)
    =< p.fifo
MessageFits(p, d) ==
  CASE d.kind \in Grouped -> WireFits(p, d)
    [] d.kind = "can" -> BusFits(p, d)
    [] d.kind \in A429Kinds -> BusFits(p, d) /\ SdiAgree(p, d)
    [] OTHER -> TRUE

(* expected is what the IMS configuration says, max what there is room for; *)
(* user is the size that ims_get_message sets: _user_payload_size and       *)
(* _user_max_size.                                                          *)
Message(d, max, expected) ==
  [kind |-> d.kind, dir |-> d.dir, encoding |-> d.encoding, max |-> max,
   expected |-> expected, depth |-> 1, user |-> 0, init |-> 0]
SamplingMessage(d) == Message(d, BufferSize(d), d.size)
CanMessage(d) == Message(d, d.size, d.size)
NadMessage(d) == Message(d, d.size, d.size)
DiscreteMessage(d) == [Message(d, 1, d.size) EXCEPT !.user = 1]
AnalogueMessage(d) == Message(d, AnalogueSize, AnalogueSize)
AfdxQueuingMessage(d) == [Message(d, BufferSize(d), d.size) EXCEPT !.depth = d.depth]
SamplingLabel(d) == Message(d, LabelSize, LabelSize)
QueuingLabel(d) == [Message(d, 4 * LabelSize * d.depth, LabelSize) EXCEPT !.depth = d.depth]
NewMessage(d) ==
  CASE d.kind = "afdx_sampling" -> SamplingMessage(d)
    [] d.kind = "afdx_queuing" -> AfdxQueuingMessage(d)
    [] d.kind = "a429_sampling" -> SamplingLabel(d)
    [] d.kind = "a429_queuing" -> QueuingLabel(d)
    [] d.kind = "can" -> CanMessage(d)
    [] d.kind = "discrete" -> DiscreteMessage(d)
    [] d.kind = "analogue" -> AnalogueMessage(d)
    [] d.kind = "nad" -> NadMessage(d)
MessageOf(p, d) == IF Key(d) \in DOMAIN p.messages THEN p.messages[Key(d)] ELSE NewMessage(d)

(***************************************************************************)
(* Initial values.  The init file gives one per protocol and local name,   *)
(* the last one if there are several; as pairs of hexadecimal digits, as a *)
(* number or as a truth value.                                             *)
(***************************************************************************)
HexBytes(digits) == (digits + 1) \div 2
ValueSize(entry) ==
  CASE entry.protocol \in {"afdx", "a429", "can"} -> HexBytes(entry.digits)
    [] entry.protocol = "analogue" -> AnalogueSize
    [] entry.protocol = "discrete" -> 1
InitValues(key) == {i \in DOMAIN InitFile : <<InitFile[i].protocol, InitFile[i].local>> = key}
HasValue(key) == InitValues(key) # {}
InitValue(key) ==
  ValueSize(InitFile[CHOOSE i \in InitValues(key) : \A j \in InitValues(key) : j =< i])

(* Variant of InitKey: all init values are looked up by the network name.   *)
InitKeyByName(d) == <<Protocol(d.kind), d.name>>
(* The init values of signals are looked up by the name of the signal.     *)
InitKey(d) ==
  <<Protocol(d.kind), IF d.kind \in {"discrete", "analogue"} THEN d.name ELSE d.local>>
(* What the loader passes on: bus values are extended to the whole message. *)
InitSize(d) ==
  CASE Protocol(d.kind) = "afdx" -> Lesser(InitValue(InitKey(d)), d.size)
    [] d.kind = "can" -> d.size
    [] d.kind = "a429_sampling" -> LabelSize
    [] OTHER -> InitValue(InitKey(d))
(* A signal takes only a value of its own size.                            *)
InitData(m, size) ==
  IF m.kind \in {"discrete", "analogue"} /\ size # m.max THEN m ELSE [m EXCEPT !.init = size]
Initialised(m, d) ==
  IF Mode(d.kind) = "sampling" /\ d.kind # "nad" /\ HasValue(InitKey(d))
  THEN InitData(m, InitSize(d))
  ELSE m

(***************************************************************************)
(* One declaration, as a function of what has been loaded: a record s of   *)
(* ports and names.                                                        *)
(***************************************************************************)
Name(d) == <<d.node, d.local>>
Accepts(s, d) ==
  /\ Described(d)
  /\ PortAgrees(PortOf(s, d), d)
  /\ LET p == PortOf(s, d) IN
     IF Key(d) \in DOMAIN p.messages
     THEN /\ d.kind \in A429Kinds /\ Key(d)[2] =< XX => <<d.id, DD>> \notin DOMAIN p.messages
          /\ MessageAgrees(p.messages[Key(d)], d)
     ELSE MessageFits(p, d)
  /\ Name(d) \notin DOMAIN s.names
Loaded(s, d) ==
  LET p == PortOf(s, d)
      m == Initialised(MessageOf(p, d), d)
  IN [ports |-> Put(s.ports, Address(d), [p EXCEPT !.messages = Put(p.messages, Key(d), m)]),
      names |-> Put(s.names, Name(d),
        [addr |-> Address(d), key |-> Key(d), wrapper |-> Key(d) \in DOMAIN p.messages,
         declared |-> d])]

(***************************************************************************)
(* Creation.                                                               *)
(***************************************************************************)
CreationInit ==
  /\ phase = "loading"
  /\ at = 1
  /\ ports = Empty
  /\ names = Empty
  /\ handles = {}

(* A node's declarations are read before those of the nodes after it.      *)
Reads(d) ==
  /\ phase = "loading"
  /\ Cardinality(DOMAIN names) < MaxDeclarations
  /\ \E i \in at..Len(Nodes) : Nodes[i] = d.node /\ at' = i

Context == [ports |-> ports, names |-> names]

(* label_number_encode of a label in C notation, with a leading 0, writes  *)
(* its last digit 16 GiB behind its array.                                 *)
Undefined(d) ==
  /\ d.kind \in A429Kinds /\ d.cNotation
  /\ Described(d) /\ PortAgrees(PortOf(Context, d), d)

Declare(d) ==
  /\ Reads(d)
  /\ ~ Undefined(d)
  /\ Accepts(Context, d)
  /\ ports' = Loaded(Context, d).ports
  /\ names' = Loaded(Context, d).names
  /\ UNCHANGED <<phase, handles>>

(* The exception leaves create_context, which deletes the context.         *)
Fail ==
  /\ phase' = "failed"
  /\ ports' = Empty
  /\ names' = Empty
  /\ UNCHANGED handles

Refuse(d) == Reads(d) /\ ~ Undefined(d) /\ ~ Accepts(Context, d) /\ Fail

Crash(d) ==
  /\ Reads(d)
  /\ Undefined(d)
  /\ phase' = "crashed"
  /\ UNCHANGED <<ports, names, handles>>

Build ==
  /\ phase = "loading"
  /\ phase' = "built"
  /\ UNCHANGED <<at, ports, names, handles>>

(* A socket cannot be opened, or a controller does not answer (external).  *)
BuildFails == phase = "loading" /\ Fail /\ UNCHANGED at

(***************************************************************************)
(* Handles.  check of a message compares what the application asks for, in *)
(* the order protocol, size, depth, direction; a discrete message takes    *)
(* over the size, and a queuing label the depth, before the last of these. *)
(***************************************************************************)
MessageAt(n) == ports[names[n].addr].messages[names[n].key]

AfdxSizeAgrees(m, asked) == asked.size \in {m.max, m.expected}
CheckSampling(m, asked) == AfdxSizeAgrees(m, asked) /\ asked.depth = 1
CheckAfdxQueuing(m, asked) == AfdxSizeAgrees(m, asked) /\ asked.depth = m.depth
CheckQueuingLabel(m, asked) == asked.size = LabelSize /\ asked.depth =< m.depth
CheckDiscrete(m, asked) == asked.size \in {1, 4} /\ asked.depth = 1
CheckAnalogue(m, asked) == asked.size = AnalogueSize /\ asked.depth = 1
CheckNad(m, asked) == asked.size = m.max /\ asked.depth = 1
Check(m, asked) ==
  /\ asked.protocol = Protocol(m.kind)
  /\ CASE m.kind = "afdx_queuing" -> CheckAfdxQueuing(m, asked)
       [] m.kind = "a429_queuing" -> CheckQueuingLabel(m, asked)
       [] m.kind = "discrete" -> CheckDiscrete(m, asked)
       [] m.kind = "analogue" -> CheckAnalogue(m, asked)
       [] m.kind = "nad" -> CheckNad(m, asked)
       [] OTHER -> CheckSampling(m, asked)
  /\ asked.dir = m.dir
(* Variant of UserSize: a pop may take as much as was declared.             *)
UserSizeDeclared(m, asked) ==
  IF asked.protocol # Protocol(m.kind) THEN m.user
  ELSE CASE m.kind = "discrete" /\ asked.size \in {1, 4} -> asked.size
         [] m.kind = "a429_queuing" /\ CheckQueuingLabel(m, asked) -> LabelSize * m.depth
         [] OTHER -> m.user
UserSize(m, asked) ==
  IF asked.protocol # Protocol(m.kind) THEN m.user
  ELSE CASE m.kind = "discrete" /\ asked.size \in {1, 4} -> asked.size
         [] m.kind = "a429_queuing" /\ CheckQueuingLabel(m, asked) -> LabelSize * asked.depth
         [] OTHER -> m.user

Asked ==
  [protocol : {"afdx", "a429", "can"} \cup Grouped, dir : {"in", "out"},
   size : UNION {{1, 4, 8} \cup {d.size} : d \in Declarations},
   depth : UNION {{1, d.depth} : d \in Declarations}]

(* A name that the node does not have gives no handle.                     *)
FindMessage(n) == n \in DOMAIN names
GetMessage(n, asked) ==
  /\ phase = "built"
  /\ FindMessage(n)
  /\ Cardinality(handles) < MaxHandles
  /\ ports' = [ports EXCEPT ![names[n].addr].messages[names[n].key].user =
                             UserSize(MessageAt(n), asked)]
  /\ handles' = IF Check(MessageAt(n), asked)
                THEN handles \cup {[name |-> n, size |-> asked.size, depth |-> asked.depth]}
                ELSE handles
  /\ UNCHANGED <<phase, at, names>>

(* The lists give a message without any check; the application goes by     *)
(* ims_message_get_max_size and ims_message_get_depth.                     *)
Reported(m) ==
  [size |-> IF m.kind = "discrete" THEN m.user ELSE m.max,
   depth |-> IF m.kind = "afdx_queuing" THEN m.depth ELSE 1]
NextInList(n) ==
  /\ phase = "built"
  /\ Cardinality(handles) < MaxHandles
  /\ handles' = handles \cup
       {[name |-> n, size |-> Reported(MessageAt(n)).size, depth |-> Reported(MessageAt(n)).depth]}
  /\ UNCHANGED <<phase, at, ports, names>>

CreationNext ==
  \/ \E d \in Declarations : Declare(d) \/ Refuse(d) \/ Crash(d)
  \/ Build
  \/ BuildFails
  \/ \E n \in DOMAIN names : NextInList(n)
  \/ \E n \in {Name(d) : d \in Declarations} : \E asked \in Asked : GetMessage(n, asked)

CreationSpec == CreationInit /\ [][CreationNext]_creationVars

(***************************************************************************)
(* What a handle can be used for: the functions of ims.h that its class    *)
(* implements and that its direction permits.  A wrapper does not forward  *)
(* set_id.                                                                 *)
(***************************************************************************)
MayWrite(m) == m.dir = "out" /\ Mode(m.kind) = "sampling" /\ m.kind # "nad"
MayRead(m) == m.dir = "in" /\ Mode(m.kind) = "sampling" /\ m.kind # "nad"
MayPush(m) == m.dir = "out" /\ Mode(m.kind) = "queuing"
MayPop(m) == m.dir = "in" /\ Mode(m.kind) = "queuing"
MayWriteNad(m) == m.dir = "out" /\ m.kind = "nad"
MayReadNad(m) == m.dir = "in" /\ m.kind = "nad"
MayCountPending(m) == Mode(m.kind) = "queuing"
(* invalidate, and a validity duration.                                    *)
MayInvalidate(m) == Mode(m.kind) = "sampling" /\ m.kind # "nad"
MaySetId(m) == m.kind = "can"
Operations(n) ==
  LET m == MessageAt(n) IN
  {op \in {"write", "read", "push", "pop", "pending", "write_nad", "read_nad",
           "invalidate", "timeout", "set_id"} :
     CASE op = "write" -> MayWrite(m)
       [] op = "read" -> MayRead(m)
       [] op = "push" -> MayPush(m)
       [] op = "pop" -> MayPop(m)
       [] op = "pending" -> MayCountPending(m)
       [] op = "write_nad" -> MayWriteNad(m)
       [] op = "read_nad" -> MayReadNad(m)
       [] op = "set_id" -> MaySetId(m) /\ ~ names[n].wrapper
       [] OTHER -> MayInvalidate(m)}

(* The most bytes that one read or pop of the message stores.              *)
Delivers(m) ==
  CASE m.kind \in {"discrete", "a429_queuing"} -> m.user
    [] OTHER -> Greater(m.max, m.init)
Room(h) == h.size * (IF MessageAt(h.name).kind = "a429_queuing" THEN h.depth ELSE 1)

-----------------------------------------------------------------------------
(* No wired message reaches beyond the buffer of its port, whatever port   *)
(* was there first for its address.  A NAD message larger than the whole   *)
(* buffer passes the check of port_nad::get_nad_message and does.          *)
SlotsFit ==
  \A n \in DOMAIN names :
    LET m == MessageAt(n)
        fifo == ports[names[n].addr].fifo
    IN m.kind \in Grouped =>
         \/ HeaderSize + names[n].key + m.max =< fifo
         \/ m.kind = "nad" /\ m.max > fifo

(* Whether a configuration is accepted does not depend on the order of its *)
(* declarations within a node.  Two cases where it does: of the labels     *)
(* without SDI and with SDI XX of one number, the latter must come first;  *)
(* and the first channel of an address decides the size of the buffer.     *)
InNodeOrder(s) ==
  \A i, j \in DOMAIN s : i < j =>
    \E k \in DOMAIN Nodes : \E l \in k..Len(Nodes) :
      Nodes[k] = s[i].node /\ Nodes[l] = s[j].node
Acceptable(s) ==
  LET upTo[i \in 0..Len(s)] ==
        IF i = 0 THEN [ports |-> Empty, names |-> Empty] ELSE Loaded(upTo[i - 1], s[i])
  IN  \A i \in 1..Len(s) : Accepts(upTo[i - 1], s[i])
OrderDoesNotMatter ==
  LET declared == {names[n].declared : n \in DOMAIN names}
      xxAndNone == \E d, e \in declared :
        /\ d.kind \in A429Kinds /\ e.kind \in A429Kinds
        /\ d.id = e.id /\ SdiEncode(d.sdi) = XX /\ SdiEncode(e.sdi) = DD
      sizesDiffer == \E d, e \in declared :
        /\ Address(d) = Address(e)
        /\ Channel(d).maxSize # Channel(e).maxSize
  IN phase = "loading" =>
       \/ xxAndNone
       \/ sizesDiffer
       \/ \A s \in SetToSeqs(declared) : InNodeOrder(s) => Acceptable(s)

(* The application gets what it has declared: the functions for the mode   *)
(* and direction of the declaration work on its message, and its true and  *)
(* false states, scale and gain are those of the declaration.  Not so when *)
(* a label was declared before in the other mode, and a second name of a   *)
(* CAN message has no ims_set_id.                                          *)
Uses(d) ==
  CASE d.kind = "nad" -> IF d.dir = "in" THEN {"read_nad"} ELSE {"write_nad"}
    [] Mode(d.kind) = "queuing" -> IF d.dir = "in" THEN {"pop", "pending"} ELSE {"push"}
    [] OTHER -> IF d.dir = "in" THEN {"read", "invalidate", "timeout"} ELSE {"write"}
ObtainedAsDeclared ==
  \A n \in DOMAIN names :
    LET d == names[n].declared IN
    \/ Uses(d) \subseteq Operations(n) /\ MessageAt(n).encoding = d.encoding
    \/ /\ d.kind \in A429Kinds
       /\ \E o \in DOMAIN names \ {n} :
            /\ names[o].addr = names[n].addr
            /\ names[o].declared.id = d.id
            /\ names[o].declared.kind # d.kind

(* An initial value for a local name in the init file (ims.h:159) is in    *)
(* the message of that name, or in a message shared with a name that has   *)
(* one as well.  Signals are looked up by another name.                    *)
InitValueIsGiven ==
  \A n \in DOMAIN names :
    LET d == names[n].declared IN
    \/ \A i \in DOMAIN InitFile :
         <<InitFile[i].protocol, InitFile[i].local>> # <<Protocol(d.kind), d.local>>
    \/ d.kind \in {"nad", "afdx_queuing", "a429_queuing"}
    \/ d.kind \in {"discrete", "analogue"} /\ d.local # d.name
    \/ MessageAt(n).init > 0

(* When the application gets a handle, a read or pop stores no more than   *)
(* the size it has asked for: the tests of the size, the sharing of        *)
(* messages and the initial value agree.  An initial value may be larger   *)
(* than the channel of an AFDX message, and a CAN message shared with a    *)
(* declaration of another size takes an initial value of that size.        *)
HandleFitsWhenGiven ==
  [][\A h \in handles' \ handles :
       \/ Delivers(MessageAt(h.name)') =< Room(h)'
       \/ MessageAt(h.name)'.init > MessageAt(h.name)'.max]_creationVars

(* The frames of all messages of a CAN bus fit in the buffer from which    *)
(* port_can::send emits them, since "fifo size too small for CAN bus" ends *)
(* the creation otherwise (vistas_port_can.cpp:86).  Violated: the check   *)
(* forgets the header.                                                     *)
FramesFit ==
  \A a \in DOMAIN ports :
    ports[a].class = "can" =>
      HeaderSize + FrameSize * Cardinality(DOMAIN ports[a].messages) =< ports[a].fifo
==============================================================================
