----------------------------- MODULE SocketPool -----------------------------
(***************************************************************************)
(* The pool of sockets (VISTAS/src/vistas_socket_pool.cpp): the import     *)
(* loop over the input sockets, and the F_FAILURE commands of the server,  *)
(* which stop, restart or redirect channels by replacing their sockets.    *)
(*                                                                         *)
(* The commands are handled inside the import loop, when it comes to the   *)
(* control connection: sockets are closed and opened between the moment    *)
(* select() reported which of them are readable and the moment the loop    *)
(* looks at the answer.  Data sockets are blocking: receive() on a socket  *)
(* without a datagram does not return.                                     *)
(*                                                                         *)
(* A new socket gets the lowest file descriptor that is free; a socket is  *)
(* closed when pool and port have taken its replacement.                   *)
(***************************************************************************)
EXTENDS Integers, Sequences, FiniteSets, FiniteSetsExt, Functions

CONSTANTS
  Inputs,       \* the input channels
  Outputs,      \* the output channels
  IpOf,         \* the multicast address of every channel
  PoolOrder,    \* _input_pool: the input channels and Control, in order
  Control,      \* the element of the control connection
  CreationMayFail,  \* whether bind or join of a new socket may fail
  MaxCommands,  \* bound: commands of the server in a behaviour
  MaxPending    \* bound: commands waiting on the control connection

ASSUME SocketPoolAssumption ==
  /\ Inputs \cap Outputs = {}
  /\ Control \notin Inputs \cup Outputs
  /\ IsFiniteSet(Inputs) /\ IsFiniteSet(Outputs)
  /\ PoolOrder \in Seq(Inputs \cup {Control})
  /\ Range(PoolOrder) = Inputs \cup {Control}
  /\ IsInjective(PoolOrder)
  /\ CreationMayFail \in BOOLEAN
  /\ MaxCommands \in Nat
  /\ MaxPending \in Nat

Channels == Inputs \cup Outputs
Group(ch) == {c \in Channels : IpOf[c] = IpOf[ch] /\ (c \in Inputs <=> ch \in Inputs)}

INVALID_SOCKET == -1
Fds == 0..(Cardinality(Channels) + 1)

VARIABLES
  fd,         \* the descriptor of every channel's socket, and of Control's
  place,      \* where the socket of a channel is: "home", "away", "void"
  selectSet,  \* _select_set
  selectNfds, \* _select_nfds
  datagrams,  \* the channels whose socket has a datagram to read
  pass,       \* the snapshot of select() in the current pass of import
  position,   \* the element of the pass; 0 outside of import
  pending,    \* commands waiting on the control connection
  sent,       \* commands the server has sent
  work,       \* the channels that the current command still has to reopen
  goal,       \* the place that the current command gives to them
  blocked,    \* the channel whose receive() does not return, or Control
  deaf,       \* the channels whose last replacement failed
  replaced    \* the channels replaced since select(); not seen by the code

netVars == <<fd, place, selectSet, selectNfds, datagrams, deaf>>
loopVars == <<pass, position, blocked>>
commandVars == <<pending, sent, work, goal>>
vars == <<netVars, loopVars, commandVars, replaced>>

(* create_pool *)
Init ==
  /\ fd \in [Channels \cup {Control} -> Fds]
  /\ IsInjective(fd)
  /\ Range(fd) = 0..Cardinality(Channels)
  /\ place = [ch \in Channels |-> "home"]
  /\ selectSet = {fd[e] : e \in Range(PoolOrder)}
  /\ selectNfds = Max(selectSet) + 1
  /\ datagrams = {}
  /\ pass = {}
  /\ position = 0
  /\ pending = 0
  /\ sent = 0
  /\ work = {}
  /\ goal = "home"
  /\ blocked = Control
  /\ deaf = {}
  /\ replaced = {}

Open == Range(fd) \ {INVALID_SOCKET}
LowestFree == Min(Fds \ Open)
Importing == position > 0
Blocked == blocked # Control

-----------------------------------------------------------------------------
(* The environment: a datagram for a channel whose socket exists, a        *)
(* command of the server.                                                  *)
DatagramArrives(ch) ==
  /\ ch \in Inputs
  /\ fd[ch] # INVALID_SOCKET
  /\ datagrams' = datagrams \cup {ch}
  /\ UNCHANGED <<fd, place, selectSet, selectNfds, deaf, loopVars, commandVars, replaced>>

CommandArrives ==
  /\ sent < MaxCommands
  /\ pending < MaxPending
  /\ sent' = sent + 1
  /\ pending' = pending + 1
  /\ UNCHANGED <<netVars, loopVars, work, goal, replaced>>

-----------------------------------------------------------------------------
(* A pass of the loop of import: select() with a timeout of zero.          *)
Readable ==
  {fd[ch] : ch \in datagrams} \cup (IF pending > 0 THEN {fd[Control]} ELSE {})

(* Variant of BeginPass that looks at the set itself, not at the answer.   *)
BeginPassOnWholeSet ==
  /\ ~Importing
  /\ Readable \cap selectSet # {}
  /\ pass' = selectSet
  /\ position' = 1
  /\ UNCHANGED <<netVars, blocked, commandVars, replaced>>

BeginPass ==
  /\ ~Importing
  /\ Readable \cap selectSet # {}
  /\ pass' = Readable \cap selectSet
  /\ position' = 1
  /\ UNCHANGED <<netVars, blocked, commandVars, replaced>>

(* The pass is over; the loop selects again unless time is up. *)
EndPass ==
  /\ position > Len(PoolOrder)
  /\ position' = 0
  /\ pass' = {}
  /\ replaced' = {}
  /\ UNCHANGED <<netVars, blocked, commandVars>>

Element == PoolOrder[position]
AtElement == position \in 1..Len(PoolOrder) /\ ~Blocked /\ work = {}
IsSet(e) == fd[e] # INVALID_SOCKET /\ fd[e] \in pass

Advance == position' = position + 1

SkipElement ==
  /\ AtElement
  /\ ~IsSet(Element)
  /\ Advance
  /\ UNCHANGED <<netVars, pass, blocked, commandVars, replaced>>

(* Variant of ReceiveData that selects again after every datagram.         *)
ReceiveDataEndsPass ==
  /\ AtElement
  /\ Element # Control
  /\ IsSet(Element)
  /\ IF Element \in datagrams
     THEN /\ datagrams' = datagrams \ {Element}
          /\ position' = 0
          /\ pass' = {}
          /\ UNCHANGED blocked
     ELSE blocked' = Element /\ UNCHANGED <<datagrams, position, pass>>
  /\ UNCHANGED <<fd, place, selectSet, selectNfds, deaf, commandVars, replaced>>

(* receive() of a data port: one datagram, or no return. *)
ReceiveData ==
  /\ AtElement
  /\ Element # Control
  /\ IsSet(Element)
  /\ IF Element \in datagrams
     THEN datagrams' = datagrams \ {Element} /\ Advance /\ UNCHANGED blocked
     ELSE blocked' = Element /\ UNCHANGED <<datagrams, position>>
  /\ UNCHANGED <<fd, place, selectSet, selectNfds, deaf, pass, commandVars, replaced>>

(* A blocked receive() returns when a datagram arrives at last. *)
Unblock ==
  /\ Blocked
  /\ blocked \in datagrams
  /\ datagrams' = datagrams \ {blocked}
  /\ blocked' = Control
  /\ Advance
  /\ UNCHANGED <<fd, place, selectSet, selectNfds, deaf, pass, commandVars, replaced>>

-----------------------------------------------------------------------------
(* receive() of the control port: one command at a time, while there is a  *)
(* complete one.  The sockets of the channels of S are to be replaced by   *)
(* sockets at place p.                                                     *)
Command(S, p) ==
  /\ AtElement
  /\ Element = Control
  /\ IsSet(Control)
  /\ pending > 0
  /\ pending' = pending - 1
  /\ work' = S
  /\ goal' = p
  /\ UNCHANGED <<netVars, loopVars, sent, replaced>>

Stop(ch) == Command({ch}, "void")
StopFull(ch) == Command(Group(ch), "void")
Start(ch) == Command(Group(ch), "home")
RedirectStart(ch) == Command({ch}, "away")
RedirectStop(ch) == Command({ch}, "home")

(* An unknown channel, an unknown failure or a redirection to the other    *)
(* direction: parse_failure refuses the command.                           *)
Refuse == Command({}, goal)

(* A command of no known kind: the exception leaves parse_message, and     *)
(* with it the import.                                                     *)
UnknownCommand ==
  /\ AtElement
  /\ Element = Control
  /\ IsSet(Control)
  /\ pending > 0
  /\ pending' = pending - 1
  /\ position' = 0
  /\ pass' = {}
  /\ replaced' = {}
  /\ UNCHANGED <<netVars, blocked, sent, work, goal>>

ControlDone ==
  /\ AtElement
  /\ Element = Control
  /\ IsSet(Control)
  /\ pending = 0
  /\ Advance
  /\ UNCHANGED <<netVars, pass, blocked, commandVars, replaced>>

(* The socket of a channel is replaced: one descriptor may leave the set   *)
(* of select() and another one may enter it.                               *)
ReplaceWith(ch, newFd, removed, added) ==
  /\ ch \in work
  /\ work' = work \ {ch}
  /\ fd' = [fd EXCEPT ![ch] = newFd]
  /\ selectSet' = (selectSet \ removed) \cup added
  /\ selectNfds' = Max({selectNfds} \cup {f + 1 : f \in added})
  /\ place' = [place EXCEPT ![ch] = goal]
  /\ datagrams' = datagrams \ {ch}
  /\ deaf' = deaf \ {ch}
  /\ replaced' = replaced \cup {ch}
  /\ UNCHANGED <<loopVars, pending, sent, goal>>

NewFd == IF goal = "void" THEN INVALID_SOCKET ELSE LowestFree

(* Variants of Replace: the old descriptor stays in the set; the channel   *)
(* of a new socket enters it only if it had a socket before.               *)
ReplaceLeavesOld(ch) ==
  ReplaceWith(ch, NewFd, {}, IF ch \in Inputs /\ goal # "void" THEN {NewFd} ELSE {})

ReplaceForgetsRestarted(ch) ==
  LET input == ch \in Inputs
      live == goal # "void" /\ place[ch] # "void"
  IN  ReplaceWith(ch, NewFd, IF input THEN {fd[ch]} ELSE {}, IF input /\ live THEN {NewFd} ELSE {})

(* instrumentation_apply, or one turn of the loop of start_or_stop_full:   *)
(* the old descriptor of an input leaves the set, the new socket is        *)
(* created and its descriptor enters the set, then the old socket goes.    *)
(* The datagrams in the old socket go with it.                             *)
Replace(ch) ==
  LET input == ch \in Inputs
  IN  ReplaceWith(ch, NewFd,
                  IF input THEN {fd[ch]} ELSE {},
                  IF input /\ goal # "void" THEN {NewFd} ELSE {})

(* The creation of the new socket throws: the old descriptor has already   *)
(* left the set, the old socket stays in pool and port, the other channels *)
(* of the command are left as they are.  parse_failure catches the         *)
(* exception and refuses the command, and the pass goes on.                *)
ReplaceThrows(ch) ==
  /\ CreationMayFail
  /\ ch \in work
  /\ goal # "void"
  /\ work' = {}
  /\ selectSet' = IF ch \in Inputs THEN selectSet \ {fd[ch]} ELSE selectSet
  /\ deaf' = deaf \cup {ch}
  /\ UNCHANGED <<fd, place, selectNfds, datagrams, loopVars, pending, sent, goal, replaced>>

ImportStep ==
  \/ BeginPass \/ EndPass \/ SkipElement \/ ReceiveData \/ Unblock
  \/ \E ch \in Channels :
       \/ Stop(ch) \/ StopFull(ch) \/ Start(ch)
       \/ RedirectStart(ch) \/ RedirectStop(ch)
       \/ Replace(ch) \/ ReplaceThrows(ch)
  \/ Refuse
  \/ UnknownCommand
  \/ ControlDone

Next ==
  \/ \E ch \in Inputs : DatagramArrives(ch)
  \/ CommandArrives
  \/ ImportStep

Spec == Init /\ [][Next]_vars

(* The application imports in every cycle, and import runs. *)
FairSpec == Spec /\ WF_vars(ImportStep)

-----------------------------------------------------------------------------
TypeOK ==
  /\ fd \in [Channels \cup {Control} -> Fds \cup {INVALID_SOCKET}]
  /\ place \in [Channels -> {"home", "away", "void"}]
  /\ selectSet \subseteq Fds
  /\ selectNfds \in 0..(Cardinality(Channels) + 2)
  /\ datagrams \subseteq Inputs
  /\ pass \subseteq Fds
  /\ position \in 0..(Len(PoolOrder) + 1)
  /\ pending \in 0..MaxPending
  /\ sent \in 0..MaxCommands
  /\ work \subseteq Channels
  /\ goal \in {"home", "away", "void"}
  /\ blocked \in Inputs \cup {Control}
  /\ deaf \subseteq Channels
  /\ replaced \subseteq Channels

(* The set given to select() never holds a closed descriptor (select would *)
(* fail, and with it every import) nor one that has passed on to another   *)
(* kind of socket, and the bound given with it covers all of it.           *)
SelectSetIsOpen ==
  /\ selectSet \subseteq {fd[e] : e \in Inputs \cup {Control}} \ {INVALID_SOCKET}
  /\ \A f \in selectSet : f < selectNfds

(* A channel that has a socket is watched by select(), unless the last     *)
(* attempt to replace its socket failed; a failure on one channel of a     *)
(* group does not cost the others.                                         *)
ListenersAreWatched ==
  \A ch \in Inputs \ deaf : fd[ch] # INVALID_SOCKET => fd[ch] \in selectSet

(* No other channel is concerned: receive() blocks only on a socket that a *)
(* command of the same pass has put in place.                              *)
BlocksOnlyIfReplaced == Blocked => blocked \in replaced

(* A datagram is read, or goes with its socket, as long as its channel is  *)
(* watched and the loop does not block: replacing the sockets of other     *)
(* channels never starves it.                                              *)
DatagramsAreRead ==
  \A ch \in Inputs :
    ch \in datagrams ~> ch \notin datagrams \/ ch \in deaf \/ Blocked
=============================================================================
