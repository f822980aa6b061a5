----------------------- MODULE ControlConnectionProofs -----------------------
(***************************************************************************)
(* Proofs about ControlConnection, for every configuration, every order of *)
(* the pool and every number of commands.                                  *)
(*                                                                         *)
(* A context that runs is registered for all its roles: registration goes  *)
(* role by role (RegisteredSoFar), no step is made without an              *)
(* acknowledgement, and every acknowledgement under way tells of an        *)
(* acceptance that stands (AcksAreTrue), as long as no farewell has left   *)
(* (NoFarewell).  A context that is gone leaves no registration: what is   *)
(* accepted or asked for has its flag (AskedFor), and the farewells of the *)
(* flags follow the requests in the streams.  Commands are answered in     *)
(* order because what the server waits for can be cut along the stream to  *)
(* it and then along the stream from it (Order), and the power is the one  *)
(* commanded because the last switch under way leads to it (LeadTo).       *)
(***************************************************************************)
EXTENDS ControlConnection, SequenceTheorems, NaturalsInduction, WellFoundedInduction, TLAPS

Packets ==
  [kind : {"ack", "answer", "register", "unregister", "command"},
   what : Commands \cup Roles \cup {"power", "config"}, status : 0..2]

Types ==
  /\ address \in Addresses
  /\ pool \in Pools
  /\ phase \in {"register", "await", "running", "failed", "freed", "terminated"}
  /\ step \in 1..Len(Plan) + 1
  /\ registered \subseteq DOMAIN address
  /\ toApp \in [Connections -> Seq(Packets)]
  /\ toServer \in [Connections -> Seq(Packets)]

(* The creation goes on, or the context runs. *)
Alive == phase \in {"register", "await", "running"}

RolesAreConfigured ==
  \A c \in Connections : \A p \in Range(toServer[c]) :
    p.kind = "register" => p.what \in DOMAIN address

NoFarewell ==
  Alive => \A c \in Connections : \A p \in Range(toServer[c]) : p.kind # "unregister"

AcksAreTrue ==
  Alive => \A c \in Connections : \A r \in DOMAIN address :
             Ack(r, 0) \in Range(toApp[c]) => r \in accepted

RegisteredSoFar ==
  /\ accepted \subseteq DOMAIN address
  /\ Alive => \A i \in 1..Len(Plan) : i < step => Plan[i] \in accepted
  /\ phase = "await" => step <= Len(Plan)
  /\ phase = "running" => step > Len(Plan)

IInv == Types /\ RolesAreConfigured /\ NoFarewell /\ AcksAreTrue /\ RegisteredSoFar

-----------------------------------------------------------------------------
(* The members of a stream after a step. *)
LEMMA StreamMembers ==
  ASSUME NEW P, NEW s \in Seq(P)
  PROVE  /\ Range(s) \subseteq P
         /\ \A p \in P : Append(s, p) \in Seq(P) /\ Range(Append(s, p)) = Range(s) \cup {p}
         /\ \A t \in Seq(P) : s \o t \in Seq(P) /\ Range(s \o t) = Range(s) \cup Range(t)
         /\ s # <<>> => /\ Tail(s) \in Seq(P) /\ Range(Tail(s)) \subseteq Range(s)
                        /\ Head(s) \in Range(s)
<1>1. Len(s) \in Nat /\ DOMAIN s = 1..Len(s) /\ \A i \in 1..Len(s) : s[i] \in P
  BY LenProperties, ElementOfSeq
<1>2. Range(s) = {s[i] : i \in 1..Len(s)} /\ Range(s) \subseteq P
  BY <1>1 DEF Range
<1>3. ASSUME NEW p \in P
      PROVE  Append(s, p) \in Seq(P) /\ Range(Append(s, p)) = Range(s) \cup {p}
  <2>1. /\ Append(s, p) \in Seq(P)
        /\ Len(Append(s, p)) = Len(s) + 1
        /\ \A i \in 1..Len(s) : Append(s, p)[i] = s[i]
        /\ Append(s, p)[Len(s) + 1] = p
    BY AppendProperties
  <2>2. DOMAIN Append(s, p) = 1..(Len(s) + 1)
    BY <2>1, LenProperties
  <2>3. \A i : i \in 1..(Len(s) + 1) <=> i \in 1..Len(s) \/ i = Len(s) + 1
    BY <1>1
  <2>4. Range(Append(s, p)) = {Append(s, p)[i] : i \in 1..(Len(s) + 1)}
    BY <2>2 DEF Range
  <2> QED BY <1>2, <2>1, <2>3, <2>4
<1>4. ASSUME NEW t \in Seq(P)
      PROVE  s \o t \in Seq(P) /\ Range(s \o t) = Range(s) \cup Range(t)
  BY <1>4, ConcatProperties, RangeConcatenation
<1>5. ASSUME s # <<>>
      PROVE  Tail(s) \in Seq(P) /\ Range(Tail(s)) \subseteq Range(s) /\ Head(s) \in Range(s)
  <2>1. /\ Tail(s) \in Seq(P) /\ Len(Tail(s)) = Len(s) - 1
        /\ \A i \in 1..Len(Tail(s)) : Tail(s)[i] = s[i + 1]
    BY <1>5, HeadTailProperties
  <2>2. DOMAIN Tail(s) = 1..(Len(s) - 1)
    BY <2>1, LenProperties
  <2>3. Range(Tail(s)) \subseteq Range(s)
    <3> SUFFICES ASSUME NEW i \in 1..(Len(s) - 1)
                 PROVE  Tail(s)[i] \in Range(s)
      BY <2>2 DEF Range
    <3>1. i + 1 \in 1..Len(s)
      BY <1>1
    <3> QED BY <1>2, <2>1, <3>1
  <2>4. 1 \in 1..Len(s) /\ Head(s) = s[1]
    BY <1>1, <1>5, EmptySeq
  <2> QED BY <1>2, <2>1, <2>3, <2>4
<1> QED BY <1>2, <1>3, <1>4, <1>5

(* The plan has the roles of the configuration. *)
LEMMA PlanFacts ==
  ASSUME address \in Addresses, pool \in Pools
  PROVE  /\ Plan \in Seq(DOMAIN address) /\ Len(Plan) \in Nat
         /\ \A i \in 1..Len(Plan) : Plan[i] \in DOMAIN address
         /\ \A r \in DOMAIN address : \E i \in 1..Len(Plan) : Plan[i] = r
         /\ DOMAIN address \subseteq Roles
         /\ \A r \in DOMAIN address : address[r] \in Connections
<1> DEFINE D == DOMAIN address
<1>1. D \subseteq Roles /\ Range(address) \subseteq Range(pool)
  BY ControlConnectionAssumption
<1>2. \A r \in D : address[r] \in Connections
  BY <1>1 DEF Connections, Range
<1>3. \A r : IfConfigured(r) \in Seq(D) /\ Range(IfConfigured(r)) = {r} \cap D
  <2> TAKE r
  <2>1. CASE r \in D
    <3>1. IfConfigured(r) = <<r>> /\ <<r>> \in Seq(D)
      BY <2>1 DEF IfConfigured
    <3>2. Range(<<r>>) = {r}
      BY DEF Range
    <3> QED BY <2>1, <3>1, <3>2
  <2>2. CASE r \notin D
    <3>1. IfConfigured(r) = <<>>
      BY <2>2 DEF IfConfigured
    <3>2. <<>> \in Seq(D) /\ Range(<<>>) = {}
      BY DEF Range
    <3> QED BY <2>2, <3>1, <3>2
  <2> QED BY <2>1, <2>2
<1>4. Plan \in Seq(D) /\ Range(Plan) = D
  <2> DEFINE s == IfConfigured("power") \o IfConfigured("instrum")
  <2> DEFINE t == s \o IfConfigured("sync")
  <2>1. s \in Seq(D) /\ Range(s) = ({"power"} \cap D) \cup ({"instrum"} \cap D)
    BY <1>3, StreamMembers
  <2> HIDE DEF s
  <2>2. t \in Seq(D) /\ Range(t) = Range(s) \cup ({"sync"} \cap D)
    BY <1>3, <2>1, StreamMembers
  <2> HIDE DEF t
  <2>3. t \o IfConfigured("mode") \in Seq(D)
        /\ Range(t \o IfConfigured("mode")) = Range(t) \cup ({"mode"} \cap D)
    BY <1>3, <2>2, StreamMembers
  <2>4. Plan = t \o IfConfigured("mode")
    BY DEF Plan, s, t
  <2> QED BY <1>1, <2>1, <2>2, <2>3, <2>4 DEF Roles
<1>5. Len(Plan) \in Nat /\ Range(Plan) = {Plan[i] : i \in 1..Len(Plan)}
  BY <1>4, LenProperties DEF Range
<1> QED BY <1>1, <1>2, <1>4, <1>5

(* Streams of which one lost its first packet, got one more or several. *)
TakesFirst(f, g, c) == g = [f EXCEPT ![c] = Tail(@)]
Adds(f, g, c, p) == g = [f EXCEPT ![c] = Append(@, p)]
AddsAll(f, g, c, t) == g = [f EXCEPT ![c] = @ \o t]

LEMMA StreamsTakeFirst ==
  ASSUME NEW f \in [Connections -> Seq(Packets)], NEW c, NEW g,
         TakesFirst(f, g, c), c \in Connections => f[c] # <<>>
  PROVE  g \in [Connections -> Seq(Packets)] /\ \A d \in Connections : Range(g[d]) \subseteq Range(f[d])
<1>1. DOMAIN g = Connections /\ g = [d \in Connections |-> g[d]]
  BY DEF TakesFirst
<1>2. ASSUME NEW d \in Connections
      PROVE  g[d] \in Seq(Packets) /\ Range(g[d]) \subseteq Range(f[d])
  <2>1. CASE d = c
    <3>1. g[d] = Tail(f[d]) /\ f[d] # <<>> /\ f[d] \in Seq(Packets)
      BY <2>1 DEF TakesFirst
    <3> QED BY <3>1, StreamMembers
  <2>2. CASE d # c
    BY <2>2 DEF TakesFirst
  <2> QED BY <2>1, <2>2
<1> QED BY <1>1, <1>2

LEMMA StreamsAdd ==
  ASSUME NEW f \in [Connections -> Seq(Packets)], NEW c, NEW p \in Packets, NEW g,
         Adds(f, g, c, p)
  PROVE  /\ g \in [Connections -> Seq(Packets)]
         /\ \A d \in Connections : \A q \in Range(g[d]) : q \in Range(f[d]) \/ q = p
<1>1. DOMAIN g = Connections /\ g = [d \in Connections |-> g[d]]
  BY DEF Adds
<1>2. ASSUME NEW d \in Connections
      PROVE  /\ g[d] \in Seq(Packets)
             /\ \A q \in Range(g[d]) : q \in Range(f[d]) \/ q = p
  <2>1. CASE d = c
    <3>1. g[d] = Append(f[d], p) /\ f[d] \in Seq(Packets)
      BY <2>1 DEF Adds
    <3>2. Append(f[d], p) \in Seq(Packets) /\ Range(Append(f[d], p)) = Range(f[d]) \cup {p}
      BY <3>1, StreamMembers
    <3> QED BY <2>1, <3>1, <3>2
  <2>2. CASE d # c
    BY <2>2 DEF Adds
  <2> QED BY <2>1, <2>2
<1> QED BY <1>1, <1>2

LEMMA StreamsAddAll ==
  ASSUME NEW f \in [Connections -> Seq(Packets)], NEW c, NEW t \in Seq(Packets), NEW g,
         AddsAll(f, g, c, t)
  PROVE  /\ g \in [Connections -> Seq(Packets)]
         /\ \A d \in Connections : \A q \in Range(g[d]) : q \in Range(f[d]) \/ q \in Range(t)
<1>1. DOMAIN g = Connections /\ g = [d \in Connections |-> g[d]]
  BY DEF AddsAll
<1>2. ASSUME NEW d \in Connections
      PROVE  /\ g[d] \in Seq(Packets)
             /\ \A q \in Range(g[d]) : q \in Range(f[d]) \/ q \in Range(t)
  <2>1. CASE d = c
    <3>1. g[d] = f[d] \o t /\ f[d] \in Seq(Packets)
      BY <2>1 DEF AddsAll
    <3>2. f[d] \o t \in Seq(Packets) /\ Range(f[d] \o t) = Range(f[d]) \cup Range(t)
      BY <3>1, StreamMembers
    <3> QED BY <2>1, <3>1, <3>2
  <2>2. CASE d # c
    BY <2>2 DEF AddsAll
  <2> QED BY <2>1, <2>2
<1> QED BY <1>1, <1>2

(* The order of registration depends on the configuration only. *)
LEMMA SameConfig ==
  ASSUME UNCHANGED config
  PROVE  /\ address' = address /\ pool' = pool
         /\ Plan' = Plan
         /\ Connections' = Connections
BY DEF config, Plan, IfConfigured, Connections

-----------------------------------------------------------------------------
LEMMA InitHolds == Init => IInv
<1> SUFFICES ASSUME Init PROVE IInv
  OBVIOUS
<1>1. address \in Addresses /\ pool \in Pools /\ step = 1 /\ phase = "register"
  BY DEF Init
<1>2. Len(Plan) \in Nat
  BY <1>1, PlanFacts
<1>3. /\ toApp = [c \in Connections |-> <<>>]
      /\ toServer = [c \in Connections |-> <<>>]
      /\ accepted = {} /\ registered = {}
  BY DEF Init
<1>4. <<>> \in Seq(Packets) /\ Range(<<>>) = {}
  BY DEF Range
<1>5. Types
  BY <1>1, <1>2, <1>3, <1>4 DEF Types
<1>6. \A c \in Connections : toApp[c] = <<>> /\ toServer[c] = <<>>
  BY <1>3
<1>7. RolesAreConfigured /\ NoFarewell /\ AcksAreTrue
  BY <1>4, <1>6 DEF RolesAreConfigured, NoFarewell, AcksAreTrue
<1>8. RegisteredSoFar
  BY <1>1, <1>2, <1>3 DEF RegisteredSoFar
<1> QED BY <1>5, <1>7, <1>8 DEF IInv

(* The request of one role goes out. *)
LEMMA RegisterKeeps ==
  ASSUME IInv, Register
  PROVE  IInv'
<1>1. /\ phase = "register" /\ phase' = "await" /\ step' = step
      /\ step <= Len(Plan) /\ step \in 1..Len(Plan) + 1
      /\ accepted' = accepted /\ toApp' = toApp
      /\ registered' = registered \cup {Role}
      /\ toServer' = [toServer EXCEPT ![address[Role]] = Append(@, Registration(Role))]
      /\ UNCHANGED config
  BY DEF Register, IInv, Types, server
<1>2. /\ address' = address /\ pool' = pool
      /\ Plan' = Plan /\ Connections' = Connections
  BY <1>1, SameConfig
<1>3. /\ address \in Addresses /\ pool \in Pools
      /\ toServer \in [Connections -> Seq(Packets)]
      /\ registered \subseteq DOMAIN address
  BY DEF IInv, Types
<1>4. /\ Role \in DOMAIN address /\ address[Role] \in Connections /\ Role \in Roles
  <2>1. Len(Plan) \in Nat /\ step \in 1..Len(Plan)
    BY <1>1, <1>3, PlanFacts
  <2> QED BY <1>3, <2>1, PlanFacts DEF Role
<1>5. Registration(Role) \in Packets
  BY <1>4 DEF Registration, Packets
<1>6. /\ toServer' \in [Connections -> Seq(Packets)]
      /\ \A d \in Connections : \A q \in Range(toServer'[d]) :
            q \in Range(toServer[d]) \/ q = Registration(Role)
  <2>1. Adds(toServer, toServer', address[Role], Registration(Role))
    BY <1>1 DEF Adds
  <2> QED BY <1>3, <1>5, <2>1, StreamsAdd
<1>7. Types'
  BY <1>1, <1>2, <1>4, <1>6 DEF IInv, Types
<1>8. RolesAreConfigured'
  BY <1>2, <1>4, <1>6 DEF IInv, RolesAreConfigured, Registration
<1>9. NoFarewell'
  BY <1>1, <1>2, <1>6 DEF IInv, NoFarewell, Alive, Registration
<1>10. AcksAreTrue'
  BY <1>1, <1>2 DEF IInv, AcksAreTrue, Alive
<1>11. RegisteredSoFar'
  BY <1>1, <1>2 DEF IInv, RegisteredSoFar, Alive
<1> QED BY <1>7, <1>8, <1>9, <1>10, <1>11 DEF IInv

(* The step is made with an acknowledgement, which is true. *)
LEMMA AcknowledgedKeeps ==
  ASSUME IInv, Acknowledged
  PROVE  IInv'
<1> DEFINE c == address[Role]
<1>1. /\ phase = "await" /\ phase' = "register" /\ step' = step + 1
      /\ accepted' = accepted /\ toServer' = toServer /\ registered' = registered
      /\ toApp[c] # <<>> /\ Head(toApp[c]) = Ack(Role, 0)
      /\ toApp' = [toApp EXCEPT ![c] = Tail(@)]
      /\ UNCHANGED config
  BY DEF Acknowledged, Arrived, IsAck, server
<1>2. /\ address' = address /\ pool' = pool
      /\ Plan' = Plan /\ Connections' = Connections
  BY <1>1, SameConfig
<1>3. /\ address \in Addresses /\ pool \in Pools
      /\ toApp \in [Connections -> Seq(Packets)]
      /\ step \in 1..Len(Plan) + 1 /\ step <= Len(Plan)
  BY <1>1 DEF IInv, Types, RegisteredSoFar
<1>4. /\ Len(Plan) \in Nat /\ step \in 1..Len(Plan)
      /\ Role \in DOMAIN address /\ c \in Connections
  <2>1. Len(Plan) \in Nat /\ step \in 1..Len(Plan)
    BY <1>3, PlanFacts
  <2> QED BY <1>3, <2>1, PlanFacts DEF Role
<1>5. /\ toApp' \in [Connections -> Seq(Packets)]
      /\ \A d \in Connections : Range(toApp'[d]) \subseteq Range(toApp[d])
  <2>1. TakesFirst(toApp, toApp', c)
    BY <1>1 DEF TakesFirst
  <2> HIDE DEF c
  <2> QED BY <1>1, <1>3, <2>1, StreamsTakeFirst
<1>6. Role \in accepted
  <2>1. toApp[c] \in Seq(Packets)
    BY <1>3, <1>4
  <2>2. Ack(Role, 0) \in Range(toApp[c])
    BY <1>1, <2>1, StreamMembers
  <2> QED BY <1>1, <1>4, <2>2 DEF IInv, AcksAreTrue, Alive
<1>7. Types'
  BY <1>1, <1>2, <1>4, <1>5 DEF IInv, Types
<1>8. RolesAreConfigured'
  BY <1>1, <1>2 DEF IInv, RolesAreConfigured
<1>9. NoFarewell'
  BY <1>1, <1>2 DEF IInv, NoFarewell, Alive
<1>10. AcksAreTrue'
  BY <1>1, <1>2, <1>5 DEF IInv, AcksAreTrue, Alive
<1>11. RegisteredSoFar'
  <2>1. \A i \in 1..Len(Plan) : i < step + 1 => i < step \/ i = step
    BY <1>4
  <2>2. \A i \in 1..Len(Plan) : i < step + 1 => Plan[i] \in accepted
    BY <1>1, <1>6, <2>1 DEF IInv, RegisteredSoFar, Alive, Role
  <2> QED BY <1>1, <1>2, <2>2 DEF IInv, RegisteredSoFar
<1> QED BY <1>7, <1>8, <1>9, <1>10, <1>11 DEF IInv

(* The farewells go to the server once the context is gone. *)
LEMMA FarewellsArePackets ==
  ASSUME IInv, NEW c
  PROVE  /\ Farewells(c) \in Seq(Packets)
         /\ \A p \in Range(Farewells(c)) : p.kind = "unregister"
<1> DEFINE Bye == {p \in Packets : p.kind = "unregister"}
<1>1. registered \subseteq Roles
  <2>1. DOMAIN address \subseteq Roles
    BY PlanFacts DEF IInv, Types
  <2> QED BY <2>1 DEF IInv, Types
<1>2. \A r \in Roles : Farewell(r, c) \in Seq(Bye)
  <2> SUFFICES ASSUME NEW r \in Roles PROVE Farewell(r, c) \in Seq(Bye)
    OBVIOUS
  <2>1. Unregistration(r) \in Bye
    BY DEF Unregistration, Packets
  <2> HIDE DEF Bye
  <2> QED BY <2>1 DEF Farewell
<1> HIDE DEF Bye
<1>3. Farewells(c) \in Seq(Bye)
  BY <1>2 DEF Farewells, Roles
<1>4. Range(Farewells(c)) \subseteq Bye
  BY <1>3, StreamMembers
<1>5. \A p \in Bye : p \in Packets /\ p.kind = "unregister"
  BY DEF Bye
<1>6. Farewells(c) \in Seq(Packets)
  <2>1. Bye \subseteq Packets
    BY <1>5
  <2> QED BY <1>3, <2>1
<1> QED BY <1>4, <1>5, <1>6

LEMMA UnregisterKeeps ==
  ASSUME IInv, Unregister, UNCHANGED config
  PROVE  toServer' \in [Connections -> Seq(Packets)] /\ RolesAreConfigured'
<1> DEFINE h == [c \in Connections |-> Farewells(c)]
<1>1. h \in [Connections -> Seq(Packets)]
  BY FarewellsArePackets
<1>2. toServer' = [c \in Connections |-> toServer[c] \o h[c]]
  BY DEF Unregister
<1>3. \A d \in Connections : \A p \in Range(h[d]) : p.kind = "unregister"
  BY FarewellsArePackets
<1> HIDE DEF h
<1>4. toServer \in [Connections -> Seq(Packets)]
  BY DEF IInv, Types
<1>5. /\ toServer' \in [Connections -> Seq(Packets)]
      /\ \A d \in Connections : Range(toServer'[d]) = Range(toServer[d]) \cup Range(h[d])
  <2> SUFFICES ASSUME NEW d \in Connections
               PROVE  /\ toServer'[d] \in Seq(Packets)
                      /\ Range(toServer'[d]) = Range(toServer[d]) \cup Range(h[d])
    BY <1>2
  <2>1. toServer'[d] = toServer[d] \o h[d] /\ toServer[d] \in Seq(Packets) /\ h[d] \in Seq(Packets)
    BY <1>1, <1>2, <1>4
  <2> QED BY <2>1, StreamMembers
<1>6. address' = address /\ Connections' = Connections
  BY SameConfig
<1>7. RolesAreConfigured'
  BY <1>3, <1>5, <1>6 DEF IInv, RolesAreConfigured
<1> QED BY <1>5, <1>7

(* The context goes: nothing is claimed of its connections any more. *)
LEMMA GoneKeeps ==
  ASSUME IInv, UNCHANGED config, UNCHANGED <<step, registered, toApp, accepted>>,
         phase' \in {"failed", "freed", "terminated"},
         Unregister \/ UNCHANGED toServer
  PROVE  IInv'
<1>1. /\ address' = address /\ pool' = pool
      /\ Plan' = Plan /\ Connections' = Connections
  BY SameConfig
<1>2. toServer' \in [Connections -> Seq(Packets)] /\ RolesAreConfigured'
  <2>1. CASE Unregister
    BY <2>1, UnregisterKeeps
  <2>2. CASE UNCHANGED toServer
    BY <2>2, <1>1 DEF IInv, Types, RolesAreConfigured
  <2> QED BY <2>1, <2>2
<1>3. Types'
  BY <1>1, <1>2 DEF IInv, Types
<1>4. ~Alive' /\ phase' # "await" /\ phase' # "running"
  BY DEF Alive
<1>5. NoFarewell' /\ AcksAreTrue'
  BY <1>4 DEF NoFarewell, AcksAreTrue
<1>6. RegisteredSoFar'
  BY <1>1, <1>4 DEF IInv, RegisteredSoFar
<1> QED BY <1>2, <1>3, <1>5, <1>6 DEF IInv

LEMMA BuiltKeeps ==
  ASSUME IInv, Built
  PROVE  IInv'
<1>1. /\ address' = address /\ pool' = pool
      /\ Plan' = Plan /\ Connections' = Connections
  BY SameConfig DEF Built
<1>2. /\ phase = "register" /\ phase' = "running" /\ step > Len(Plan)
      /\ UNCHANGED <<step, registered, toApp, toServer, accepted>>
  BY DEF Built, server
<1>3. Types'
  BY <1>1, <1>2 DEF IInv, Types
<1>4. RolesAreConfigured' /\ NoFarewell' /\ AcksAreTrue'
  BY <1>1, <1>2 DEF IInv, RolesAreConfigured, NoFarewell, AcksAreTrue, Alive
<1>5. RegisteredSoFar'
  BY <1>1, <1>2 DEF IInv, RegisteredSoFar, Alive
<1> QED BY <1>3, <1>4, <1>5 DEF IInv

LEMMA StutteringKeeps ==
  ASSUME IInv, UNCHANGED config, UNCHANGED <<phase, step, registered, toApp, toServer, accepted>>
  PROVE  IInv'
<1>1. /\ address' = address /\ pool' = pool
      /\ Plan' = Plan /\ Connections' = Connections
  BY SameConfig
<1>2. Types'
  BY <1>1 DEF IInv, Types
<1>3. RolesAreConfigured' /\ NoFarewell' /\ AcksAreTrue' /\ RegisteredSoFar'
  BY <1>1 DEF IInv, RolesAreConfigured, NoFarewell, AcksAreTrue, RegisteredSoFar, Alive
<1> QED BY <1>2, <1>3 DEF IInv

LEMMA AnswersAreAnswers ==
  ASSUME NEW w \in Known
  PROVE  /\ Answers(w) \in Seq(Packets)
         /\ \A p \in Range(Answers(w)) : p.kind = "answer"
<1> DEFINE S == {p \in Packets : p.kind = "answer"}
<1>1. \A what \in {"power", "config"} : \A status \in 0..2 : Answer(what, status) \in S
  BY DEF Answer, Packets
<1> HIDE DEF S
<1>2. Answers(w) \in Seq(S)
  <2>1. CASE w \in {"on", "off"}
    <3>1. Answers(w) = <<Answer("power", 0)>>
      BY <2>1 DEF Answers
    <3> QED BY <1>1, <3>1
  <2>2. CASE w = "power?"
    <3>1. Answers(w) = <<Answer("power", 1)>>
      BY <2>2 DEF Answers
    <3> QED BY <1>1, <3>1
  <2>3. CASE w = "load"
    <3>1. Answers(w) = <<Answer("config", 0)>>
      BY <2>3 DEF Answers
    <3> QED BY <1>1, <3>1
  <2>4. CASE w = "apply"
    <3>1. Answers(w) = <<Answer("config", 0), Answer("config", 2)>>
      BY <2>4 DEF Answers
    <3> QED BY <1>1, <3>1
  <2>5. CASE w = "config?"
    <3>1. Answers(w) = <<Answer("config", 1)>>
      BY <2>5 DEF Answers
    <3> QED BY <1>1, <3>1
  <2> QED BY <2>1, <2>2, <2>3, <2>4, <2>5 DEF Known, PowerCommands, ConfigCommands
<1>3. Range(Answers(w)) \subseteq S
  BY <1>2, StreamMembers
<1>4. \A p \in S : p \in Packets /\ p.kind = "answer"
  BY DEF S
<1>5. Answers(w) \in Seq(Packets)
  <2>1. S \subseteq Packets
    BY <1>4
  <2> QED BY <1>2, <2>1
<1> QED BY <1>3, <1>4, <1>5

(* Packets are only taken from the stream to the application, and answers  *)
(* go to the server.                                                       *)
LEMMA ImportKeeps ==
  ASSUME IInv, UNCHANGED config, UNCHANGED <<phase, step, registered, accepted>>,
         toApp' \in [Connections -> Seq(Packets)],
         \A d \in Connections : Range(toApp'[d]) \subseteq Range(toApp[d]),
         toServer' \in [Connections -> Seq(Packets)],
         \A d \in Connections : \A q \in Range(toServer'[d]) :
           q \in Range(toServer[d]) \/ q.kind = "answer"
  PROVE  IInv'
<1>1. /\ address' = address /\ pool' = pool
      /\ Plan' = Plan /\ Connections' = Connections
  BY SameConfig
<1>2. Types'
  BY <1>1 DEF IInv, Types
<1>3. RolesAreConfigured'
  BY <1>1 DEF IInv, RolesAreConfigured
<1>4. NoFarewell'
  BY <1>1 DEF IInv, NoFarewell, Alive
<1>5. AcksAreTrue' /\ RegisteredSoFar'
  BY <1>1 DEF IInv, AcksAreTrue, RegisteredSoFar, Alive
<1> QED BY <1>2, <1>3, <1>4, <1>5 DEF IInv

LEMMA HandleKeeps ==
  ASSUME IInv, Handle
  PROVE  IInv'
<1>1. /\ UNCHANGED config /\ UNCHANGED <<phase, step, registered, accepted>>
      /\ Word \in Known
      /\ toApp[Current] # <<>>
      /\ TakesFirst(toApp, toApp', Current)
      /\ AddsAll(toServer, toServer', Current, Answers(Word))
  BY DEF Handle, Whole, NothingWhole, Arrived, TakesFirst, AddsAll, server
<1>2. /\ toApp \in [Connections -> Seq(Packets)]
      /\ toServer \in [Connections -> Seq(Packets)]
  BY DEF IInv, Types
<1>3. /\ Answers(Word) \in Seq(Packets)
      /\ \A p \in Range(Answers(Word)) : p.kind = "answer"
  BY <1>1, AnswersAreAnswers
<1>4. /\ toApp' \in [Connections -> Seq(Packets)]
      /\ \A d \in Connections : Range(toApp'[d]) \subseteq Range(toApp[d])
  BY <1>1, <1>2, StreamsTakeFirst
<1>5. /\ toServer' \in [Connections -> Seq(Packets)]
      /\ \A d \in Connections : \A q \in Range(toServer'[d]) :
           q \in Range(toServer[d]) \/ q \in Range(Answers(Word))
  BY <1>1, <1>2, <1>3, StreamsAddAll
<1> QED BY <1>1, <1>3, <1>4, <1>5, ImportKeeps

LEMMA ThrowKeeps ==
  ASSUME IInv, Throw
  PROVE  IInv'
<1>1. /\ UNCHANGED config /\ UNCHANGED <<phase, step, registered, accepted, toServer>>
      /\ toApp[Current] # <<>>
      /\ toApp' = toApp \/ TakesFirst(toApp, toApp', Current)
  BY DEF Throw, Whole, NothingWhole, Arrived, TakesFirst, server
<1>2. CASE toApp' = toApp
  BY <1>1, <1>2, StutteringKeeps
<1>3. CASE TakesFirst(toApp, toApp', Current)
  <2>1. /\ toApp \in [Connections -> Seq(Packets)]
        /\ toServer \in [Connections -> Seq(Packets)]
    BY DEF IInv, Types
  <2>2. /\ toApp' \in [Connections -> Seq(Packets)]
        /\ \A d \in Connections : Range(toApp'[d]) \subseteq Range(toApp[d])
    BY <1>1, <1>3, <2>1, StreamsTakeFirst
  <2> QED BY <1>1, <2>1, <2>2, ImportKeeps
<1> QED BY <1>1, <1>2, <1>3

LEMMA SendCommandKeeps ==
  ASSUME IInv, NEW c \in Connections, NEW w \in Commands, SendCommand(c, w)
  PROVE  IInv'
<1>1. /\ UNCHANGED config /\ UNCHANGED <<phase, step, registered, accepted, toServer>>
      /\ Adds(toApp, toApp', c, Command(w))
  BY DEF SendCommand, Transmit, Adds, app
<1>2. /\ address' = address /\ pool' = pool
      /\ Plan' = Plan /\ Connections' = Connections
  BY <1>1, SameConfig
<1>3. Command(w) \in Packets /\ Command(w).kind = "command"
  BY DEF Command, Packets
<1>4. toApp \in [Connections -> Seq(Packets)]
  BY DEF IInv, Types
<1>5. /\ toApp' \in [Connections -> Seq(Packets)]
      /\ \A d \in Connections : \A q \in Range(toApp'[d]) :
           q \in Range(toApp[d]) \/ q = Command(w)
  BY <1>1, <1>3, <1>4, StreamsAdd
<1>6. Types'
  BY <1>1, <1>2, <1>5 DEF IInv, Types
<1>7. RolesAreConfigured' /\ NoFarewell' /\ RegisteredSoFar'
  BY <1>1, <1>2 DEF IInv, RolesAreConfigured, NoFarewell, RegisteredSoFar, Alive
<1>8. AcksAreTrue'
  <2>1. \A r : Ack(r, 0).kind = "ack"
    BY DEF Ack
  <2>2. \A r : Ack(r, 0) # Command(w)
    BY <1>3, <2>1
  <2> QED BY <1>1, <1>2, <1>5, <2>2 DEF IInv, AcksAreTrue, Alive
<1> QED BY <1>6, <1>7, <1>8 DEF IInv

(* A registration that is accepted stands before its acknowledgement goes  *)
(* out, and it falls with a farewell only.                                 *)
LEMMA ServerReceiveKeeps ==
  ASSUME IInv, NEW c \in Connections, ServerReceive(c)
  PROVE  IInv'
<1> DEFINE p == Head(toServer[c])
<1>1. /\ UNCHANGED config /\ UNCHANGED <<phase, step, registered>>
      /\ toServer[c] # <<>>
      /\ TakesFirst(toServer, toServer', c)
  BY DEF ServerReceive, TakesFirst, app
<1>2. /\ address' = address /\ pool' = pool
      /\ Plan' = Plan /\ Connections' = Connections
  BY <1>1, SameConfig
<1>3. /\ toApp \in [Connections -> Seq(Packets)]
      /\ toServer \in [Connections -> Seq(Packets)]
  BY DEF IInv, Types
<1>4. /\ toServer' \in [Connections -> Seq(Packets)]
      /\ \A d \in Connections : Range(toServer'[d]) \subseteq Range(toServer[d])
  BY <1>1, <1>3, StreamsTakeFirst
<1>5. p \in Range(toServer[c]) /\ p \in Packets
  <2>1. toServer[c] \in Seq(Packets)
    BY <1>3
  <2> QED BY <1>1, <2>1, StreamMembers
<1>6. RolesAreConfigured' /\ NoFarewell'
  BY <1>1, <1>2, <1>4 DEF IInv, RolesAreConfigured, NoFarewell, Alive
<1>7. CASE p.kind = "register"
  <2>1. PICK status \in {0, 1} :
          /\ Adds(toApp, toApp', c, Ack(p.what, status))
          /\ accepted' = IF status = 0 THEN accepted \cup {p.what} ELSE accepted
    <3> DEFINE R(status) ==
          /\ Transmit(c, Ack(p.what, status))
          /\ accepted' = IF status = 0 THEN accepted \cup {p.what} ELSE accepted
    <3>1. \E status \in {0, 1} : R(status)
      BY <1>7 DEF ServerReceive
    <3>2. PICK status \in {0, 1} : R(status)
      BY <3>1
    <3>3. Adds(toApp, toApp', c, Ack(p.what, status))
      BY <3>2 DEF Transmit, Adds
    <3> QED BY <3>2, <3>3
  <2>2. p.what \in DOMAIN address
    BY <1>5, <1>7 DEF IInv, RolesAreConfigured
  <2>3. Ack(p.what, status) \in Packets
    BY <1>5 DEF Packets, Ack
  <2> HIDE DEF p
  <2>4. /\ toApp' \in [Connections -> Seq(Packets)]
        /\ \A d \in Connections : \A q \in Range(toApp'[d]) :
             q \in Range(toApp[d]) \/ q = Ack(p.what, status)
    <3> DEFINE a == Ack(p.what, status)
    <3>1. Adds(toApp, toApp', c, a) /\ a \in Packets
      BY <2>1, <2>3
    <3> HIDE DEF a
    <3>2. /\ toApp' \in [Connections -> Seq(Packets)]
          /\ \A d \in Connections : \A q \in Range(toApp'[d]) :
               q \in Range(toApp[d]) \/ q = a
      BY <1>3, <3>1, StreamsAdd
    <3> QED BY <3>2 DEF a
  <2>5. Types'
    BY <1>1, <1>2, <1>4, <2>4 DEF IInv, Types
  <2>6. AcksAreTrue'
    <3> SUFFICES ASSUME Alive, NEW d \in Connections, NEW r \in DOMAIN address,
                        Ack(r, 0) \in Range(toApp'[d])
                 PROVE  r \in accepted'
      BY <1>1, <1>2 DEF AcksAreTrue, Alive
    <3>1. CASE Ack(r, 0) \in Range(toApp[d])
      BY <2>1, <3>1 DEF IInv, AcksAreTrue
    <3>2. CASE Ack(r, 0) = Ack(p.what, status)
      <4>1. r = p.what /\ status = 0
        BY <3>2 DEF Ack
      <4> QED BY <2>1, <4>1
    <3> QED BY <2>4, <3>1, <3>2
  <2>7. RegisteredSoFar'
    <3>1. accepted' \subseteq DOMAIN address /\ accepted \subseteq accepted'
      BY <2>1, <2>2 DEF IInv, RegisteredSoFar
    <3> QED BY <1>1, <1>2, <3>1 DEF IInv, RegisteredSoFar, Alive
  <2> QED BY <1>6, <2>5, <2>6, <2>7 DEF IInv
<1>8. CASE p.kind = "unregister"
  <2>1. toApp' = toApp /\ accepted' = accepted \ {p.what}
    BY <1>8 DEF ServerReceive
  <2>2. ~Alive /\ ~Alive'
    BY <1>1, <1>5, <1>8 DEF IInv, NoFarewell, Alive
  <2> HIDE DEF p
  <2>3. Types'
    BY <1>1, <1>2, <1>4, <2>1 DEF IInv, Types
  <2>4. AcksAreTrue'
    BY <2>2 DEF AcksAreTrue
  <2>5. RegisteredSoFar'
    BY <1>1, <1>2, <2>1, <2>2 DEF IInv, RegisteredSoFar, Alive
  <2> QED BY <1>6, <2>3, <2>4, <2>5 DEF IInv
<1>9. CASE p.kind = "answer"
  <2>1. toApp' = toApp /\ accepted' = accepted
    BY <1>9 DEF ServerReceive
  <2>2. /\ UNCHANGED <<phase, step, registered, accepted>>
        /\ toApp' \in [Connections -> Seq(Packets)]
        /\ \A d \in Connections : Range(toApp'[d]) \subseteq Range(toApp[d])
        /\ \A d \in Connections : \A q \in Range(toServer'[d]) :
             q \in Range(toServer[d]) \/ q.kind = "answer"
    BY <1>1, <1>3, <1>4, <2>1
  <2> HIDE DEF p
  <2> QED BY <1>1, <1>4, <2>2, ImportKeeps
<1> QED BY <1>7, <1>8, <1>9 DEF ServerReceive

LEMMA NextKeeps ==
  ASSUME IInv, [Next]_vars
  PROVE  IInv'
<1>1. CASE Register
  BY <1>1, RegisterKeeps
<1>2. CASE Acknowledged
  BY <1>2, AcknowledgedKeeps
<1>3. CASE Refused \/ ConnectFails
  <2>1. /\ UNCHANGED config /\ UNCHANGED <<step, registered, toApp, accepted>>
        /\ phase' \in {"failed", "freed", "terminated"}
        /\ Unregister \/ UNCHANGED toServer
    BY <1>3 DEF Refused, ConnectFails, server
  <2> QED BY <2>1, GoneKeeps
<1>4. CASE Built
  BY <1>4, BuiltKeeps
<1>5. CASE BeginPass
  BY <1>5, StutteringKeeps DEF BeginPass, server
<1>6. CASE Handle
  BY <1>6, HandleKeeps
<1>7. CASE NextConnection
  BY <1>7, StutteringKeeps DEF NextConnection, server
<1>8. CASE Throw
  BY <1>8, ThrowKeeps
<1>9. CASE Free
  <2>1. /\ UNCHANGED config /\ UNCHANGED <<step, registered, toApp, accepted>>
        /\ phase' \in {"failed", "freed", "terminated"}
        /\ Unregister
    BY <1>9 DEF Free, server
  <2> QED BY <2>1, GoneKeeps
<1>10. ASSUME NEW c \in Connections, RestArrives(c)
       PROVE  IInv'
  BY <1>10, StutteringKeeps DEF RestArrives, app, server
<1>11. ASSUME NEW c \in Connections, ServerReceive(c)
       PROVE  IInv'
  BY <1>11, ServerReceiveKeeps
<1>12. ASSUME NEW c \in Connections, NEW w \in Commands, SendCommand(c, w)
       PROVE  IInv'
  BY <1>12, SendCommandKeeps
<1>13. CASE UNCHANGED vars
  BY <1>13, StutteringKeeps DEF vars, app, server
<1> QED BY <1>1, <1>2, <1>3, <1>4, <1>5, <1>6, <1>7, <1>8, <1>9, <1>10, <1>11, <1>12, <1>13
        DEF Next

-----------------------------------------------------------------------------
(* The invariant that the registrations rest on. *)
THEOREM InductiveInvariant == Spec => []IInv
<1>1. IInv /\ [Next]_vars => IInv'
  BY NextKeeps
<1> QED BY InitHolds, <1>1, PTL DEF Spec

(* A context that was created is registered for every role that has an     *)
(* address, whatever reaches the connections first and in what pieces.     *)
THEOREM RunningIsAlwaysRegistered == Spec => []RunningIsRegistered
<1>1. IInv => RunningIsRegistered
  <2> SUFFICES ASSUME IInv, phase = "running"
               PROVE  accepted = DOMAIN address
    BY DEF RunningIsRegistered
  <2>1. /\ Len(Plan) \in Nat
        /\ \A r \in DOMAIN address : \E i \in 1..Len(Plan) : Plan[i] = r
    BY PlanFacts DEF IInv, Types
  <2>2. /\ accepted \subseteq DOMAIN address /\ step > Len(Plan)
        /\ \A i \in 1..Len(Plan) : i < step => Plan[i] \in accepted
    BY DEF IInv, RegisteredSoFar, Alive
  <2>3. step \in 1..Len(Plan) + 1
    BY DEF IInv, Types
  <2>4. \A i \in 1..Len(Plan) : i < step
    BY <2>1, <2>2, <2>3
  <2> QED BY <2>1, <2>2, <2>4
<1> QED BY InductiveInvariant, <1>1, PTL

-----------------------------------------------------------------------------
(* The end of a context.  What is accepted or asked for has its flag, so   *)
(* that the destructor takes it back, after the requests of its creation.  *)
AskedFor ==
  /\ accepted \subseteq registered
  /\ \A c \in Connections : \A p \in Range(toServer[c]) :
       p.kind = "register" =>
         /\ p = Registration(p.what)
         /\ p.what \in registered
         /\ address[p.what] = c

ImportsWhenRunning ==
  todo \subseteq Connections /\ (todo # {} => phase = "running")

EndInv == AskedFor /\ ImportsWhenRunning /\ NoStaleRegistration

LEMMA AskedForAfter ==
  ASSUME AskedFor, UNCHANGED config,
         registered \subseteq registered', accepted' \subseteq registered',
         \A c \in Connections : \A q \in Range(toServer'[c]) :
           \/ q \in Range(toServer[c])
           \/ q.kind # "register"
           \/ q = Registration(q.what) /\ q.what \in registered' /\ address[q.what] = c
  PROVE  AskedFor'
<1>1. address' = address /\ Connections' = Connections
  BY SameConfig
<1> SUFFICES ASSUME NEW c \in Connections, NEW q \in Range(toServer'[c]), q.kind = "register"
             PROVE  q = Registration(q.what) /\ q.what \in registered' /\ address[q.what] = c
  BY <1>1 DEF AskedFor
<1>2. CASE q \in Range(toServer[c])
  BY <1>2 DEF AskedFor
<1> QED BY <1>2

(* The streams after the farewells. *)
LEMMA FarewellsFollow ==
  ASSUME IInv, Unregister, UNCHANGED config, NEW c \in Connections
  PROVE  /\ toServer'[c] = toServer[c] \o Farewells(c)
         /\ toServer[c] \in Seq(Packets) /\ Farewells(c) \in Seq(Packets)
         /\ Range(toServer'[c]) = Range(toServer[c]) \cup Range(Farewells(c))
<1>1. toServer'[c] = toServer[c] \o Farewells(c)
  BY DEF Unregister
<1>2. toServer[c] \in Seq(Packets) /\ Farewells(c) \in Seq(Packets)
  BY FarewellsArePackets DEF IInv, Types
<1> QED BY <1>1, <1>2, StreamMembers

LEMMA AskedForKept ==
  ASSUME IInv, AskedFor, [Next]_vars
  PROVE  AskedFor'
<1>1. CASE Register
  <2>1. /\ UNCHANGED config /\ accepted' = accepted /\ step <= Len(Plan)
        /\ registered' = registered \cup {Role}
        /\ Adds(toServer, toServer', address[Role], Registration(Role))
    BY <1>1 DEF Register, Adds, server
  <2>2. /\ address \in Addresses /\ pool \in Pools
        /\ toServer \in [Connections -> Seq(Packets)]
        /\ step \in 1..Len(Plan) + 1
    BY DEF IInv, Types
  <2>3. Role \in Roles
    <3>1. step \in 1..Len(Plan)
      BY <2>1, <2>2, PlanFacts
    <3> QED BY <2>2, <3>1, PlanFacts DEF Role
  <2>4. Registration(Role) \in Packets /\ Registration(Role).what = Role
    BY <2>3 DEF Registration, Packets
  <2>5. \A d \in Connections : \A q \in Range(toServer'[d]) :
          q \in Range(toServer[d]) \/ (q = Registration(Role) /\ d = address[Role])
    <3>1. \A d \in Connections : \A q \in Range(toServer'[d]) :
            q \in Range(toServer[d]) \/ q = Registration(Role)
      <4> DEFINE p == Registration(Role)
      <4>1. p \in Packets /\ Adds(toServer, toServer', address[Role], p)
        BY <2>1, <2>4
      <4> HIDE DEF p
      <4>2. \A d \in Connections : \A q \in Range(toServer'[d]) : q \in Range(toServer[d]) \/ q = p
        BY <2>2, <4>1, StreamsAdd
      <4> QED BY <4>2 DEF p
    <3>2. \A d \in Connections : d # address[Role] => toServer'[d] = toServer[d]
      BY <2>1, <2>2 DEF Adds
    <3> QED BY <3>1, <3>2
  <2>6. accepted' \subseteq registered'
    BY <2>1 DEF AskedFor
  <2> QED BY <2>1, <2>4, <2>5, <2>6, AskedForAfter
<1>2. CASE Refused \/ ConnectFails \/ Free
  <2>1. /\ UNCHANGED config /\ UNCHANGED <<registered, accepted>>
        /\ Unregister \/ UNCHANGED toServer
    BY <1>2 DEF Refused, ConnectFails, Free, server
  <2>2. ASSUME NEW c \in Connections, NEW q \in Range(toServer'[c])
        PROVE  q \in Range(toServer[c]) \/ q.kind # "register"
    <3>1. CASE Unregister
      <4>1. Range(toServer'[c]) = Range(toServer[c]) \cup Range(Farewells(c))
        BY <2>1, <3>1, FarewellsFollow
      <4>2. \A p \in Range(Farewells(c)) : p.kind = "unregister"
        BY FarewellsArePackets
      <4> QED BY <2>2, <4>1, <4>2
    <3> QED BY <2>1, <2>2, <3>1
  <2> QED BY <2>1, <2>2, AskedForAfter DEF AskedFor
<1>3. CASE Handle
  <2>1. /\ UNCHANGED config /\ UNCHANGED <<registered, accepted>>
        /\ Word \in Known
        /\ AddsAll(toServer, toServer', Current, Answers(Word))
    BY <1>3 DEF Handle, AddsAll, server
  <2>2. /\ Answers(Word) \in Seq(Packets)
        /\ \A p \in Range(Answers(Word)) : p.kind = "answer"
    BY <2>1, AnswersAreAnswers
  <2>3. \A d \in Connections : \A q \in Range(toServer'[d]) :
          q \in Range(toServer[d]) \/ q \in Range(Answers(Word))
    BY <2>1, <2>2, StreamsAddAll DEF IInv, Types
  <2>4. \A d \in Connections : \A q \in Range(toServer'[d]) :
          q \in Range(toServer[d]) \/ q.kind # "register"
    BY <2>2, <2>3
  <2> QED BY <2>1, <2>4, AskedForAfter DEF AskedFor
<1>4. ASSUME NEW c \in Connections, ServerReceive(c)
      PROVE  AskedFor'
  <2> DEFINE p == Head(toServer[c])
  <2>1. /\ UNCHANGED config /\ UNCHANGED registered
        /\ toServer[c] # <<>>
        /\ TakesFirst(toServer, toServer', c)
    BY <1>4 DEF ServerReceive, TakesFirst, app
  <2>2. \A d \in Connections : Range(toServer'[d]) \subseteq Range(toServer[d])
    BY <2>1, StreamsTakeFirst DEF IInv, Types
  <2>3. p \in Range(toServer[c])
    BY <2>1, StreamMembers DEF IInv, Types
  <2>4. p.kind = "register" => p.what \in registered
    BY <2>3 DEF AskedFor
  <2>5. accepted' \subseteq registered
    <3>1. CASE p.kind = "register"
      BY <1>4, <2>4, <3>1 DEF ServerReceive, AskedFor
    <3>2. CASE p.kind # "register"
      BY <1>4, <3>2 DEF ServerReceive, AskedFor
    <3> QED BY <3>1, <3>2
  <2> HIDE DEF p
  <2> QED BY <2>1, <2>2, <2>5, AskedForAfter
<1>5. CASE UNCHANGED <<config, registered, accepted, toServer>>
  BY <1>5, AskedForAfter DEF AskedFor
<1>6. CASE Acknowledged \/ Built \/ BeginPass \/ NextConnection \/ Throw
  <2>1. UNCHANGED <<config, registered, accepted, toServer>>
    BY <1>6 DEF Acknowledged, Built, BeginPass, NextConnection, Throw, server
  <2> QED BY <2>1, <1>5
<1>7. ASSUME NEW c \in Connections,
             RestArrives(c) \/ \E w \in Commands : SendCommand(c, w)
      PROVE  AskedFor'
  <2>1. UNCHANGED <<config, registered, accepted, toServer>>
    BY <1>7 DEF RestArrives, SendCommand, app, server
  <2> QED BY <2>1, <1>5
<1>8. CASE UNCHANGED vars
  BY <1>5, <1>8 DEF vars, app, server
<1> QED BY <1>1, <1>2, <1>3, <1>4, <1>6, <1>7, <1>8 DEF Next

LEMMA ImportsKept ==
  ASSUME ImportsWhenRunning, [Next]_vars
  PROVE  ImportsWhenRunning'
<1>1. ASSUME UNCHANGED config, todo' \subseteq todo, todo' # {} => phase' = "running"
      PROVE  ImportsWhenRunning'
  BY <1>1, SameConfig DEF ImportsWhenRunning
<1>2. CASE Register \/ Acknowledged \/ Refused \/ ConnectFails \/ Built
  BY <1>1, <1>2 DEF ImportsWhenRunning, Register, Acknowledged, Refused, ConnectFails, Built
<1>3. CASE BeginPass
  BY <1>3, SameConfig DEF ImportsWhenRunning, BeginPass
<1>4. CASE Throw \/ Free
  BY <1>1, <1>4 DEF ImportsWhenRunning, Throw, Free
<1>5. CASE Handle \/ NextConnection
  BY <1>1, <1>5 DEF ImportsWhenRunning, Handle, Whole, NextConnection
<1>6. ASSUME NEW c \in Connections,
             \/ RestArrives(c)
             \/ ServerReceive(c)
             \/ \E w \in Commands : SendCommand(c, w)
      PROVE  ImportsWhenRunning'
  BY <1>1, <1>6 DEF ImportsWhenRunning, RestArrives, ServerReceive, SendCommand, app
<1>7. CASE UNCHANGED vars
  BY <1>1, <1>7 DEF ImportsWhenRunning, vars, app
<1> QED BY <1>2, <1>3, <1>4, <1>5, <1>6, <1>7 DEF Next

(* The pass is at a connection that select has reported. *)
LEMMA CurrentIsReported ==
  ASSUME IInv, ImportsWhenRunning, todo # {}
  PROVE  Current \in todo
<1> DEFINE T == {i \in DOMAIN pool : pool[i] \in todo}
<1>1. DOMAIN pool \subseteq Nat
  <2>1. pool \in Seq(Range(pool))
    BY ControlConnectionAssumption DEF IInv, Types
  <2> QED BY <2>1, LenProperties
<1>2. T # {}
  BY DEF ImportsWhenRunning, Connections, Range
<1>3. PICK i \in T : \A j \in T : ~(<<j, i>> \in OpToRel(<, Nat))
  BY <1>1, <1>2, NatLessThanWellFounded, WFMin
<1>4. \A j \in T : ~(j < i)
  BY <1>1, <1>3 DEF OpToRel
<1>5. pool[i] \in todo /\ \A j \in DOMAIN pool : j < i => pool[j] \notin todo
  BY <1>4
<1> QED BY <1>5 DEF Current

(* The farewell of a flag is in the stream. *)
LEMMA EveryFlagIsTakenBack ==
  ASSUME IInv, NEW r \in registered
  PROVE  Unregistration(r) \in Range(Farewells(address[r]))
<1> DEFINE c == address[r]
<1> DEFINE F(q) == Farewell(q, c)
<1>1. registered \subseteq Roles
  BY PlanFacts DEF IInv, Types
<1>2. \A q \in Roles : F(q) \in Seq(Packets)
  <2> SUFFICES ASSUME NEW q \in Roles PROVE F(q) \in Seq(Packets)
    OBVIOUS
  <2>1. Unregistration(q) \in Packets
    BY DEF Unregistration, Packets
  <2> HIDE DEF c
  <2> QED BY <2>1 DEF Farewell
<1>3. F(r) = <<Unregistration(r)>>
  BY DEF Farewell
<1>4. Unregistration(r) \in Range(F(r))
  BY <1>3 DEF Range
<1>5. Farewells(c) = F("instrum") \o F("mode") \o F("power") \o F("sync")
  BY DEF Farewells
<1> HIDE DEF F, c
<1>6. Range(Farewells(c)) = Range(F("instrum")) \cup Range(F("mode"))
                            \cup Range(F("power")) \cup Range(F("sync"))
  <2> DEFINE u == F("instrum") \o F("mode")
  <2> DEFINE v == u \o F("power")
  <2>1. u \in Seq(Packets) /\ Range(u) = Range(F("instrum")) \cup Range(F("mode"))
    BY <1>2, StreamMembers DEF Roles
  <2> HIDE DEF u
  <2>2. v \in Seq(Packets) /\ Range(v) = Range(u) \cup Range(F("power"))
    BY <1>2, <2>1, StreamMembers DEF Roles
  <2> HIDE DEF v
  <2>3. Range(v \o F("sync")) = Range(v) \cup Range(F("sync"))
    BY <1>2, <2>2, StreamMembers DEF Roles
  <2>4. Farewells(c) = v \o F("sync")
    BY <1>5 DEF u, v
  <2> QED BY <2>1, <2>2, <2>3, <2>4
<1>7. Unregistration(r) \in Range(Farewells(c))
  BY <1>1, <1>4, <1>6 DEF Roles
<1> QED BY <1>7 DEF c

(* With the farewells in the streams nothing is upcoming. *)
LEMMA FarewellsEndAll ==
  ASSUME IInv, AskedFor, Unregister, UNCHANGED config, UNCHANGED <<registered, accepted>>,
         NEW c \in Connections
  PROVE  Upcoming(c)' = {}
<1> DEFINE s == toServer[c]
<1> DEFINE t == Farewells(c)
<1>1. /\ toServer'[c] = s \o t /\ s \in Seq(Packets) /\ t \in Seq(Packets)
  BY FarewellsFollow
<1>2. /\ Len(s) \in Nat /\ Len(t) \in Nat
      /\ DOMAIN s = 1..Len(s) /\ DOMAIN t = 1..Len(t) /\ DOMAIN (s \o t) = 1..(Len(s) + Len(t))
      /\ \A i \in 1..Len(s) : (s \o t)[i] = s[i]
      /\ \A i \in 1..Len(t) : (s \o t)[Len(s) + i] = t[i]
  <2>1. /\ Len(s) \in Nat /\ Len(t) \in Nat
        /\ DOMAIN s = 1..Len(s) /\ DOMAIN t = 1..Len(t)
    BY <1>1, LenProperties
  <2>2. /\ s \o t \in Seq(Packets) /\ Len(s \o t) = Len(s) + Len(t)
        /\ \A i \in 1..Len(s) + Len(t) :
             (s \o t)[i] = IF i <= Len(s) THEN s[i] ELSE t[i - Len(s)]
    BY <1>1, ConcatProperties
  <2>3. DOMAIN (s \o t) = 1..(Len(s) + Len(t))
    BY <2>2, LenProperties
  <2> HIDE DEF s, t
  <2>4. \A i \in 1..Len(s) : (s \o t)[i] = s[i]
    BY <2>1, <2>2
  <2>5. \A i \in 1..Len(t) : (s \o t)[Len(s) + i] = t[i]
    BY <2>1, <2>2
  <2> QED BY <2>1, <2>3, <2>4, <2>5
<1>3. address' = address
  BY SameConfig
<1> SUFFICES ASSUME NEW r \in Roles, r \in Upcoming(c)'
             PROVE  FALSE
  BY DEF Upcoming
<1>4. PICK i \in 0..Len(s) + Len(t) :
        /\ Stands(r, c, i)'
        /\ \/ i = 0 /\ r \in accepted /\ address[r] = c
           \/ i > 0 /\ toServer'[c][i] = Registration(r)
  <2>1. CASE r \in accepted' /\ address'[r] = c /\ Stands(r, c, 0)'
    <3>1. r \in accepted /\ address[r] = c /\ 0 \in 0..Len(s) + Len(t)
      BY <1>2, <1>3, <2>1
    <3> HIDE DEF s, t
    <3> QED BY <2>1, <3>1
  <2>2. CASE \E i \in DOMAIN toServer'[c] :
               toServer'[c][i] = Registration(r) /\ Stands(r, c, i)'
    <3>1. PICK i \in DOMAIN toServer'[c] : toServer'[c][i] = Registration(r) /\ Stands(r, c, i)'
      BY <2>2
    <3> HIDE DEF s, t
    <3>2. i \in 0..Len(s) + Len(t) /\ i > 0
      BY <1>1, <1>2, <3>1
    <3> QED BY <3>1, <3>2
  <2> QED BY <2>1, <2>2 DEF Upcoming
<1>5. i <= Len(s) /\ r \in registered /\ address[r] = c
  <2>1. CASE i = 0
    BY <1>2, <1>4, <2>1 DEF AskedFor
  <2>2. CASE i > 0
    <3>1. toServer'[c][i] = Registration(r) /\ Registration(r).kind = "register"
          /\ Registration(r).what = r
      BY <1>4, <2>2 DEF Registration
    <3>2. i <= Len(s)
      <4> SUFFICES ASSUME i > Len(s) PROVE FALSE
        BY <1>2, <1>4
      <4>1. i - Len(s) \in 1..Len(t) /\ Len(s) + (i - Len(s)) = i
        BY <1>2, <1>4
      <4>2. toServer'[c][i] = t[i - Len(s)]
        BY <1>1, <1>2, <4>1
      <4>3. t[i - Len(s)] \in Range(t)
        BY <1>2, <4>1 DEF Range
      <4> QED BY <3>1, <4>2, <4>3, FarewellsArePackets
    <3>3. s[i] = Registration(r) /\ s[i] \in Range(s)
      <4>1. i \in 1..Len(s)
        BY <1>2, <1>4, <2>2, <3>2
      <4> QED BY <1>1, <1>2, <3>1, <4>1 DEF Range
    <3> QED BY <3>1, <3>2, <3>3 DEF AskedFor
  <2> QED BY <1>4, <2>1, <2>2
<1>6. PICK j \in 1..Len(t) : t[j] = Unregistration(r)
  <2>1. Unregistration(r) \in Range(t)
    BY <1>5, EveryFlagIsTakenBack
  <2> QED BY <1>2, <2>1 DEF Range
<1>7. Len(s) + j \in DOMAIN toServer'[c] /\ Len(s) + j > i
      /\ toServer'[c][Len(s) + j] = Unregistration(r)
  <2>1. toServer'[c][Len(s) + j] = t[j]
    BY <1>1, <1>2
  <2> HIDE DEF s, t
  <2>2. Len(s) + j \in 1..(Len(s) + Len(t)) /\ Len(s) + j > i
    BY <1>2, <1>4, <1>5
  <2> QED BY <1>1, <1>2, <1>6, <2>1, <2>2
<1> QED BY <1>4, <1>7 DEF Stands

(* A server that reads on gets no registration that was not upcoming. *)
LEMMA ReadingAddsNothing ==
  ASSUME IInv, AskedFor, NEW c \in Connections, ServerReceive(c), NEW d \in Connections
  PROVE  Upcoming(d)' \subseteq Upcoming(d)
<1> DEFINE s == toServer[c]
<1> DEFINE p == Head(toServer[c])
<1>1. /\ UNCHANGED config
      /\ toServer[c] # <<>> /\ toServer[c] \in Seq(Packets)
      /\ toServer' = [toServer EXCEPT ![c] = Tail(@)]
      /\ DOMAIN toServer = Connections
  BY DEF ServerReceive, IInv, Types
<1>2. address' = address
  BY <1>1, SameConfig
<1>3. /\ Len(s) \in Nat \ {0} /\ DOMAIN s = 1..Len(s) /\ DOMAIN Tail(s) = 1..(Len(s) - 1)
      /\ \A i \in 1..(Len(s) - 1) : Tail(s)[i] = s[i + 1]
      /\ s[1] = p
  <2>1. Len(s) \in Nat \ {0} /\ DOMAIN s = 1..Len(s)
    BY <1>1, EmptySeq, LenProperties
  <2>2. /\ Tail(s) \in Seq(Packets) /\ Len(Tail(s)) = Len(s) - 1
        /\ \A i \in 1..Len(Tail(s)) : Tail(s)[i] = s[i + 1]
    BY <1>1, HeadTailProperties
  <2>3. DOMAIN Tail(s) = 1..(Len(s) - 1)
    BY <2>2, LenProperties
  <2> QED BY <1>1, <2>1, <2>2, <2>3
<1>4. p \in Range(s)
  BY <1>1, StreamMembers
<1>5. \A r \in accepted' :
        r \in accepted \/ (r = p.what /\ p = Registration(r) /\ address[r] = c)
  <2>1. CASE p.kind = "register"
    <3>1. \A r \in accepted' : r \in accepted \/ r = p.what
      BY <2>1 DEF ServerReceive
    <3>2. p = Registration(p.what) /\ address[p.what] = c
      BY <1>4, <2>1 DEF AskedFor
    <3> HIDE DEF p
    <3> QED BY <3>1, <3>2
  <2>2. CASE p.kind # "register"
    BY <2>2 DEF ServerReceive
  <2> QED BY <2>1, <2>2
<1>6. \A r \in accepted' : p # Unregistration(r)
  BY DEF ServerReceive, Registration, Unregistration
<1> SUFFICES ASSUME NEW r \in Roles, r \in Upcoming(d)'
             PROVE  r \in Upcoming(d)
  BY DEF Upcoming
<1>7. CASE d # c
  <2>1. toServer'[d] = toServer[d]
    BY <1>1, <1>7
  <2>2. \A i : Stands(r, d, i)' <=> Stands(r, d, i)
    BY <2>1 DEF Stands
  <2>3. r \in accepted' /\ address[r] = d => r \in accepted
    BY <1>5, <1>7
  <2> HIDE DEF s, p
  <2> QED BY <1>2, <2>1, <2>2, <2>3 DEF Upcoming
<1>8. CASE d = c
  <2>1. toServer'[c] = Tail(s)
    BY <1>1
  <2>2. ASSUME NEW i \in 0..(Len(s) - 1), Stands(r, c, i)'
        PROVE  Stands(r, c, i + 1)
    <3> SUFFICES ASSUME NEW j \in 1..Len(s), j > i + 1
                 PROVE  s[j] # Unregistration(r)
      BY <1>3 DEF Stands
    <3>1. j - 1 \in 1..(Len(s) - 1) /\ j - 1 > i /\ (j - 1) + 1 = j
      BY <1>3
    <3>2. Tail(s)[j - 1] = s[j]
      BY <1>3, <3>1
    <3>3. Tail(s)[j - 1] # Unregistration(r)
      BY <1>3, <2>1, <2>2, <3>1 DEF Stands
    <3> QED BY <3>2, <3>3
  <2>3. CASE r \in accepted' /\ address'[r] = c /\ Stands(r, c, 0)'
    <3>1. Stands(r, c, 1)
      <4>1. 0 \in 0..(Len(s) - 1) /\ 0 + 1 = 1
        BY <1>3
      <4> HIDE DEF s
      <4> QED BY <2>2, <2>3, <4>1
    <3>2. CASE p = Registration(r)
      <4>1. 1 \in DOMAIN toServer[c] /\ toServer[c][1] = Registration(r)
        BY <1>3, <3>2
      <4> QED BY <1>8, <3>1, <4>1 DEF Upcoming
    <3>3. CASE p # Registration(r)
      <4>1. r \in accepted /\ p # Unregistration(r)
        BY <1>5, <1>6, <2>3, <3>3
      <4>2. Stands(r, c, 0)
        <5> SUFFICES ASSUME NEW j \in 1..Len(s)
                     PROVE  s[j] # Unregistration(r)
          BY <1>3 DEF Stands
        <5>1. CASE j = 1
          BY <1>3, <4>1, <5>1
        <5>2. CASE j > 1
          BY <1>3, <3>1, <5>2 DEF Stands
        <5> QED BY <1>3, <5>1, <5>2
      <4> QED BY <1>2, <1>8, <2>3, <4>1, <4>2 DEF Upcoming
    <3> QED BY <3>2, <3>3
  <2>4. CASE \E i \in DOMAIN toServer'[c] :
               toServer'[c][i] = Registration(r) /\ Stands(r, c, i)'
    <3>1. PICK i \in DOMAIN toServer'[c] : toServer'[c][i] = Registration(r) /\ Stands(r, c, i)'
      BY <2>4
    <3>2. i \in 1..(Len(s) - 1) /\ Tail(s)[i] = Registration(r)
      BY <1>3, <2>1, <3>1
    <3>3. i + 1 \in 1..Len(s) /\ i \in 0..(Len(s) - 1)
      BY <1>3, <3>2
    <3>4. s[i + 1] = Registration(r) /\ Stands(r, c, i + 1)
      BY <1>3, <2>2, <3>1, <3>2, <3>3
    <3> QED BY <1>3, <1>8, <3>3, <3>4 DEF Upcoming
  <2> QED BY <1>8, <2>3, <2>4 DEF Upcoming
<1> QED BY <1>7, <1>8

LEMMA EndKept ==
  ASSUME IInv, EndInv, [Next]_vars
  PROVE  EndInv'
<1>1. AskedFor' /\ ImportsWhenRunning'
  BY AskedForKept, ImportsKept DEF EndInv
<1>2. NoStaleRegistration'
  <2> DEFINE Gone == phase \in {"failed", "freed"}
  <2>1. CASE Register \/ Acknowledged \/ Built \/ BeginPass
    BY <2>1 DEF NoStaleRegistration, Register, Acknowledged, Built, BeginPass
  <2>2. CASE Refused \/ ConnectFails \/ Free
    <3> SUFFICES ASSUME Gone', NEW c \in Connections'
                 PROVE  Upcoming(c)' = {}
      BY DEF NoStaleRegistration
    <3>1. /\ UNCHANGED config /\ UNCHANGED <<registered, accepted>>
          /\ Unregister
      BY <2>2 DEF Refused, ConnectFails, Free, server
    <3>2. c \in Connections
      BY <3>1, SameConfig
    <3> QED BY <3>1, <3>2, FarewellsEndAll DEF EndInv
  <2>3. CASE Handle \/ NextConnection \/ Throw
    <3>1. phase = "running" /\ phase' = phase
      BY <2>3 DEF EndInv, ImportsWhenRunning, Handle, Whole, NextConnection, Throw
    <3> QED BY <3>1 DEF NoStaleRegistration
  <2>4. ASSUME NEW c \in Connections, ServerReceive(c)
        PROVE  NoStaleRegistration'
    <3>1. UNCHANGED config /\ phase' = phase
      BY <2>4 DEF ServerReceive, app
    <3>2. \A d \in Connections : Upcoming(d)' \subseteq Upcoming(d)
      BY <2>4, ReadingAddsNothing DEF EndInv
    <3> QED BY <3>1, <3>2, SameConfig DEF EndInv, NoStaleRegistration
  <2>5. CASE UNCHANGED <<config, phase, accepted, toServer>>
    <3>1. address' = address /\ Connections' = Connections
      BY <2>5, SameConfig
    <3> QED BY <2>5, <3>1 DEF EndInv, NoStaleRegistration, Upcoming, Stands
  <2>6. ASSUME NEW c \in Connections,
               RestArrives(c) \/ \E w \in Commands : SendCommand(c, w)
        PROVE  NoStaleRegistration'
    <3>1. UNCHANGED <<config, phase, accepted, toServer>>
      BY <2>6 DEF RestArrives, SendCommand, app, server
    <3> QED BY <2>5, <3>1
  <2>7. CASE UNCHANGED vars
    BY <2>5, <2>7 DEF vars, app, server
  <2> QED BY <2>1, <2>2, <2>3, <2>4, <2>6, <2>7 DEF Next
<1> QED BY <1>1, <1>2 DEF EndInv

(* A context that is gone leaves no registration behind, at whatever step  *)
(* its creation failed.                                                    *)
THEOREM NothingStaysRegistered == Spec => []NoStaleRegistration
<1>1. Init => EndInv
  <2> SUFFICES ASSUME Init PROVE EndInv
    OBVIOUS
  <2>1. /\ phase = "register" /\ todo = {} /\ accepted = {}
        /\ \A c \in Connections : toServer[c] = <<>>
    BY DEF Init
  <2>2. Range(<<>>) = {}
    BY DEF Range
  <2> QED BY <2>1, <2>2 DEF EndInv, AskedFor, ImportsWhenRunning, NoStaleRegistration
<1>2. IInv /\ EndInv /\ [Next]_vars => EndInv'
  BY EndKept
<1>3. EndInv => NoStaleRegistration
  BY DEF EndInv
<1> QED BY InductiveInvariant, <1>1, <1>2, <1>3, PTL DEF Spec

-----------------------------------------------------------------------------
(* How what the server waits for is cut along a stream: the parts end at f. *)
Owed == (Commands \cup Roles \cup {"power", "config"}) \X (0..2)

Cut(f, packets, what) ==
  /\ f \in [0..Len(packets) -> 0..Len(what)]
  /\ f[0] = 0 /\ f[Len(packets)] = Len(what)
  /\ \A i \in 0..Len(packets) : \A j \in 0..i : f[j] <= f[i]
  /\ \A i \in 1..Len(packets) :
       /\ f[i] = f[i - 1] + Len(Due(packets[i]))
       /\ \A k \in 1..Len(Due(packets[i])) : what[f[i - 1] + k] = Due(packets[i])[k]

CutAlong(packets, what) == \E f : Cut(f, packets, what)

LEMMA DueIsOwed ==
  ASSUME NEW p \in Packets
  PROVE  Due(p) \in Seq(Owed) /\ Len(Due(p)) \in Nat
<1>1. Due(p) \in Seq(Owed)
  <2>1. CASE p.kind = "answer"
    <3>1. Due(p) = << <<p.what, p.status>> >>
      BY <2>1 DEF Due
    <3>2. <<p.what, p.status>> \in Owed
      BY DEF Packets, Owed
    <3> HIDE DEF Owed
    <3> QED BY <3>1, <3>2
  <2>2. CASE p.kind = "command"
    <3>1. Due(p) = Expected(p.what)
      BY <2>2 DEF Due
    <3>2. /\ <<"power", 0>> \in Owed /\ <<"power", 1>> \in Owed
          /\ <<"config", 0>> \in Owed /\ <<"config", 1>> \in Owed /\ <<"config", 2>> \in Owed
      BY DEF Owed
    <3> HIDE DEF Owed
    <3> QED BY <3>1, <3>2 DEF Expected
  <2>3. CASE p.kind \notin {"answer", "command"}
    BY <2>3 DEF Due
  <2> QED BY <2>1, <2>2, <2>3
<1> QED BY <1>1, LenProperties

(* Packets that are good for nothing. *)
LEMMA CutOfNothing ==
  ASSUME NEW s \in Seq(Packets), \A p \in Range(s) : Due(p) = <<>>
  PROVE  CutAlong(s, <<>>)
<1> DEFINE f == [i \in 0..Len(s) |-> 0]
<1>1. Len(s) \in Nat /\ \A i \in 1..Len(s) : Due(s[i]) = <<>>
  BY LenProperties DEF Range
<1>2. Len(<<>>) = 0
  OBVIOUS
<1> HIDE DEF Due
<1>3. f \in [0..Len(s) -> 0..Len(<<>>)] /\ \A i \in 0..Len(s) : f[i] = 0
  BY <1>1, <1>2
<1> HIDE DEF f
<1>4. Cut(f, s, <<>>)
  BY <1>1, <1>2, <1>3 DEF Cut
<1> QED BY <1>4 DEF CutAlong

LEMMA CutOfOne ==
  ASSUME NEW p \in Packets
  PROVE  CutAlong(<<p>>, Due(p))
<1> DEFINE d == Due(p)
<1> DEFINE f == [i \in 0..1 |-> IF i = 0 THEN 0 ELSE Len(d)]
<1>1. Len(d) \in Nat
  BY DueIsOwed
<1>2. Len(<<p>>) = 1 /\ <<p>>[1] = p
  OBVIOUS
<1> HIDE DEF d
<1>3. f \in [0..1 -> 0..Len(d)] /\ f[0] = 0 /\ f[1] = Len(d)
  BY <1>1
<1> HIDE DEF f
<1>4. \A i \in 0..1 : \A j \in 0..i : f[j] <= f[i]
  BY <1>1, <1>3
<1>5. \A i \in 1..1 : i = 1 /\ i - 1 = 0
  OBVIOUS
<1>6. Cut(f, <<p>>, d)
  BY <1>1, <1>2, <1>3, <1>4, <1>5 DEF Cut, d
<1> QED BY <1>6 DEF CutAlong, d

(* Streams one after the other. *)
LEMMA CutOfBoth ==
  ASSUME NEW s \in Seq(Packets), NEW t \in Seq(Packets),
         NEW u \in Seq(Owed), NEW v \in Seq(Owed), CutAlong(s, u), CutAlong(t, v)
  PROVE  CutAlong(s \o t, u \o v)
<1>1. PICK f : Cut(f, s, u)
  BY DEF CutAlong
<1>2. PICK g : Cut(g, t, v)
  BY DEF CutAlong
<1> DEFINE m == Len(s)
<1> DEFINE n == Len(t)
<1> DEFINE h == [i \in 0..(m + n) |-> IF i <= m THEN f[i] ELSE Len(u) + g[i - m]]
<1>3. /\ m \in Nat /\ n \in Nat /\ Len(u) \in Nat /\ Len(v) \in Nat
      /\ Len(s \o t) = m + n /\ Len(u \o v) = Len(u) + Len(v)
  BY LenProperties, ConcatProperties
<1>4. /\ \A i \in 1..m : (s \o t)[i] = s[i]
      /\ \A i \in (m + 1)..(m + n) : (s \o t)[i] = t[i - m]
      /\ \A i \in 1..Len(u) : (u \o v)[i] = u[i]
      /\ \A i \in 1..Len(v) : (u \o v)[Len(u) + i] = v[i]
  <2>1. \A i \in 1..(Len(s) + Len(t)) : (s \o t)[i] = IF i <= Len(s) THEN s[i] ELSE t[i - Len(s)]
    BY ConcatProperties
  <2>2. \A i \in 1..(Len(u) + Len(v)) : (u \o v)[i] = IF i <= Len(u) THEN u[i] ELSE v[i - Len(u)]
    BY ConcatProperties
  <2>3. \A i \in 1..m : (s \o t)[i] = s[i]
    BY <1>3, <2>1
  <2>4. \A i \in (m + 1)..(m + n) : (s \o t)[i] = t[i - m]
    BY <1>3, <2>1
  <2>5. \A i \in 1..Len(u) : (u \o v)[i] = u[i]
    BY <1>3, <2>2
  <2>6. \A i \in 1..Len(v) : (u \o v)[Len(u) + i] = v[i]
    <3> TAKE i \in 1..Len(v)
    <3>1. Len(u) + i \in 1..(Len(u) + Len(v)) /\ ~(Len(u) + i <= Len(u))
          /\ (Len(u) + i) - Len(u) = i
      BY <1>3
    <3> QED BY <2>2, <3>1
  <2> QED BY <2>3, <2>4, <2>5, <2>6
<1>5. /\ f \in [0..m -> 0..Len(u)] /\ f[0] = 0 /\ f[m] = Len(u)
      /\ \A i \in 0..m : \A j \in 0..i : f[j] <= f[i]
      /\ \A i \in 1..m :
           /\ f[i] = f[i - 1] + Len(Due(s[i]))
           /\ \A k \in 1..Len(Due(s[i])) : u[f[i - 1] + k] = Due(s[i])[k]
  BY <1>1 DEF Cut
<1>6. /\ g \in [0..n -> 0..Len(v)] /\ g[0] = 0 /\ g[n] = Len(v)
      /\ \A i \in 0..n : \A j \in 0..i : g[j] <= g[i]
      /\ \A i \in 1..n :
           /\ g[i] = g[i - 1] + Len(Due(t[i]))
           /\ \A k \in 1..Len(Due(t[i])) : v[g[i - 1] + k] = Due(t[i])[k]
  BY <1>2 DEF Cut
<1>7. /\ \A i \in 1..m : s[i] \in Packets /\ Len(Due(s[i])) \in Nat
      /\ \A i \in 1..n : t[i] \in Packets /\ Len(Due(t[i])) \in Nat
  BY ElementOfSeq, DueIsOwed
<1> HIDE DEF m, n
<1>8. /\ \A i \in 0..m : h[i] = f[i]
      /\ \A i \in m..(m + n) : h[i] = Len(u) + g[i - m]
  <2>1. \A i \in 0..m : i \in 0..(m + n) /\ i <= m
    BY <1>3
  <2>2. h[m] = Len(u) + g[0] /\ m - m = 0
    BY <1>3, <1>5, <1>6
  <2>3. \A i \in m..(m + n) : i \in 0..(m + n) /\ (i <= m => i = m)
    BY <1>3
  <2> QED BY <2>1, <2>2, <2>3
<1>9. DOMAIN h = 0..(m + n) /\ h = [i \in 0..(m + n) |-> h[i]]
  OBVIOUS
<1> HIDE DEF h
<1>10. \A i \in 0..(m + n) : i \in 0..m \/ (i \in m..(m + n) /\ i - m \in 0..n)
  BY <1>3
<1>11. h \in [0..(m + n) -> 0..(Len(u) + Len(v))]
  <2> SUFFICES ASSUME NEW i \in 0..(m + n) PROVE h[i] \in 0..(Len(u) + Len(v))
    BY <1>9
  <2>1. CASE i \in 0..m
    <3>1. h[i] = f[i] /\ f[i] \in 0..Len(u)
      BY <1>5, <1>8, <2>1
    <3> QED BY <1>3, <3>1
  <2>2. CASE i \in m..(m + n) /\ i - m \in 0..n
    <3>1. h[i] = Len(u) + g[i - m] /\ g[i - m] \in 0..Len(v)
      BY <1>6, <1>8, <2>2
    <3> QED BY <1>3, <3>1
  <2> QED BY <1>10, <2>1, <2>2
<1>12. h[0] = 0 /\ h[m + n] = Len(u) + Len(v)
  <2>1. 0 \in 0..m /\ m + n \in m..(m + n) /\ (m + n) - m = n
    BY <1>3
  <2> QED BY <1>5, <1>6, <1>8, <2>1
<1>13. \A i \in 0..(m + n) : \A j \in 0..i : h[j] <= h[i]
  <2> SUFFICES ASSUME NEW i \in 0..(m + n), NEW j \in 0..i PROVE h[j] <= h[i]
    OBVIOUS
  <2>1. CASE i \in 0..m
    <3>1. j \in 0..m
      BY <1>3, <2>1
    <3> QED BY <1>5, <1>8, <2>1, <3>1
  <2>2. CASE i \in m..(m + n) /\ i - m \in 0..n
    <3>1. CASE j \in 0..m
      <4>1. h[j] = f[j] /\ f[j] <= Len(u) /\ f[j] \in Nat
        BY <1>3, <1>5, <1>8, <3>1
      <4>2. h[i] = Len(u) + g[i - m] /\ g[i - m] \in Nat
        BY <1>3, <1>6, <1>8, <2>2
      <4> QED BY <1>3, <4>1, <4>2
    <3>2. CASE j \in m..(m + n) /\ j - m \in 0..n
      <4>1. j - m \in 0..(i - m)
        BY <1>3, <2>2, <3>2
      <4>2. g[j - m] <= g[i - m] /\ g[j - m] \in Nat /\ g[i - m] \in Nat
        BY <1>3, <1>6, <2>2, <3>2, <4>1
      <4>3. h[i] = Len(u) + g[i - m] /\ h[j] = Len(u) + g[j - m]
        BY <1>8, <2>2, <3>2
      <4> QED BY <1>3, <4>2, <4>3
    <3>3. j \in 0..(m + n)
      BY <1>3
    <3> QED BY <1>10, <3>1, <3>2, <3>3
  <2> QED BY <1>10, <2>1, <2>2
<1>14. ASSUME NEW i \in 1..(m + n)
       PROVE  /\ h[i] = h[i - 1] + Len(Due((s \o t)[i]))
              /\ \A k \in 1..Len(Due((s \o t)[i])) :
                   (u \o v)[h[i - 1] + k] = Due((s \o t)[i])[k]
  <2>1. CASE i \in 1..m
    <3>1. (s \o t)[i] = s[i] /\ h[i] = f[i] /\ h[i - 1] = f[i - 1]
      <4>1. i \in 0..m /\ i - 1 \in 0..m
        BY <1>3, <2>1
      <4> QED BY <1>4, <1>8, <2>1, <4>1 DEF m
    <3>2. f[i] = f[i - 1] + Len(Due(s[i])) /\ Len(Due(s[i])) \in Nat
          /\ f[i] \in 0..Len(u) /\ f[i - 1] \in 0..Len(u)
      BY <1>3, <1>5, <1>7, <2>1
    <3>3. ASSUME NEW k \in 1..Len(Due(s[i]))
          PROVE  (u \o v)[f[i - 1] + k] = Due(s[i])[k]
      <4>1. f[i - 1] + k \in 1..Len(u)
        BY <1>3, <3>2
      <4> QED BY <1>4, <1>5, <2>1, <4>1
    <3> QED BY <3>1, <3>2, <3>3
  <2>2. CASE i \in (m + 1)..(m + n)
    <3>1. i - m \in 1..n /\ i \in m..(m + n) /\ i - 1 \in m..(m + n) /\ (i - 1) - m = (i - m) - 1
      BY <1>3, <2>2
    <3>2. (s \o t)[i] = t[i - m] /\ h[i] = Len(u) + g[i - m] /\ h[i - 1] = Len(u) + g[(i - m) - 1]
      BY <1>4, <1>8, <2>2, <3>1
    <3>3. g[i - m] = g[(i - m) - 1] + Len(Due(t[i - m])) /\ Len(Due(t[i - m])) \in Nat
          /\ g[i - m] \in 0..Len(v) /\ g[(i - m) - 1] \in 0..Len(v)
      BY <1>3, <1>6, <1>7, <3>1
    <3> DEFINE a == g[(i - m) - 1]
    <3> DEFINE b == Len(Due(t[i - m]))
    <3>4. a \in Nat /\ b \in Nat /\ g[i - m] = a + b /\ a + b <= Len(v)
      <4>1. \A x \in 0..Len(v) : x \in Nat /\ x <= Len(v)
        BY <1>3
      <4> QED BY <3>3, <4>1
    <3>5. ASSUME NEW k \in 1..b
          PROVE  (u \o v)[(Len(u) + a) + k] = Due(t[i - m])[k]
      <4>1. v[a + k] = Due(t[i - m])[k]
        BY <1>6, <3>1
      <4> HIDE DEF a, b
      <4>2. a + k \in 1..Len(v) /\ (Len(u) + a) + k = Len(u) + (a + k)
        BY <1>3, <3>4
      <4>3. (u \o v)[Len(u) + (a + k)] = v[a + k]
        BY <1>4, <4>2
      <4> QED BY <4>1, <4>2, <4>3
    <3>6. Len(u) + g[i - m] = (Len(u) + a) + b
      <4> HIDE DEF a, b
      <4> QED BY <1>3, <3>4
    <3>7. \A k \in 1..b : (u \o v)[h[i - 1] + k] = Due(t[i - m])[k]
      BY <3>2, <3>5
    <3>8. h[i] = h[i - 1] + b
      BY <3>2, <3>6
    <3> QED BY <3>2, <3>7, <3>8
  <2>3. i \in 1..m \/ i \in (m + 1)..(m + n)
    BY <1>3
  <2> QED BY <2>1, <2>2, <2>3
<1>15. Cut(h, s \o t, u \o v)
  BY <1>3, <1>11, <1>12, <1>13, <1>14 DEF Cut, m, n
<1> QED BY <1>15 DEF CutAlong

(* A part of a sequence. *)
LEMMA PartOf ==
  ASSUME NEW S, NEW w \in Seq(S), NEW a \in Nat, NEW l \in Nat, a + l <= Len(w)
  PROVE  /\ SubSeq(w, a + 1, a + l) \in Seq(S)
         /\ Len(SubSeq(w, a + 1, a + l)) = l
         /\ \A k \in 1..l : SubSeq(w, a + 1, a + l)[k] = w[a + k]
<1> DEFINE x == SubSeq(w, a + 1, a + l)
<1>1. \A i \in (a + 1)..(a + l) : w[i] \in S
  <2> SUFFICES ASSUME NEW i \in (a + 1)..(a + l) PROVE w[i] \in S
    OBVIOUS
  <2>1. i \in 1..Len(w)
    BY LenProperties
  <2> QED BY <2>1, ElementOfSeq
<1>2. /\ x \in Seq(S)
      /\ Len(x) = IF a + 1 <= a + l THEN a + l - (a + 1) + 1 ELSE 0
      /\ \A i \in 1..(a + l - (a + 1) + 1) : x[i] = w[a + 1 + i - 1]
  <2>1. a + 1 \in Int /\ a + l \in Int
    OBVIOUS
  <2> QED BY <1>1, <2>1, SubSeqProperties
<1> HIDE DEF x
<1>3. Len(x) = l
  BY <1>2
<1>4. ASSUME NEW k \in 1..l
      PROVE  x[k] = w[a + k]
  <2>1. k \in 1..(a + l - (a + 1) + 1) /\ a + 1 + k - 1 = a + k
    OBVIOUS
  <2> QED BY <1>2, <2>1
<1> QED BY <1>2, <1>3, <1>4 DEF x

(* The place of a part once the first one is gone. *)
LEMMA PlaceInRest ==
  ASSUME NEW L \in Nat, NEW D \in Nat, NEW F \in Nat, NEW E \in Nat, NEW k \in 1..E,
         D <= F, F + E <= L
  PROVE  (F - D) + k \in 1..(L - D) /\ D + ((F - D) + k) = F + k
OBVIOUS

(* The first packet has the first part. *)
LEMMA CutOfRest ==
  ASSUME NEW s \in Seq(Packets), s # <<>>, NEW w \in Seq(Owed), CutAlong(s, w)
  PROVE  \E v \in Seq(Owed) : w = Due(Head(s)) \o v /\ CutAlong(Tail(s), v)
<1>1. PICK f : Cut(f, s, w)
  BY DEF CutAlong
<1> DEFINE d == Due(s[1])
<1> DEFINE n == Len(s)
<1> DEFINE v == SubSeq(w, f[1] + 1, Len(w))
<1> DEFINE g == [i \in 0..(n - 1) |-> f[i + 1] - f[1]]
<1>2. n \in Nat /\ n >= 1 /\ Len(w) \in Nat /\ Head(s) = s[1] /\ s[1] \in Packets
  BY LenProperties, EmptySeq, ElementOfSeq
<1>3. /\ Tail(s) \in Seq(Packets) /\ Len(Tail(s)) = n - 1
      /\ \A i \in 1..(n - 1) : Tail(s)[i] = s[i + 1]
  BY HeadTailProperties
<1>4. /\ f \in [0..n -> 0..Len(w)] /\ f[0] = 0 /\ f[n] = Len(w)
      /\ \A i \in 0..n : \A j \in 0..i : f[j] <= f[i]
      /\ \A i \in 1..n :
           /\ f[i] = f[i - 1] + Len(Due(s[i]))
           /\ \A k \in 1..Len(Due(s[i])) : w[f[i - 1] + k] = Due(s[i])[k]
  BY <1>1 DEF Cut
<1>5. d \in Seq(Owed) /\ Len(d) \in Nat
  BY <1>2, DueIsOwed
<1>6. f[1] = Len(d) /\ Len(d) <= Len(w) /\ \A k \in 1..Len(d) : w[k] = d[k]
  <2>1. 1 \in 1..n /\ 1 \in 0..n /\ 1 - 1 = 0
    BY <1>2
  <2>2. f[1] = f[0] + Len(d) /\ \A k \in 1..Len(d) : w[f[0] + k] = d[k]
    BY <1>4, <2>1
  <2> HIDE DEF d, n
  <2>3. f[1] \in 0..Len(w)
    BY <1>4, <2>1
  <2> QED BY <1>2, <1>4, <1>5, <2>2, <2>3
<1> HIDE DEF d
<1>7. /\ v \in Seq(Owed) /\ Len(v) = Len(w) - Len(d)
      /\ \A i \in 1..(Len(w) - Len(d)) : v[i] = w[Len(d) + i]
  <2>1. v = SubSeq(w, Len(d) + 1, Len(d) + (Len(w) - Len(d)))
    <3>1. Len(d) + (Len(w) - Len(d)) = Len(w)
      BY <1>2, <1>5
    <3> QED BY <1>6, <3>1
  <2>2. Len(w) - Len(d) \in Nat /\ Len(d) + (Len(w) - Len(d)) <= Len(w)
    BY <1>2, <1>5, <1>6
  <2> HIDE DEF v, Owed
  <2> QED BY <1>5, <2>1, <2>2, PartOf
<1> HIDE DEF v
<1>8. w = d \o v
  <2>1. /\ d \o v \in Seq(Owed) /\ Len(d \o v) = Len(w)
        /\ \A i \in 1..Len(w) : (d \o v)[i] = IF i <= Len(d) THEN d[i] ELSE v[i - Len(d)]
    <3>1. /\ d \o v \in Seq(Owed) /\ Len(d \o v) = Len(d) + Len(v)
          /\ \A i \in 1..Len(d) + Len(v) : (d \o v)[i] = IF i <= Len(d) THEN d[i] ELSE v[i - Len(d)]
      BY <1>5, <1>7, ConcatProperties
    <3>2. Len(d) + Len(v) = Len(w)
      BY <1>2, <1>5, <1>7
    <3> QED BY <3>1, <3>2
  <2>2. ASSUME NEW i \in 1..Len(w)
        PROVE  (d \o v)[i] = w[i]
    <3>1. CASE i <= Len(d)
      <4>1. i \in 1..Len(d)
        BY <1>5, <3>1
      <4> QED BY <1>6, <2>1, <3>1, <4>1
    <3>2. CASE ~(i <= Len(d))
      <4>1. i - Len(d) \in 1..(Len(w) - Len(d)) /\ Len(d) + (i - Len(d)) = i
        BY <1>2, <1>5, <3>2
      <4>2. v[i - Len(d)] = w[Len(d) + (i - Len(d))]
        BY <1>7, <4>1
      <4> QED BY <2>1, <3>2, <4>1, <4>2
    <3> QED BY <3>1, <3>2
  <2> QED BY <2>1, <2>2, SeqEqual
<1> HIDE DEF n
<1>9. \A i \in 0..(n - 1) : g[i] = f[i + 1] - Len(d)
  BY <1>6
<1>10. DOMAIN g = 0..(n - 1) /\ g = [i \in 0..(n - 1) |-> g[i]]
  OBVIOUS
<1> HIDE DEF g
<1>11. \A i \in 0..(n - 1) :
         i + 1 \in 1..n /\ i + 1 \in 0..n /\ f[i + 1] \in 0..Len(w) /\ Len(d) <= f[i + 1]
  <2> SUFFICES ASSUME NEW i \in 0..(n - 1)
               PROVE  i + 1 \in 1..n /\ i + 1 \in 0..n /\ f[i + 1] \in 0..Len(w) /\ Len(d) <= f[i + 1]
    OBVIOUS
  <2>1. i + 1 \in 1..n /\ i + 1 \in 0..n /\ 1 \in 0..(i + 1)
    BY <1>2
  <2> QED BY <1>4, <1>6, <2>1
<1>12. g \in [0..(n - 1) -> 0..Len(v)]
  <2> SUFFICES ASSUME NEW i \in 0..(n - 1) PROVE g[i] \in 0..Len(v)
    BY <1>10
  <2>1. f[i + 1] \in 0..Len(w) /\ Len(d) <= f[i + 1] /\ g[i] = f[i + 1] - Len(d)
    BY <1>9, <1>11
  <2> QED BY <1>2, <1>5, <1>7, <2>1
<1>13. g[0] = 0 /\ g[n - 1] = Len(v)
  <2>1. 0 \in 0..(n - 1) /\ n - 1 \in 0..(n - 1) /\ 0 + 1 = 1 /\ (n - 1) + 1 = n
    BY <1>2
  <2>2. g[0] = f[1] - Len(d) /\ g[n - 1] = f[n] - Len(d)
    BY <1>9, <2>1
  <2> QED BY <1>4, <1>5, <1>6, <1>7, <2>2
<1>14. \A i \in 0..(n - 1) : \A j \in 0..i : g[j] <= g[i]
  <2> SUFFICES ASSUME NEW i \in 0..(n - 1), NEW j \in 0..i PROVE g[j] <= g[i]
    OBVIOUS
  <2>1. j \in 0..(n - 1) /\ i + 1 \in 0..n /\ j + 1 \in 0..(i + 1)
    BY <1>2
  <2>2. f[j + 1] <= f[i + 1] /\ g[j] = f[j + 1] - Len(d) /\ g[i] = f[i + 1] - Len(d)
    BY <1>4, <1>9, <2>1
  <2>3. f[i + 1] \in 0..Len(w) /\ f[j + 1] \in 0..Len(w)
    BY <1>11, <2>1
  <2> QED BY <1>2, <1>5, <2>2, <2>3
<1>15. ASSUME NEW i \in 1..(n - 1)
       PROVE  /\ g[i] = g[i - 1] + Len(Due(Tail(s)[i]))
              /\ \A k \in 1..Len(Due(Tail(s)[i])) : v[g[i - 1] + k] = Due(Tail(s)[i])[k]
  <2>1. /\ i \in 0..(n - 1) /\ i - 1 \in 0..(n - 1) /\ i + 1 \in 1..n
        /\ (i - 1) + 1 = i /\ (i + 1) - 1 = i
    BY <1>2
  <2>2. g[i] = f[i + 1] - Len(d) /\ g[i - 1] = f[i] - Len(d) /\ Tail(s)[i] = s[i + 1]
    BY <1>3, <1>9, <2>1
  <2> DEFINE e == Due(s[i + 1])
  <2>3. f[i + 1] = f[i] + Len(e) /\ \A k \in 1..Len(e) : w[f[i] + k] = e[k]
    BY <1>4, <2>1
  <2>4. f[i] \in 0..Len(w) /\ f[i + 1] \in 0..Len(w) /\ Len(d) <= f[i] /\ Len(e) \in Nat
    <3>1. s[i + 1] \in Packets
      BY <2>1, ElementOfSeq DEF n
    <3>2. f[(i - 1) + 1] \in 0..Len(w) /\ Len(d) <= f[(i - 1) + 1]
      BY <1>11, <2>1
    <3>3. f[i] \in 0..Len(w) /\ Len(d) <= f[i] /\ f[i + 1] \in 0..Len(w)
      BY <1>11, <2>1, <3>2
    <3> QED BY <3>1, <3>3, DueIsOwed
  <2> HIDE DEF e
  <2>5. g[i] = g[i - 1] + Len(e)
    BY <1>2, <1>5, <2>2, <2>3, <2>4
  <2>6. ASSUME NEW k \in 1..Len(e)
        PROVE  v[g[i - 1] + k] = e[k]
    <3>1. Len(d) \in Nat /\ f[i] \in Nat /\ Len(w) \in Nat /\ f[i] + Len(e) <= Len(w)
      <4>1. \A z \in 0..Len(w) : z \in Nat /\ z <= Len(w)
        BY <1>2
      <4> QED BY <1>2, <1>5, <2>3, <2>4, <4>1
    <3>2. g[i - 1] + k \in 1..(Len(w) - Len(d)) /\ Len(d) + (g[i - 1] + k) = f[i] + k
      <4> DEFINE F == f[i]
      <4>1. Len(d) \in Nat /\ F \in Nat /\ Len(w) \in Nat /\ Len(e) \in Nat
            /\ Len(d) <= F /\ F + Len(e) <= Len(w) /\ g[i - 1] = F - Len(d)
        BY <2>2, <2>4, <3>1
      <4> HIDE DEF F
      <4>2. (F - Len(d)) + k \in 1..(Len(w) - Len(d)) /\ Len(d) + ((F - Len(d)) + k) = F + k
        BY <4>1, PlaceInRest
      <4> QED BY <4>1, <4>2 DEF F
    <3>3. v[g[i - 1] + k] = w[f[i] + k]
      BY <1>7, <3>2
    <3> QED BY <2>3, <3>3
  <2> QED BY <2>2, <2>5, <2>6 DEF e
<1>16. Cut(g, Tail(s), v)
  BY <1>3, <1>12, <1>13, <1>14, <1>15 DEF Cut
<1> QED BY <1>2, <1>7, <1>8, <1>16 DEF CutAlong, d

(* The ends are where the stream is cut. *)
LEMMA EndsAreCut ==
  ASSUME NEW s \in Seq(Packets), NEW w \in Seq(Owed), CutAlong(s, w)
  PROVE  Divided(w, s)
<1>1. PICK f : Cut(f, s, w)
  BY DEF CutAlong
<1> DEFINE n == Len(s)
<1> DEFINE D(i) == Len(Due(s[i]))
<1> DEFINE e == Ends(s)
<1>2. n \in Nat /\ DOMAIN s = 1..n /\ Len(w) \in Nat /\ \A i \in 1..n : D(i) \in Nat
  BY LenProperties, ElementOfSeq, DueIsOwed
<1>3. /\ f \in [0..n -> 0..Len(w)] /\ f[0] = 0 /\ f[n] = Len(w)
      /\ \A i \in 1..n :
           /\ f[i] = f[i - 1] + D(i)
           /\ \A k \in 1..D(i) : w[f[i - 1] + k] = Due(s[i])[k]
  BY <1>1 DEF Cut
<1>4. e = [i \in 0..n |-> IF i = 0 THEN 0 ELSE e[i - 1] + D(i)]
  <2> DEFINE P(h) == h = [i \in 0..n |-> IF i = 0 THEN 0 ELSE h[i - 1] + D(i)]
  <2>1. P(f)
    <3> HIDE DEF n, D
    <3>1. \A i \in 0..n : f[i] = IF i = 0 THEN 0 ELSE f[i - 1] + D(i)
      <4>1. \A i \in 0..n : i = 0 \/ i \in 1..n
        BY <1>2
      <4> QED BY <1>3, <4>1
    <3> QED BY <1>3, <3>1
  <2>2. e = CHOOSE h : P(h)
    BY DEF Ends
  <2> QED BY <2>1, <2>2
<1> HIDE DEF D, e, n
<1>5. \A i \in 0..n : e[i] = f[i]
  <2> DEFINE T == {i \in 0..n : e[i] # f[i]}
  <2> SUFFICES ASSUME T # {} PROVE FALSE
    OBVIOUS
  <2>1. PICK i \in T : \A j \in T : i <= j
    <3>1. T \subseteq Nat
      BY <1>2
    <3>2. \E i \in T : \A j \in T : ~(<<j, i>> \in OpToRel(<, Nat))
      BY <3>1, NatLessThanWellFounded, WFMin
    <3>3. \A i, j \in T : i <= j \/ <<j, i>> \in OpToRel(<, Nat)
      BY <3>1 DEF OpToRel
    <3> HIDE DEF T
    <3> QED BY <3>2, <3>3
  <2>2. i \in 0..n /\ e[i] # f[i]
    OBVIOUS
  <2>3. i # 0 /\ i \in 1..n
    <3>1. 0 \in 0..n
      BY <1>2
    <3>2. e[0] = 0
      BY <1>4, <3>1
    <3> QED BY <1>2, <1>3, <2>2, <3>2
  <2>4. i - 1 \in 0..n /\ ~(i <= i - 1)
    BY <1>2, <2>3
  <2>5. e[i - 1] = f[i - 1]
    BY <2>1, <2>4
  <2>6. e[i] = e[i - 1] + D(i)
    BY <1>4, <2>2, <2>3
  <2> QED BY <1>3, <2>2, <2>3, <2>5, <2>6
<1>6. Len(w) = e[n]
  BY <1>2, <1>3, <1>5
<1>7. ASSUME NEW i \in 1..n
      PROVE  SubSeq(w, e[i - 1] + 1, e[i]) = Due(s[i])
  <2> DEFINE a == f[i - 1]
  <2> DEFINE d == Due(s[i])
  <2> DEFINE x == SubSeq(w, a + 1, a + Len(d))
  <2>1. i - 1 \in 0..n /\ i \in 0..n
    BY <1>2
  <2>2. a \in Nat /\ Len(d) \in Nat /\ f[i] = a + Len(d) /\ a + Len(d) <= Len(w)
        /\ \A k \in 1..Len(d) : w[a + k] = d[k]
    <3>1. f[i] = a + Len(d) /\ Len(d) \in Nat /\ \A k \in 1..Len(d) : w[a + k] = d[k]
      BY <1>2, <1>3 DEF D
    <3>2. a \in 0..Len(w) /\ f[i] \in 0..Len(w)
      BY <1>3, <2>1
    <3> HIDE DEF a, d
    <3> QED BY <1>2, <3>1, <3>2
  <2>3. d \in Seq(Owed)
    <3>1. s[i] \in Packets
      BY ElementOfSeq DEF n
    <3> QED BY <3>1, DueIsOwed
  <2>4. SubSeq(w, e[i - 1] + 1, e[i]) = x
    BY <1>5, <2>1, <2>2
  <2> HIDE DEF a, d
  <2>5. /\ x \in Seq(Owed) /\ Len(x) = Len(d)
        /\ \A k \in 1..Len(d) : x[k] = w[a + k]
    <3> HIDE DEF Owed
    <3> QED BY <2>2, PartOf
  <2> HIDE DEF x
  <2>6. x = d
    BY <2>2, <2>3, <2>5, SeqEqual
  <2> QED BY <2>4, <2>6 DEF d
<1> QED BY <1>2, <1>6, <1>7 DEF Divided, e, n

(* The answers to a command are those that the server gets for it. *)
LEMMA AnswersAreExpected ==
  ASSUME NEW w \in Known
  PROVE  CutAlong(Answers(w), Expected(w))
<1>1. \A what \in {"power", "config"} : \A status \in 0..2 :
        /\ Answer(what, status) \in Packets
        /\ Due(Answer(what, status)) = << <<what, status>> >>
        /\ <<what, status>> \in Owed
  BY DEF Answer, Packets, Due, Owed
<1>2. ASSUME NEW what \in {"power", "config"}, NEW status \in 0..2
      PROVE  CutAlong(<<Answer(what, status)>>, << <<what, status>> >>)
  BY <1>1, CutOfOne
<1>3. CASE w \in {"on", "off"}
  BY <1>2, <1>3 DEF Answers, Expected
<1>4. CASE w = "power?"
  BY <1>2, <1>4 DEF Answers, Expected
<1>5. CASE w = "load"
  BY <1>2, <1>5 DEF Answers, Expected
<1>6. CASE w = "config?"
  BY <1>2, <1>6 DEF Answers, Expected
<1>7. CASE w = "apply"
  <2> DEFINE p == Answer("config", 0)
  <2> DEFINE q == Answer("config", 2)
  <2> DEFINE x == <<"config", 0>>
  <2> DEFINE y == <<"config", 2>>
  <2>1. /\ p \in Packets /\ q \in Packets /\ x \in Owed /\ y \in Owed
        /\ CutAlong(<<p>>, <<x>>) /\ CutAlong(<<q>>, <<y>>)
    BY <1>1, <1>2
  <2>2. Answers(w) = <<p, q>> /\ Expected(w) = <<x, y>>
    BY <1>7 DEF Answers, Expected
  <2> HIDE DEF p, q, x, y, Owed, Packets
  <2>3. /\ <<p>> \in Seq(Packets) /\ <<q>> \in Seq(Packets) /\ <<x>> \in Seq(Owed) /\ <<y>> \in Seq(Owed)
        /\ <<p, q>> = <<p>> \o <<q>> /\ <<x, y>> = <<x>> \o <<y>>
    <3>1. <<p>> \in Seq(Packets) /\ <<q>> \in Seq(Packets)
      BY <2>1
    <3>2. <<x>> \in Seq(Owed) /\ <<y>> \in Seq(Owed)
      BY <2>1
    <3>3. <<p, q>> = <<p>> \o <<q>> /\ <<x, y>> = <<x>> \o <<y>>
      <4>1. \A S : \A m, n \in S : <<m, n>> = <<m>> \o <<n>>
        <5> TAKE S
        <5> TAKE m, n \in S
        <5>1. <<m>> \in Seq(S) /\ <<n>> \in Seq(S) /\ <<m, n>> \in Seq(S)
          OBVIOUS
        <5>2. Len(<<m>>) = 1 /\ Len(<<n>>) = 1 /\ Len(<<m, n>>) = 2
          OBVIOUS
        <5>3. /\ <<m>> \o <<n>> \in Seq(S) /\ Len(<<m>> \o <<n>>) = 2
              /\ \A i \in 1..2 : (<<m>> \o <<n>>)[i] = IF i <= 1 THEN <<m>>[i] ELSE <<n>>[i - 1]
          BY <5>1, <5>2, ConcatProperties
        <5>4. (<<m>> \o <<n>>)[1] = m /\ (<<m>> \o <<n>>)[2] = n
          BY <5>3
        <5>5. \A i \in 1..2 : (<<m>> \o <<n>>)[i] = <<m, n>>[i]
          BY <5>4
        <5> QED BY <5>1, <5>2, <5>3, <5>5, SeqEqual
      <4> QED BY <2>1, <4>1
    <3> QED BY <3>1, <3>2, <3>3
  <2>4. CutAlong(<<p>> \o <<q>>, <<x>> \o <<y>>)
    BY <2>1, <2>3, CutOfBoth
  <2> QED BY <2>2, <2>3, <2>4
<1> QED BY <1>3, <1>4, <1>5, <1>6, <1>7 DEF Known, PowerCommands, ConfigCommands

-----------------------------------------------------------------------------
(* A connection is in order when what the server waits for is cut along    *)
(* the stream to the server, and then along the stream to the application. *)
Order(s, a, w) ==
  \E u, v \in Seq(Owed) : w = u \o v /\ CutAlong(s, u) /\ CutAlong(a, v)

LEMMA OrderIsDivided ==
  ASSUME NEW s \in Seq(Packets), NEW a \in Seq(Packets), NEW w, Order(s, a, w)
  PROVE  Divided(w, s \o a)
<1>1. PICK u, v \in Seq(Owed) : w = u \o v /\ CutAlong(s, u) /\ CutAlong(a, v)
  BY DEF Order
<1>2. s \o a \in Seq(Packets) /\ u \o v \in Seq(Owed)
  BY ConcatProperties
<1>3. CutAlong(s \o a, u \o v)
  BY <1>1, CutOfBoth
<1> QED BY <1>1, <1>2, <1>3, EndsAreCut

(* Registrations and farewells are nothing to an order. *)
LEMMA OrderWithMore ==
  ASSUME NEW s \in Seq(Packets), NEW a, NEW w, Order(s, a, w),
         NEW t \in Seq(Packets), \A p \in Range(t) : Due(p) = <<>>
  PROVE  Order(s \o t, a, w)
<1>1. PICK u, v \in Seq(Owed) : w = u \o v /\ CutAlong(s, u) /\ CutAlong(a, v)
  BY DEF Order
<1>2. CutAlong(t, <<>>) /\ <<>> \in Seq(Owed)
  BY CutOfNothing
<1>3. CutAlong(s \o t, u \o <<>>)
  BY <1>1, <1>2, CutOfBoth
<1>4. u \o <<>> = u
  BY ConcatEmptySeq
<1> QED BY <1>1, <1>3, <1>4 DEF Order

(* An acknowledgement, or a command without an answer, is read. *)
LEMMA OrderWithoutFirst ==
  ASSUME NEW s, NEW a \in Seq(Packets), NEW w, Order(s, a, w), a # <<>>, Due(Head(a)) = <<>>
  PROVE  Order(s, Tail(a), w)
<1>1. PICK u, v \in Seq(Owed) : w = u \o v /\ CutAlong(s, u) /\ CutAlong(a, v)
  BY DEF Order
<1>2. PICK x \in Seq(Owed) : v = <<>> \o x /\ CutAlong(Tail(a), x)
  BY <1>1, CutOfRest
<1>3. v = x
  BY <1>2, ConcatEmptySeq
<1> QED BY <1>1, <1>2, <1>3 DEF Order

(* A command is read, and answered. *)
LEMMA OrderWithAnswers ==
  ASSUME NEW s \in Seq(Packets), NEW a \in Seq(Packets), NEW w, Order(s, a, w), a # <<>>,
         NEW x \in Known, Due(Head(a)) = Expected(x)
  PROVE  Order(s \o Answers(x), Tail(a), w)
<1>1. PICK u, v \in Seq(Owed) : w = u \o v /\ CutAlong(s, u) /\ CutAlong(a, v)
  BY DEF Order
<1>2. PICK y \in Seq(Owed) : v = Expected(x) \o y /\ CutAlong(Tail(a), y)
  BY <1>1, CutOfRest
<1>3. Expected(x) \in Seq(Owed)
  <2>1. Head(a) \in Packets
    BY HeadTailProperties
  <2> QED BY <2>1, DueIsOwed
<1>4. Answers(x) \in Seq(Packets) /\ CutAlong(Answers(x), Expected(x))
  BY AnswersAreAnswers, AnswersAreExpected
<1> DEFINE z == u \o Expected(x)
<1>5. CutAlong(s \o Answers(x), z)
  BY <1>1, <1>3, <1>4, CutOfBoth
<1>6. w = z \o y /\ z \in Seq(Owed)
  <2> DEFINE e == Expected(x)
  <2>1. e \in Seq(Owed) /\ w = u \o (e \o y) /\ z = u \o e
    BY <1>1, <1>2, <1>3
  <2> HIDE DEF e, z
  <2>2. (u \o e) \o y = u \o (e \o y)
    BY <2>1, ConcatAssociative
  <2>3. u \o e \in Seq(Owed)
    BY <2>1, ConcatProperties
  <2> QED BY <2>1, <2>2, <2>3
<1> HIDE DEF z
<1>7. w = z \o y /\ CutAlong(s \o Answers(x), z) /\ CutAlong(Tail(a), y)
  BY <1>2, <1>5, <1>6
<1> QED BY <1>6, <1>7 DEF Order

(* A packet is sent to the application. *)
LEMMA OrderWithNext ==
  ASSUME NEW s, NEW a \in Seq(Packets), NEW w, Order(s, a, w), NEW p \in Packets
  PROVE  Order(s, Append(a, p), w \o Due(p))
<1>1. PICK u, v \in Seq(Owed) : w = u \o v /\ CutAlong(s, u) /\ CutAlong(a, v)
  BY DEF Order
<1>2. CutAlong(<<p>>, Due(p)) /\ Due(p) \in Seq(Owed)
  BY CutOfOne, DueIsOwed
<1>3. <<p>> \in Seq(Packets) /\ Append(a, p) = a \o <<p>>
  <2>1. <<p>> \in Seq(Packets)
    OBVIOUS
  <2>2. Append(a, p) = a \o <<p>>
    BY AppendIsConcat
  <2> QED BY <2>1, <2>2
<1>4. CutAlong(Append(a, p), v \o Due(p))
  BY <1>1, <1>2, <1>3, CutOfBoth
<1>5. w \o Due(p) = u \o (v \o Due(p)) /\ v \o Due(p) \in Seq(Owed)
  BY <1>1, <1>2, ConcatAssociative, ConcatProperties
<1> QED BY <1>1, <1>4, <1>5 DEF Order

(* The server reads a packet. *)
LEMMA OrderWithoutRead ==
  ASSUME NEW s \in Seq(Packets), NEW a, NEW w, Order(s, a, w), s # <<>>
  PROVE  \E x \in Seq(Owed) : w = Due(Head(s)) \o x /\ Order(Tail(s), a, x)
<1>1. PICK u, v \in Seq(Owed) : w = u \o v /\ CutAlong(s, u) /\ CutAlong(a, v)
  BY DEF Order
<1>2. PICK y \in Seq(Owed) : u = Due(Head(s)) \o y /\ CutAlong(Tail(s), y)
  BY <1>1, CutOfRest
<1>3. Due(Head(s)) \in Seq(Owed)
  <2>1. Head(s) \in Packets
    BY HeadTailProperties
  <2> QED BY <2>1, DueIsOwed
<1>4. w = Due(Head(s)) \o (y \o v) /\ y \o v \in Seq(Owed)
  BY <1>1, <1>2, <1>3, ConcatAssociative, ConcatProperties
<1> QED BY <1>1, <1>2, <1>4 DEF Order

(* What the streams to the application carry. *)
StreamKinds ==
  \A c \in Connections : \A p \in Range(toApp[c]) :
    \/ p.kind = "ack" /\ p.what \in Roles
    \/ p.kind = "command" /\ p.what \in Commands

AnswerInv ==
  /\ StreamKinds
  /\ awaited \in [Connections -> Seq(Owed)]
  /\ \A c \in Connections : Order(toServer[c], toApp[c], awaited[c])

(* The request that the server reads is that of a role. *)
LEMMA RequestsAreOfRoles ==
  ASSUME IInv, NEW c \in Connections, toServer[c] # <<>>
  PROVE  /\ Head(toServer[c]) \in Packets
         /\ Head(toServer[c]).kind = "register" => Head(toServer[c]).what \in Roles
<1>1. toServer[c] \in Seq(Packets)
  BY DEF IInv, Types
<1>2. Head(toServer[c]) \in Packets /\ Head(toServer[c]) \in Range(toServer[c])
  BY <1>1, StreamMembers, HeadTailProperties
<1>3. DOMAIN address \subseteq Roles
  BY PlanFacts DEF IInv, Types
<1> QED BY <1>2, <1>3 DEF IInv, RolesAreConfigured

LEMMA KindsKept ==
  ASSUME IInv, StreamKinds, [Next]_vars
  PROVE  StreamKinds'
<1> DEFINE Kind(p) == \/ p.kind = "ack" /\ p.what \in Roles
                      \/ p.kind = "command" /\ p.what \in Commands
<1>1. toApp \in [Connections -> Seq(Packets)]
  BY DEF IInv, Types
<1>2. ASSUME Connections' = Connections,
             \A d \in Connections : \A q \in Range(toApp'[d]) : q \in Range(toApp[d]) \/ Kind(q)
      PROVE  StreamKinds'
  BY <1>2 DEF StreamKinds
<1>3. CASE Connections' = Connections /\ toApp' = toApp
  BY <1>2, <1>3
<1> HIDE DEF Kind
<1>4. CASE Register \/ Refused \/ ConnectFails \/ Built \/ BeginPass \/ NextConnection \/ Free
  <2>1. UNCHANGED config /\ toApp' = toApp
    BY <1>4 DEF Register, Refused, ConnectFails, Built, BeginPass, NextConnection, Free
  <2> QED BY <1>3, <2>1, SameConfig
<1>5. ASSUME NEW c, UNCHANGED config, c \in Connections => toApp[c] # <<>>, TakesFirst(toApp, toApp', c)
      PROVE  StreamKinds'
  <2>1. \A d \in Connections : Range(toApp'[d]) \subseteq Range(toApp[d])
    BY <1>1, <1>5, StreamsTakeFirst
  <2> QED BY <1>2, <1>5, <2>1, SameConfig
<1>6. CASE Acknowledged
  BY <1>5, <1>6 DEF Acknowledged, Arrived, TakesFirst
<1>7. CASE Handle
  BY <1>5, <1>7 DEF Handle, Whole, NothingWhole, Arrived, TakesFirst
<1>8. CASE Throw
  <2>1. UNCHANGED config /\ toApp[Current] # <<>>
        /\ (toApp' = toApp \/ TakesFirst(toApp, toApp', Current))
    BY <1>8 DEF Throw, Whole, NothingWhole, Arrived, TakesFirst
  <2> QED BY <1>3, <1>5, <2>1, SameConfig
<1>9. ASSUME NEW c \in Connections, NEW w \in Commands, SendCommand(c, w)
      PROVE  StreamKinds'
  <2> DEFINE p == Command(w)
  <2>1. UNCHANGED config /\ Adds(toApp, toApp', c, p)
    BY <1>9 DEF SendCommand, Transmit, Adds
  <2>2. p \in Packets /\ Kind(p)
    BY DEF Command, Packets, Kind
  <2> HIDE DEF p
  <2>3. \A d \in Connections : \A q \in Range(toApp'[d]) : q \in Range(toApp[d]) \/ q = p
    BY <1>1, <2>1, <2>2, StreamsAdd
  <2> QED BY <1>2, <2>1, <2>2, <2>3, SameConfig
<1>10. ASSUME NEW c \in Connections, ServerReceive(c)
       PROVE  StreamKinds'
  <2> DEFINE h == Head(toServer[c])
  <2>1. UNCHANGED config /\ toServer[c] # <<>>
    BY <1>10 DEF ServerReceive
  <2>2. CASE h.kind = "register"
    <3>1. \E status \in {0, 1} : Adds(toApp, toApp', c, Ack(h.what, status))
      BY <1>10, <2>2 DEF ServerReceive, Transmit, Adds
    <3>2. PICK status \in {0, 1} : Adds(toApp, toApp', c, Ack(h.what, status))
      BY <3>1
    <3> DEFINE p == Ack(h.what, status)
    <3>3. p \in Packets /\ Kind(p)
      BY <2>1, <2>2, RequestsAreOfRoles DEF Ack, Packets, Kind
    <3>4. Adds(toApp, toApp', c, p)
      BY <3>2
    <3> HIDE DEF p
    <3>5. \A d \in Connections : \A q \in Range(toApp'[d]) : q \in Range(toApp[d]) \/ q = p
      BY <1>1, <3>3, <3>4, StreamsAdd
    <3> QED BY <1>2, <2>1, <3>3, <3>5, SameConfig
  <2>3. CASE h.kind # "register"
    <3>1. toApp' = toApp
      BY <1>10, <2>3 DEF ServerReceive
    <3> QED BY <1>3, <2>1, <3>1, SameConfig
  <2> QED BY <2>2, <2>3
<1>11. ASSUME NEW c \in Connections, RestArrives(c)
       PROVE  StreamKinds'
  BY <1>3, <1>11, SameConfig DEF RestArrives
<1>12. CASE UNCHANGED vars
  BY <1>3, <1>12, SameConfig DEF vars
<1> QED BY <1>4, <1>6, <1>7, <1>8, <1>9, <1>10, <1>11, <1>12 DEF Next

LEMMA AnswersKept ==
  ASSUME IInv, AnswerInv, [Next]_vars
  PROVE  AnswerInv'
<1> DEFINE O(c) == Order(toServer[c], toApp[c], awaited[c])
<1>1. /\ toApp \in [Connections -> Seq(Packets)]
      /\ toServer \in [Connections -> Seq(Packets)]
      /\ awaited \in [Connections -> Seq(Owed)]
      /\ \A c \in Connections : O(c)
      /\ StreamKinds
  BY DEF IInv, Types, AnswerInv
<1>2. StreamKinds'
  BY <1>1, KindsKept
<1>3. ASSUME UNCHANGED config, awaited' \in [Connections -> Seq(Owed)], \A c \in Connections : O(c)'
      PROVE  AnswerInv'
  BY <1>2, <1>3, SameConfig DEF AnswerInv
<1>4. CASE UNCHANGED <<config, toApp, toServer, awaited>>
  BY <1>1, <1>3, <1>4
<1>5. CASE Built \/ BeginPass \/ NextConnection
  <2>1. UNCHANGED <<config, toApp, toServer, awaited>>
    BY <1>5 DEF Built, BeginPass, NextConnection, server
  <2> QED BY <1>4, <2>1
<1>6. CASE Register
  <2> DEFINE p == Registration(Role)
  <2>1. UNCHANGED config /\ UNCHANGED <<toApp, awaited>>
        /\ toServer' = [toServer EXCEPT ![address[Role]] = Append(@, p)]
    BY <1>6 DEF Register, server
  <2>2. p \in Packets
    <3>1. step <= Len(Plan) /\ step \in 1..Len(Plan) + 1
      BY <1>6 DEF Register, IInv, Types
    <3>2. Role \in DOMAIN address /\ DOMAIN address \subseteq Roles
      BY <3>1, PlanFacts DEF IInv, Types, Role
    <3> QED BY <3>2 DEF Registration, Packets
  <2>3. Due(p) = <<>>
    BY DEF Registration, Due
  <2> HIDE DEF p
  <2>4. ASSUME NEW c \in Connections, toServer'[c] # toServer[c]
        PROVE  toServer'[c] = toServer[c] \o <<p>>
    <3>1. toServer'[c] = Append(toServer[c], p) /\ toServer[c] \in Seq(Packets)
      BY <1>1, <2>1, <2>4
    <3> QED BY <2>2, <3>1, AppendIsConcat
  <2>5. <<p>> \in Seq(Packets) /\ \A q \in Range(<<p>>) : Due(q) = <<>>
    BY <2>2, <2>3 DEF Range
  <2>6. ASSUME NEW c \in Connections
        PROVE  O(c)'
    <3>1. toServer[c] \in Seq(Packets) /\ O(c)
      BY <1>1
    <3>2. Order(toServer[c] \o <<p>>, toApp[c], awaited[c])
      BY <2>5, <3>1, OrderWithMore
    <3> QED BY <2>1, <2>4, <3>1, <3>2
  <2> QED BY <1>1, <1>3, <2>1, <2>6
<1>7. CASE Refused \/ ConnectFails \/ Free
  <2>1. UNCHANGED config /\ UNCHANGED <<toApp, awaited>>
        /\ (Unregister \/ UNCHANGED toServer)
    BY <1>7 DEF Refused, ConnectFails, Free, server
  <2>2. CASE Unregister
    <3>1. ASSUME NEW c \in Connections
          PROVE  O(c)'
      <4>1. /\ toServer'[c] = toServer[c] \o Farewells(c)
            /\ toServer[c] \in Seq(Packets) /\ Farewells(c) \in Seq(Packets)
        BY <2>1, <2>2, FarewellsFollow
      <4>2. \A p \in Range(Farewells(c)) : Due(p) = <<>>
        BY FarewellsArePackets DEF Due
      <4>3. O(c)
        BY <1>1
      <4>4. Order(toServer[c] \o Farewells(c), toApp[c], awaited[c])
        BY <4>1, <4>2, <4>3, OrderWithMore
      <4> QED BY <2>1, <4>1, <4>4
    <3> QED BY <1>1, <1>3, <2>1, <3>1
  <2>3. CASE UNCHANGED toServer
    BY <1>4, <2>1, <2>3
  <2> QED BY <2>1, <2>2, <2>3
<1>8. ASSUME NEW c, UNCHANGED <<config, toServer, awaited>>,
             toApp' = [toApp EXCEPT ![c] = Tail(@)],
             c \in Connections => toApp[c] # <<>> /\ Due(Head(toApp[c])) = <<>>
      PROVE  AnswerInv'
  <2>1. ASSUME NEW d \in Connections
        PROVE  O(d)'
    <3>1. O(d) /\ toApp[d] \in Seq(Packets)
      BY <1>1
    <3>2. CASE d # c
      BY <1>1, <1>8, <3>1, <3>2
    <3>3. CASE d = c
      <4>1. toApp'[d] = Tail(toApp[d]) /\ toApp[d] # <<>> /\ Due(Head(toApp[d])) = <<>>
        BY <1>1, <1>8, <3>3
      <4>2. Order(toServer[d], Tail(toApp[d]), awaited[d])
        BY <3>1, <4>1, OrderWithoutFirst
      <4> QED BY <1>8, <4>1, <4>2
    <3> QED BY <3>2, <3>3
  <2> QED BY <1>1, <1>3, <1>8, <2>1
<1>9. CASE Acknowledged
  <2> DEFINE c == address[Role]
  <2>1. /\ UNCHANGED <<config, toServer, awaited>>
        /\ toApp' = [toApp EXCEPT ![c] = Tail(@)]
        /\ toApp[c] # <<>> /\ Head(toApp[c]) = Ack(Role, 0)
    BY <1>9 DEF Acknowledged, Arrived, IsAck, server
  <2>2. Due(Head(toApp[c])) = <<>>
    BY <2>1 DEF Ack, Due
  <2> HIDE DEF c
  <2> QED BY <1>8, <2>1, <2>2
<1>10. CASE Throw
  <2> DEFINE c == Current
  <2>1. /\ UNCHANGED <<config, toServer, awaited>>
        /\ toApp' = toApp \/ toApp' = [toApp EXCEPT ![c] = Tail(@)]
        /\ toApp[c] # <<>> /\ Head(toApp[c]).what \notin Known
    BY <1>10 DEF Throw, Whole, Word, NothingWhole, Arrived, server
  <2>2. c \in Connections => Due(Head(toApp[c])) = <<>>
    <3> HAVE c \in Connections
    <3> DEFINE p == Head(toApp[c])
    <3>1. p \in Range(toApp[c])
      BY <1>1, <2>1, StreamMembers
    <3>2. p.kind = "ack" \/ p.kind = "command"
      BY <1>1, <3>1 DEF StreamKinds
    <3>3. p.kind = "ack" => Due(p) = <<>>
      BY DEF Due
    <3>4. p.kind = "command" => Due(p) = Expected(p.what)
      BY DEF Due
    <3>5. Expected(p.what) = <<>>
      BY <2>1 DEF Expected, Known, PowerCommands, ConfigCommands
    <3> QED BY <3>2, <3>3, <3>4, <3>5
  <2> HIDE DEF c
  <2>3. CASE toApp' = toApp
    BY <1>4, <2>1, <2>3
  <2> QED BY <1>8, <2>1, <2>2, <2>3
<1>11. CASE Handle
  <2> DEFINE c == Current
  <2>1. /\ UNCHANGED <<config, awaited>>
        /\ Word \in Known /\ Word = Head(toApp[c]).what /\ toApp[c] # <<>>
        /\ toApp' = [toApp EXCEPT ![c] = Tail(@)]
        /\ toServer' = [toServer EXCEPT ![c] = @ \o Answers(Word)]
    BY <1>11 DEF Handle, Whole, Word, NothingWhole, Arrived, server
  <2>2. c \in Connections => Due(Head(toApp[c])) = Expected(Word)
    <3> HAVE c \in Connections
    <3> DEFINE p == Head(toApp[c])
    <3>1. p \in Range(toApp[c])
      BY <1>1, <2>1, StreamMembers
    <3>2. (p.kind = "ack" /\ p.what \in Roles) \/ p.kind = "command"
      BY <1>1, <3>1 DEF StreamKinds
    <3>3. p.what \notin Roles
      BY <2>1 DEF Known, PowerCommands, ConfigCommands, Roles
    <3> QED BY <2>1, <3>2, <3>3 DEF Due
  <2> HIDE DEF c
  <2>3. ASSUME NEW d \in Connections
        PROVE  O(d)'
    <3>1. O(d) /\ toApp[d] \in Seq(Packets) /\ toServer[d] \in Seq(Packets)
      BY <1>1
    <3>2. CASE d # c
      BY <1>1, <2>1, <3>1, <3>2
    <3>3. CASE d = c
      <4>1. /\ toApp'[d] = Tail(toApp[d]) /\ toServer'[d] = toServer[d] \o Answers(Word)
            /\ toApp[d] # <<>> /\ Due(Head(toApp[d])) = Expected(Word)
        BY <1>1, <2>1, <2>2, <3>3
      <4>2. Order(toServer[d] \o Answers(Word), Tail(toApp[d]), awaited[d])
        BY <2>1, <3>1, <4>1, OrderWithAnswers
      <4> QED BY <2>1, <4>1, <4>2
    <3> QED BY <3>2, <3>3
  <2> QED BY <1>1, <1>3, <2>1, <2>3
<1>12. ASSUME NEW c \in Connections, NEW w \in Commands, SendCommand(c, w)
       PROVE  AnswerInv'
  <2> DEFINE p == Command(w)
  <2>1. /\ UNCHANGED <<config, toServer>>
        /\ toApp' = [toApp EXCEPT ![c] = Append(@, p)]
        /\ awaited' = [awaited EXCEPT ![c] = @ \o Expected(w)]
    BY <1>12 DEF SendCommand, Transmit
  <2>2. p \in Packets /\ Due(p) = Expected(w)
    BY DEF Command, Packets, Due
  <2> HIDE DEF p
  <2>3. Expected(w) \in Seq(Owed)
    BY <2>2, DueIsOwed
  <2>4. awaited' \in [Connections -> Seq(Owed)]
    <3>1. awaited[c] \o Expected(w) \in Seq(Owed)
      BY <1>1, <2>3, ConcatProperties
    <3> QED BY <1>1, <2>1, <3>1
  <2>5. ASSUME NEW d \in Connections
        PROVE  O(d)'
    <3>1. O(d) /\ toApp[d] \in Seq(Packets)
      BY <1>1
    <3>2. CASE d # c
      BY <1>1, <2>1, <3>1, <3>2
    <3>3. CASE d = c
      <4>1. toApp'[d] = Append(toApp[d], p) /\ awaited'[d] = awaited[d] \o Due(p)
        BY <1>1, <2>1, <2>2, <3>3
      <4>2. Order(toServer[d], Append(toApp[d], p), awaited[d] \o Due(p))
        BY <2>2, <3>1, OrderWithNext
      <4> QED BY <2>1, <4>1, <4>2
    <3> QED BY <3>2, <3>3
  <2> QED BY <1>3, <2>1, <2>4, <2>5
<1>13. ASSUME NEW c \in Connections, ServerReceive(c)
       PROVE  AnswerInv'
  <2> DEFINE s == toServer[c]
  <2> DEFINE h == Head(s)
  <2> DEFINE w == awaited[c]
  <2>1. /\ UNCHANGED config /\ s # <<>> /\ s \in Seq(Packets) /\ O(c)
        /\ toServer' = [toServer EXCEPT ![c] = Tail(@)]
    BY <1>1, <1>13 DEF ServerReceive
  <2>2. PICK x \in Seq(Owed) : w = Due(h) \o x /\ Order(Tail(s), toApp[c], x)
    BY <2>1, OrderWithoutRead
  <2>3. <<>> \o x = x
    BY ConcatEmptySeq
  <2>4. CASE h.kind = "register"
    <3>1. awaited' = awaited
          /\ \E status \in {0, 1} : toApp' = [toApp EXCEPT ![c] = Append(@, Ack(h.what, status))]
      BY <1>13, <2>4 DEF ServerReceive, Transmit
    <3>2. PICK status \in {0, 1} : toApp' = [toApp EXCEPT ![c] = Append(@, Ack(h.what, status))]
      BY <3>1
    <3> DEFINE p == Ack(h.what, status)
    <3>3. p \in Packets /\ Due(p) = <<>>
      BY <2>1, <2>4, RequestsAreOfRoles DEF Ack, Packets, Due
    <3>4. w = x
      BY <2>2, <2>3, <2>4 DEF Due
    <3>5. toApp' = [toApp EXCEPT ![c] = Append(@, p)]
      BY <3>2
    <3> HIDE DEF p, h
    <3>6. Order(Tail(s), Append(toApp[c], p), x \o <<>>)
      BY <1>1, <2>2, <3>3, OrderWithNext
    <3>7. x \o <<>> = x
      BY ConcatEmptySeq
    <3>8. toServer'[c] = Tail(s) /\ toApp'[c] = Append(toApp[c], p) /\ awaited'[c] = w
      BY <1>1, <2>1, <3>1, <3>5
    <3>9. O(c)'
      BY <3>4, <3>6, <3>7, <3>8
    <3>10. \A d \in Connections : d # c => O(d)'
      BY <1>1, <2>1, <3>1, <3>5
    <3> QED BY <1>1, <1>3, <2>1, <3>1, <3>9, <3>10
  <2>5. CASE h.kind = "unregister"
    <3>1. UNCHANGED <<toApp, awaited>>
      BY <1>13, <2>5 DEF ServerReceive
    <3>2. w = x
      BY <2>2, <2>3, <2>5 DEF Due
    <3>3. toServer'[c] = Tail(s)
      BY <1>1, <2>1
    <3>4. O(c)'
      BY <2>2, <3>1, <3>2, <3>3
    <3>5. \A d \in Connections : d # c => O(d)'
      BY <1>1, <2>1, <3>1
    <3> QED BY <1>1, <1>3, <2>1, <3>1, <3>4, <3>5
  <2>6. CASE h.kind = "answer"
    <3> DEFINE a == <<h.what, h.status>>
    <3>1. toApp' = toApp
          /\ awaited' = [awaited EXCEPT ![c] = IF @ = <<>> THEN @ ELSE Tail(@)]
      BY <1>13, <2>6 DEF ServerReceive
    <3>2. w = <<a>> \o x /\ a \in Owed
      <4>1. Due(h) = <<a>>
        BY <2>6 DEF Due
      <4>2. h \in Packets
        BY <2>1, RequestsAreOfRoles
      <4> QED BY <2>2, <4>1, <4>2 DEF Packets, Owed
    <3> HIDE DEF a, h
    <3>3. w # <<>> /\ Tail(w) = x
      <4>1. <<a>> \in Seq(Owed) /\ Len(<<a>>) = 1
        BY <3>2
      <4>2. Len(w) = 1 + Len(x) /\ w \in Seq(Owed)
            /\ \A i \in 1..1 + Len(x) : w[i] = IF i <= 1 THEN <<a>>[i] ELSE x[i - 1]
        BY <3>2, <4>1, ConcatProperties
      <4>3. Len(x) \in Nat /\ w # <<>>
        BY <4>2, LenProperties, EmptySeq
      <4>4. Tail(w) \in Seq(Owed) /\ Len(Tail(w)) = Len(w) - 1
            /\ \A i \in 1..Len(Tail(w)) : Tail(w)[i] = w[i + 1]
        BY <4>2, <4>3, HeadTailProperties
      <4> HIDE DEF w
      <4>5. Len(Tail(w)) = Len(x)
        BY <4>2, <4>3, <4>4
      <4>6. \A i \in 1..Len(Tail(w)) : Tail(w)[i] = x[i]
        <5> TAKE i \in 1..Len(Tail(w))
        <5>1. i + 1 \in 1..1 + Len(x) /\ ~(i + 1 <= 1) /\ (i + 1) - 1 = i
          BY <4>3, <4>5
        <5> QED BY <4>2, <4>4, <5>1
      <4> QED BY <4>3, <4>4, <4>5, <4>6, SeqEqual
    <3>4. toServer'[c] = Tail(s) /\ awaited'[c] = x
      BY <1>1, <2>1, <3>1, <3>3
    <3>5. awaited' \in [Connections -> Seq(Owed)]
      BY <1>1, <3>1, <3>3
    <3>6. O(c)'
      BY <2>2, <3>1, <3>4
    <3>7. \A d \in Connections : d # c => O(d)'
      BY <1>1, <2>1, <3>1
    <3> QED BY <1>3, <2>1, <3>5, <3>6, <3>7
  <2> QED BY <1>13, <2>4, <2>5, <2>6 DEF ServerReceive
<1>14. ASSUME NEW c \in Connections, RestArrives(c)
       PROVE  AnswerInv'
  BY <1>4, <1>14 DEF RestArrives, server
<1>15. CASE UNCHANGED vars
  BY <1>4, <1>15 DEF vars, server
<1> QED BY <1>5, <1>6, <1>7, <1>9, <1>10, <1>11, <1>12, <1>13, <1>14, <1>15 DEF Next

LEMMA StreamsStartInOrder == Init => AnswerInv
<1> SUFFICES ASSUME Init PROVE AnswerInv
  OBVIOUS
<1>1. /\ toApp = [c \in Connections |-> <<>>]
      /\ toServer = [c \in Connections |-> <<>>]
      /\ awaited = [c \in Connections |-> <<>>]
  BY DEF Init
<1>2. Range(<<>>) = {} /\ \A S : <<>> \in Seq(S)
  BY DEF Range
<1>3. CutAlong(<<>>, <<>>)
  BY <1>2, CutOfNothing
<1>4. <<>> \o <<>> = <<>>
  <2>1. <<>> \in Seq({})
    BY <1>2
  <2> QED BY <2>1, ConcatEmptySeq
<1>5. Order(<<>>, <<>>, <<>>)
  BY <1>2, <1>3, <1>4 DEF Order
<1> QED BY <1>1, <1>2, <1>5 DEF AnswerInv, StreamKinds

(* Every command is answered, once, in order and with the right status:    *)
(* what the server waits for is cut along the packets under way, whatever  *)
(* the phase.                                                              *)
THEOREM AnswersComeInOrder == Spec => []AnsweredInOrder
<1>1. Init => AnswerInv
  BY StreamsStartInOrder
<1>2. IInv /\ AnswerInv /\ [Next]_vars => AnswerInv'
  BY AnswersKept
<1>3. IInv /\ AnswerInv => AnsweredInOrder
  <2> SUFFICES ASSUME IInv, AnswerInv, NEW c \in Connections
               PROVE  Divided(awaited[c], UnderWay(c))
    BY DEF AnsweredInOrder
  <2>1. /\ toServer[c] \in Seq(Packets) /\ toApp[c] \in Seq(Packets)
        /\ Order(toServer[c], toApp[c], awaited[c])
    BY DEF IInv, Types, AnswerInv
  <2> QED BY <2>1, OrderIsDivided DEF UnderWay
<1> QED BY InductiveInvariant, <1>1, <1>2, <1>3, PTL DEF Spec

-----------------------------------------------------------------------------
(* The power after a command, read or sent. *)
After(w, before) == CASE w = "on" -> TRUE [] w = "off" -> FALSE [] OTHER -> before

LEMMA LeadToAfterRead ==
  ASSUME NEW s \in Seq(Packets), s # <<>>, NEW b \in BOOLEAN, NEW a \in BOOLEAN, LeadTo(s, b, a)
  PROVE  LeadTo(Tail(s), After(Head(s).what, b), a)
<1> DEFINE n == Len(s)
<1> DEFINE t == Tail(s)
<1> DEFINE On(i) == s[i].what \in {"on", "off"}
<1>1. n \in Nat \ {0} /\ DOMAIN s = 1..n /\ Head(s) = s[1]
  BY EmptySeq, LenProperties
<1>2. DOMAIN t = 1..(n - 1) /\ \A i \in 1..(n - 1) : t[i] = s[i + 1]
  <2>1. t \in Seq(Packets) /\ Len(t) = n - 1 /\ \A i \in 1..Len(t) : t[i] = s[i + 1]
    BY HeadTailProperties
  <2>2. DOMAIN t = 1..Len(t)
    BY <2>1, LenProperties
  <2> QED BY <2>1, <2>2
<1>3. Switches(s) = {i \in 1..n : On(i)}
  BY <1>1 DEF Switches
<1>4. Switches(t) = {i \in 1..(n - 1) : On(i + 1)}
  BY <1>2 DEF Switches
<1> HIDE DEF n, t
<1>5. \A i \in Switches(t) : i \in 1..(n - 1) /\ i + 1 \in Switches(s)
  BY <1>1, <1>3, <1>4
<1>6. CASE Switches(s) = {} /\ a = b
  <2>1. Switches(t) = {}
    BY <1>5, <1>6
  <2>2. ~On(1)
    BY <1>1, <1>3, <1>6
  <2>3. After(Head(s).what, b) = a
    BY <1>1, <1>6, <2>2 DEF After
  <2> QED BY <2>1, <2>3 DEF LeadTo, t
<1>7. ASSUME NEW i \in Switches(s), \A j \in Switches(s) : j <= i,
             s[i].what = IF a THEN "on" ELSE "off"
      PROVE  LeadTo(t, After(Head(s).what, b), a)
  <2>1. CASE i = 1
    <3>1. Switches(t) = {}
      <4> SUFFICES ASSUME NEW j \in Switches(t) PROVE FALSE
        OBVIOUS
      <4>1. j \in 1..(n - 1) /\ j + 1 <= 1
        BY <1>5, <1>7, <2>1
      <4> QED BY <1>1, <4>1
    <3>2. After(Head(s).what, b) = a
      <4>1. CASE a
        BY <1>1, <1>7, <2>1, <4>1 DEF After
      <4>2. CASE ~a
        BY <1>1, <1>7, <2>1, <4>2 DEF After
      <4> QED BY <4>1, <4>2
    <3> QED BY <3>1, <3>2 DEF LeadTo
  <2>2. CASE i # 1
    <3>1. i \in 1..n /\ On(i) /\ i - 1 \in 1..(n - 1) /\ (i - 1) + 1 = i
      BY <1>1, <1>3, <1>7, <2>2
    <3>2. i - 1 \in Switches(t) /\ t[i - 1].what = IF a THEN "on" ELSE "off"
      BY <1>2, <1>4, <1>7, <3>1 DEF n, t
    <3>3. \A j \in Switches(t) : j <= i - 1
      <4> TAKE j \in Switches(t)
      <4>1. j \in 1..(n - 1) /\ j + 1 <= i
        BY <1>5, <1>7
      <4> QED BY <1>1, <3>1, <4>1
    <3> QED BY <3>2, <3>3 DEF LeadTo
  <2> QED BY <2>1, <2>2
<1> QED BY <1>6, <1>7 DEF LeadTo, t

LEMMA LeadToAfterSent ==
  ASSUME NEW s \in Seq(Packets), NEW p \in Packets, NEW b \in BOOLEAN, NEW a \in BOOLEAN,
         LeadTo(s, b, a)
  PROVE  LeadTo(Append(s, p), b, After(p.what, a))
<1> DEFINE n == Len(s)
<1> DEFINE t == Append(s, p)
<1>1. n \in Nat /\ DOMAIN s = 1..n
  BY LenProperties
<1>2. DOMAIN t = 1..(n + 1) /\ t[n + 1] = p /\ \A i \in 1..n : t[i] = s[i]
  <2>1. t \in Seq(Packets) /\ Len(t) = n + 1 /\ t[n + 1] = p /\ \A i \in 1..n : t[i] = s[i]
    BY AppendProperties
  <2>2. DOMAIN t = 1..Len(t)
    BY <2>1, LenProperties
  <2> QED BY <2>1, <2>2
<1> HIDE DEF n, t
<1>3. Switches(s) = {i \in 1..n : s[i].what \in {"on", "off"}}
  BY <1>1 DEF Switches
<1>4. Switches(t) = {i \in 1..(n + 1) : t[i].what \in {"on", "off"}}
  BY <1>2 DEF Switches
<1>5. CASE p.what \in {"on", "off"}
  <2>1. n + 1 \in Switches(t) /\ \A j \in Switches(t) : j <= n + 1
    BY <1>1, <1>2, <1>4, <1>5
  <2>2. t[n + 1].what = IF After(p.what, a) THEN "on" ELSE "off"
    BY <1>2, <1>5 DEF After
  <2> QED BY <2>1, <2>2 DEF LeadTo, t
<1>6. CASE p.what \notin {"on", "off"}
  <2>1. After(p.what, a) = a
    BY <1>6 DEF After
  <2>2. \A i : i \in Switches(t) <=> i \in Switches(s)
    <3> TAKE i
    <3>1. i \in 1..(n + 1) <=> i \in 1..n \/ i = n + 1
      BY <1>1
    <3> QED BY <1>2, <1>3, <1>4, <1>6, <3>1
  <2>3. \A i \in Switches(s) : t[i] = s[i]
    BY <1>2, <1>3
  <2> QED BY <2>1, <2>2, <2>3 DEF LeadTo, t
<1> QED BY <1>5, <1>6

(* Only the connection of the power supply controller carries switches. *)
PowerInv ==
  /\ power \in BOOLEAN /\ wanted \in BOOLEAN
  /\ \A c \in Connections : \A p \in Range(toApp[c]) :
       p.what \in {"on", "off"} => "power" \in DOMAIN address /\ address["power"] = c
  /\ "power" \in DOMAIN address => LeadTo(toApp[address["power"]], power, wanted)

LEMMA PowerKept ==
  ASSUME IInv, ImportsWhenRunning, StreamKinds, PowerInv, [Next]_vars
  PROVE  PowerInv'
<1> DEFINE S == {"on", "off"}
<1> DEFINE D == DOMAIN address
<1> DEFINE P == address["power"]
<1>1. /\ toApp \in [Connections -> Seq(Packets)]
      /\ power \in BOOLEAN /\ wanted \in BOOLEAN
      /\ \A c \in Connections : \A p \in Range(toApp[c]) :
           p.what \in S => "power" \in D /\ P = c
      /\ "power" \in D => LeadTo(toApp[P], power, wanted) /\ P \in Connections
  BY PlanFacts DEF IInv, Types, PowerInv
<1>2. CASE UNCHANGED <<config, toApp, power, wanted>>
  BY <1>1, <1>2, SameConfig DEF PowerInv
<1>3. CASE \/ Register \/ Refused \/ ConnectFails \/ Built \/ BeginPass \/ NextConnection \/ Free
  <2>1. UNCHANGED <<config, toApp, power, wanted>>
    BY <1>3 DEF Register, Refused, ConnectFails, Built, BeginPass, NextConnection, Free, server
  <2> QED BY <1>2, <2>1
<1>4. ASSUME NEW c \in Connections, UNCHANGED <<config, wanted>>, toApp[c] # <<>>,
             toApp' = [toApp EXCEPT ![c] = Tail(@)],
             power' = After(Head(toApp[c]).what, power)
      PROVE  PowerInv'
  <2>1. \A d \in Connections : Range(toApp'[d]) \subseteq Range(toApp[d])
    <3>1. toApp' = [toApp EXCEPT ![c] = Tail(@)]
      BY <1>4
    <3>2. TakesFirst(toApp, toApp', c)
      BY <3>1 DEF TakesFirst
    <3>3. toApp \in [Connections -> Seq(Packets)] /\ toApp[c] # <<>>
      BY <1>1, <1>4
    <3> QED BY <3>2, <3>3, StreamsTakeFirst
  <2>2. power' \in BOOLEAN
    BY <1>1, <1>4 DEF After
  <2>3. ASSUME "power" \in D
        PROVE  LeadTo(toApp'[P], power', wanted)
    <3>1. P \in Connections /\ toApp[P] \in Seq(Packets) /\ LeadTo(toApp[P], power, wanted)
      BY <1>1, <2>3
    <3>2. CASE P = c
      <4>1. toApp'[P] = Tail(toApp[P]) /\ toApp[P] # <<>>
        BY <1>1, <1>4, <3>1, <3>2
      <4>2. LeadTo(Tail(toApp[P]), After(Head(toApp[P]).what, power), wanted)
        BY <1>1, <3>1, <4>1, LeadToAfterRead
      <4> QED BY <1>4, <3>2, <4>1, <4>2
    <3>3. CASE P # c
      <4>1. toApp'[P] = toApp[P]
        BY <1>1, <1>4, <3>1, <3>3
      <4>2. Head(toApp[c]) \in Range(toApp[c])
        BY <1>1, <1>4, StreamMembers
      <4>3. Head(toApp[c]).what \notin S
        BY <1>1, <3>3, <4>2
      <4>4. power' = power
        BY <1>4, <4>3 DEF After
      <4> QED BY <3>1, <4>1, <4>4
    <3> QED BY <3>2, <3>3
  <2> QED BY <1>1, <1>4, <2>1, <2>2, <2>3, SameConfig DEF PowerInv
(* A packet is sent on a connection. *)
<1>5. ASSUME NEW c \in Connections, UNCHANGED <<config, power>>, NEW p \in Packets,
             toApp' = [toApp EXCEPT ![c] = Append(@, p)],
             wanted' = After(p.what, wanted),
             p.what \in S => "power" \in D /\ P = c
      PROVE  PowerInv'
  <2>1. \A d \in Connections : \A q \in Range(toApp'[d]) :
          q \in Range(toApp[d]) \/ (q = p /\ d = c)
    <3>1. toApp' = [toApp EXCEPT ![c] = Append(@, p)]
      BY <1>5
    <3>2. \A d \in Connections : \A q \in Range(toApp'[d]) : q \in Range(toApp[d]) \/ q = p
      <4>1. Adds(toApp, toApp', c, p)
        BY <3>1 DEF Adds
      <4> QED BY <1>1, <4>1, StreamsAdd
    <3>3. \A d \in Connections : d # c => toApp'[d] = toApp[d]
      BY <1>1, <1>5
    <3> QED BY <3>2, <3>3
  <2>2. wanted' \in BOOLEAN
    BY <1>1, <1>5 DEF After
  <2>3. ASSUME "power" \in D
        PROVE  LeadTo(toApp'[P], power, wanted')
    <3>1. P \in Connections /\ toApp[P] \in Seq(Packets) /\ LeadTo(toApp[P], power, wanted)
      BY <1>1, <2>3
    <3>2. CASE P = c
      <4>1. toApp'[P] = Append(toApp[P], p)
        BY <1>1, <1>5, <3>1, <3>2
      <4>2. LeadTo(Append(toApp[P], p), power, After(p.what, wanted))
        BY <1>1, <1>5, <3>1, LeadToAfterSent
      <4> QED BY <1>5, <4>1, <4>2
    <3>3. CASE P # c
      <4>1. toApp'[P] = toApp[P]
        BY <1>1, <1>5, <3>1, <3>3
      <4>2. wanted' = wanted
        BY <1>5, <3>3 DEF After
      <4> QED BY <3>1, <4>1, <4>2
    <3> QED BY <3>2, <3>3
  <2>4. \A d \in Connections : \A q \in Range(toApp'[d]) :
          q.what \in S => "power" \in D /\ P = d
    BY <1>1, <1>5, <2>1
  <2> QED BY <1>1, <1>5, <2>2, <2>3, <2>4, SameConfig DEF PowerInv
<1>6. CASE Acknowledged
  <2>1. /\ UNCHANGED <<config, wanted, power>>
        /\ toApp' = [toApp EXCEPT ![address[Role]] = Tail(@)]
        /\ toApp[address[Role]] # <<>> /\ Head(toApp[address[Role]]) = Ack(Role, 0)
        /\ phase = "await"
    BY <1>6 DEF Acknowledged, Arrived, IsAck, server
  <2>2. address[Role] \in Connections /\ Role \in Roles
    <3>1. step \in 1..Len(Plan)
      BY <2>1, PlanFacts DEF IInv, Types, RegisteredSoFar
    <3> QED BY <3>1, PlanFacts DEF IInv, Types, Role
  <2>3. power = After(Head(toApp[address[Role]]).what, power)
    <3> DEFINE w == Head(toApp[address[Role]]).what
    <3>1. w \notin S
      BY <2>1, <2>2 DEF Ack, Roles
    <3> HIDE DEF w
    <3>2. After(w, power) = power
      BY <3>1 DEF After
    <3> QED BY <3>2 DEF w
  <2> DEFINE c == address[Role]
  <2>4. /\ c \in Connections /\ UNCHANGED <<config, wanted>> /\ toApp[c] # <<>>
        /\ toApp' = [toApp EXCEPT ![c] = Tail(@)]
    BY <2>1, <2>2
  <2>5. power' = After(Head(toApp[c]).what, power)
    BY <2>1, <2>3
  <2> HIDE DEF c
  <2> QED BY <1>4, <2>4, <2>5
<1>7. CASE Handle \/ Throw
  <2> DEFINE c == Current
  <2> DEFINE w == Head(toApp[c]).what
  <2>1. /\ UNCHANGED <<config, wanted>> /\ toApp[c] # <<>> /\ todo # {}
    BY <1>7 DEF Handle, Throw, Whole, NothingWhole, Arrived, server
  <2>2. c \in Connections
    BY <2>1, CurrentIsReported DEF ImportsWhenRunning
  <2>3. CASE Handle
    <3>1. toApp' = [toApp EXCEPT ![c] = Tail(@)] /\ power' = After(w, power)
      BY <2>3 DEF Handle, Word, PowerAfter, After
    <3> HIDE DEF c
    <3> QED BY <1>4, <2>1, <2>2, <3>1
  <2>4. CASE Throw
    <3>1. /\ power' = power /\ w \notin Known
          /\ toApp' = toApp \/ toApp' = [toApp EXCEPT ![c] = Tail(@)]
      BY <2>4 DEF Throw, Word
    <3>2. CASE toApp' = toApp
      BY <1>2, <2>1, <3>1, <3>2
    <3>3. CASE toApp' = [toApp EXCEPT ![c] = Tail(@)]
      <4>1. w \notin S
        BY <3>1 DEF Known, PowerCommands
      <4>2. After(w, power) = power
        <5> HIDE DEF w
        <5> QED BY <4>1 DEF After
      <4>3. power' = After(w, power)
        BY <3>1, <4>2
      <4> HIDE DEF c
      <4> QED BY <1>4, <2>1, <2>2, <3>3, <4>3
    <3> QED BY <3>1, <3>2, <3>3
  <2> QED BY <1>7, <2>3, <2>4
<1>8. ASSUME NEW c \in Connections, NEW w \in Commands, SendCommand(c, w)
      PROVE  PowerInv'
  <2> DEFINE p == Command(w)
  <2>1. /\ UNCHANGED <<config, power>>
        /\ toApp' = [toApp EXCEPT ![c] = Append(@, p)]
        /\ wanted' = After(w, wanted)
    BY <1>8 DEF SendCommand, Transmit, After, app
  <2>2. p \in Packets /\ p.what = w
    BY DEF Command, Packets
  <2>3. w \in S => "power" \in D /\ P = c
    <3>1. w \in S => "power" \in accepted /\ P = c
      BY <1>8 DEF SendCommand, PowerCommands
    <3> QED BY <3>1 DEF IInv, RegisteredSoFar
  <2> HIDE DEF p
  <2> QED BY <1>5, <2>1, <2>2, <2>3
<1>9. ASSUME NEW c \in Connections, ServerReceive(c)
      PROVE  PowerInv'
  <2> DEFINE h == Head(toServer[c])
  <2>1. UNCHANGED <<config, power, wanted>> /\ toServer[c] # <<>>
    BY <1>9 DEF ServerReceive, app
  <2>2. CASE h.kind = "register"
    <3>1. \E status \in {0, 1} : toApp' = [toApp EXCEPT ![c] = Append(@, Ack(h.what, status))]
      BY <1>9, <2>2 DEF ServerReceive, Transmit
    <3>2. PICK status \in {0, 1} : toApp' = [toApp EXCEPT ![c] = Append(@, Ack(h.what, status))]
      BY <3>1
    <3> DEFINE p == Ack(h.what, status)
    <3>3. p \in Packets /\ p.what \notin S
      BY <2>1, <2>2, RequestsAreOfRoles DEF Ack, Packets, Roles
    <3>4. toApp' = [toApp EXCEPT ![c] = Append(@, p)]
      BY <3>2
    <3> HIDE DEF p
    <3>5. After(p.what, wanted) = wanted
      BY <3>3 DEF After
    <3> QED BY <1>5, <2>1, <3>3, <3>4, <3>5
  <2>3. CASE h.kind # "register"
    <3>1. toApp' = toApp
      BY <1>9, <2>3 DEF ServerReceive
    <3> QED BY <1>2, <2>1, <3>1
  <2> QED BY <2>2, <2>3
<1>10. ASSUME NEW c \in Connections, RestArrives(c)
       PROVE  PowerInv'
  BY <1>2, <1>10 DEF RestArrives, app, server
<1>11. CASE UNCHANGED vars
  BY <1>2, <1>11 DEF vars, app, server
<1> QED BY <1>3, <1>6, <1>7, <1>8, <1>9, <1>10, <1>11 DEF Next

(* The power is what the server commanded last, but for the commands that  *)
(* are under way, and commands have the answers that the server waits for. *)
THEOREM CommandsTakeEffect == Spec => []AsCommanded
<1>1. Init => PowerInv
  <2> SUFFICES ASSUME Init PROVE PowerInv
    OBVIOUS
  <2>1. /\ toApp = [c \in Connections |-> <<>>]
        /\ power = FALSE /\ wanted = FALSE
        /\ address \in Addresses /\ pool \in Pools
    BY DEF Init
  <2>2. Range(<<>>) = {} /\ Switches(<<>>) = {}
    BY DEF Range, Switches
  <2>3. "power" \in DOMAIN address => toApp[address["power"]] = <<>>
    BY <2>1, PlanFacts
  <2>4. LeadTo(<<>>, FALSE, FALSE)
    BY <2>2 DEF LeadTo
  <2> QED BY <2>1, <2>2, <2>3, <2>4 DEF PowerInv
<1>2. IInv /\ ImportsWhenRunning /\ StreamKinds /\ PowerInv /\ [Next]_vars => PowerInv'
  BY PowerKept
<1>3. IInv /\ AnswerInv /\ [Next]_vars => AnswerInv'
  BY AnswersKept
<1>4. AnswerInv => StreamKinds
  BY DEF AnswerInv
<1>5. PowerInv => PowerIsCommanded
  BY DEF PowerInv, PowerIsCommanded
<1>6. Spec => []ImportsWhenRunning
  <2>1. Init => ImportsWhenRunning
    BY DEF Init, ImportsWhenRunning
  <2>2. ImportsWhenRunning /\ [Next]_vars => ImportsWhenRunning'
    BY ImportsKept
  <2> QED BY <2>1, <2>2, PTL DEF Spec
<1>7. Spec => []StreamKinds
  <2>1. Init => AnswerInv
    BY StreamsStartInOrder
  <2> QED BY InductiveInvariant, <1>3, <1>4, <2>1, PTL DEF Spec
<1>8. Spec => []PowerIsCommanded
  BY InductiveInvariant, <1>1, <1>2, <1>5, <1>6, <1>7, PTL DEF Spec
<1>9. AnsweredInOrder /\ PowerIsCommanded => AsCommanded
  BY DEF AsCommanded
<1> QED BY AnswersComeInOrder, <1>8, <1>9, PTL
=============================================================================
