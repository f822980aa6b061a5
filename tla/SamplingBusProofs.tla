-------------------------- MODULE SamplingBusProofs --------------------------
(***************************************************************************)
(* Proofs about SamplingBus, for any buses that the assumption allows, any *)
(* width of the sequence number and any number of writes, failures, losses *)
(* and resets.                                                             *)
(***************************************************************************)
EXTENDS SamplingBus, SequenceTheorems, FiniteSetTheorems, WellFoundedInduction, TLAPS

(* The writes that a sequence of cells comes from: one, and not none. *)
Uniform(cells) == \A k \in 1..Len(cells) : cells[k] = cells[1] /\ cells[k] # 0

(* The number of the e-th emission. *)
NumberOf(e) == IF e = 0 THEN 0 ELSE ((e - 1) % (Modulus - 1)) + 1

Numbered ==
  /\ seqNum = NumberOf(emissions)
  /\ \A k \in 1..Len(wire) : wire[k].number = NumberOf(wire[k].emission)

(* What a message has to send is its last write, which has not arrived.    *)
MessageOK(m) ==
  /\ \A k \in 1..Len(data[m]) : data[m][k] <= written[m]
  /\ \A k \in 1..size[m] : data[m][k] = written[m]
  /\ got[m] <= written[m]
  /\ size[m] > 0 => got[m] < written[m]
  /\ size[m] > 0 /\ Whole(m) => size[m] = bus.outSize[m]

(* A frame under way carries one write, which has not arrived, and which   *)
(* is not the one that the message has to send.                            *)
Sized(f) ==
  f.cells[1] = written[f.from] /\ Whole(f.from) => Len(f.cells) = bus.outSize[f.from]

Fresh(f) ==
  /\ f.cells[1] > got[f.from]
  /\ f.cells[1] <= written[f.from]
  /\ size[f.from] > 0 => f.cells[1] < written[f.from]

FrameOK(f) ==
  /\ bus.protocol # "a429" => Uniform(f.cells)
  /\ bus.protocol # "can" => f.cells # <<>>
  /\ f.id \in bus.ids[f.from]
  /\ f.cells # <<>> => Sized(f) /\ Fresh(f)

(* The frames of a datagram stand in the order of the messages, where      *)
(* messages may be missing, and what it says of a message it says once.    *)
DatagramOK(frames) ==
  /\ \A k \in 1..Len(frames) : \E p \in k..Len(bus.list) : bus.list[p] = frames[k].from
  /\ \A j, k \in 1..Len(frames) :
       frames[j].from = frames[k].from => frames[j].cells = frames[k].cells

(* A later datagram carries later writes. *)
Later(f, g) ==
  f.from = g.from /\ f.cells # <<>> /\ g.cells # <<>> => f.cells[1] < g.cells[1]

FramesOK == \A k \in 1..Len(wire) : \A f \in Range(wire[k].frames) : FrameOK(f)
DatagramsOK == \A k \in 1..Len(wire) : DatagramOK(wire[k].frames)
InOrder ==
  \A k \in 1..Len(wire) : \A j \in 1..k - 1 :
    \A f \in Range(wire[j].frames) : \A g \in Range(wire[k].frames) : Later(f, g)
MessagesOK == \A m \in Messages : MessageOK(m)
InputsOK == bus.protocol # "a429" => \A i \in InIds : Uniform(in[i])

IInv ==
  /\ TypeOK /\ Numbered /\ MessagesOK /\ FramesOK /\ DatagramsOK /\ InOrder /\ InputsOK
  /\ LastWriteAccounted

-----------------------------------------------------------------------------
LEMMA ModulusFacts ==
  Modulus \in Nat \ {0, 1} /\ Modulus - 1 \in Nat \ {0} /\ Modulus \in Int
<1>1. Modulus \in Nat \ {0, 1}
  BY SamplingBusAssumption DEF Modulus
<1> QED
  BY <1>1

LEMMA BusFacts ==
  ASSUME bus \in Buses
  PROVE  /\ bus.protocol \in Protocols
         /\ bus.list \in Seq(Messages)
         /\ \A j, k \in 1..Len(bus.list) : bus.list[j] = bus.list[k] => j = k
         /\ bus.outSize \in [Messages -> Nat \ {0}]
         /\ \A m \in Messages : m \in bus.ids[m]
         /\ InIds # {}
         /\ \A i \in InIds : bus.inSize[i] \in Nat \ {0}
         /\ bus.room \in Nat
<1>1. bus.list \in Seq(Range(bus.list)) /\ IsInjective(bus.list)
  BY SamplingBusAssumption
<1>2. DOMAIN bus.list = 1..Len(bus.list)
  BY <1>1, LenProperties
<1>3. \A j, k \in 1..Len(bus.list) : bus.list[j] = bus.list[k] => j = k
  BY <1>1, <1>2 DEF IsInjective
<1> QED
  BY <1>1, <1>3, SamplingBusAssumption DEF Messages, InIds

(* A set that holds zero, and with every number the next one, up to n.     *)
LEMMA UpToInduction ==
  ASSUME NEW n \in Nat, NEW S, 0 \in S, \A i \in 1..n : i - 1 \in S => i \in S
  PROVE  \A i \in 0..n : i \in S
<1> DEFINE T == {i \in 0..n : i \notin S}
<1> SUFFICES ASSUME T # {} PROVE FALSE
  OBVIOUS
<1>1. T \subseteq Nat
  OBVIOUS
<1>2. PICK i \in T : \A j \in T : ~(<<j, i>> \in OpToRel(<, Nat))
  BY <1>1, NatLessThanWellFounded, WFMin
<1>3. \A j \in T : ~(j < i)
  BY <1>1, <1>2 DEF OpToRel
<1>4. i \in 1..n /\ i - 1 \in 0..n /\ i - 1 < i
  OBVIOUS
<1>5. i - 1 \in S
  BY <1>3, <1>4
<1> QED
  BY <1>4, <1>5

LEMMA RangeFacts ==
  ASSUME NEW S, NEW s \in Seq(S)
  PROVE  /\ \A i \in 1..Len(s) : s[i] \in Range(s)
         /\ \A x \in Range(s) : \E i \in 1..Len(s) : x = s[i]
         /\ Range(s) \subseteq S
         /\ Len(s) \in Nat /\ DOMAIN s = 1..Len(s)
<1>1. DOMAIN s = 1..Len(s) /\ (\A i \in 1..Len(s) : s[i] \in S) /\ Len(s) \in Nat
  BY LenProperties
<1> QED
  BY <1>1 DEF Range

(* A set of places in a sequence has a last one. *)
LEMMA LastOfFacts ==
  ASSUME NEW n \in Nat, NEW ks \in SUBSET (1..n), ks # {}
  PROVE  LastOf(ks) \in ks
<1> DEFINE S == {n - k : k \in ks}
<1>1. S \subseteq Nat /\ S # {}
  <2>1. \A k \in ks : k \in 1..n
    OBVIOUS
  <2>2. \A k \in ks : n - k \in Nat
    BY <2>1
  <2> QED
    BY <2>2
<1>2. PICK i \in S : \A j \in S : ~(<<j, i>> \in OpToRel(<, Nat))
  BY <1>1, NatLessThanWellFounded, WFMin
<1>3. \A j \in S : ~(j < i)
  BY <1>1, <1>2 DEF OpToRel
<1>4. PICK k \in ks : i = n - k
  OBVIOUS
<1>5. \A j \in ks : j <= k
  <2> TAKE j \in ks
  <2>1. ~(n - j < n - k)
    BY <1>3, <1>4
  <2>2. j \in 1..n /\ k \in 1..n
    OBVIOUS
  <2> QED
    BY <2>1, <2>2
<1> QED
  BY <1>4, <1>5 DEF LastOf

-----------------------------------------------------------------------------
(* OnlyIn keeps the order: an element does not move to a later place.      *)
Kept(t, s, S, k) ==
  /\ t \in Seq(S)
  /\ \A j \in 1..Len(t) : \E p \in j..k : s[p] = t[j]
  /\ \A p \in 1..k : s[p] \in S => \E j \in 1..Len(t) : t[j] = s[p]
  /\ Len(t) <= k

LEMMA KeptEmpty == ASSUME NEW s, NEW S PROVE Kept(<<>>, s, S, 0)
  BY EmptySeq DEF Kept

LEMMA KeptAppend ==
  ASSUME NEW S, NEW s, NEW k \in Nat \ {0}, NEW t, Kept(t, s, S, k - 1), s[k] \in S
  PROVE  Kept(Append(t, s[k]), s, S, k)
<1> DEFINE u == Append(t, s[k])
           n == Len(t)
<1>1. t \in Seq(S) /\ n \in Nat /\ n <= k - 1
  BY LenProperties DEF Kept
<1>2. /\ u \in Seq(S) /\ Len(u) = n + 1
      /\ \A j \in 1..n : u[j] = t[j]
      /\ u[n + 1] = s[k]
  BY <1>1, AppendProperties
<1> HIDE DEF u, n
<1>3. \A j \in 1..Len(u) : \E p \in j..k : s[p] = u[j]
  <2> TAKE j \in 1..Len(u)
  <2>1. CASE j \in 1..n
    <3>1. PICK p \in j..(k - 1) : s[p] = t[j]
      BY <2>1 DEF Kept, n
    <3> QED
      BY <1>2, <2>1, <3>1
  <2>2. CASE j = n + 1
    BY <1>1, <1>2, <2>2
  <2> QED
    BY <1>1, <1>2, <2>1, <2>2
<1>4. \A p \in 1..k : s[p] \in S => \E j \in 1..Len(u) : u[j] = s[p]
  <2> SUFFICES ASSUME NEW p \in 1..k, s[p] \in S
               PROVE  \E j \in 1..Len(u) : u[j] = s[p]
    OBVIOUS
  <2>1. CASE p = k
    <3>1. n + 1 \in 1..Len(u)
      BY <1>1, <1>2
    <3> QED
      BY <1>2, <2>1, <3>1
  <2>2. CASE p # k
    <3>1. p \in 1..(k - 1)
      BY <2>2
    <3>2. PICK j \in 1..n : t[j] = s[p]
      BY <3>1 DEF Kept, n
    <3>3. j \in 1..Len(u)
      BY <1>1, <1>2
    <3> QED
      BY <1>2, <3>2, <3>3
  <2> QED
    BY <2>1, <2>2
<1>5. Len(u) <= k
  BY <1>1, <1>2
<1>6. Kept(u, s, S, k)
  BY <1>2, <1>3, <1>4, <1>5 DEF Kept
<1> QED
  BY <1>6 DEF u

LEMMA KeptSkip ==
  ASSUME NEW S, NEW s, NEW k \in Nat \ {0}, NEW t, Kept(t, s, S, k - 1), s[k] \notin S
  PROVE  Kept(t, s, S, k)
<1>1. t \in Seq(S) /\ Len(t) \in Nat /\ Len(t) <= k - 1
  BY LenProperties DEF Kept
<1>2. \A j \in 1..Len(t) : \E p \in j..k : s[p] = t[j]
  <2> TAKE j \in 1..Len(t)
  <2>1. PICK p \in j..(k - 1) : s[p] = t[j]
    BY DEF Kept
  <2> QED
    BY <2>1
<1>3. \A p \in 1..k : s[p] \in S => \E j \in 1..Len(t) : t[j] = s[p]
  <2> SUFFICES ASSUME NEW p \in 1..k, s[p] \in S
               PROVE  \E j \in 1..Len(t) : t[j] = s[p]
    OBVIOUS
  <2>1. p \in 1..(k - 1)
    OBVIOUS
  <2> QED
    BY <2>1 DEF Kept
<1> QED
  BY <1>1, <1>2, <1>3 DEF Kept

(* The recursive function in OnlyIn exists, and its last value is OnlyIn.  *)
Fronts(f, s, S, n) ==
  /\ f \in [0..n -> Seq(S)]
  /\ f[0] = <<>>
  /\ \A k \in 1..n : f[k] = IF s[k] \in S THEN Append(f[k - 1], s[k]) ELSE f[k - 1]

LEMMA FrontsExist ==
  ASSUME NEW S, NEW s, NEW n \in Nat
  PROVE  \E f : Fronts(f, s, S, n)
<1> DEFINE T == {k \in 0..n : \E f : Fronts(f, s, S, k)}
<1>1. 0 \in T
  <2> DEFINE g == [i \in 0..0 |-> <<>>]
  <2>1. Fronts(g, s, S, 0)
    BY EmptySeq DEF Fronts
  <2> HIDE DEF g
  <2> QED
    BY <2>1
<1>2. ASSUME NEW k \in 1..n, k - 1 \in T
      PROVE  k \in T
  <2>1. PICK f : Fronts(f, s, S, k - 1)
    BY <1>2
  <2> DEFINE next == IF s[k] \in S THEN Append(f[k - 1], s[k]) ELSE f[k - 1]
             g == [i \in 0..k |-> IF i = k THEN next ELSE f[i]]
  <2>2. next \in Seq(S)
    <3>1. f[k - 1] \in Seq(S)
      BY <2>1 DEF Fronts
    <3> QED
      BY <3>1, AppendProperties
  <2>3. \A i \in 0..k : i # k => i \in 0..(k - 1)
    OBVIOUS
  <2>4. \A i \in 0..k : g[i] \in Seq(S)
    BY <2>1, <2>2, <2>3 DEF Fronts
  <2>5. g[0] = <<>>
    BY <2>1 DEF Fronts
  <2>6. ASSUME NEW i \in 1..k
        PROVE  g[i] = IF s[i] \in S THEN Append(g[i - 1], s[i]) ELSE g[i - 1]
    <3>1. CASE i = k
      <4>1. k \in 0..k /\ k - 1 \in 0..k /\ k - 1 # k
        OBVIOUS
      <4>2. g[k] = next /\ g[k - 1] = f[k - 1]
        BY <4>1
      <4> QED
        BY <3>1, <4>2
    <3>2. CASE i # k
      <4>1. i \in 1..(k - 1)
        BY <3>2
      <4>2. g[i] = f[i] /\ g[i - 1] = f[i - 1]
        BY <3>2, <4>1
      <4>3. f[i] = IF s[i] \in S THEN Append(f[i - 1], s[i]) ELSE f[i - 1]
        BY <2>1, <4>1 DEF Fronts
      <4> QED
        BY <4>2, <4>3
    <3> QED
      BY <3>1, <3>2
  <2>7. g \in [0..k -> Seq(S)]
    BY <2>4
  <2> HIDE DEF g, next
  <2>8. Fronts(g, s, S, k)
    BY <2>5, <2>6, <2>7 DEF Fronts
  <2> QED
    BY <2>8
<1> HIDE DEF T
<1>3. \A k \in 1..n : k - 1 \in T => k \in T
  BY <1>2
<1>4. \A k \in 0..n : k \in T
  BY <1>1, <1>3, UpToInduction
<1> QED
  BY <1>4 DEF T

LEMMA OnlyInFacts ==
  ASSUME NEW M, NEW s \in Seq(M), NEW S
  PROVE  Kept(OnlyIn(s, S), s, S, Len(s))
<1> DEFINE n == Len(s)
           P(h) == h = [k \in 0..n |->
                          IF k = 0 THEN <<>>
                          ELSE IF s[k] \in S THEN Append(h[k - 1], s[k]) ELSE h[k - 1]]
           e == CHOOSE h : P(h)
<1>1. n \in Nat
  BY LenProperties
<1>2. PICK f : Fronts(f, s, S, n)
  BY <1>1, FrontsExist
<1>3. P(f)
  <2>1. ASSUME NEW k \in 0..n
        PROVE  f[k] = IF k = 0 THEN <<>>
                      ELSE IF s[k] \in S THEN Append(f[k - 1], s[k]) ELSE f[k - 1]
    <3>1. k = 0 \/ k \in 1..n
      BY <1>1
    <3> QED
      BY <1>2, <3>1 DEF Fronts
  <2>2. f = [k \in 0..n |-> f[k]]
    BY <1>2 DEF Fronts
  <2> QED
    BY <2>1, <2>2
<1>4. P(e)
  <2> HIDE DEF P
  <2> QED
    BY <1>3
<1>5. OnlyIn(s, S) = e[n]
  BY DEF OnlyIn
<1> HIDE DEF e
<1>6. \A k \in 0..n : e[k] = IF k = 0 THEN <<>>
                             ELSE IF s[k] \in S THEN Append(e[k - 1], s[k]) ELSE e[k - 1]
  BY <1>4
<1> HIDE DEF P
<1> DEFINE T == {k \in 0..n : Kept(e[k], s, S, k)}
<1>7. 0 \in T
  <2>1. e[0] = <<>>
    BY <1>1, <1>6
  <2> QED
    BY <1>1, <2>1, KeptEmpty
<1>8. ASSUME NEW k \in 1..n, k - 1 \in T
      PROVE  k \in T
  <2>1. k \in 0..n /\ k # 0 /\ k \in Nat \ {0}
    OBVIOUS
  <2>2. e[k] = IF s[k] \in S THEN Append(e[k - 1], s[k]) ELSE e[k - 1]
    BY <1>6, <2>1
  <2>3. Kept(e[k - 1], s, S, k - 1)
    BY <1>8
  <2>4. CASE s[k] \in S
    <3>1. Kept(Append(e[k - 1], s[k]), s, S, k)
      BY <2>1, <2>3, <2>4, KeptAppend
    <3> QED
      BY <2>1, <2>2, <2>4, <3>1
  <2>5. CASE s[k] \notin S
    <3>1. Kept(e[k - 1], s, S, k)
      BY <2>1, <2>3, <2>5, KeptSkip
    <3> QED
      BY <2>1, <2>2, <2>5, <3>1
  <2> QED
    BY <2>4, <2>5
<1> HIDE DEF T
<1>9. n \in T
  <2>1. \A k \in 1..n : k - 1 \in T => k \in T
    BY <1>8
  <2>2. \A k \in 0..n : k \in T
    BY <1>1, <1>7, <2>1, UpToInduction
  <2> QED
    BY <1>1, <2>2
<1> QED
  BY <1>5, <1>9 DEF T

-----------------------------------------------------------------------------
(* Division with remainder.                                                *)
LEMMA DivMod ==
  ASSUME NEW n \in Nat \ {0}, NEW a \in Int
  PROVE  a = n * (a \div n) + (a % n) /\ a % n \in 0..(n - 1) /\ a \div n \in Int
  BY Z3

LEMMA RemainderIsUnique ==
  ASSUME NEW n \in Nat \ {0}, NEW p \in Int, NEW q \in Int,
         NEW r \in 0..(n - 1), NEW s \in 0..(n - 1), n * p + r = n * q + s
  PROVE  r = s
<1>1. n * (p - q) = s - r
  BY Z3
<1>2. p - q < 1
  <2> SUFFICES ASSUME p - q >= 1 PROVE FALSE
    OBVIOUS
  <2>1. n * (p - q) >= n
    BY Z3
  <2> QED
    BY <1>1, <2>1
<1>3. q - p < 1
  <2> SUFFICES ASSUME q - p >= 1 PROVE FALSE
    OBVIOUS
  <2>1. n * (q - p) >= n
    BY Z3
  <2>2. n * (q - p) = r - s
    BY <1>1, Z3
  <2> QED
    BY <2>1, <2>2
<1>4. p = q
  BY <1>2, <1>3
<1> QED
  BY <1>4

LEMMA ModPlusMultiple ==
  ASSUME NEW n \in Nat \ {0}, NEW x \in Int, NEW t \in Int
  PROVE  (x + n * t) % n = x % n
<1> DEFINE y == x + n * t
           p == x \div n
           q == y \div n
           r == x % n
           s == y % n
           u == p + t
<1>0. n * t \in Int /\ y \in Int
  BY Z3
<1>1. x = n * p + r /\ r \in 0..(n - 1) /\ p \in Int
  BY DivMod
<1>2. y = n * q + s /\ s \in 0..(n - 1) /\ q \in Int
  BY <1>0, DivMod
<1>3. y = n * p + r + n * t
  BY <1>1
<1> HIDE DEF p, q, r, s, y
<1>4. n * u = n * p + n * t /\ u \in Int
  BY <1>1, Z3
<1> HIDE DEF u
<1>5. n * p \in Int /\ n * q \in Int /\ n * u \in Int
  BY <1>1, <1>2, <1>4, Z3
<1>6. n * u + r = n * q + s
  BY <1>0, <1>1, <1>2, <1>3, <1>4, <1>5
<1>7. r = s
  BY <1>1, <1>2, <1>4, <1>6, RemainderIsUnique
<1> QED
  BY <1>7 DEF r, s, y

LEMMA NextMod ==
  ASSUME NEW n \in Nat \ {0}, NEW a \in Nat
  PROVE  (a + 1) % n = IF a % n = n - 1 THEN 0 ELSE (a % n) + 1
<1> DEFINE p == a \div n
           q == (a + 1) \div n
           r == a % n
           s == (a + 1) % n
<1>1. a = n * p + r /\ r \in 0..(n - 1) /\ p \in Int
  BY DivMod
<1>2. a + 1 = n * q + s /\ s \in 0..(n - 1) /\ q \in Int
  BY DivMod
<1> HIDE DEF p, q, r, s
<1>3. n * p \in Int /\ n * q \in Int
  BY <1>1, <1>2, Z3
<1>4. CASE r = n - 1
  <2>1. n * (p + 1) = n * p + n /\ p + 1 \in Int
    BY <1>1, Z3
  <2>2. n * (p + 1) + 0 = n * q + s
    BY <1>1, <1>2, <1>3, <1>4, <2>1
  <2>3. 0 \in 0..(n - 1)
    OBVIOUS
  <2>4. s = 0
    BY <1>2, <2>1, <2>2, <2>3, RemainderIsUnique
  <2> QED
    BY <1>4, <2>4 DEF r, s
<1>5. CASE r # n - 1
  <2>1. n * p + (r + 1) = n * q + s
    BY <1>1, <1>2, <1>3
  <2>2. r + 1 \in 0..(n - 1)
    BY <1>1, <1>5
  <2>3. s = r + 1
    BY <1>1, <1>2, <2>1, <2>2, RemainderIsUnique
  <2> QED
    BY <1>5, <2>3 DEF r, s
<1> QED
  BY <1>4, <1>5

(* A difference of remainders is the difference, up to a multiple. *)
LEMMA ModOfDifference ==
  ASSUME NEW n \in Nat \ {0}, NEW a \in Nat, NEW b \in Nat
  PROVE  ((a % n) - (b % n)) % n = (a - b) % n
<1> DEFINE p == a \div n
           q == b \div n
           r == a % n
           s == b % n
           t == p - q
<1>1. a = n * p + r /\ r \in 0..(n - 1) /\ p \in Int
  BY DivMod
<1>2. b = n * q + s /\ s \in 0..(n - 1) /\ q \in Int
  BY DivMod
<1> HIDE DEF p, q, r, s
<1>3. n * t = n * p - n * q /\ t \in Int
  BY <1>1, <1>2, Z3
<1> HIDE DEF t
<1>4. n * p \in Int /\ n * q \in Int /\ n * t \in Int
  BY <1>1, <1>2, <1>3, Z3
<1>5. a - b = (r - s) + n * t
  BY <1>1, <1>2, <1>3, <1>4
<1>6. r - s \in Int
  BY <1>1, <1>2
<1>7. ((r - s) + n * t) % n = (r - s) % n
  BY <1>3, <1>6, ModPlusMultiple
<1> QED
  BY <1>5, <1>7 DEF r, s

LEMMA NextIsNumberOf ==
  ASSUME NEW e \in Nat
  PROVE  /\ NextNumber(NumberOf(e)) = NumberOf(e + 1)
         /\ NumberOf(e + 1) \in 1..Modulus - 1
<1> DEFINE n == Modulus - 1
<1>1. n \in Nat \ {0} /\ Modulus = n + 1
  BY ModulusFacts
<1> HIDE DEF n
<1>2. NumberOf(e + 1) = (e % n) + 1
  <2>1. e + 1 # 0 /\ e + 1 - 1 = e
    OBVIOUS
  <2> QED
    BY <2>1 DEF NumberOf, n
<1>3. e % n \in 0..(n - 1)
  BY <1>1, DivMod
<1>4. CASE e = 0
  <2>1. 1 % Modulus = 1 /\ 0 % n = 0
    BY <1>1, Z3
  <2>2. NumberOf(e) = 0
    BY <1>4 DEF NumberOf
  <2>3. NextNumber(0) = 1
    BY <2>1 DEF NextNumber
  <2> QED
    BY <1>1, <1>2, <1>3, <1>4, <2>1, <2>2, <2>3
<1>5. CASE e # 0
  <2> DEFINE a == e - 1
             r == a % n
  <2>1. a \in Nat /\ a + 1 = e
    BY <1>5
  <2>2. r \in 0..(n - 1)
    BY <1>1, <2>1, DivMod
  <2>3. NumberOf(e) = r + 1
    BY <1>5 DEF NumberOf, n
  <2>4. (a + 1) % n = IF r = n - 1 THEN 0 ELSE r + 1
    BY <1>1, <2>1, NextMod
  <2> HIDE DEF a, r
  <2>5. e % n = IF r = n - 1 THEN 0 ELSE r + 1
    BY <2>1, <2>4
  <2>6. (r + 2) % Modulus = IF r = n - 1 THEN 0 ELSE r + 2
    <3>1. CASE r = n - 1
      <4>1. r + 2 = Modulus
        BY <1>1, <3>1
      <4>2. Modulus % Modulus = 0
        BY <1>1, Z3
      <4> QED
        BY <3>1, <4>1, <4>2
    <3>2. CASE r # n - 1
      BY <1>1, <2>2, <3>2, Z3
    <3> QED
      BY <3>1, <3>2
  <2>7. r + 1 + 1 = r + 2 /\ r + 2 # 0
    BY <2>2
  <2>8. NextNumber(r + 1) = IF r = n - 1 THEN 1 ELSE r + 2
    BY <2>6, <2>7 DEF NextNumber
  <2>9. NextNumber(NumberOf(e)) = NumberOf(e + 1)
    BY <1>2, <2>2, <2>3, <2>5, <2>7, <2>8
  <2> QED
    BY <1>1, <1>2, <1>3, <2>9
<1> QED
  BY <1>4, <1>5

(* The numbers of two emissions differ by as much as there are emissions   *)
(* from one to the other, but for complete rounds.                         *)
LEMMA NumbersDiffer ==
  ASSUME NEW d \in Nat \ {0}, NEW e \in Nat \ {0}
  PROVE  (NumberOf(e) - NumberOf(d)) % (Modulus - 1) = (e - d) % (Modulus - 1)
<1> DEFINE n == Modulus - 1
           a == e - 1
           b == d - 1
<1>1. n \in Nat \ {0} /\ a \in Nat /\ b \in Nat /\ a - b = e - d
  BY ModulusFacts
<1>2. NumberOf(e) = (a % n) + 1 /\ NumberOf(d) = (b % n) + 1
  BY DEF NumberOf
<1>3. ((a % n) - (b % n)) % n = (a - b) % n
  BY <1>1, ModOfDifference
<1> HIDE DEF n, a, b
<1>4. a % n \in Int /\ b % n \in Int
  <2>1. a \in Int /\ b \in Int
    BY <1>1
  <2>2. a % n \in 0..(n - 1) /\ b % n \in 0..(n - 1)
    BY <1>1, <2>1, DivMod
  <2> QED
    BY <2>2
<1>5. NumberOf(e) - NumberOf(d) = (a % n) - (b % n)
  BY <1>2, <1>4
<1>6. (NumberOf(e) - NumberOf(d)) % n = (e - d) % n
  BY <1>1, <1>3, <1>5
<1> QED
  BY <1>6 DEF n

-----------------------------------------------------------------------------
(* What the port takes from a message. *)
LEMMA MessageTypes ==
  ASSUME TypeOK, NEW m \in Messages
  PROVE  /\ data[m] \in Seq(Nat) /\ Len(data[m]) = bus.outSize[m]
         /\ bus.outSize[m] \in Nat \ {0}
         /\ size[m] \in 0..bus.outSize[m]
         /\ written[m] \in Nat /\ got[m] \in Nat
         /\ id[m] \in bus.ids[m] /\ id[m] \in Ids
  BY BusFacts DEF TypeOK

LEMMA PayloadFacts ==
  ASSUME TypeOK, NEW m \in Messages
  PROVE  /\ Payload(m) \in Seq(Nat)
         /\ bus.protocol # "a429" => Len(Payload(m)) = size[m]
         /\ bus.protocol = "a429" => Len(Payload(m)) = bus.outSize[m]
         /\ \A k \in 1..Len(Payload(m)) : Payload(m)[k] = data[m][k]
         /\ size[m] > 0 => Payload(m) # <<>>
<1>1. /\ data[m] \in Seq(Nat) /\ Len(data[m]) = bus.outSize[m]
      /\ bus.outSize[m] \in Nat \ {0}
      /\ size[m] \in 0..bus.outSize[m]
  BY MessageTypes
<1>2. CASE bus.protocol = "a429"
  <2>1. Payload(m) = data[m]
    BY <1>2 DEF Payload
  <2>2. data[m] # <<>>
    BY <1>1
  <2> QED
    BY <1>1, <1>2, <2>1, <2>2
<1>3. CASE bus.protocol # "a429"
  <2> DEFINE t == SubSeq(data[m], 1, size[m])
  <2>1. Payload(m) = t
    BY <1>3 DEF Payload
  <2>2. /\ 1 \in Int /\ size[m] \in Int /\ size[m] \in Nat
        /\ \A k \in 1..size[m] : data[m][k] \in Nat
    BY <1>1
  <2>3. t \in Seq(Nat) /\ Len(t) = size[m] /\ \A k \in 1..size[m] : t[k] = data[m][k]
    BY <1>1, <2>2, SubSeqProperties
  <2> HIDE DEF t
  <2>4. size[m] > 0 => t # <<>>
    BY <2>3
  <2> QED
    BY <1>3, <2>1, <2>3, <2>4
<1> QED
  BY <1>2, <1>3

LEMMA FirstCell ==
  ASSUME TypeOK, MessagesOK, NEW m \in Messages, size[m] > 0
  PROVE  /\ Payload(m)[1] = written[m] /\ written[m] > 0
         /\ got[m] < written[m] /\ Len(Payload(m)) \in Nat \ {0}
<1>1. MessageOK(m)
  BY DEF MessagesOK
<1>2. size[m] \in Nat /\ written[m] \in Nat /\ got[m] \in Nat
  BY MessageTypes
<1>3. 1 \in 1..size[m]
  BY <1>2
<1>4. data[m][1] = written[m] /\ got[m] < written[m]
  BY <1>1, <1>3 DEF MessageOK
<1>5. Payload(m) \in Seq(Nat) /\ Payload(m) # <<>>
  BY PayloadFacts
<1>6. Len(Payload(m)) \in Nat \ {0} /\ 1 \in 1..Len(Payload(m))
  BY <1>5, LenProperties, EmptySeq
<1>7. Payload(m)[1] = data[m][1]
  BY <1>6, PayloadFacts
<1> QED
  BY <1>2, <1>4, <1>6, <1>7

(* The frames of an emission. *)
LEMMA FrameFacts ==
  ASSUME TypeOK, NEW m \in Messages
  PROVE  /\ Frame(m) \in FrameRecords
         /\ Frame(m).id = id[m] /\ Frame(m).from = m /\ Frame(m).cells = Payload(m)
<1>1. id[m] \in Ids /\ Payload(m) \in Seq(Nat)
  BY MessageTypes, PayloadFacts
<1> QED
  BY <1>1 DEF Frame, FrameRecords

LEMMA FramesFacts ==
  ASSUME TypeOK
  PROVE  /\ Frames \in Seq(FrameRecords)
         /\ DatagramOK(Frames)
         /\ \A f \in Range(Frames) : \E m \in Framed : f = Frame(m)
         /\ \A m \in Framed : Frame(m) \in Range(Frames)
<1> DEFINE list == OnlyIn(bus.list, Framed)
           n == Len(bus.list)
<1>1. bus.list \in Seq(Messages) /\ n \in Nat
  BY BusFacts, LenProperties DEF TypeOK
<1>2. Kept(list, bus.list, Framed, n)
  BY <1>1, OnlyInFacts
<1>3. list \in Seq(Framed) /\ Len(list) \in Nat /\ DOMAIN list = 1..Len(list)
  BY <1>2, LenProperties DEF Kept
<1>4. Frames = [k \in 1..Len(list) |-> Frame(list[k])]
  BY <1>3 DEF Frames
<1> HIDE DEF list, n
<1>5. Framed \subseteq Messages
  BY DEF Framed, Pending
<1>6. \A k \in 1..Len(list) : list[k] \in Framed
  BY <1>3
<1>7. \A k \in 1..Len(list) : Frame(list[k]) \in FrameRecords
  BY <1>5, <1>6, FrameFacts
<1>8. Frames \in [1..Len(list) -> FrameRecords]
  BY <1>4, <1>7
<1>9. Frames \in Seq(FrameRecords) /\ Len(Frames) = Len(list)
  BY <1>3, <1>8
<1>10. \A k \in 1..Len(list) : Frames[k] = Frame(list[k])
  BY <1>4
<1>11. \A k \in 1..Len(list) : Frames[k].from = list[k] /\ Frames[k].cells = Payload(list[k])
  BY <1>5, <1>6, <1>10, FrameFacts
<1>12. DatagramOK(Frames)
  <2>1. \A k \in 1..Len(list) : \E p \in k..n : bus.list[p] = list[k]
    BY <1>2 DEF Kept
  <2>2. \A j, k \in 1..Len(list) : list[j] = list[k] => Frames[j].cells = Frames[k].cells
    BY <1>11
  <2> QED
    BY <1>9, <1>11, <2>1, <2>2 DEF DatagramOK, n
<1>13. ASSUME NEW f \in Range(Frames)
       PROVE  \E m \in Framed : f = Frame(m)
  <2>1. PICK k \in 1..Len(list) : f = Frames[k]
    BY <1>9, RangeFacts
  <2> QED
    BY <1>6, <1>10, <2>1
<1>14. ASSUME NEW m \in Framed
       PROVE  Frame(m) \in Range(Frames)
  <2>1. PICK p \in 1..n : bus.list[p] = m
    <3>1. m \in Range(bus.list)
      BY <1>5 DEF Messages
    <3> QED
      BY <1>1, <3>1, RangeFacts DEF n
  <2>2. PICK k \in 1..Len(list) : list[k] = m
    BY <1>2, <2>1 DEF Kept
  <2>3. Frames[k] = Frame(m)
    BY <1>10, <2>2
  <2>4. Frames[k] \in Range(Frames)
    BY <1>9, RangeFacts
  <2> QED
    BY <2>3, <2>4
<1> QED
  BY <1>9, <1>12, <1>13, <1>14

-----------------------------------------------------------------------------
(* The wire.                                                               *)
LEMMA WireFacts ==
  ASSUME TypeOK
  PROVE  /\ wire \in Seq(Datagrams) /\ Len(wire) \in Nat
         /\ \A k \in 1..Len(wire) :
              /\ wire[k] \in Datagrams
              /\ wire[k].frames \in Seq(FrameRecords)
              /\ wire[k].number \in 1..Modulus - 1
              /\ wire[k].emission \in Nat \ {0}
<1>1. wire \in Seq(Datagrams) /\ Len(wire) \in Nat
  BY LenProperties DEF TypeOK
<1>2. \A k \in 1..Len(wire) : wire[k] \in Datagrams
  BY <1>1, LenProperties
<1> QED
  BY <1>1, <1>2 DEF Datagrams

LEMMA FlyingFacts ==
  ASSUME TypeOK, NEW k \in 1..Len(wire), NEW f \in Range(wire[k].frames)
  PROVE  /\ f \in FrameRecords
         /\ f.id \in Ids /\ f.from \in Messages /\ f.cells \in Seq(Nat)
         /\ Len(f.cells) \in Nat
         /\ f.cells # <<>> => f.cells[1] \in Nat /\ Len(f.cells) > 0
<1>1. wire[k].frames \in Seq(FrameRecords)
  BY WireFacts
<1>2. f \in FrameRecords
  BY <1>1, RangeFacts
<1>3. f.id \in Ids /\ f.from \in Messages /\ f.cells \in Seq(Nat) /\ Len(f.cells) \in Nat
  BY <1>2 DEF FrameRecords
<1>4. ASSUME f.cells # <<>> PROVE f.cells[1] \in Nat /\ Len(f.cells) > 0
  BY <1>3, <1>4
<1> QED
  BY <1>2, <1>3, <1>4

-----------------------------------------------------------------------------
(* The initial state. *)
LEMMA InitHolds == Init => IInv
<1> SUFFICES ASSUME Init PROVE IInv
  OBVIOUS
<1>1. bus \in Buses /\ wire = <<>> /\ emissions = 0 /\ seqNum = 0
  BY DEF Init
<1>2. Len(wire) = 0
  BY <1>1
<1>3. \A m \in Messages : bus.outSize[m] \in Nat \ {0}
  BY <1>1, BusFacts
<1>4. ASSUME NEW m \in Messages
      PROVE  /\ data[m] \in Seq(Nat) /\ Len(data[m]) = bus.outSize[m]
             /\ \A k \in 1..Len(data[m]) : data[m][k] = 0
  <2>1. data[m] = [i \in 1..bus.outSize[m] |-> 0]
    BY DEF Init, Zeros
  <2>2. bus.outSize[m] \in Nat
    BY <1>3
  <2>3. [i \in 1..bus.outSize[m] |-> 0] \in [1..bus.outSize[m] -> Nat]
    OBVIOUS
  <2> QED
    BY <2>1, <2>2, <2>3
<1>5. \A m \in Messages : size[m] = 0 /\ id[m] = m /\ written[m] = 0 /\ got[m] = 0
  BY DEF Init
<1>6. TypeOK
  <2>1. data \in [Messages -> Seq(Nat)]
    BY <1>4 DEF Init
  <2>2. \A m \in Messages : m \in bus.ids[m] /\ m \in Ids
    BY <1>1, BusFacts DEF Ids
  <2>3. id \in [Messages -> Ids] /\ \A m \in Messages : id[m] \in bus.ids[m]
    BY <2>2 DEF Init
  <2>4. size \in [Messages -> Nat] /\ \A m \in Messages : size[m] \in 0..bus.outSize[m]
    BY <1>3 DEF Init
  <2>5. seqNum \in 0..Modulus - 1
    BY <1>1, ModulusFacts
  <2>6. wire \in Seq(Datagrams)
    BY <1>1, EmptySeq
  <2>7. in \in [InIds -> Seq(Nat)]
    <3>1. <<>> \in Seq(Nat)
      BY EmptySeq
    <3> QED
      BY <3>1 DEF Init
  <2>8. written \in [Messages -> Nat] /\ got \in [Messages -> Nat] /\ lost = {}
    BY DEF Init
  <2> QED
    BY <1>1, <1>4, <2>1, <2>3, <2>4, <2>5, <2>6, <2>7, <2>8 DEF TypeOK, Init
<1>7. Numbered
  BY <1>1, <1>2 DEF Numbered, NumberOf
<1>8. MessagesOK
  <2> SUFFICES ASSUME NEW m \in Messages PROVE MessageOK(m)
    BY DEF MessagesOK
  <2>1. \A k \in 1..Len(data[m]) : data[m][k] <= written[m]
    BY <1>4, <1>5
  <2> QED
    BY <1>5, <2>1 DEF MessageOK
<1>9. FramesOK /\ DatagramsOK /\ InOrder
  BY <1>2 DEF FramesOK, DatagramsOK, InOrder
<1>10. InputsOK
  <2>1. \A i \in InIds : in[i] = <<>>
    BY DEF Init
  <2>2. Uniform(<<>>)
    BY DEF Uniform
  <2> QED
    BY <2>1, <2>2 DEF InputsOK
<1>11. LastWriteAccounted
  BY <1>5 DEF LastWriteAccounted
<1> QED
  BY <1>6, <1>7, <1>8, <1>9, <1>10, <1>11 DEF IInv

-----------------------------------------------------------------------------
(* How a step changes what the invariant says of one message and of one    *)
(* frame under way.                                                        *)
Accounted(m) ==
  Compatible(m) /\ written[m] > 0 /\ Whole(m) =>
    \/ size[m] = bus.outSize[m]
    \/ \E k \in DOMAIN wire : <<m, written[m]>> \in Carried(wire[k])
    \/ got[m] = written[m]
    \/ <<m, written[m]>> \in lost

LEMMA AllAccounted == LastWriteAccounted <=> \A m \in Messages : Accounted(m)
  BY DEF LastWriteAccounted, Accounted

LEMMA SameBus ==
  ASSUME bus' = bus
  PROVE  /\ Messages' = Messages /\ InIds' = InIds /\ Ids' = Ids
         /\ FrameRecords' = FrameRecords /\ Datagrams' = Datagrams
         /\ \A m \in Messages : Compatible(m)' <=> Compatible(m)
<1>1. Messages' = Messages /\ InIds' = InIds
  BY DEF Messages, InIds
<1>2. Ids' = Ids
  BY <1>1 DEF Ids
<1>3. FrameRecords' = FrameRecords
  BY <1>1, <1>2 DEF FrameRecords
<1>4. Datagrams' = Datagrams
  BY <1>3 DEF Datagrams, Modulus
<1>5. ASSUME NEW m \in Messages PROVE Compatible(m)' <=> Compatible(m)
  BY <1>1 DEF Compatible
<1> QED
  BY <1>1, <1>2, <1>3, <1>4, <1>5

LEMMA FrameStays ==
  ASSUME TypeOK, NEW f \in FrameRecords, FrameOK(f), bus' = bus,
         got'[f.from] = got[f.from],
         \/ written'[f.from] = written[f.from] + 1
         \/ /\ written'[f.from] = written[f.from]
            /\ Whole(f.from)' /\ written[f.from] > 0 => Whole(f.from)
            /\ size'[f.from] > 0 => size[f.from] > 0
  PROVE  FrameOK(f)'
<1> DEFINE x == f.from
<1>1. x \in Messages /\ f.cells \in Seq(Nat)
  BY DEF FrameRecords
<1>2. written[x] \in Nat /\ got[x] \in Nat
  BY <1>1, MessageTypes
<1>3. ASSUME f.cells # <<>> PROVE Sized(f)' /\ Fresh(f)'
  <2>1. f.cells[1] \in Nat
    BY <1>1, <1>3
  <2>2. Sized(f) /\ Fresh(f)
    BY <1>3 DEF FrameOK
  <2>3. f.cells[1] > got[x] /\ f.cells[1] <= written[x] /\ written[x] > 0
    BY <1>2, <2>1, <2>2 DEF Fresh
  <2>4. CASE written'[x] = written[x] + 1
    <3>1. f.cells[1] < written'[x] /\ f.cells[1] # written'[x]
      BY <1>2, <2>1, <2>3, <2>4
    <3>2. Fresh(f)'
      BY <1>2, <2>1, <2>3, <3>1 DEF Fresh
    <3>3. Sized(f)'
      BY <3>1 DEF Sized
    <3> QED
      BY <3>2, <3>3
  <2>5. CASE /\ written'[x] = written[x]
             /\ Whole(x)' /\ written[x] > 0 => Whole(x)
             /\ size'[x] > 0 => size[x] > 0
    <3>1. Fresh(f)'
      BY <2>2, <2>5 DEF Fresh
    <3>2. Sized(f)'
      BY <2>2, <2>3, <2>5 DEF Sized
    <3> QED
      BY <3>1, <3>2
  <2> QED
    BY <2>4, <2>5
<1>4. /\ bus.protocol # "a429" => Uniform(f.cells)
      /\ bus.protocol # "can" => f.cells # <<>>
      /\ f.id \in bus.ids[f.from]
  BY DEF FrameOK
<1> QED
  BY <1>3, <1>4 DEF FrameOK

LEMMA SameMessage ==
  ASSUME NEW m, bus' = bus, data'[m] = data[m], size'[m] = size[m],
         written'[m] = written[m], got'[m] = got[m]
  PROVE  /\ Whole(m)' <=> Whole(m)
         /\ MessageOK(m) => MessageOK(m)'
<1>1. Whole(m)' <=> Whole(m)
  BY DEF Whole
<1> QED
  BY <1>1 DEF MessageOK

LEMMA NumberRange ==
  ASSUME NEW e \in Nat PROVE NumberOf(e) \in 0..Modulus - 1
<1>1. CASE e = 0
  BY <1>1, ModulusFacts DEF NumberOf
<1>2. CASE e # 0
  <2>1. e - 1 \in Nat /\ e - 1 + 1 = e
    BY <1>2
  <2>2. NumberOf(e) \in 1..Modulus - 1
    BY <2>1, NextIsNumberOf
  <2> QED
    BY <2>2, ModulusFacts
<1> QED
  BY <1>1, <1>2

(* A step that changes nothing but the messages of the sender, and what is *)
(* lost of them.                                                           *)
LEMMA SenderStep ==
  ASSUME IInv, bus' = bus, wire' = wire, in' = in, got' = got,
         upsets' \in Nat, queued' \in {"yes", "no", "stale"},
         emissions' \in Nat, seqNum' = NumberOf(emissions'),
         lost' \subseteq Messages \X Nat,
         data' \in [Messages -> Seq(Nat)], size' \in [Messages -> Nat],
         id' \in [Messages -> Ids], written' \in [Messages -> Nat],
         \A m \in Messages :
           /\ Len(data'[m]) = bus.outSize[m]
           /\ size'[m] \in 0..bus.outSize[m]
           /\ id'[m] \in bus.ids[m]
           /\ MessageOK(m)'
           /\ Accounted(m)'
           /\ \/ written'[m] = written[m] + 1
              \/ /\ written'[m] = written[m]
                 /\ Whole(m)' /\ written[m] > 0 => Whole(m)
                 /\ size'[m] > 0 => size[m] > 0
  PROVE  IInv'
<1>1. TypeOK /\ Numbered /\ FramesOK /\ DatagramsOK /\ InOrder /\ InputsOK
  BY DEF IInv
<1>2. /\ Messages' = Messages /\ InIds' = InIds /\ Ids' = Ids /\ Datagrams' = Datagrams
  BY SameBus
<1>3. TypeOK'
  <2>1. seqNum' \in 0..Modulus - 1
    BY NumberRange
  <2>2. /\ bus' \in Buses /\ wire' \in Seq(Datagrams) /\ in' \in [InIds -> Seq(Nat)]
        /\ got' \in [Messages -> Nat]
    BY <1>1 DEF TypeOK
  <2>3. Modulus' = Modulus
    BY DEF Modulus
  <2> QED
    BY <1>2, <2>1, <2>2, <2>3 DEF TypeOK
<1>4. Numbered'
  BY <1>1 DEF Numbered, NumberOf, Modulus
<1>5. MessagesOK'
  BY <1>2 DEF MessagesOK
<1>6. FramesOK'
  <2> SUFFICES ASSUME NEW k \in 1..Len(wire), NEW f \in Range(wire[k].frames)
               PROVE  FrameOK(f)'
    BY DEF FramesOK
  <2>1. f \in FrameRecords /\ f.from \in Messages
    BY <1>1, FlyingFacts
  <2>2. FrameOK(f)
    BY <1>1 DEF FramesOK
  <2> QED
    BY <1>1, <2>1, <2>2, FrameStays
<1>7. DatagramsOK' /\ InOrder' /\ InputsOK'
  BY <1>1, <1>2 DEF DatagramsOK, DatagramOK, InOrder, InputsOK
<1>8. LastWriteAccounted'
  BY <1>2 DEF LastWriteAccounted, Accounted
<1> QED
  BY <1>3, <1>4, <1>5, <1>6, <1>7, <1>8 DEF IInv

-----------------------------------------------------------------------------
(* What stands still when nothing but one message changes. *)
LEMMA SameAccount ==
  ASSUME NEW m \in Messages, bus' = bus, wire' = wire, got' = got, lost \subseteq lost',
         written'[m] = written[m], size'[m] = size[m], Whole(m)' => Whole(m), Accounted(m)
  PROVE  Accounted(m)'
<1>1. Compatible(m)' <=> Compatible(m)
  BY SameBus
<1>2. \A k \in DOMAIN wire : Carried(wire[k])' = Carried(wire[k])
  BY DEF Carried
<1> QED
  BY <1>1, <1>2 DEF Accounted

LEMMA InvFacts ==
  ASSUME IInv
  PROVE  /\ TypeOK /\ Numbered /\ MessagesOK
         /\ seqNum = NumberOf(emissions) /\ emissions \in Nat /\ upsets \in Nat
         /\ queued \in {"yes", "no", "stale"} /\ lost \subseteq Messages \X Nat
         /\ data \in [Messages -> Seq(Nat)] /\ size \in [Messages -> Nat]
         /\ id \in [Messages -> Ids] /\ written \in [Messages -> Nat]
         /\ \A m \in Messages : MessageOK(m) /\ Accounted(m)
  BY AllAccounted DEF IInv, TypeOK, Numbered, MessagesOK

(* A message that the step leaves alone. *)
LEMMA OtherMessage ==
  ASSUME IInv, NEW m \in Messages, bus' = bus, wire' = wire, got' = got, lost \subseteq lost',
         data'[m] = data[m], size'[m] = size[m], written'[m] = written[m]
  PROVE  /\ Len(data'[m]) = bus.outSize[m]
         /\ size'[m] \in 0..bus.outSize[m]
         /\ MessageOK(m)'
         /\ Accounted(m)'
         /\ Whole(m)' => Whole(m)
<1>1. TypeOK /\ MessageOK(m) /\ Accounted(m)
  BY InvFacts
<1>2. MessageOK(m)' /\ (Whole(m)' <=> Whole(m))
  BY <1>1, SameMessage
<1>3. Accounted(m)'
  BY <1>1, <1>2, SameAccount
<1>4. Len(data[m]) = bus.outSize[m] /\ size[m] \in 0..bus.outSize[m]
  BY <1>1, MessageTypes
<1> QED
  BY <1>2, <1>3, <1>4

LEMMA FewerFacts ==
  ASSUME NEW a \in Nat, NEW b \in Nat
  PROVE  /\ Fewer(a, b) \in 0..b /\ Fewer(a, b) \in 0..a
         /\ a > 0 /\ b > 0 => Fewer(a, b) > 0
  BY DEF Fewer

LEMMA WriteKeeps ==
  ASSUME IInv, NEW m \in Messages, NEW n \in 0..bus.outSize[m] + 1, Write(m, n)
  PROVE  IInv'
<1> DEFINE kept == Fewer(n, bus.outSize[m])
           w == written[m] + 1
           old == data[m]
           cells == [i \in DOMAIN old |-> IF i <= kept THEN w ELSE old[i]]
<1>1. TypeOK /\ MessageOK(m)
  BY InvFacts
<1>2. /\ old \in Seq(Nat) /\ Len(old) = bus.outSize[m]
      /\ bus.outSize[m] \in Nat \ {0}
      /\ written[m] \in Nat /\ got[m] \in Nat
  BY <1>1, MessageTypes
<1>3. kept \in 0..bus.outSize[m]
  <2>1. n \in Nat /\ bus.outSize[m] \in Nat
    BY <1>2
  <2> QED
    BY <2>1, FewerFacts
<1>4. /\ data' = [data EXCEPT ![m] = cells]
      /\ size' = [size EXCEPT ![m] = kept]
      /\ written' = [written EXCEPT ![m] = w]
      /\ queued' = IF queued = "no" THEN "yes" ELSE queued
      /\ bus' = bus /\ id' = id /\ seqNum' = seqNum /\ emissions' = emissions /\ wire' = wire
      /\ in' = in /\ got' = got /\ lost' = lost /\ upsets' = upsets
  BY DEF Write
<1>5. /\ cells \in Seq(Nat) /\ Len(cells) = bus.outSize[m]
      /\ \A i \in 1..bus.outSize[m] : cells[i] = IF i <= kept THEN w ELSE old[i]
  <2>1. DOMAIN old = 1..bus.outSize[m]
    BY <1>2
  <2>2. \A i \in 1..bus.outSize[m] : old[i] \in Nat
    BY <1>2
  <2>3. cells = [i \in 1..bus.outSize[m] |-> IF i <= kept THEN w ELSE old[i]]
    BY <2>1
  <2>4. w \in Nat
    BY <1>2
  <2> HIDE DEF cells, old, w, kept
  <2>5. cells \in [1..bus.outSize[m] -> Nat]
    BY <2>2, <2>3, <2>4
  <2>6. bus.outSize[m] \in Nat
    BY <1>2
  <2>7. cells \in Seq(Nat) /\ Len(cells) = bus.outSize[m]
    BY <2>5, <2>6
  <2>8. \A i \in 1..bus.outSize[m] : cells[i] = IF i <= kept THEN w ELSE old[i]
    BY <2>3
  <2> QED
    BY <2>7, <2>8
<1>6. \A i \in 1..bus.outSize[m] : old[i] <= written[m] /\ old[i] \in Nat
  BY <1>1, <1>2 DEF MessageOK
<1>7. w \in Nat /\ w > written[m]
  BY <1>2
<1> HIDE DEF cells, kept, old
<1>8. /\ data \in [Messages -> Seq(Nat)] /\ size \in [Messages -> Nat]
      /\ id \in [Messages -> Ids] /\ written \in [Messages -> Nat]
  BY InvFacts
<1>9. data'[m] = cells /\ size'[m] = kept /\ written'[m] = w
  BY <1>4, <1>8
<1>10. \A x \in Messages \ {m} : data'[x] = data[x] /\ size'[x] = size[x] /\ written'[x] = written[x]
  BY <1>4, <1>8
<1>11. Whole(m)' => kept = bus.outSize[m]
  <2>1. SUFFICES ASSUME kept # bus.outSize[m], Whole(m)' PROVE FALSE
    OBVIOUS
  <2> DEFINE k == kept + 1
  <2>2. k \in 1..bus.outSize[m] /\ ~(k <= kept)
    BY <1>2, <1>3, <2>1
  <2>3. DOMAIN cells = 1..bus.outSize[m]
    BY <1>5
  <2> HIDE DEF k
  <2>4. cells[k] = w
    BY <1>9, <2>1, <2>2, <2>3 DEF Whole
  <2>5. cells[k] = old[k]
    BY <1>5, <2>2
  <2> HIDE DEF w
  <2> QED
    BY <1>2, <1>6, <1>7, <2>2, <2>4, <2>5
<1>12. MessageOK(m)'
  <2>1. \A k \in 1..Len(data'[m]) : data'[m][k] <= written'[m]
    <3> HIDE DEF w
    <3>1. ASSUME NEW k \in 1..bus.outSize[m] PROVE cells[k] <= w
      <4>1. old[k] \in Nat /\ old[k] <= written[m]
        BY <1>6
      <4>2. cells[k] = w \/ cells[k] = old[k]
        BY <1>5
      <4> QED
        BY <1>2, <1>7, <4>1, <4>2
    <3> QED
      BY <1>5, <1>9, <3>1
  <2>2. \A k \in 1..size'[m] : data'[m][k] = written'[m]
    <3> HIDE DEF w
    <3>1. ASSUME NEW k \in 1..kept PROVE cells[k] = w
      <4>1. k \in 1..bus.outSize[m] /\ k <= kept
        BY <1>2, <1>3
      <4> QED
        BY <1>5, <4>1
    <3> QED
      BY <1>9, <3>1
  <2>3. got'[m] < written'[m]
    <3>1. got[m] <= written[m]
      BY <1>1 DEF MessageOK
    <3> HIDE DEF w
    <3> QED
      BY <1>2, <1>4, <1>7, <1>9, <3>1
  <2>4. got'[m] <= written'[m]
    <3> HIDE DEF w
    <3> QED
      BY <1>2, <1>4, <1>7, <1>9, <2>3
  <2>5. Whole(m)' => size'[m] = bus'.outSize[m]
    BY <1>4, <1>9, <1>11
  <2> QED
    BY <2>1, <2>2, <2>3, <2>4, <2>5 DEF MessageOK
<1>13. Accounted(m)'
  <2>1. Whole(m)' => size'[m] = bus'.outSize[m]
    BY <1>4, <1>9, <1>11
  <2> QED
    BY <2>1 DEF Accounted
<1>14. ASSUME NEW x \in Messages
       PROVE  /\ Len(data'[x]) = bus.outSize[x]
              /\ size'[x] \in 0..bus.outSize[x]
              /\ id'[x] \in bus.ids[x]
              /\ MessageOK(x)'
              /\ Accounted(x)'
              /\ \/ written'[x] = written[x] + 1
                 \/ /\ written'[x] = written[x]
                    /\ Whole(x)' /\ written[x] > 0 => Whole(x)
                    /\ size'[x] > 0 => size[x] > 0
  <2>1. id'[x] \in bus.ids[x]
    BY <1>1, <1>4, MessageTypes
  <2>2. CASE x = m
    BY <1>3, <1>5, <1>9, <1>12, <1>13, <2>1, <2>2
  <2>3. CASE x # m
    <3>1. data'[x] = data[x] /\ size'[x] = size[x] /\ written'[x] = written[x]
      BY <1>10, <2>3
    <3>2. lost \subseteq lost'
      BY <1>4
    <3>3. /\ Len(data'[x]) = bus.outSize[x]
          /\ size'[x] \in 0..bus.outSize[x]
          /\ MessageOK(x)'
          /\ Accounted(x)'
          /\ Whole(x)' => Whole(x)
      BY <1>4, <3>1, <3>2, OtherMessage
    <3> QED
      BY <2>1, <3>1, <3>3
  <2> QED
    BY <2>2, <2>3
<1>15. /\ data' \in [Messages -> Seq(Nat)] /\ size' \in [Messages -> Nat]
       /\ id' \in [Messages -> Ids] /\ written' \in [Messages -> Nat]
  <2>1. kept \in Nat
    BY <1>3
  <2> HIDE DEF w
  <2> QED
    BY <1>4, <1>5, <1>7, <1>8, <2>1
<1>16. /\ upsets' \in Nat /\ queued' \in {"yes", "no", "stale"}
       /\ emissions' \in Nat /\ seqNum' = NumberOf(emissions')
       /\ lost' \subseteq Messages \X Nat
  BY <1>4, InvFacts
<1> QED
  BY <1>4, <1>14, <1>15, <1>16, SenderStep

(* A step that changes neither the data nor the sizes nor what is written. *)
LEMMA QuietStep ==
  ASSUME IInv, bus' = bus, wire' = wire, in' = in, got' = got, lost' = lost,
         data' = data, size' = size, written' = written,
         seqNum' = seqNum, emissions' = emissions,
         upsets' \in Nat, queued' \in {"yes", "no", "stale"}, id' \in [Messages -> Ids],
         \A m \in Messages : id'[m] \in bus.ids[m]
  PROVE  IInv'
<1>1. ASSUME NEW m \in Messages
      PROVE  /\ Len(data'[m]) = bus.outSize[m]
             /\ size'[m] \in 0..bus.outSize[m]
             /\ id'[m] \in bus.ids[m]
             /\ MessageOK(m)'
             /\ Accounted(m)'
             /\ \/ written'[m] = written[m] + 1
                \/ /\ written'[m] = written[m]
                   /\ Whole(m)' /\ written[m] > 0 => Whole(m)
                   /\ size'[m] > 0 => size[m] > 0
  <2>1. lost \subseteq lost'
    OBVIOUS
  <2>2. /\ Len(data'[m]) = bus.outSize[m]
        /\ size'[m] \in 0..bus.outSize[m]
        /\ MessageOK(m)'
        /\ Accounted(m)'
        /\ Whole(m)' => Whole(m)
    BY <2>1, OtherMessage
  <2> QED
    BY <2>2
<1>2. /\ data' \in [Messages -> Seq(Nat)] /\ size' \in [Messages -> Nat]
      /\ written' \in [Messages -> Nat]
      /\ emissions' \in Nat /\ seqNum' = NumberOf(emissions')
      /\ lost' \subseteq Messages \X Nat
  BY InvFacts
<1> QED
  BY <1>1, <1>2, SenderStep

LEMMA SetIdKeeps ==
  ASSUME IInv, NEW m \in Messages, NEW i \in bus.ids[m], SetId(m, i)
  PROVE  IInv'
<1>1. id \in [Messages -> Ids] /\ TypeOK /\ upsets \in Nat /\ queued \in {"yes", "no", "stale"}
  BY InvFacts
<1>2. i \in Ids
  BY DEF Ids
<1>3. id' = [id EXCEPT ![m] = i]
  BY DEF SetId
<1>4. id' \in [Messages -> Ids]
  BY <1>1, <1>2, <1>3
<1>5. \A x \in Messages : id'[x] \in bus.ids[x]
  BY <1>1, <1>3, MessageTypes
<1>6. upsets' \in Nat
  BY <1>1 DEF SetId, Upset
<1> QED
  BY <1>1, <1>4, <1>5, <1>6, QuietStep DEF SetId

LEMMA EmptySendAllKeeps ==
  ASSUME IInv, EmptySendAll
  PROVE  IInv'
<1>1. id \in [Messages -> Ids] /\ TypeOK /\ upsets \in Nat
  BY InvFacts
<1>2. \A x \in Messages : id[x] \in bus.ids[x]
  BY <1>1, MessageTypes
<1> QED
  BY <1>1, <1>2, QuietStep DEF EmptySendAll

(* A message that is emptied: by a reset, which clears its data, or by an  *)
(* emission that fails, which leaves them.                                 *)
LEMMA EmptiedMessage ==
  ASSUME IInv, NEW m \in Messages, bus' = bus, wire' = wire, got' = got, lost \subseteq lost',
         written'[m] = written[m], size'[m] = 0,
         data'[m] = data[m] \/ data'[m] = Zeros(bus, m),
         size[m] > 0 => <<m, written[m]>> \in lost'
  PROVE  /\ data'[m] \in Seq(Nat)
         /\ Len(data'[m]) = bus.outSize[m]
         /\ size'[m] \in 0..bus.outSize[m]
         /\ MessageOK(m)'
         /\ Accounted(m)'
         /\ Whole(m)' /\ written[m] > 0 => Whole(m)
<1>1. TypeOK /\ MessageOK(m) /\ Accounted(m)
  BY InvFacts
<1>2. /\ data[m] \in Seq(Nat) /\ Len(data[m]) = bus.outSize[m]
      /\ bus.outSize[m] \in Nat \ {0}
      /\ size[m] \in 0..bus.outSize[m]
      /\ written[m] \in Nat /\ got[m] \in Nat
  BY <1>1, MessageTypes
<1> DEFINE z == Zeros(bus, m)
<1>3. z \in Seq(Nat) /\ Len(z) = bus.outSize[m] /\ (\A k \in 1..bus.outSize[m] : z[k] = 0)
      /\ DOMAIN z = 1..bus.outSize[m]
  <2>1. z = [i \in 1..bus.outSize[m] |-> 0]
    BY DEF Zeros
  <2>2. bus.outSize[m] \in Nat
    BY <1>2
  <2> HIDE DEF z
  <2>3. z \in [1..bus.outSize[m] -> Nat]
    BY <2>1
  <2>4. z \in Seq(Nat) /\ Len(z) = bus.outSize[m]
    BY <2>2, <2>3
  <2> QED
    BY <2>1, <2>4
<1> HIDE DEF z
<1>4. data'[m] = data[m] \/ data'[m] = z
  BY DEF z
<1>5. data'[m] \in Seq(Nat) /\ Len(data'[m]) = bus.outSize[m]
  BY <1>2, <1>3, <1>4
<1>6. \A k \in 1..bus.outSize[m] : data'[m][k] <= written[m]
  BY <1>1, <1>2, <1>3, <1>4 DEF MessageOK
<1>7. size'[m] \in 0..bus.outSize[m] /\ ~(size'[m] > 0) /\ 1..size'[m] = {}
  BY <1>2
<1>8. got'[m] <= written'[m]
  BY <1>1 DEF MessageOK
<1>9. MessageOK(m)'
  BY <1>5, <1>6, <1>7, <1>8 DEF MessageOK
<1>10. Whole(m)' /\ written[m] > 0 => Whole(m)
  <2>1. CASE data'[m] = data[m]
    BY <2>1 DEF Whole
  <2>2. CASE data'[m] = z
    <3>1. 1 \in DOMAIN z /\ z[1] = 0
      BY <1>2, <1>3
    <3>2. Whole(m)' => written[m] = 0
      BY <2>2, <3>1 DEF Whole
    <3> QED
      BY <1>2, <3>2
  <2> QED
    BY <1>4, <2>1, <2>2
<1>11. Accounted(m)'
  <2>1. Compatible(m)' <=> Compatible(m)
    BY SameBus
  <2>2. \A k \in DOMAIN wire : Carried(wire[k])' = Carried(wire[k])
    BY DEF Carried
  <2>3. SUFFICES ASSUME Compatible(m), written[m] > 0, Whole(m)
                 PROVE  \/ \E k \in DOMAIN wire : <<m, written[m]>> \in Carried(wire[k])
                        \/ got[m] = written[m]
                        \/ <<m, written[m]>> \in lost'
    BY <1>10, <2>1, <2>2 DEF Accounted
  <2>4. CASE size[m] = bus.outSize[m]
    BY <1>2, <2>4
  <2>5. CASE size[m] # bus.outSize[m]
    BY <1>1, <2>3, <2>5 DEF Accounted
  <2> QED
    BY <2>4, <2>5
<1> QED
  BY <1>5, <1>7, <1>9, <1>10, <1>11

LEMMA LastWritesFacts ==
  ASSUME IInv, NEW ms \in SUBSET Messages
  PROVE  /\ LastWrites(ms) \subseteq Messages \X Nat
         /\ \A m \in ms : <<m, written[m]>> \in LastWrites(ms)
<1>1. \A m \in Messages : written[m] \in Nat
  BY InvFacts
<1> QED
  BY <1>1 DEF LastWrites

LEMMA ResetOutputKeeps ==
  ASSUME IInv, NEW m \in Messages, ResetOutput(m)
  PROVE  IInv'
<1>1. /\ data' = [data EXCEPT ![m] = Zeros(bus, m)]
      /\ size' = [size EXCEPT ![m] = 0]
      /\ lost' = lost \cup LastWrites({m} \cap Pending)
      /\ bus' = bus /\ id' = id /\ queued' = queued /\ seqNum' = seqNum /\ written' = written
      /\ emissions' = emissions /\ wire' = wire /\ in' = in /\ got' = got
  BY DEF ResetOutput
<1>2. /\ data \in [Messages -> Seq(Nat)] /\ size \in [Messages -> Nat]
      /\ id \in [Messages -> Ids] /\ written \in [Messages -> Nat]
      /\ upsets \in Nat /\ TypeOK
  BY InvFacts
<1>3. upsets' \in Nat
  BY <1>2 DEF ResetOutput, Upset
<1>4. {m} \cap Pending \subseteq Messages
  OBVIOUS
<1>5. lost \subseteq lost' /\ lost' \subseteq Messages \X Nat
  BY <1>1, <1>4, LastWritesFacts, InvFacts
<1>6. size[m] > 0 => <<m, written[m]>> \in lost'
  BY <1>1, <1>4, LastWritesFacts DEF Pending
<1>7. data'[m] = Zeros(bus, m) /\ size'[m] = 0 /\ written'[m] = written[m]
  BY <1>1, <1>2
<1>8. /\ data'[m] \in Seq(Nat)
      /\ Len(data'[m]) = bus.outSize[m]
      /\ size'[m] \in 0..bus.outSize[m]
      /\ MessageOK(m)'
      /\ Accounted(m)'
      /\ Whole(m)' /\ written[m] > 0 => Whole(m)
  BY <1>1, <1>5, <1>6, <1>7, EmptiedMessage
<1>9. data' \in [Messages -> Seq(Nat)] /\ size' \in [Messages -> Nat]
  <2>1. Zeros(bus, m) \in Seq(Nat)
    BY <1>7, <1>8
  <2> QED
    BY <1>1, <1>2, <2>1
<1>10. ASSUME NEW x \in Messages
       PROVE  /\ Len(data'[x]) = bus.outSize[x]
              /\ size'[x] \in 0..bus.outSize[x]
              /\ id'[x] \in bus.ids[x]
              /\ MessageOK(x)'
              /\ Accounted(x)'
              /\ \/ written'[x] = written[x] + 1
                 \/ /\ written'[x] = written[x]
                    /\ Whole(x)' /\ written[x] > 0 => Whole(x)
                    /\ size'[x] > 0 => size[x] > 0
  <2>1. id'[x] \in bus.ids[x]
    BY <1>1, <1>2, MessageTypes
  <2>2. CASE x = m
    <3>1. ~(size'[m] > 0)
      BY <1>7
    <3> QED
      BY <1>7, <1>8, <2>1, <2>2, <3>1
  <2>3. CASE x # m
    <3>1. data'[x] = data[x] /\ size'[x] = size[x] /\ written'[x] = written[x]
      BY <1>1, <1>2, <2>3
    <3>2. /\ Len(data'[x]) = bus.outSize[x]
          /\ size'[x] \in 0..bus.outSize[x]
          /\ MessageOK(x)'
          /\ Accounted(x)'
          /\ Whole(x)' => Whole(x)
      BY <1>1, <1>5, <3>1, OtherMessage
    <3> QED
      BY <2>1, <3>1, <3>2
  <2> QED
    BY <2>2, <2>3
<1>11. emissions' \in Nat /\ seqNum' = NumberOf(emissions') /\ queued' \in {"yes", "no", "stale"}
  BY <1>1, InvFacts
<1> QED
  BY <1>1, <1>2, <1>3, <1>5, <1>9, <1>10, <1>11, SenderStep

(* Every message is emptied. *)
LEMMA AllEmptied ==
  ASSUME IInv, bus' = bus, wire' = wire, in' = in, got' = got, id' = id, written' = written,
         upsets' \in Nat, queued' \in {"yes", "no", "stale"},
         emissions' \in Nat, seqNum' = NumberOf(emissions'),
         lost' = lost \cup LastWrites(Pending),
         size' = [m \in Messages |-> 0],
         data' = data \/ data' = [m \in Messages |-> Zeros(bus, m)]
  PROVE  IInv'
<1>1. /\ data \in [Messages -> Seq(Nat)] /\ size \in [Messages -> Nat]
      /\ id \in [Messages -> Ids] /\ written \in [Messages -> Nat] /\ TypeOK
  BY InvFacts
<1>2. Pending \subseteq Messages
  BY DEF Pending
<1>3. lost \subseteq lost' /\ lost' \subseteq Messages \X Nat
  BY <1>2, LastWritesFacts, InvFacts
<1>4. ASSUME NEW m \in Messages
      PROVE  /\ data'[m] \in Seq(Nat)
             /\ Len(data'[m]) = bus.outSize[m]
             /\ size'[m] \in 0..bus.outSize[m]
             /\ MessageOK(m)'
             /\ Accounted(m)'
             /\ Whole(m)' /\ written[m] > 0 => Whole(m)
             /\ size'[m] = 0
  <2>1. data'[m] = data[m] \/ data'[m] = Zeros(bus, m)
    OBVIOUS
  <2>2. size'[m] = 0 /\ written'[m] = written[m]
    OBVIOUS
  <2>3. size[m] > 0 => <<m, written[m]>> \in lost'
    BY <1>2, LastWritesFacts DEF Pending
  <2> QED
    BY <1>3, <2>1, <2>2, <2>3, EmptiedMessage
<1>5. data' \in [Messages -> Seq(Nat)] /\ size' \in [Messages -> Nat]
  <2>1. CASE data' = data
    BY <1>1, <2>1
  <2>2. CASE data' = [m \in Messages |-> Zeros(bus, m)]
    <3>1. \A m \in Messages : Zeros(bus, m) \in Seq(Nat)
      BY <1>4, <2>2
    <3> QED
      BY <2>2, <3>1
  <2> QED
    BY <2>1, <2>2
<1>6. ASSUME NEW m \in Messages
      PROVE  /\ Len(data'[m]) = bus.outSize[m]
             /\ size'[m] \in 0..bus.outSize[m]
             /\ id'[m] \in bus.ids[m]
             /\ MessageOK(m)'
             /\ Accounted(m)'
             /\ \/ written'[m] = written[m] + 1
                \/ /\ written'[m] = written[m]
                   /\ Whole(m)' /\ written[m] > 0 => Whole(m)
                   /\ size'[m] > 0 => size[m] > 0
  <2>1. id'[m] \in bus.ids[m]
    BY <1>1, MessageTypes
  <2>2. size'[m] = 0 => ~(size'[m] > 0)
    OBVIOUS
  <2> QED
    BY <1>4, <2>1, <2>2
<1> QED
  BY <1>1, <1>3, <1>5, <1>6, SenderStep

LEMMA ResetAllOutputsKeeps ==
  ASSUME IInv, ResetAllOutputs
  PROVE  IInv'
<1>1. upsets' \in Nat /\ queued' \in {"yes", "no", "stale"}
  BY InvFacts DEF ResetAllOutputs, Upset
<1>2. emissions' = 0 /\ seqNum' = 0 /\ NumberOf(0) = 0
  BY DEF ResetAllOutputs, NumberOf
<1> QED
  BY <1>1, <1>2, AllEmptied DEF ResetAllOutputs

LEMMA SendThrowsKeeps ==
  ASSUME IInv, SendThrows
  PROVE  IInv'
<1>1. upsets' \in Nat
  BY InvFacts DEF SendThrows, Upset
<1>2. /\ seqNum' = NextNumber(seqNum) /\ emissions' = emissions + 1
      /\ size' = [m \in Messages |-> 0] /\ data' = data /\ id' = id /\ written' = written
      /\ bus' = bus /\ wire' = wire /\ in' = in /\ got' = got
      /\ lost' = lost \cup LastWrites(Pending) /\ queued' = "stale"
  BY DEF SendThrows, TakeData
<1>3. seqNum = NumberOf(emissions) /\ emissions \in Nat
  BY InvFacts
<1>4. emissions' \in Nat /\ seqNum' = NumberOf(emissions')
  BY <1>2, <1>3, NextIsNumberOf
<1> QED
  BY <1>1, <1>2, <1>4, AllEmptied

-----------------------------------------------------------------------------
(* An emission.                                                            *)
LEMMA NewFrame ==
  ASSUME IInv, NEW m \in Framed
  PROVE  /\ m \in Messages
         /\ bus.protocol # "a429" => Uniform(Payload(m))
         /\ bus.protocol # "can" => Payload(m) # <<>>
         /\ Payload(m) # <<>> => /\ size[m] > 0
                                 /\ Payload(m)[1] = written[m]
                                 /\ written[m] > got[m]
                                 /\ Whole(m) => Len(Payload(m)) = bus.outSize[m]
<1>1. TypeOK /\ MessagesOK
  BY InvFacts
<1>2. m \in Messages
  BY DEF Framed, Pending
<1>3. MessageOK(m)
  BY <1>1, <1>2 DEF MessagesOK
<1>4. /\ size[m] \in 0..bus.outSize[m] /\ bus.outSize[m] \in Nat
      /\ written[m] \in Nat /\ got[m] \in Nat
  BY <1>1, <1>2, MessageTypes
<1>5. bus.protocol # "can" => size[m] > 0
  BY DEF Framed, Pending
<1>6. Payload(m) # <<>> => size[m] > 0
  <2>1. CASE bus.protocol = "can"
    <3>1. Payload(m) \in Seq(Nat) /\ Len(Payload(m)) = size[m]
      BY <1>1, <1>2, <2>1, PayloadFacts
    <3>2. size[m] = 0 => Payload(m) = <<>>
      BY <3>1, EmptySeq
    <3> QED
      BY <1>4, <3>2
  <2> QED
    BY <1>5, <2>1
<1>7. ASSUME bus.protocol # "a429" PROVE Uniform(Payload(m))
  <2>1. Len(Payload(m)) = size[m]
    BY <1>1, <1>2, <1>7, PayloadFacts
  <2>2. ASSUME NEW k \in 1..size[m]
        PROVE  Payload(m)[k] = Payload(m)[1] /\ Payload(m)[k] # 0
    <3>1. size[m] > 0
      BY <1>4
    <3>2. Payload(m)[1] = written[m] /\ written[m] > 0
      BY <1>1, <1>2, <3>1, FirstCell
    <3>3. Payload(m)[k] = data[m][k]
      BY <1>1, <1>2, <2>1, PayloadFacts
    <3>4. data[m][k] = written[m]
      BY <1>3 DEF MessageOK
    <3> QED
      BY <3>2, <3>3, <3>4
  <2> QED
    BY <2>1, <2>2 DEF Uniform
<1>8. bus.protocol # "can" => Payload(m) # <<>>
  BY <1>1, <1>2, <1>5, PayloadFacts
<1>9. ASSUME Payload(m) # <<>>
      PROVE  /\ size[m] > 0
             /\ Payload(m)[1] = written[m]
             /\ written[m] > got[m]
             /\ Whole(m) => Len(Payload(m)) = bus.outSize[m]
  <2>1. size[m] > 0
    BY <1>6, <1>9
  <2>2. Payload(m)[1] = written[m] /\ got[m] < written[m]
    BY <1>1, <1>2, <2>1, FirstCell
  <2>3. Whole(m) => size[m] = bus.outSize[m]
    BY <1>3, <2>1 DEF MessageOK
  <2>4. Len(Payload(m)) = size[m] \/ Len(Payload(m)) = bus.outSize[m]
    BY <1>1, <1>2, PayloadFacts
  <2> QED
    BY <1>4, <2>1, <2>2, <2>3, <2>4
<1> QED
  BY <1>2, <1>7, <1>8, <1>9

LEMMA NothingFramed ==
  ASSUME TypeOK, Frames = <<>>
  PROVE  size = [m \in Messages |-> 0]
<1>1. Range(<<>>) = {}
  BY DEF Range
<1>2. Framed = {}
  BY <1>1, FramesFacts
<1>3. Pending = {}
  BY <1>2 DEF Framed, Pending
<1>4. ASSUME NEW m \in Messages PROVE size[m] = 0
  <2>1. size[m] \in Nat
    BY DEF TypeOK
  <2>2. ~(size[m] > 0)
    BY <1>3 DEF Pending
  <2> QED
    BY <2>1, <2>2
<1> QED
  BY <1>4 DEF TypeOK

LEMMA SendNothingKeeps ==
  ASSUME IInv, SendAll, Frames = <<>>
  PROVE  IInv'
<1>1. TypeOK /\ upsets \in Nat /\ id \in [Messages -> Ids]
  BY InvFacts
<1>2. size' = size
  BY <1>1, NothingFramed DEF SendAll, TakeData
<1>3. \A m \in Messages : id[m] \in bus.ids[m]
  BY <1>1, MessageTypes
<1> QED
  BY <1>1, <1>2, <1>3, QuietStep DEF SendAll, TakeData

(* The datagram at the end of the wire. *)
LEMMA WireAppended ==
  ASSUME TypeOK, NEW d, d \in Datagrams, wire' = Append(wire, d)
  PROVE  /\ wire' \in Seq(Datagrams) /\ Len(wire') = Len(wire) + 1 /\ Len(wire) \in Nat
         /\ \A k \in 1..Len(wire) : wire'[k] = wire[k]
         /\ wire'[Len(wire) + 1] = d
         /\ \A k \in 1..Len(wire') : k \in 1..Len(wire) \/ k = Len(wire) + 1
<1>1. wire \in Seq(Datagrams) /\ Len(wire) \in Nat
  BY WireFacts
<1>2. /\ wire' \in Seq(Datagrams) /\ Len(wire') = Len(wire) + 1
      /\ \A k \in 1..Len(wire) : wire'[k] = wire[k]
      /\ wire'[Len(wire) + 1] = d
  BY <1>1, AppendProperties
<1> QED
  BY <1>1, <1>2

LEMMA SendSomethingKeeps ==
  ASSUME IInv, SendAll, Frames # <<>>
  PROVE  IInv'
<1> DEFINE d == [number |-> seqNum', emission |-> emissions', frames |-> Frames]
           n == Len(wire)
<1>1. /\ wire' = Append(wire, d)
      /\ queued' = "no" /\ size' = [m \in Messages |-> 0]
      /\ seqNum' = NextNumber(seqNum) /\ emissions' = emissions + 1
      /\ bus' = bus /\ data' = data /\ id' = id /\ written' = written
      /\ in' = in /\ got' = got /\ lost' = lost /\ upsets' = upsets
  BY DEF SendAll, TakeData
<1>2. TypeOK /\ MessagesOK /\ FramesOK /\ DatagramsOK /\ InOrder /\ InputsOK /\ Numbered
  BY DEF IInv
<1>3. seqNum = NumberOf(emissions) /\ emissions \in Nat
  BY InvFacts
<1>4. /\ emissions' \in Nat \ {0} /\ seqNum' = NumberOf(emissions')
      /\ seqNum' \in 1..Modulus - 1
  BY <1>1, <1>3, NextIsNumberOf
<1>5. Frames \in Seq(FrameRecords) /\ DatagramOK(Frames)
  BY <1>2, FramesFacts
<1>6. d \in Datagrams
  BY <1>4, <1>5 DEF Datagrams
<1>7. d.frames = Frames /\ d.number = seqNum' /\ d.emission = emissions'
  OBVIOUS
<1> HIDE DEF d
<1>8. /\ wire' \in Seq(Datagrams) /\ Len(wire') = n + 1 /\ n \in Nat
      /\ \A k \in 1..n : wire'[k] = wire[k]
      /\ wire'[n + 1] = d
      /\ \A k \in 1..Len(wire') : k \in 1..n \/ k = n + 1
  BY <1>1, <1>2, <1>6, WireAppended
<1> HIDE DEF n
<1>9. /\ Messages' = Messages /\ InIds' = InIds /\ Ids' = Ids /\ Datagrams' = Datagrams
  BY <1>1, SameBus
<1>10. \A m \in Messages : size'[m] = 0
  BY <1>1
<1>11. TypeOK'
  <2>1. seqNum' \in 0..Modulus - 1
    BY <1>4, ModulusFacts
  <2>2. Modulus' = Modulus
    BY DEF Modulus
  <2>3. size' \in [Messages -> Nat] /\ \A m \in Messages : size'[m] \in 0..bus.outSize[m]
    <3>1. \A m \in Messages : bus.outSize[m] \in Nat
      BY <1>2, MessageTypes
    <3> QED
      BY <1>1, <3>1
  <2> QED
    BY <1>1, <1>2, <1>4, <1>8, <1>9, <2>1, <2>2, <2>3 DEF TypeOK
<1>12. Numbered'
  <2>1. ASSUME NEW k \in 1..Len(wire')
        PROVE  wire'[k].number = NumberOf(wire'[k].emission)
    <3>1. CASE k \in 1..n
      BY <1>2, <1>8, <3>1 DEF Numbered, n
    <3>2. CASE k = n + 1
      BY <1>4, <1>7, <1>8, <3>2
    <3> QED
      BY <1>8, <3>1, <3>2
  <2> QED
    BY <1>4, <2>1 DEF Numbered, NumberOf, Modulus
<1>13. MessagesOK'
  <2>1. ASSUME NEW m \in Messages PROVE MessageOK(m)'
    <3>1. MessageOK(m)
      BY <1>2 DEF MessagesOK
    <3>2. size'[m] = 0 /\ 1..0 = {} /\ ~(0 > 0)
      BY <1>10
    <3> QED
      BY <1>1, <3>1, <3>2 DEF MessageOK
  <2> QED
    BY <1>9, <2>1 DEF MessagesOK
<1>14. FramesOK'
  <2>1. ASSUME NEW k \in 1..n, NEW f \in Range(wire[k].frames)
        PROVE  FrameOK(f)'
    <3>1. f \in FrameRecords /\ f.from \in Messages
      BY <1>2, <2>1, FlyingFacts DEF n
    <3>2. FrameOK(f)
      BY <1>2, <2>1 DEF FramesOK, n
    <3>3. ~(size'[f.from] > 0)
      BY <1>10, <3>1
    <3>4. Whole(f.from)' => Whole(f.from)
      BY <1>1 DEF Whole
    <3> QED
      BY <1>1, <1>2, <3>1, <3>2, <3>3, <3>4, FrameStays
  <2>2. ASSUME NEW f \in Range(Frames)
        PROVE  FrameOK(f)'
    <3>1. PICK m \in Framed : f = Frame(m)
      BY <1>2, FramesFacts
    <3>2. /\ m \in Messages
          /\ bus.protocol # "a429" => Uniform(Payload(m))
          /\ bus.protocol # "can" => Payload(m) # <<>>
          /\ Payload(m) # <<>> => /\ size[m] > 0
                                  /\ Payload(m)[1] = written[m]
                                  /\ written[m] > got[m]
                                  /\ Whole(m) => Len(Payload(m)) = bus.outSize[m]
      BY NewFrame
    <3>3. f.id = id[m] /\ f.from = m /\ f.cells = Payload(m)
      BY <1>2, <3>1, <3>2, FrameFacts
    <3>4. id[m] \in bus.ids[m] /\ written[m] \in Nat
      BY <1>2, <3>2, MessageTypes
    <3>5. Whole(m)' => Whole(m)
      BY <1>1 DEF Whole
    <3>6. ~(size'[m] > 0)
      BY <1>10, <3>2
    <3>7. ASSUME f.cells # <<>> PROVE Sized(f)' /\ Fresh(f)'
      <4>1. f.cells[1] = written[m] /\ written[m] > got[m]
        BY <3>2, <3>3, <3>7
      <4>2. Whole(m) => Len(f.cells) = bus.outSize[m]
        BY <3>2, <3>3, <3>7
      <4>3. Sized(f)'
        BY <1>1, <3>3, <3>5, <4>2 DEF Sized
      <4>4. Fresh(f)'
        BY <1>1, <3>3, <3>4, <3>6, <4>1 DEF Fresh
      <4> QED
        BY <4>3, <4>4
    <3>8. /\ bus'.protocol # "a429" => Uniform(f.cells)
          /\ bus'.protocol # "can" => f.cells # <<>>
          /\ f.id \in bus'.ids[f.from]
      BY <1>1, <3>2, <3>3, <3>4
    <3> QED
      BY <3>7, <3>8 DEF FrameOK
  <2>3. ASSUME NEW k \in 1..Len(wire'), NEW f \in Range(wire'[k].frames)
        PROVE  FrameOK(f)'
    <3>1. CASE k \in 1..n
      BY <1>8, <2>1, <2>3, <3>1
    <3>2. CASE k = n + 1
      BY <1>7, <1>8, <2>2, <2>3, <3>2
    <3> QED
      BY <1>8, <3>1, <3>2
  <2> QED
    BY <2>3 DEF FramesOK
<1>15. DatagramsOK'
  <2>1. ASSUME NEW k \in 1..Len(wire') PROVE DatagramOK(wire'[k].frames)
    <3>1. CASE k \in 1..n
      BY <1>2, <1>8, <3>1 DEF DatagramsOK, n
    <3>2. CASE k = n + 1
      BY <1>5, <1>7, <1>8, <3>2
    <3> QED
      BY <1>8, <3>1, <3>2
  <2> QED
    BY <1>1, <2>1 DEF DatagramsOK, DatagramOK
<1>16. InOrder'
  <2>1. ASSUME NEW k \in 1..Len(wire'), NEW j \in 1..k - 1,
               NEW f \in Range(wire'[j].frames), NEW g \in Range(wire'[k].frames)
        PROVE  Later(f, g)
    <3>1. j \in 1..n /\ wire'[j] = wire[j]
      BY <1>8
    <3>2. CASE k \in 1..n
      BY <1>2, <1>8, <2>1, <3>1, <3>2 DEF InOrder, n
    <3>3. CASE k = n + 1
      <4>1. PICK m \in Framed : g = Frame(m)
        BY <1>2, <1>7, <1>8, <2>1, <3>3, FramesFacts
      <4>2. /\ m \in Messages
            /\ Payload(m) # <<>> => /\ size[m] > 0
                                    /\ Payload(m)[1] = written[m]
        BY NewFrame
      <4>3. g.from = m /\ g.cells = Payload(m)
        BY <1>2, <4>1, <4>2, FrameFacts
      <4>4. FrameOK(f)
        BY <1>2, <2>1, <3>1 DEF FramesOK, n
      <4>5. SUFFICES ASSUME f.from = g.from, f.cells # <<>>, g.cells # <<>>
                     PROVE  f.cells[1] < g.cells[1]
        BY DEF Later
      <4>6. Fresh(f)
        BY <4>4, <4>5 DEF FrameOK
      <4> QED
        BY <4>2, <4>3, <4>5, <4>6 DEF Fresh
    <3> QED
      BY <1>8, <3>2, <3>3
  <2> QED
    BY <2>1 DEF InOrder, Later
<1>17. InputsOK'
  BY <1>1, <1>2, <1>9 DEF InputsOK, Uniform
<1>18. LastWriteAccounted'
  <2>1. ASSUME NEW m \in Messages PROVE Accounted(m)'
    <3>1. Accounted(m)
      BY InvFacts
    <3>2. Compatible(m)' <=> Compatible(m)
      BY <1>1, SameBus
    <3>3. Whole(m)' => Whole(m)
      BY <1>1 DEF Whole
    <3>4. SUFFICES ASSUME Compatible(m), written[m] > 0, Whole(m)
                   PROVE  \/ \E k \in DOMAIN wire' : <<m, written[m]>> \in Carried(wire'[k])
                          \/ got[m] = written[m]
                          \/ <<m, written[m]>> \in lost
      BY <1>1, <3>2, <3>3 DEF Accounted, Carried
    <3>5. DOMAIN wire' = 1..n + 1 /\ DOMAIN wire = 1..n
      BY <1>2, <1>8, WireFacts, LenProperties DEF n
    <3>6. CASE size[m] = bus.outSize[m]
      <4>1. m \in Messages /\ size[m] > 0
        BY <1>2, <3>6, MessageTypes
      <4>2. m \in Framed
        BY <4>1 DEF Framed, Pending
      <4>3. Frame(m) \in Range(Frames)
        BY <1>2, <4>2, FramesFacts
      <4>4. Frame(m).from = m /\ Frame(m).cells = Payload(m)
        BY <1>2, FrameFacts
      <4>5. Payload(m) # <<>> /\ Payload(m)[1] = written[m]
        BY <1>2, <4>1, FirstCell, PayloadFacts
      <4>6. <<m, written[m]>> \in Carried(d)
        BY <1>7, <4>3, <4>4, <4>5 DEF Carried
      <4>7. n + 1 \in DOMAIN wire'
        BY <1>8, <3>5
      <4> QED
        BY <1>8, <4>6, <4>7
    <3>7. CASE \E k \in DOMAIN wire : <<m, written[m]>> \in Carried(wire[k])
      <4>1. PICK k \in DOMAIN wire : <<m, written[m]>> \in Carried(wire[k])
        BY <3>7
      <4>2. k \in DOMAIN wire' /\ wire'[k] = wire[k]
        BY <1>8, <3>5
      <4> QED
        BY <4>1, <4>2
    <3> QED
      BY <3>1, <3>4, <3>6, <3>7 DEF Accounted
  <2> QED
    BY <1>9, <2>1 DEF LastWriteAccounted, Accounted
<1> QED
  BY <1>11, <1>12, <1>13, <1>14, <1>15, <1>16, <1>17, <1>18 DEF IInv

-----------------------------------------------------------------------------
(* The datagram at the head of the wire leaves it. *)
LEMMA WireLeft ==
  ASSUME TypeOK, wire # <<>>, wire' = Tail(wire)
  PROVE  /\ Len(wire) \in Nat \ {0} /\ 1 \in 1..Len(wire) /\ Head(wire) = wire[1]
         /\ wire' \in Seq(Datagrams) /\ Len(wire') = Len(wire) - 1
         /\ \A k \in 1..Len(wire') : k + 1 \in 1..Len(wire) /\ wire'[k] = wire[k + 1]
         /\ \A k \in 1..Len(wire) : k = 1 \/ (k - 1 \in 1..Len(wire') /\ wire'[k - 1] = wire[k])
         /\ DOMAIN wire' = 1..Len(wire') /\ DOMAIN wire = 1..Len(wire)
<1>1. wire \in Seq(Datagrams)
  BY WireFacts
<1>2. Len(wire) \in Nat \ {0} /\ Head(wire) = wire[1]
  BY <1>1, EmptySeq, LenProperties
<1>3. /\ wire' \in Seq(Datagrams) /\ Len(wire') = Len(wire) - 1
      /\ \A k \in 1..Len(wire') : wire'[k] = wire[k + 1]
  BY <1>1, <1>2, HeadTailProperties
<1>4. ASSUME NEW k \in 1..Len(wire), k # 1
      PROVE  k - 1 \in 1..Len(wire') /\ wire'[k - 1] = wire[k]
  <2>1. k - 1 \in 1..Len(wire') /\ (k - 1) + 1 = k
    BY <1>2, <1>3, <1>4
  <2>2. wire'[k - 1] = wire[(k - 1) + 1]
    BY <1>3, <2>1
  <2> QED
    BY <2>1, <2>2
<1>5. \A k \in 1..Len(wire') : k + 1 \in 1..Len(wire)
  BY <1>2, <1>3
<1>6. DOMAIN wire' = 1..Len(wire') /\ DOMAIN wire = 1..Len(wire)
  BY <1>1, <1>3, LenProperties
<1> QED
  BY <1>2, <1>3, <1>4, <1>5, <1>6

LEMMA WireLeftKeeps ==
  ASSUME TypeOK, wire # <<>>, wire' = Tail(wire), bus' = bus,
         seqNum' = seqNum, emissions' = emissions, Numbered, DatagramsOK, InOrder
  PROVE  Numbered' /\ DatagramsOK' /\ InOrder'
<1>1. \A k \in 1..Len(wire') : k + 1 \in 1..Len(wire) /\ wire'[k] = wire[k + 1]
  BY WireLeft
<1>2. Numbered'
  BY <1>1 DEF Numbered, NumberOf, Modulus
<1>3. DatagramsOK'
  <2>1. \A k \in 1..Len(wire') : DatagramOK(wire'[k].frames)
    BY <1>1 DEF DatagramsOK
  <2> QED
    BY <2>1 DEF DatagramsOK, DatagramOK
<1>4. InOrder'
  <2>1. ASSUME NEW k \in 1..Len(wire'), NEW j \in 1..k - 1,
               NEW f \in Range(wire'[j].frames), NEW g \in Range(wire'[k].frames)
        PROVE  Later(f, g)
    <3>1. j + 1 \in 1..(k + 1) - 1 /\ j \in 1..Len(wire')
      OBVIOUS
    <3>2. wire'[j] = wire[j + 1] /\ wire'[k] = wire[k + 1] /\ k + 1 \in 1..Len(wire)
      BY <1>1, <3>1
    <3> QED
      BY <2>1, <3>1, <3>2 DEF InOrder
  <2> QED
    BY <2>1 DEF InOrder, Later
<1> QED
  BY <1>2, <1>3, <1>4

LEMMA CarriedFacts ==
  ASSUME TypeOK, NEW k \in 1..Len(wire)
  PROVE  /\ Carried(wire[k]) \subseteq Messages \X Nat
         /\ \A m : \A w : <<m, w>> \in Carried(wire[k]) =>
              \E f \in Range(wire[k].frames) : f.from = m /\ f.cells # <<>> /\ f.cells[1] = w
<1>1. \A f \in Range(wire[k].frames) : f.from \in Messages /\ (f.cells # <<>> => f.cells[1] \in Nat)
  BY FlyingFacts
<1> QED
  BY <1>1 DEF Carried

LEMMA LoseKeeps ==
  ASSUME IInv, Lose
  PROVE  IInv'
<1>1. /\ wire # <<>> /\ wire' = Tail(wire)
      /\ lost' = lost \cup Carried(Head(wire))
      /\ bus' = bus /\ data' = data /\ size' = size /\ id' = id /\ queued' = queued
      /\ seqNum' = seqNum /\ written' = written /\ emissions' = emissions
      /\ in' = in /\ got' = got
  BY DEF Lose, sender
<1>2. TypeOK /\ MessagesOK /\ FramesOK /\ DatagramsOK /\ InOrder /\ InputsOK /\ Numbered
  BY DEF IInv
<1>3. /\ 1 \in 1..Len(wire) /\ Head(wire) = wire[1]
      /\ wire' \in Seq(Datagrams)
      /\ \A k \in 1..Len(wire') : k + 1 \in 1..Len(wire) /\ wire'[k] = wire[k + 1]
      /\ \A k \in 1..Len(wire) : k = 1 \/ (k - 1 \in 1..Len(wire') /\ wire'[k - 1] = wire[k])
      /\ DOMAIN wire' = 1..Len(wire') /\ DOMAIN wire = 1..Len(wire)
  BY <1>1, <1>2, WireLeft
<1>4. /\ Messages' = Messages /\ InIds' = InIds /\ Ids' = Ids /\ Datagrams' = Datagrams
  BY <1>1, SameBus
<1>5. TypeOK'
  <2>1. lost' \subseteq Messages \X Nat
    BY <1>1, <1>2, <1>3, CarriedFacts, InvFacts
  <2>2. upsets' \in Nat
    BY InvFacts DEF Lose, Upset
  <2>3. Modulus' = Modulus
    BY DEF Modulus
  <2> QED
    BY <1>1, <1>2, <1>3, <1>4, <2>1, <2>2, <2>3 DEF TypeOK
<1>6. Numbered' /\ DatagramsOK' /\ InOrder'
  BY <1>1, <1>2, WireLeftKeeps
<1>7. MessagesOK'
  BY <1>1, <1>2, <1>4, SameMessage DEF MessagesOK
<1>8. FramesOK'
  <2> SUFFICES ASSUME NEW k \in 1..Len(wire'), NEW f \in Range(wire'[k].frames)
               PROVE  FrameOK(f)'
    BY DEF FramesOK
  <2>1. k + 1 \in 1..Len(wire) /\ f \in Range(wire[k + 1].frames)
    BY <1>3
  <2>2. f \in FrameRecords /\ f.from \in Messages
    BY <1>2, <2>1, FlyingFacts
  <2>3. FrameOK(f)
    BY <1>2, <2>1 DEF FramesOK
  <2>4. Whole(f.from)' => Whole(f.from)
    BY <1>1 DEF Whole
  <2> QED
    BY <1>1, <1>2, <2>2, <2>3, <2>4, FrameStays
<1>9. InputsOK'
  BY <1>1, <1>2, <1>4 DEF InputsOK, Uniform
<1>10. LastWriteAccounted'
  <2>1. ASSUME NEW m \in Messages PROVE Accounted(m)'
    <3>1. Accounted(m)
      BY InvFacts
    <3>2. Compatible(m)' <=> Compatible(m)
      BY <1>1, SameBus
    <3>3. Whole(m)' => Whole(m)
      BY <1>1 DEF Whole
    <3>4. SUFFICES ASSUME Compatible(m), written[m] > 0, Whole(m)
                   PROVE  \/ size[m] = bus.outSize[m]
                          \/ \E k \in DOMAIN wire' : <<m, written[m]>> \in Carried(wire'[k])
                          \/ got[m] = written[m]
                          \/ <<m, written[m]>> \in lost'
      BY <1>1, <3>2, <3>3 DEF Accounted, Carried
    <3>5. CASE \E k \in DOMAIN wire : <<m, written[m]>> \in Carried(wire[k])
      <4>1. PICK k \in DOMAIN wire : <<m, written[m]>> \in Carried(wire[k])
        BY <3>5
      <4>2. CASE k = 1
        BY <1>1, <1>3, <4>1, <4>2
      <4>3. CASE k # 1
        <5>1. k - 1 \in DOMAIN wire' /\ wire'[k - 1] = wire[k]
          BY <1>3, <4>3
        <5> QED
          BY <4>1, <5>1
      <4> QED
        BY <4>2, <4>3
    <3>6. CASE ~ \E k \in DOMAIN wire : <<m, written[m]>> \in Carried(wire[k])
      BY <1>1, <3>1, <3>4, <3>6 DEF Accounted
    <3> QED
      BY <3>5, <3>6
  <2> QED
    BY <1>4, <2>1 DEF LastWriteAccounted, Accounted
<1> QED
  BY <1>5, <1>6, <1>7, <1>8, <1>9, <1>10 DEF IInv

LEMMA ResetInputKeeps ==
  ASSUME IInv, NEW i \in InIds, ResetInput(i)
  PROVE  IInv'
<1>1. /\ in' = [in EXCEPT ![i] = <<>>]
      /\ bus' = bus /\ data' = data /\ size' = size /\ id' = id /\ queued' = queued
      /\ seqNum' = seqNum /\ written' = written /\ emissions' = emissions
      /\ wire' = wire /\ got' = got /\ lost' = lost
  BY DEF ResetInput, sender
<1>2. /\ Messages' = Messages /\ InIds' = InIds /\ Ids' = Ids /\ Datagrams' = Datagrams
  BY <1>1, SameBus
<1>3. TypeOK
  BY InvFacts
<1>4. TypeOK'
  <2>1. in' \in [InIds -> Seq(Nat)]
    BY <1>1, <1>3, EmptySeq DEF TypeOK
  <2>2. upsets' \in Nat
    BY InvFacts DEF ResetInput, Upset
  <2>3. Modulus' = Modulus
    BY DEF Modulus
  <2> QED
    BY <1>1, <1>2, <1>3, <2>1, <2>2, <2>3 DEF TypeOK
<1>5. InputsOK'
  <2>1. Uniform(<<>>)
    BY DEF Uniform
  <2>2. in \in [InIds -> Seq(Nat)] /\ InputsOK
    BY <1>3 DEF TypeOK, IInv
  <2>3. ASSUME bus.protocol # "a429", NEW j \in InIds PROVE Uniform(in'[j])
    <3>1. CASE j = i
      BY <1>1, <2>1, <2>2, <3>1
    <3>2. CASE j # i
      BY <1>1, <2>2, <2>3, <3>2 DEF InputsOK
    <3> QED
      BY <3>1, <3>2
  <2> QED
    BY <1>1, <1>2, <2>3 DEF InputsOK, Uniform
<1>6. Numbered' /\ DatagramsOK' /\ InOrder' /\ FramesOK'
  <2>1. Numbered /\ DatagramsOK /\ InOrder /\ FramesOK
    BY DEF IInv
  <2>2. Numbered' /\ DatagramsOK' /\ InOrder'
    BY <1>1, <2>1 DEF Numbered, NumberOf, Modulus, DatagramsOK, DatagramOK, InOrder, Later
  <2>3. ASSUME NEW k \in 1..Len(wire), NEW f \in Range(wire[k].frames)
        PROVE  FrameOK(f)'
    <3>1. f \in FrameRecords /\ f.from \in Messages
      BY <1>3, FlyingFacts
    <3>2. FrameOK(f)
      BY <2>1 DEF FramesOK
    <3>3. Whole(f.from)' => Whole(f.from)
      BY <1>1 DEF Whole
    <3> QED
      BY <1>1, <1>3, <3>1, <3>2, <3>3, FrameStays
  <2> QED
    BY <1>1, <2>2, <2>3 DEF FramesOK
<1>7. MessagesOK'
  BY <1>1, <1>2, SameMessage, InvFacts DEF MessagesOK
<1>8. LastWriteAccounted'
  <2>1. LastWriteAccounted
    BY DEF IInv
  <2>2. \A m \in Messages : (Compatible(m)' <=> Compatible(m)) /\ (Whole(m)' <=> Whole(m))
    BY <1>1, SameBus, SameMessage
  <2> QED
    BY <1>1, <1>2, <2>1, <2>2 DEF LastWriteAccounted, Carried
<1> QED
  BY <1>4, <1>5, <1>6, <1>7, <1>8 DEF IInv

-----------------------------------------------------------------------------
(* What the receiver's buffer holds: the same frames, of which an AFDX     *)
(* port keeps the front and the others those that fit.                     *)
LEMMA ReceivedFacts ==
  ASSUME TypeOK, NEW fs \in Seq(FrameRecords)
  PROVE  /\ \A k \in DOMAIN Received(fs) :
              /\ k \in 1..Len(fs)
              /\ Received(fs)[k].id = fs[k].id
              /\ Received(fs)[k].from = fs[k].from
              /\ Received(fs)[k].cells \in Seq(Nat)
              /\ Len(Received(fs)[k].cells) <= Len(fs[k].cells)
              /\ \A j \in 1..Len(Received(fs)[k].cells) :
                   Received(fs)[k].cells[j] = fs[k].cells[j]
              /\ fs[k].cells # <<>> => Received(fs)[k].cells # <<>>
              /\ bus.protocol # "afdx" => Received(fs)[k] = fs[k]
         /\ bus.protocol = "afdx" => DOMAIN Received(fs) = 1..Len(fs)
         /\ bus.protocol # "afdx" => DOMAIN Received(fs) = 1..Fewer(Len(fs), bus.room)
<1>1. Len(fs) \in Nat /\ DOMAIN fs = 1..Len(fs) /\ \A k \in 1..Len(fs) : fs[k] \in FrameRecords
  BY LenProperties
<1>2. bus.room \in Nat /\ InIds # {} /\ \A i \in InIds : bus.inSize[i] \in Nat \ {0}
  BY BusFacts DEF TypeOK
<1>3. ASSUME NEW k \in 1..Len(fs)
      PROVE  fs[k].cells \in Seq(Nat) /\ Len(fs[k].cells) \in Nat
  <2>1. fs[k] \in FrameRecords
    BY <1>1
  <2>2. fs[k].cells \in Seq(Nat)
    BY <2>1 DEF FrameRecords
  <2> QED
    BY <2>2, LenProperties
<1>4. CASE bus.protocol # "afdx"
  <2> DEFINE n == Fewer(Len(fs), bus.room)
             t == SubSeq(fs, 1, n)
  <2>1. Received(fs) = t
    BY <1>4 DEF Received
  <2>2. n \in 0..Len(fs)
    BY <1>1, <1>2, FewerFacts
  <2> HIDE DEF n
  <2>3. 1 \in Int /\ n \in Int /\ n \in Nat /\ \A k \in 1..n : k \in 1..Len(fs)
    BY <1>1, <2>2
  <2>4. t \in Seq(FrameRecords) /\ Len(t) = n /\ \A k \in 1..n : t[k] = fs[k]
    BY <1>1, <2>3, SubSeqProperties
  <2> HIDE DEF t
  <2>5. DOMAIN t = 1..n
    BY <2>4, LenProperties
  <2>6. \A k \in 1..n : Len(fs[k].cells) <= Len(fs[k].cells)
    BY <1>3, <2>3
  <2> QED
    BY <1>3, <1>4, <2>1, <2>3, <2>4, <2>5, <2>6 DEF n
<1>5. CASE bus.protocol = "afdx"
  <2> DEFINE i == CHOOSE i \in InIds : TRUE
             n(k) == Fewer(Len(fs[k].cells), bus.inSize[i])
             t(k) == SubSeq(fs[k].cells, 1, n(k))
  <2>1. bus.inSize[i] \in Nat \ {0}
    BY <1>2
  <2>2. Received(fs) = [k \in 1..Len(fs) |-> [fs[k] EXCEPT !.cells = t(k)]]
    BY <1>1, <1>5 DEF Received
  <2> HIDE DEF i
  <2>3. ASSUME NEW k \in 1..Len(fs)
        PROVE  /\ t(k) \in Seq(Nat) /\ Len(t(k)) <= Len(fs[k].cells)
               /\ \A j \in 1..Len(t(k)) : t(k)[j] = fs[k].cells[j]
               /\ fs[k].cells # <<>> => t(k) # <<>>
    <3> DEFINE c == fs[k].cells
               b == n(k)
    <3>1. c \in Seq(Nat) /\ Len(c) \in Nat
      BY <1>3
    <3>2. b \in 0..Len(c) /\ (Len(c) > 0 => b > 0)
      <4>1. bus.inSize[i] \in Nat /\ bus.inSize[i] > 0
        BY <2>1
      <4>2. b \in 0..Len(c)
        BY <3>1, <4>1, FewerFacts
      <4>3. Len(c) > 0 => b > 0
        BY <3>1, <4>1 DEF Fewer
      <4> QED
        BY <4>2, <4>3
    <3> HIDE DEF b
    <3>3. 1 \in Int /\ b \in Int /\ b \in Nat /\ \A j \in 1..b : c[j] \in Nat
      BY <3>1, <3>2
    <3> DEFINE u == SubSeq(c, 1, b)
    <3>4. u \in Seq(Nat) /\ Len(u) = b /\ \A j \in 1..b : u[j] = c[j]
      BY <3>1, <3>3, SubSeqProperties
    <3>5. t(k) = u
      BY DEF b
    <3> HIDE DEF u
    <3>6. c # <<>> => Len(c) > 0
      BY <3>1
    <3>7. b > 0 => u # <<>>
      BY <3>4
    <3>8. Len(u) <= Len(c) /\ (c # <<>> => u # <<>>)
      BY <3>1, <3>2, <3>4, <3>6, <3>7
    <3>9. /\ t(k) \in Seq(Nat) /\ Len(t(k)) <= Len(c)
          /\ \A j \in 1..Len(t(k)) : t(k)[j] = c[j]
          /\ c # <<>> => t(k) # <<>>
      <4> HIDE DEF t, c
      <4> QED
        BY <3>4, <3>5, <3>8
    <3> QED
      BY <3>9
  <2> HIDE DEF t
  <2>4. ASSUME NEW k \in 1..Len(fs)
        PROVE  /\ Received(fs)[k].id = fs[k].id
               /\ Received(fs)[k].from = fs[k].from
               /\ Received(fs)[k].cells = t(k)
    <3>1. Received(fs)[k] = [fs[k] EXCEPT !.cells = t(k)]
      BY <2>2
    <3>2. fs[k] \in FrameRecords
      BY <1>1
    <3> QED
      BY <3>1, <3>2 DEF FrameRecords
  <2>5. DOMAIN Received(fs) = 1..Len(fs)
    BY <2>2
  <2> QED
    BY <1>5, <2>3, <2>4, <2>5
<1> QED
  BY <1>4, <1>5

(* A frame that is taken has cells. *)
LEMMA TakenFacts ==
  ASSUME TypeOK, FramesOK, wire # <<>>,
         NEW i \in InIds, NEW k \in ForMessage(i, Received(Head(wire).frames))
  PROVE  LET fs == wire[1].frames
         IN  /\ k \in 1..Len(fs) /\ fs[k] \in Range(fs)
             /\ fs[k].cells # <<>>
             /\ Received(fs)[k].cells \in Seq(Nat)
             /\ Received(fs)[k].cells # <<>>
             /\ Received(fs)[k].cells[1] = fs[k].cells[1]
             /\ Received(fs)[k].from = fs[k].from
             /\ Uniform(fs[k].cells) => Uniform(Received(fs)[k].cells)
<1> DEFINE fs == wire[1].frames
           rs == Received(fs)
<1>1. Head(wire) = wire[1] /\ 1 \in 1..Len(wire)
  <2>1. wire \in Seq(Datagrams)
    BY WireFacts
  <2> QED
    BY <2>1
<1>2. fs \in Seq(FrameRecords)
  BY <1>1, WireFacts
<1>3. k \in DOMAIN rs /\ Accepted(rs[k])
  BY <1>1 DEF ForMessage
<1>4. /\ k \in 1..Len(fs)
      /\ rs[k].id = fs[k].id /\ rs[k].from = fs[k].from
      /\ rs[k].cells \in Seq(Nat)
      /\ Len(rs[k].cells) <= Len(fs[k].cells)
      /\ \A j \in 1..Len(rs[k].cells) : rs[k].cells[j] = fs[k].cells[j]
      /\ fs[k].cells # <<>> => rs[k].cells # <<>>
      /\ bus.protocol # "afdx" => rs[k] = fs[k]
  BY <1>2, <1>3, ReceivedFacts
<1> HIDE DEF rs
<1>5. fs[k] \in Range(fs) /\ fs[k] \in FrameRecords
  BY <1>2, <1>4, RangeFacts
<1>6. fs[k].cells \in Seq(Nat) /\ Len(fs[k].cells) \in Nat
  BY <1>5 DEF FrameRecords
<1>7. FrameOK(fs[k])
  BY <1>1, <1>5 DEF FramesOK
<1> HIDE DEF fs
<1>8. fs[k].cells # <<>>
  <2>1. CASE bus.protocol # "can"
    BY <1>7, <2>1 DEF FrameOK
  <2>2. CASE bus.protocol = "can"
    <3>1. rs[k] = fs[k] /\ rs[k].id \in InIds /\ Len(rs[k].cells) = bus.inSize[rs[k].id]
      BY <1>3, <1>4, <2>2 DEF Accepted
    <3>2. bus.inSize[rs[k].id] \in Nat \ {0}
      BY <3>1, BusFacts DEF TypeOK
    <3>3. Len(fs[k].cells) # 0
      BY <3>1, <3>2
    <3> QED
      BY <3>3, EmptySeq
  <2> QED
    BY <2>1, <2>2
<1>9. rs[k].cells # <<>> /\ Len(rs[k].cells) \in Nat \ {0} /\ 1 \in 1..Len(rs[k].cells)
  <2>1. rs[k].cells # <<>>
    BY <1>4, <1>8
  <2> QED
    BY <1>4, <2>1
<1>10. rs[k].cells[1] = fs[k].cells[1]
  BY <1>4, <1>9
<1>11. ASSUME Uniform(fs[k].cells) PROVE Uniform(rs[k].cells)
  <2>1. ASSUME NEW j \in 1..Len(rs[k].cells)
        PROVE  rs[k].cells[j] = rs[k].cells[1] /\ rs[k].cells[j] # 0
    <3>1. j \in 1..Len(fs[k].cells)
      BY <1>4, <1>6, <1>9
    <3>2. rs[k].cells[j] = fs[k].cells[j]
      BY <1>4
    <3> QED
      BY <1>10, <1>11, <3>1, <3>2 DEF Uniform
  <2> QED
    BY <2>1 DEF Uniform
<1> QED
  BY <1>4, <1>5, <1>8, <1>9, <1>10, <1>11 DEF fs, rs

LEMMA TakenPlaces ==
  ASSUME TypeOK, wire # <<>>
  PROVE  LET n == Len(wire[1].frames)
             rs == Received(Head(wire).frames)
         IN  /\ n \in Nat
             /\ \A i \in InIds : ForMessage(i, rs) \subseteq 1..n
             /\ \A m : Arriving(m) \subseteq 1..n
             /\ \A m : \A k \in Arriving(m) : \E i \in InIds : k \in ForMessage(i, rs)
<1>1. Head(wire) = wire[1] /\ 1 \in 1..Len(wire)
  <2>1. wire \in Seq(Datagrams)
    BY WireFacts
  <2> QED
    BY <2>1
<1> DEFINE fs == wire[1].frames
<1>2. fs \in Seq(FrameRecords) /\ Len(fs) \in Nat
  BY <1>1, WireFacts, LenProperties
<1>3. \A k \in DOMAIN Received(fs) : k \in 1..Len(fs)
  BY <1>2, ReceivedFacts
<1>4. \A i : ForMessage(i, Received(fs)) \subseteq 1..Len(fs)
  BY <1>3 DEF ForMessage
<1>5. \A m : \A k \in Arriving(m) : \E i \in InIds : k \in ForMessage(i, Received(fs))
  BY <1>1 DEF Arriving
<1> QED
  BY <1>1, <1>2, <1>4, <1>5

(* Of the frames of a message that arrive, one decides what is got: it is  *)
(* a frame of the first datagram that has cells.                           *)
LEMMA ImportGets ==
  ASSUME IInv, Import, NEW m \in Messages
  PROVE  \/ Arriving(m) = {} /\ got'[m] = got[m]
         \/ /\ Arriving(m) # {}
            /\ \E f \in Range(wire[1].frames) :
                 f.from = m /\ f.cells # <<>> /\ got'[m] = f.cells[1]
<1> DEFINE fs == wire[1].frames
           rs == Received(Head(wire).frames)
           ks == Arriving(m)
           k == LastOf(ks)
<1>1. wire # <<>> /\ TypeOK /\ FramesOK
  BY DEF Import, IInv
<1>2. Head(wire) = wire[1]
  <2>1. wire \in Seq(Datagrams)
    BY <1>1, WireFacts
  <2> QED
    BY <1>1, <2>1
<1>3. got'[m] = IF ks = {} THEN got[m] ELSE rs[k].cells[1]
  BY DEF Import
<1>4. CASE ks = {}
  BY <1>3, <1>4
<1>5. CASE ks # {}
  <2>1. Len(fs) \in Nat /\ ks \in SUBSET (1..Len(fs))
    BY <1>1, TakenPlaces
  <2> HIDE DEF fs
  <2>2. k \in ks
    <3> HIDE DEF ks
    <3> QED
      BY <1>5, <2>1, LastOfFacts
  <2>3. PICK i \in InIds : k \in ForMessage(i, rs)
    BY <1>1, <2>2, TakenPlaces
  <2>4. rs[k].from = m
    BY <2>2 DEF Arriving
  <2>5. /\ fs[k] \in Range(fs)
        /\ fs[k].cells # <<>>
        /\ rs[k].cells[1] = fs[k].cells[1]
        /\ rs[k].from = fs[k].from
    BY <1>1, <1>2, <2>3, TakenFacts DEF fs
  <2> QED
    BY <1>3, <1>5, <2>4, <2>5 DEF fs
<1> QED
  BY <1>4, <1>5

(* The last write of a message, if it is in the first datagram and both    *)
(* sides agree about the message, arrives.                                 *)
LEMMA LastWriteIsTaken ==
  ASSUME IInv, Import, NEW m \in Messages, Compatible(m), Whole(m), written[m] > 0,
         <<m, written[m]>> \in Carried(wire[1])
  PROVE  got'[m] = written[m]
<1> DEFINE fs == wire[1].frames
           rs == Received(fs)
<1>1. wire # <<>> /\ TypeOK /\ FramesOK /\ DatagramsOK
  BY DEF Import, IInv
<1>2. Head(wire) = wire[1] /\ 1 \in 1..Len(wire)
  <2>1. wire \in Seq(Datagrams)
    BY <1>1, WireFacts
  <2> QED
    BY <1>1, <2>1
<1>3. fs \in Seq(FrameRecords) /\ Len(fs) \in Nat
  BY <1>1, <1>2, WireFacts, LenProperties
<1>4. DatagramOK(fs)
  BY <1>1, <1>2 DEF DatagramsOK
<1>5. PICK f \in Range(fs) : f.from = m /\ f.cells # <<>> /\ f.cells[1] = written[m]
  BY <1>1, <1>2, CarriedFacts
<1>6. FrameOK(f)
  BY <1>1, <1>2 DEF FramesOK
<1> HIDE DEF fs
<1>7. PICK k \in 1..Len(fs) : f = fs[k]
  BY <1>3, RangeFacts
<1>8. /\ bus.list \in Seq(Messages) /\ Len(bus.list) \in Nat /\ bus.room \in Nat
      /\ \A p, q \in 1..Len(bus.list) : bus.list[p] = bus.list[q] => p = q
  BY <1>1, BusFacts, LenProperties DEF TypeOK
<1>9. f.id \in InIds /\ bus.inSize[f.id] = bus.outSize[m]
  <2>1. f.id \in bus.ids[m]
    BY <1>5, <1>6 DEF FrameOK
  <2> QED
    BY <2>1 DEF Compatible
<1>10. k \in DOMAIN rs
  <2>1. CASE bus.protocol = "afdx"
    BY <1>1, <1>3, <2>1, ReceivedFacts
  <2>2. CASE bus.protocol # "afdx"
    <3>1. PICK q \in 1..Fewer(Len(bus.list), bus.room) : bus.list[q] = m
      BY <2>2 DEF Compatible
    <3>2. PICK p \in k..Len(bus.list) : bus.list[p] = fs[k].from
      BY <1>4 DEF DatagramOK
    <3>3. q \in 1..Len(bus.list) /\ q <= bus.room
      BY <1>8 DEF Fewer
    <3>4. p = q
      BY <1>5, <1>7, <1>8, <3>1, <3>2, <3>3
    <3>5. k <= bus.room
      BY <1>8, <3>2, <3>3, <3>4
    <3>6. k \in 1..Fewer(Len(fs), bus.room)
      BY <1>3, <1>8, <3>5 DEF Fewer
    <3>7. DOMAIN rs = 1..Fewer(Len(fs), bus.room)
      BY <1>1, <1>3, <2>2, ReceivedFacts
    <3> QED
      BY <3>6, <3>7
  <2> QED
    BY <2>1, <2>2
<1>11. rs[k].id = f.id /\ rs[k].from = m /\ (bus.protocol # "afdx" => rs[k] = f)
  BY <1>1, <1>3, <1>5, <1>7, <1>10, ReceivedFacts
<1>12. Accepted(rs[k])
  <2>1. CASE bus.protocol = "can"
    <3>1. rs[k] = f
      BY <1>11, <2>1
    <3>2. Len(f.cells) = bus.outSize[m]
      BY <1>5, <1>6 DEF FrameOK, Sized
    <3> QED
      BY <1>9, <3>1, <3>2 DEF Accepted
  <2>2. CASE bus.protocol # "can"
    BY <1>9, <1>11, <2>2 DEF Accepted
  <2> QED
    BY <2>1, <2>2
<1>13. k \in ForMessage(f.id, rs)
  BY <1>10, <1>11, <1>12 DEF ForMessage
<1>14. k \in Arriving(m)
  BY <1>2, <1>9, <1>11, <1>13 DEF Arriving, fs
<1>15. PICK g \in Range(fs) : g.from = m /\ got'[m] = g.cells[1]
  BY <1>14, ImportGets DEF fs
<1>16. PICK j \in 1..Len(fs) : g = fs[j]
  BY <1>3, RangeFacts
<1>17. g.cells = f.cells
  BY <1>4, <1>5, <1>7, <1>15, <1>16 DEF DatagramOK
<1> QED
  BY <1>5, <1>15, <1>17

LEMMA ImportKeeps ==
  ASSUME IInv, Import
  PROVE  IInv'
<1>1. /\ wire # <<>> /\ wire' = Tail(wire)
      /\ bus' = bus /\ data' = data /\ size' = size /\ id' = id /\ queued' = queued
      /\ seqNum' = seqNum /\ written' = written /\ emissions' = emissions
      /\ lost' = lost /\ upsets' = upsets
  BY DEF Import, sender
<1>2. TypeOK /\ MessagesOK /\ FramesOK /\ DatagramsOK /\ InOrder /\ InputsOK /\ Numbered
  BY DEF IInv
<1>3. /\ 1 \in 1..Len(wire) /\ Head(wire) = wire[1]
      /\ wire' \in Seq(Datagrams)
      /\ \A k \in 1..Len(wire') : k + 1 \in 1..Len(wire) /\ wire'[k] = wire[k + 1]
      /\ \A k \in 1..Len(wire) : k = 1 \/ (k - 1 \in 1..Len(wire') /\ wire'[k - 1] = wire[k])
      /\ DOMAIN wire' = 1..Len(wire') /\ DOMAIN wire = 1..Len(wire)
  BY <1>1, <1>2, WireLeft
<1>4. /\ Messages' = Messages /\ InIds' = InIds /\ Ids' = Ids /\ Datagrams' = Datagrams
  BY <1>1, SameBus
<1>5. ASSUME NEW m \in Messages
      PROVE  /\ got'[m] \in Nat
             /\ got'[m] <= written[m]
             /\ size[m] > 0 => got'[m] < written[m]
  <2>1. written[m] \in Nat /\ got[m] \in Nat
    BY <1>2, MessageTypes
  <2>2. CASE got'[m] = got[m]
    BY <1>2, <2>1, <2>2 DEF MessagesOK, MessageOK
  <2>3. CASE \E f \in Range(wire[1].frames) :
               f.from = m /\ f.cells # <<>> /\ got'[m] = f.cells[1]
    <3>1. PICK f \in Range(wire[1].frames) :
                 f.from = m /\ f.cells # <<>> /\ got'[m] = f.cells[1]
      BY <2>3
    <3>2. Fresh(f)
      BY <1>2, <1>3, <3>1 DEF FramesOK, FrameOK
    <3>3. f.cells[1] \in Nat
      BY <1>2, <1>3, <3>1, FlyingFacts
    <3> QED
      BY <2>1, <3>1, <3>2, <3>3 DEF Fresh
  <2> QED
    BY <2>2, <2>3, ImportGets
<1>6. ASSUME NEW i \in InIds
      PROVE  /\ in'[i] \in Seq(Nat)
             /\ bus.protocol # "a429" => Uniform(in'[i])
  <2> DEFINE rs == Received(Head(wire).frames)
             fs == wire[1].frames
             ks == ForMessage(i, rs)
             k == LastOf(ks)
  <2>1. in'[i] = IF ks = {} THEN in[i] ELSE rs[k].cells
    BY DEF Import
  <2>2. CASE ks = {}
    BY <1>2, <2>1, <2>2 DEF TypeOK, InputsOK
  <2>3. CASE ks # {}
    <3>1. Len(fs) \in Nat /\ ks \in SUBSET (1..Len(fs))
      BY <1>1, <1>2, TakenPlaces
    <3>2. k \in ks
      <4> HIDE DEF ks, fs
      <4> QED
        BY <2>3, <3>1, LastOfFacts
    <3>3. /\ fs[k] \in Range(fs)
          /\ rs[k].cells \in Seq(Nat)
          /\ Uniform(fs[k].cells) => Uniform(rs[k].cells)
      BY <1>1, <1>2, <1>3, <3>2, TakenFacts
    <3>4. bus.protocol # "a429" => Uniform(fs[k].cells)
      BY <1>2, <1>3, <3>3 DEF FramesOK, FrameOK
    <3> QED
      BY <2>1, <2>3, <3>3, <3>4
  <2> QED
    BY <2>2, <2>3
<1>7. TypeOK'
  <2>1. in' \in [InIds -> Seq(Nat)]
    <3>1. \E h : in' = [i \in InIds |-> h[i]]
      <4> DEFINE rs == Received(Head(wire).frames)
                 h == [i \in InIds |-> IF ForMessage(i, rs) = {} THEN in[i]
                                       ELSE rs[LastOf(ForMessage(i, rs))].cells]
      <4>1. in' = h
        BY DEF Import
      <4>2. h = [i \in InIds |-> h[i]]
        OBVIOUS
      <4> QED
        BY <4>1, <4>2
    <3> QED
      BY <1>6, <3>1
  <2>2. got' \in [Messages -> Nat]
    <3>1. \E h : got' = [m \in Messages |-> h[m]]
      <4> DEFINE rs == Received(Head(wire).frames)
                 h == [m \in Messages |-> IF Arriving(m) = {} THEN got[m]
                                          ELSE rs[LastOf(Arriving(m))].cells[1]]
      <4>1. got' = h
        BY DEF Import
      <4>2. h = [m \in Messages |-> h[m]]
        OBVIOUS
      <4> QED
        BY <4>1, <4>2
    <3> QED
      BY <1>5, <3>1
  <2>3. Modulus' = Modulus
    BY DEF Modulus
  <2> QED
    BY <1>1, <1>2, <1>3, <1>4, <2>1, <2>2, <2>3 DEF TypeOK
<1>8. Numbered' /\ DatagramsOK' /\ InOrder'
  BY <1>1, <1>2, WireLeftKeeps
<1>9. MessagesOK'
  <2>1. ASSUME NEW m \in Messages PROVE MessageOK(m)'
    <3>1. MessageOK(m)
      BY <1>2 DEF MessagesOK
    <3>2. Whole(m)' <=> Whole(m)
      BY <1>1 DEF Whole
    <3>3. got'[m] <= written[m] /\ (size[m] > 0 => got'[m] < written[m])
      BY <1>5
    <3> QED
      BY <1>1, <3>1, <3>2, <3>3 DEF MessageOK
  <2> QED
    BY <1>4, <2>1 DEF MessagesOK
<1>10. FramesOK'
  <2> SUFFICES ASSUME NEW k \in 1..Len(wire'), NEW f \in Range(wire'[k].frames)
               PROVE  FrameOK(f)'
    BY DEF FramesOK
  <2>1. k + 1 \in 1..Len(wire) /\ f \in Range(wire[k + 1].frames) /\ 1 \in 1..(k + 1) - 1
    BY <1>3
  <2>2. f \in FrameRecords /\ f.from \in Messages /\ (f.cells # <<>> => f.cells[1] \in Nat)
    BY <1>2, <2>1, FlyingFacts
  <2>3. FrameOK(f)
    BY <1>2, <2>1 DEF FramesOK
  <2>4. Whole(f.from)' <=> Whole(f.from)
    BY <1>1 DEF Whole
  <2>5. ASSUME f.cells # <<>> PROVE Sized(f)' /\ Fresh(f)'
    <3>1. Sized(f) /\ Fresh(f)
      BY <2>3, <2>5 DEF FrameOK
    <3>2. Sized(f)'
      BY <1>1, <2>4, <3>1 DEF Sized
    <3>3. f.cells[1] > got'[f.from]
      <4>1. CASE got'[f.from] = got[f.from]
        BY <3>1, <4>1 DEF Fresh
      <4>2. CASE \E g \in Range(wire[1].frames) :
                   g.from = f.from /\ g.cells # <<>> /\ got'[f.from] = g.cells[1]
        <5>1. PICK g \in Range(wire[1].frames) :
                     g.from = f.from /\ g.cells # <<>> /\ got'[f.from] = g.cells[1]
          BY <4>2
        <5>2. Later(g, f)
          BY <1>2, <2>1 DEF InOrder
        <5>3. g.cells[1] < f.cells[1] /\ g.cells[1] \in Nat
          BY <1>2, <1>3, <2>5, <5>1, <5>2, FlyingFacts DEF Later
        <5> QED
          BY <2>2, <2>5, <5>1, <5>3
      <4> QED
        BY <2>2, <4>1, <4>2, ImportGets
    <3>4. Fresh(f)'
      BY <1>1, <3>1, <3>3 DEF Fresh
    <3> QED
      BY <3>2, <3>4
  <2>6. /\ bus'.protocol # "a429" => Uniform(f.cells)
        /\ bus'.protocol # "can" => f.cells # <<>>
        /\ f.id \in bus'.ids[f.from]
    BY <1>1, <2>3 DEF FrameOK
  <2> QED
    BY <2>5, <2>6 DEF FrameOK
<1>11. InputsOK'
  BY <1>1, <1>4, <1>6 DEF InputsOK, Uniform
<1>12. LastWriteAccounted'
  <2>1. ASSUME NEW m \in Messages PROVE Accounted(m)'
    <3>1. Accounted(m)
      BY InvFacts
    <3>2. Compatible(m)' <=> Compatible(m)
      BY <1>1, SameBus
    <3>3. Whole(m)' => Whole(m)
      BY <1>1 DEF Whole
    <3>4. SUFFICES ASSUME Compatible(m), written[m] > 0, Whole(m)
                   PROVE  \/ size[m] = bus.outSize[m]
                          \/ \E k \in DOMAIN wire' : <<m, written[m]>> \in Carried(wire'[k])
                          \/ got'[m] = written[m]
                          \/ <<m, written[m]>> \in lost
      BY <1>1, <3>2, <3>3 DEF Accounted, Carried
    <3>5. CASE \E k \in DOMAIN wire : <<m, written[m]>> \in Carried(wire[k])
      <4>1. PICK k \in DOMAIN wire : <<m, written[m]>> \in Carried(wire[k])
        BY <3>5
      <4>2. CASE k = 1
        BY <3>4, <4>1, <4>2, LastWriteIsTaken
      <4>3. CASE k # 1
        <5>1. k - 1 \in DOMAIN wire' /\ wire'[k - 1] = wire[k]
          BY <1>3, <4>3
        <5> QED
          BY <4>1, <5>1
      <4> QED
        BY <4>2, <4>3
    <3>6. CASE got[m] = written[m]
      <4>1. CASE got'[m] = got[m]
        BY <3>6, <4>1
      <4>2. CASE \E f \in Range(wire[1].frames) :
                   f.from = m /\ f.cells # <<>> /\ got'[m] = f.cells[1]
        <5>1. PICK f \in Range(wire[1].frames) :
                     f.from = m /\ f.cells # <<>> /\ got'[m] = f.cells[1]
          BY <4>2
        <5>2. Fresh(f) /\ f.cells[1] \in Nat
          BY <1>2, <1>3, <5>1, FlyingFacts DEF FramesOK, FrameOK
        <5>3. written[m] \in Nat
          BY <1>2, MessageTypes
        <5> QED
          BY <3>6, <5>1, <5>2, <5>3 DEF Fresh
      <4> QED
        BY <4>1, <4>2, ImportGets
    <3> QED
      BY <3>1, <3>4, <3>5, <3>6 DEF Accounted
  <2> QED
    BY <1>4, <2>1 DEF LastWriteAccounted, Accounted
<1> QED
  BY <1>7, <1>8, <1>9, <1>10, <1>11, <1>12 DEF IInv

-----------------------------------------------------------------------------
LEMMA StutterKeeps ==
  ASSUME IInv, UNCHANGED vars
  PROVE  IInv'
<1>1. /\ bus' = bus /\ data' = data /\ size' = size /\ id' = id /\ queued' = queued
      /\ seqNum' = seqNum /\ written' = written /\ emissions' = emissions
      /\ wire' = wire /\ in' = in /\ got' = got /\ lost' = lost /\ upsets' = upsets
  BY DEF vars, sender
<1>2. /\ id' \in [Messages -> Ids] /\ upsets' \in Nat /\ queued' \in {"yes", "no", "stale"}
      /\ \A m \in Messages : id'[m] \in bus.ids[m]
  BY <1>1, InvFacts, MessageTypes
<1> QED
  BY <1>1, <1>2, QuietStep

LEMMA NextKeeps == IInv /\ [Next]_vars => IInv'
<1> SUFFICES ASSUME IInv, [Next]_vars PROVE IInv'
  OBVIOUS
<1>1. ASSUME NEW m \in Messages, NEW n \in 0..bus.outSize[m] + 1, Write(m, n) PROVE IInv'
  BY <1>1, WriteKeeps
<1>2. ASSUME NEW m \in Messages, NEW i \in bus.ids[m], SetId(m, i) PROVE IInv'
  BY <1>2, SetIdKeeps
<1>3. ASSUME NEW m \in Messages, ResetOutput(m) PROVE IInv'
  BY <1>3, ResetOutputKeeps
<1>4. CASE SendAll
  BY <1>4, SendNothingKeeps, SendSomethingKeeps
<1>5. CASE SendThrows
  BY <1>5, SendThrowsKeeps
<1>6. CASE EmptySendAll
  BY <1>6, EmptySendAllKeeps
<1>7. CASE ResetAllOutputs
  BY <1>7, ResetAllOutputsKeeps
<1>8. CASE Import
  BY <1>8, ImportKeeps
<1>9. CASE Lose
  BY <1>9, LoseKeeps
<1>10. ASSUME NEW i \in InIds, ResetInput(i) PROVE IInv'
  BY <1>10, ResetInputKeeps
<1>11. CASE UNCHANGED vars
  BY <1>11, StutterKeeps
<1> QED
  BY <1>1, <1>2, <1>3, <1>4, <1>5, <1>6, <1>7, <1>8, <1>9, <1>10, <1>11 DEF Next

LEMMA Invariant == Spec => []IInv
<1>1. Init => IInv
  BY InitHolds
<1>2. IInv /\ [Next]_vars => IInv'
  BY NextKeeps
<1> QED
  BY <1>1, <1>2, PTL DEF Spec

(* Type correctness: sizes stay within the buffers, ids among those that a *)
(* message may have, and no sequence number under way is zero.             *)
THEOREM TypeCorrect == Spec => []TypeOK
<1>1. IInv => TypeOK
  BY DEF IInv
<1> QED
  BY <1>1, Invariant, PTL

(* The number of a datagram tells the emissions, over wraps, failed socket *)
(* calls and resets, for every width (prepare_header).                     *)
THEOREM NumbersAlwaysCount == Spec => []NumbersCountEmissions
<1>1. IInv => NumbersCountEmissions
  <2> SUFFICES ASSUME IInv, NEW k \in DOMAIN wire
               PROVE  /\ wire[k].number \in 1..Modulus - 1
                      /\ \A j \in 1..k - 1 :
                           wire[j].emission < wire[k].emission =>
                             (wire[k].number - wire[j].number) % (Modulus - 1)
                               = (wire[k].emission - wire[j].emission) % (Modulus - 1)
    BY DEF NumbersCountEmissions
  <2>1. TypeOK /\ Numbered
    BY DEF IInv
  <2>2. DOMAIN wire = 1..Len(wire) /\ Len(wire) \in Nat
    BY <2>1, WireFacts, LenProperties
  <2>3. k \in 1..Len(wire) /\ \A j \in 1..k - 1 : j \in 1..Len(wire)
    BY <2>2
  <2>4. \A j \in 1..Len(wire) : /\ wire[j].number = NumberOf(wire[j].emission)
                                /\ wire[j].emission \in Nat \ {0}
                                /\ wire[j].number \in 1..Modulus - 1
    BY <2>1, WireFacts DEF Numbered
  <2> QED
    BY <2>3, <2>4, NumbersDiffer
<1> QED
  BY <1>1, Invariant, PTL

(* What is read is one write, without a rest of an earlier one, whatever   *)
(* was written, reset, lost or declared otherwise on the other side.       *)
THEOREM ReadIsAlwaysOneWrite == Spec => []ReadIsOneWrite
<1>1. IInv => ReadIsOneWrite
  <2> SUFFICES ASSUME IInv, bus.protocol # "a429", NEW i \in InIds
               PROVE  Cardinality(Range(in[i])) <= 1 /\ 0 \notin Range(in[i])
    BY DEF ReadIsOneWrite
  <2>1. in[i] \in Seq(Nat) /\ Uniform(in[i])
    BY DEF IInv, TypeOK, InputsOK
  <2> DEFINE R == Range(in[i])
             x == in[i][1]
  <2>2. \A y \in R : y = x /\ y # 0
    BY <2>1, RangeFacts DEF Uniform
  <2> HIDE DEF R, x
  <2>3. R = {} \/ R = {x}
    BY <2>2
  <2>4. Cardinality({}) = 0 /\ Cardinality({x}) = 1
    BY FS_EmptySet, FS_Singleton
  <2> QED
    BY <2>2, <2>3, <2>4 DEF R
<1> QED
  BY <1>1, Invariant, PTL

(* The last write of a message on which both sides agree waits, is under   *)
(* way, has arrived or was lost for a named reason, whatever stands beside *)
(* it in the datagram.                                                     *)
THEOREM LastWriteIsAccounted == Spec => []LastWriteAccounted
<1>1. IInv => LastWriteAccounted
  BY DEF IInv
<1> QED
  BY <1>1, Invariant, PTL

(* Old data never arrives: neither a second time, nor behind later data.   *)
THEOREM WritesArriveOnce == Spec => ArrivesOnce
<1>1. IInv /\ [Next]_vars
        => [\A m \in Messages : Import /\ Arriving(m) # {} => got'[m] > got[m]]_vars
  <2> SUFFICES ASSUME IInv, NEW m \in Messages, Import, Arriving(m) # {}
               PROVE  got'[m] > got[m]
    OBVIOUS
  <2>1. PICK f \in Range(wire[1].frames) :
               f.from = m /\ f.cells # <<>> /\ got'[m] = f.cells[1]
    BY ImportGets
  <2>2. TypeOK /\ FramesOK /\ wire # <<>>
    BY DEF IInv, Import
  <2>3. 1 \in 1..Len(wire)
    BY <2>2, WireFacts
  <2>4. Fresh(f)
    BY <2>1, <2>2, <2>3 DEF FramesOK, FrameOK
  <2> QED
    BY <2>1, <2>4 DEF Fresh
<1> QED
  BY <1>1, Invariant, PTL DEF Spec, ArrivesOnce
=============================================================================
