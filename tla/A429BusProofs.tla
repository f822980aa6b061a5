---------------------------- MODULE A429BusProofs ----------------------------
(***************************************************************************)
(* Two applications joined by a bus of A429 queuing labels.                *)
(*                                                                         *)
(* First the cycle buffer of a label, for every size of the buffer and     *)
(* every number of labels moved at once: push appends the labels it keeps, *)
(* pop removes the oldest ones, and the contents are the same whether or   *)
(* not the copies wrap.  Then sequences of datagrams; and on these two     *)
(* grounds the words that go from one application to the other.            *)
(***************************************************************************)
EXTENDS A429Bus, SequenceTheorems, FiniteSetTheorems, TLAPS

LEMMA RingFields ==
  ASSUME NEW n \in Nat \ {0}, NEW Words, NEW r \in Rings(n, Words)
  PROVE  /\ r.data \in [0..(n - 1) -> Words]
         /\ r.begin \in 0..(n - 1) /\ r.begin \in Nat
         /\ r.size \in 0..n /\ r.size \in Nat
  BY DEF Rings

(* A push keeps no more labels than it is given, and no more than fit. *)
LEMMA KeptRange ==
  ASSUME NEW n \in Nat \ {0}, NEW Words, NEW r \in Rings(n, Words), NEW k \in Nat
  PROVE  Kept(r, n, k) \in 0..k /\ r.size + Kept(r, n, k) \in 0..n
  BY DEF Kept, Least, Rings

LEMMA TakenRange ==
  ASSUME NEW n \in Nat \ {0}, NEW Words, NEW r \in Rings(n, Words), NEW max \in Nat
  PROVE  Taken(r, max) \in 0..r.size /\ Taken(r, max) \in 0..n
  BY DEF Taken, Least, Rings

(* A position of the queue is in a cell of the buffer. *)
LEMMA ModRange ==
  ASSUME NEW n \in Nat \ {0}, NEW x \in Nat
  PROVE  x % n \in 0..(n - 1)
  BY Z3

LEMMA OneTurn ==
  ASSUME NEW n \in Nat \ {0}, NEW x \in 0..(n - 1)
  PROVE  (x + n) % n = x % n
<1>1. x % n = x
  BY Z3
<1>2. (x + n) % n = x
  BY Z3
<1> QED
  BY <1>1, <1>2

(* Counted from cell "first", the cell j places further is at place j.     *)
LEMMA PlaceOfSum ==
  ASSUME NEW n \in Nat \ {0}, NEW first \in 0..(n - 1), NEW j \in 0..(n - 1)
  PROVE  Place((first + j) % n, first, n) = j
<1>1. CASE first + j < n
  <2>1. (first + j) % n = first + j
    BY <1>1, Z3
  <2> QED
    BY <2>1 DEF Place
<1>2. CASE first + j >= n
  <2>1. (first + j) % n = first + j - n
    BY <1>2, Z3
  <2> QED
    BY <2>1 DEF Place
<1> QED
  BY <1>1, <1>2

(* The cell of the j-th free position, counted from the begin of the ring, *)
(* is the j-th cell from the end of its contents.                          *)
LEMMA SumOfMods ==
  ASSUME NEW n \in Nat \ {0}, NEW begin \in 0..(n - 1), NEW size \in 0..n,
         NEW j \in 0..(n - 1)
  PROVE  (begin + size + j) % n = (((begin + size) % n) + j) % n
<1>1. CASE begin + size < n
  <2>1. (begin + size) % n = begin + size
    BY <1>1, Z3
  <2> QED
    BY <2>1
<1>2. CASE begin + size >= n
  <2>1. (begin + size) % n = begin + size - n
    BY <1>2, Z3
  <2>2. (begin + size + j) % n = (begin + size + j - n) % n
    BY <1>2, Z3
  <2> QED
    BY <2>1, <2>2
<1> QED
  BY <1>1, <1>2

(* A position that is occupied is not one of the free cells that a push    *)
(* fills.                                                                  *)
LEMMA PlaceOfOld ==
  ASSUME NEW n \in Nat \ {0}, NEW begin \in 0..(n - 1), NEW size \in 0..n,
         NEW i \in 0..(size - 1)
  PROVE  Place((begin + i) % n, (begin + size) % n, n) >= n - size
<1>1. CASE begin + size < n
  <2>1. (begin + size) % n = begin + size /\ (begin + i) % n = begin + i
    BY <1>1, Z3
  <2> QED
    BY <2>1 DEF Place
<1>2. CASE begin + size >= n /\ begin + i < n
  <2>1. (begin + size) % n = begin + size - n /\ (begin + i) % n = begin + i
    BY <1>2, Z3
  <2> QED
    BY <2>1, <1>2 DEF Place
<1>3. CASE begin + size >= n /\ begin + i >= n
  <2>1. (begin + size) % n = begin + size - n /\ (begin + i) % n = begin + i - n
    BY <1>3, Z3
  <2> QED
    BY <2>1, <1>3 DEF Place
<1> QED
  BY <1>1, <1>2, <1>3

-----------------------------------------------------------------------------
(* A sequence of labels given by a table. *)
LEMMA TableIsSeq ==
  ASSUME NEW S, NEW k \in Nat, NEW f \in [1..k -> S]
  PROVE  f \in Seq(S) /\ Len(f) = k
  OBVIOUS

(* What it takes for a sequence to be the concatenation of two. *)
LEMMA JoinedSeq ==
  ASSUME NEW S, NEW u \in Seq(S), NEW v \in Seq(S), NEW w \in Seq(S),
         Len(w) = Len(u) + Len(v),
         \A i \in 1..Len(u) : w[i] = u[i],
         \A j \in 1..Len(v) : w[Len(u) + j] = v[j]
  PROVE  w = u \o v
<1>1. /\ u \o v \in Seq(S)
      /\ Len(u \o v) = Len(u) + Len(v)
      /\ Len(u) \in Nat /\ Len(v) \in Nat
  OBVIOUS
<1>2. ASSUME NEW i \in 1..(Len(u) + Len(v)) PROVE w[i] = (u \o v)[i]
  <2>1. CASE i <= Len(u)
    BY <2>1, <1>1
  <2>2. CASE i > Len(u)
    <3>1. i - Len(u) \in 1..Len(v) /\ Len(u) + (i - Len(u)) = i
      BY <2>2, <1>1
    <3>2. w[Len(u) + (i - Len(u))] = v[i - Len(u)]
      BY <3>1
    <3>3. (u \o v)[i] = v[i - Len(u)]
      BY <2>2, <1>1
    <3> QED
      BY <3>1, <3>2, <3>3
  <2> QED
    BY <2>1, <2>2, <1>1
<1> QED
  BY <1>1, <1>2, SeqEqual

LEMMA ContentsFacts ==
  ASSUME NEW n \in Nat \ {0}, NEW Words, NEW r \in Rings(n, Words)
  PROVE  /\ Contents(r, n) \in Seq(Words)
         /\ Len(Contents(r, n)) = r.size
         /\ \A i \in 1..r.size : Contents(r, n)[i] = r.data[(r.begin + i - 1) % n]
<1>1. r.size \in Nat /\ r.begin \in Nat /\ r.data \in [0..(n - 1) -> Words]
  BY DEF Rings
<1>2. ASSUME NEW i \in 1..r.size PROVE r.data[(r.begin + i - 1) % n] \in Words
  <2>1. r.begin + i - 1 \in Nat
    BY <1>1
  <2>2. (r.begin + i - 1) % n \in 0..(n - 1)
    BY <2>1, ModRange
  <2> QED
    BY <2>2, <1>1
<1>3. Contents(r, n) \in [1..r.size -> Words]
  BY <1>2 DEF Contents
<1> QED
  BY <1>1, <1>3, TableIsSeq DEF Contents

(* Type correctness: a push leaves the cells, the begin and the size of a  *)
(* ring within their bounds, however many labels it is given.              *)
THEOREM PushKeepsRing ==
  ASSUME NEW n \in Nat \ {0}, NEW Words, NEW r \in Rings(n, Words),
         NEW words \in Seq(Words)
  PROVE  PushRing(r, n, words) \in Rings(n, Words)
<1> DEFINE kept  == Kept(r, n, Len(words))
           first == (r.begin + r.size) % n
           data  == [i \in 0..(n - 1) |-> IF Place(i, first, n) < kept
                                         THEN words[Place(i, first, n) + 1]
                                         ELSE r.data[i]]
<1>1. kept \in 0..Len(words) /\ r.size + kept \in 0..n
  <2>1. Len(words) \in Nat
    OBVIOUS
  <2> QED
    BY <2>1, KeptRange
<1>2. first \in 0..(n - 1)
  <2>1. r.begin + r.size \in Nat
    BY RingFields
  <2> QED
    BY <2>1, ModRange
<1>3. r.begin \in 0..(n - 1) /\ r.data \in [0..(n - 1) -> Words]
  BY RingFields
<1>4. ASSUME NEW i \in 0..(n - 1) PROVE data[i] \in Words
  <2>1. Place(i, first, n) \in Nat
    BY <1>2 DEF Place
  <2>2. CASE Place(i, first, n) < kept
    <3>1. Place(i, first, n) + 1 \in 1..Len(words)
      BY <2>1, <2>2, <1>1
    <3> QED
      BY <3>1, <2>2
  <2>3. CASE ~(Place(i, first, n) < kept)
    BY <2>3, <1>3
  <2> QED
    BY <2>2, <2>3
<1>5. data \in [0..(n - 1) -> Words]
  BY <1>4
<1>6. PushRing(r, n, words) = [data |-> data, begin |-> r.begin, size |-> r.size + kept]
  BY DEF PushRing
<1> QED
  BY <1>1, <1>3, <1>5, <1>6 DEF Rings

(* Type correctness of pop, also when it empties a ring that wraps.        *)
THEOREM PopKeepsRing ==
  ASSUME NEW n \in Nat \ {0}, NEW Words, NEW r \in Rings(n, Words), NEW max \in Nat
  PROVE  PopRing(r, n, max) \in Rings(n, Words)
<1> DEFINE taken == Taken(r, max)
<1>1. taken \in 0..r.size
  BY TakenRange
<1>2. r.begin \in 0..(n - 1) /\ r.size \in 0..n
  BY RingFields
<1>3. PopRing(r, n, max) =
        [data  |-> r.data,
         begin |-> IF taken < n - r.begin THEN r.begin + taken ELSE taken - (n - r.begin),
         size  |-> r.size - taken]
  BY DEF PopRing
<1>4. (IF taken < n - r.begin THEN r.begin + taken ELSE taken - (n - r.begin)) \in 0..(n - 1)
  BY <1>1, <1>2
<1>5. r.size - taken \in 0..n
  BY <1>1, <1>2
<1> QED
  BY <1>3, <1>4, <1>5, RingFields DEF Rings

(* push appends the labels that fit, in their order, and leaves those that *)
(* were in the ring as they were, wherever the ring begins.                *)
THEOREM PushAppends ==
  ASSUME NEW n \in Nat \ {0}, NEW Words, NEW r \in Rings(n, Words),
         NEW words \in Seq(Words)
  PROVE  Contents(PushRing(r, n, words), n)
           = Contents(r, n) \o SubSeq(words, 1, Kept(r, n, Len(words)))
<1> DEFINE kept  == Kept(r, n, Len(words))
           first == (r.begin + r.size) % n
           after == PushRing(r, n, words)
           added == SubSeq(words, 1, kept)
<1>1. kept \in 0..Len(words) /\ r.size + kept \in 0..n /\ r.size \in 0..n
  <2>1. Len(words) \in Nat
    OBVIOUS
  <2> QED
    BY <2>1, KeptRange, RingFields
<1>2. r.begin \in 0..(n - 1) /\ first \in 0..(n - 1)
  <2>1. r.begin + r.size \in Nat
    BY RingFields
  <2> QED
    BY <2>1, ModRange, RingFields
<1>3. after.begin = r.begin /\ after.size = r.size + kept
  BY DEF PushRing
<1>4. \A c \in 0..(n - 1) : after.data[c] = IF Place(c, first, n) < kept
                                           THEN words[Place(c, first, n) + 1]
                                           ELSE r.data[c]
  BY DEF PushRing
<1>5. /\ Contents(after, n) \in Seq(Words)
      /\ Len(Contents(after, n)) = r.size + kept
      /\ \A i \in 1..(r.size + kept) :
           Contents(after, n)[i] = after.data[(r.begin + i - 1) % n]
  BY <1>3, PushKeepsRing, ContentsFacts
<1>6. /\ Contents(r, n) \in Seq(Words)
      /\ Len(Contents(r, n)) = r.size
      /\ \A i \in 1..r.size : Contents(r, n)[i] = r.data[(r.begin + i - 1) % n]
  BY ContentsFacts
<1>7. added \in Seq(Words) /\ Len(added) = kept
      /\ \A i \in 1..kept : added[i] = words[i]
  BY <1>1
<1>8. ASSUME NEW i \in 1..r.size
      PROVE  Contents(after, n)[i] = Contents(r, n)[i]
  <2> DEFINE c == (r.begin + i - 1) % n
  <2>1. c \in 0..(n - 1)
    <3>1. r.begin + i - 1 \in Nat
      BY <1>1, <1>2
    <3> QED
      BY <3>1, ModRange
  <2>2. Place(c, first, n) >= n - r.size
    <3>1. i - 1 \in 0..(r.size - 1) /\ r.begin + i - 1 = r.begin + (i - 1)
      BY <1>1, <1>2
    <3> QED
      BY <3>1, <1>1, <1>2, PlaceOfOld
  <2>3. Place(c, first, n) \in Nat
    BY <1>2, <2>1 DEF Place
  <2>4. ~(Place(c, first, n) < kept)
    BY <2>2, <2>3, <1>1
  <2>5. after.data[c] = r.data[c]
    BY <2>1, <2>4, <1>4
  <2>6. i \in 1..(r.size + kept)
    BY <1>1
  <2> QED
    BY <2>5, <2>6, <1>5, <1>6
<1>9. ASSUME NEW j \in 1..kept
      PROVE  Contents(after, n)[r.size + j] = added[j]
  <2> DEFINE c == (r.begin + (r.size + j) - 1) % n
  <2>1. j - 1 \in 0..(n - 1)
    BY <1>1
  <2>2. c = (first + (j - 1)) % n
    <3>1. r.begin + (r.size + j) - 1 = r.begin + r.size + (j - 1)
      BY <1>1, <1>2
    <3>2. (r.begin + r.size + (j - 1)) % n = (((r.begin + r.size) % n) + (j - 1)) % n
      BY <2>1, <1>1, <1>2, SumOfMods
    <3> QED
      BY <3>1, <3>2
  <2>3. Place(c, first, n) = j - 1
    BY <2>1, <2>2, <1>2, PlaceOfSum
  <2>4. c \in 0..(n - 1)
    <3>1. first + (j - 1) \in Nat
      BY <2>1, <1>2
    <3> QED
      BY <3>1, <2>2, ModRange
  <2>5. after.data[c] = words[j]
    <3>1. j - 1 < kept /\ (j - 1) + 1 = j
      BY <1>1
    <3> QED
      BY <3>1, <2>3, <2>4, <1>4
  <2>6. r.size + j \in 1..(r.size + kept)
    BY <1>1
  <2> QED
    BY <2>5, <2>6, <1>5, <1>7
<1> HIDE DEF kept, first, after, added
<1> DEFINE before == Contents(r, n)
           now    == Contents(after, n)
<1> HIDE DEF before, now
<1>10. before \in Seq(Words) /\ added \in Seq(Words) /\ now \in Seq(Words)
  BY <1>5, <1>6, <1>7 DEF before, now
<1>11. Len(now) = Len(before) + Len(added)
  BY <1>5, <1>6, <1>7 DEF before, now
<1>12. \A i \in 1..Len(before) : now[i] = before[i]
  BY <1>6, <1>8 DEF before, now
<1>13. \A j \in 1..Len(added) : now[Len(before) + j] = added[j]
  BY <1>6, <1>7, <1>9 DEF before, now
<1>14. now = before \o added
  BY <1>10, <1>11, <1>12, <1>13, JoinedSeq, Zenon
<1> QED
  BY <1>14 DEF before, now, after, added, kept

(* pop removes the labels it returns, the oldest ones, and leaves the rest *)
(* in their order.                                                         *)
THEOREM PopTakesPrefix ==
  ASSUME NEW n \in Nat \ {0}, NEW Words, NEW r \in Rings(n, Words), NEW max \in Nat
  PROVE  Contents(r, n) = Popped(r, n, max) \o Contents(PopRing(r, n, max), n)
<1> DEFINE taken  == Taken(r, max)
           after  == PopRing(r, n, max)
           before == Contents(r, n)
           rest   == Contents(after, n)
           front == Popped(r, n, max)
<1>1. taken \in 0..r.size /\ r.size \in 0..n /\ r.begin \in 0..(n - 1)
  BY TakenRange, RingFields
<1>2. /\ after.data = r.data
      /\ after.begin = IF taken < n - r.begin THEN r.begin + taken
                                              ELSE taken - (n - r.begin)
      /\ after.size = r.size - taken
  BY RingFields DEF PopRing
<1>3. /\ before \in Seq(Words) /\ Len(before) = r.size
      /\ \A i \in 1..r.size : before[i] = r.data[(r.begin + i - 1) % n]
  BY ContentsFacts
<1>4. /\ rest \in Seq(Words) /\ Len(rest) = r.size - taken
      /\ \A i \in 1..(r.size - taken) : rest[i] = r.data[(after.begin + i - 1) % n]
  <2>1. after \in Rings(n, Words)
    BY PopKeepsRing
  <2> HIDE DEF after
  <2> QED
    BY <2>1, <1>2, ContentsFacts
<1>5. front = SubSeq(before, 1, taken)
  BY DEF Popped
<1>6. ASSUME NEW j \in 1..(r.size - taken) PROVE rest[j] = before[taken + j]
  <2>1. (after.begin + j - 1) % n = (r.begin + (taken + j) - 1) % n
    <3>1. CASE taken < n - r.begin
      <4>1. after.begin + j - 1 = r.begin + (taken + j) - 1
        BY <3>1, <1>1, <1>2
      <4> QED
        BY <4>1
    <3>2. CASE ~(taken < n - r.begin)
      <4> DEFINE x == after.begin + j - 1
      <4>1. x \in 0..(n - 1) /\ r.begin + (taken + j) - 1 = x + n
        BY <3>2, <1>1, <1>2
      <4>2. (x + n) % n = x % n
        BY <4>1, OneTurn
      <4> QED
        BY <4>1, <4>2
    <3> QED
      BY <3>1, <3>2
  <2>2. taken + j \in 1..r.size
    BY <1>1
  <2> QED
    BY <2>1, <2>2, <1>3, <1>4
<1> HIDE DEF taken, after, before, rest, front
<1>7. front \in Seq(Words) /\ Len(front) = taken
      /\ \A i \in 1..taken : front[i] = before[i]
  BY <1>1, <1>3, <1>5
<1>8. Len(before) = Len(front) + Len(rest)
  BY <1>1, <1>3, <1>4, <1>7
<1>9. \A i \in 1..Len(front) : before[i] = front[i]
  BY <1>7
<1>10. \A j \in 1..Len(rest) : before[Len(front) + j] = rest[j]
  BY <1>4, <1>6, <1>7
<1>11. before \in Seq(Words) /\ front \in Seq(Words) /\ rest \in Seq(Words)
  BY <1>3, <1>4, <1>7
<1>12. before = front \o rest
  BY <1>8, <1>9, <1>10, <1>11, JoinedSeq, Zenon
<1> QED
  BY <1>12 DEF before, front, rest, after

-----------------------------------------------------------------------------
(* A set that holds zero, and with every number the next one, up to n.     *)
LEMMA UpToInduction ==
  ASSUME NEW n \in Nat, NEW S, 0 \in S, \A i \in 1..n : i - 1 \in S => i \in S
  PROVE  \A i \in 0..n : i \in S
<1> DEFINE T == {i \in 0..n : i \notin S}
<1> SUFFICES ASSUME T # {} PROVE FALSE
  OBVIOUS
<1>1. T \subseteq Nat
  OBVIOUS
<1>2. PICK i \in T : \A j \in T : ~(<<j, i>> \in OpToRel(<, Nat))
  BY <1>1, NatLessThanWellFounded, WFMin
<1>3. \A j \in T : ~(j < i)
  BY <1>1, <1>2 DEF OpToRel
<1>4. i \in 1..n /\ i - 1 \in 0..n /\ i - 1 < i
  OBVIOUS
<1>5. i - 1 \in S
  BY <1>3, <1>4
<1> QED
  BY <1>4, <1>5

LEMMA RangeFacts ==
  ASSUME NEW S, NEW s \in Seq(S)
  PROVE  /\ \A i \in 1..Len(s) : s[i] \in Range(s)
         /\ \A x \in Range(s) : \E i \in 1..Len(s) : x = s[i]
         /\ Range(s) \subseteq S
         /\ Len(s) \in Nat /\ DOMAIN s = 1..Len(s)
<1>1. DOMAIN s = 1..Len(s) /\ (\A i \in 1..Len(s) : s[i] \in S) /\ Len(s) \in Nat
  BY LenProperties
<1> QED
  BY <1>1 DEF Range

LEMMA RangeEmpty == Range(<<>>) = {}
  BY DEF Range

(* The words of a front of a sequence. *)
LEMMA RangeFront ==
  ASSUME NEW S, NEW s \in Seq(S), NEW k \in 0..Len(s)
  PROVE  /\ SubSeq(s, 1, k) \in Seq(S)
         /\ Len(SubSeq(s, 1, k)) = k
         /\ \A i \in 1..k : SubSeq(s, 1, k)[i] = s[i]
         /\ Range(SubSeq(s, 1, k)) \subseteq Range(s)
<1> DEFINE t == SubSeq(s, 1, k)
<1>1. k \in Int /\ k \in Nat /\ 1 \in Int /\ Len(s) \in Nat
  BY LenProperties
<1>2. \A i \in 1..k : s[i] \in S
  BY <1>1, LenProperties
<1>3. t \in Seq(S) /\ Len(t) = k /\ \A i \in 1..k : t[i] = s[i]
  BY <1>1, <1>2, SubSeqProperties
<1> HIDE DEF t
<1>4. \A x \in Range(t) : x \in Range(s)
  <2> TAKE x \in Range(t)
  <2>1. PICK i \in 1..Len(t) : x = t[i]
    BY <1>3, RangeFacts
  <2>2. i \in 1..Len(s)
    BY <1>1, <1>3, <2>1
  <2> QED
    BY <1>3, <2>1, <2>2, RangeFacts
<1> QED
  BY <1>3, <1>4 DEF t

-----------------------------------------------------------------------------
(* The concatenation of a sequence of sequences is the last of the         *)
(* concatenations of its fronts.                                           *)
Fronts(f, s, S) ==
  /\ f \in [0..Len(s) -> Seq(S)]
  /\ f[0] = <<>>
  /\ \A i \in 1..Len(s) : f[i] = f[i - 1] \o s[i]

LEMMA FrontsExist ==
  ASSUME NEW S, NEW s \in Seq(Seq(S))
  PROVE  \E f : Fronts(f, s, S)
<1> DEFINE n == Len(s)
           P(f, k) == /\ f \in [0..k -> Seq(S)]
                      /\ f[0] = <<>>
                      /\ \A i \in 1..k : f[i] = f[i - 1] \o s[i]
           T == {k \in 0..n : \E f : P(f, k)}
<1>1. n \in Nat /\ \A i \in 1..n : s[i] \in Seq(S)
  BY LenProperties
<1>2. 0 \in T
  <2> DEFINE g == [i \in 0..0 |-> <<>>]
  <2>1. P(g, 0)
    BY EmptySeq
  <2> HIDE DEF g, P
  <2> QED
    BY <1>1, <2>1
<1>3. ASSUME NEW k \in 1..n, k - 1 \in T
      PROVE  k \in T
  <2>1. PICK f : P(f, k - 1)
    BY <1>3
  <2> DEFINE g == [i \in 0..k |-> IF i = k THEN f[k - 1] \o s[k] ELSE f[i]]
  <2>2. f[k - 1] \o s[k] \in Seq(S)
    <3>1. f[k - 1] \in Seq(S) /\ s[k] \in Seq(S)
      BY <1>1, <2>1
    <3> QED
      BY <3>1, ConcatProperties
  <2>3. \A i \in 0..k : i # k => i \in 0..(k - 1)
    OBVIOUS
  <2>4. \A i \in 0..k : g[i] \in Seq(S)
    BY <2>1, <2>2, <2>3
  <2>5. g[0] = <<>>
    BY <2>1
  <2>6. \A i \in 1..k : g[i] = g[i - 1] \o s[i]
    <3> TAKE i \in 1..k
    <3>1. CASE i = k
      <4>1. k \in 0..k /\ k - 1 \in 0..k /\ k - 1 # k
        OBVIOUS
      <4>2. g[k] = f[k - 1] \o s[k] /\ g[k - 1] = f[k - 1]
        BY <4>1
      <4> QED
        BY <3>1, <4>2
    <3>2. CASE i # k
      <4>1. i \in 1..(k - 1)
        BY <3>2
      <4>2. g[i] = f[i] /\ g[i - 1] = f[i - 1]
        BY <3>2, <4>1
      <4>3. f[i] = f[i - 1] \o s[i]
        BY <2>1, <4>1
      <4> QED
        BY <4>2, <4>3
    <3> QED
      BY <3>1, <3>2
  <2>7. g \in [0..k -> Seq(S)]
    BY <2>4
  <2> HIDE DEF g
  <2>8. P(g, k)
    BY <2>5, <2>6, <2>7
  <2> HIDE DEF P
  <2> QED
    BY <1>1, <2>8
<1> HIDE DEF T
<1>4. \A k \in 1..n : k - 1 \in T => k \in T
  BY <1>3
<1>5. \A k \in 0..n : k \in T
  BY <1>1, <1>2, <1>4, UpToInduction
<1>6. n \in T
  BY <1>1, <1>5
<1> QED
  BY <1>6 DEF T, Fronts

(* No two are the same. *)
LEMMA FrontsAgree ==
  ASSUME NEW S, NEW s \in Seq(Seq(S)), NEW t \in Seq(Seq(S)), NEW f, NEW g,
         Fronts(f, s, S), Fronts(g, t, S), Len(s) <= Len(t),
         \A i \in 1..Len(s) : s[i] = t[i]
  PROVE  \A i \in 0..Len(s) : f[i] = g[i]
<1> DEFINE T == {i \in 0..Len(s) : f[i] = g[i]}
<1>1. Len(s) \in Nat /\ Len(t) \in Nat
  BY LenProperties
<1>2. 0 \in T
  BY <1>1 DEF Fronts
<1>3. \A i \in 1..Len(s) : i - 1 \in T => i \in T
  <2> TAKE i \in 1..Len(s)
  <2>1. i \in 1..Len(t) /\ i \in 0..Len(s) /\ i - 1 \in 0..Len(s)
    BY <1>1
  <2>2. f[i] = f[i - 1] \o s[i] /\ g[i] = g[i - 1] \o t[i] /\ s[i] = t[i]
    BY <2>1 DEF Fronts
  <2> QED
    BY <2>1, <2>2
<1> HIDE DEF T
<1>4. \A i \in 0..Len(s) : i \in T
  BY <1>1, <1>2, <1>3, UpToInduction
<1> QED
  BY <1>4 DEF T

LEMMA ConcatenationIsFront ==
  ASSUME NEW S, NEW s \in Seq(Seq(S)), NEW f, Fronts(f, s, S)
  PROVE  Concatenation(s) = f[Len(s)] /\ Concatenation(s) \in Seq(S)
<1> DEFINE P(h) == h = [i \in 0..Len(s) |-> IF i = 0 THEN <<>> ELSE h[i - 1] \o s[i]]
           e == CHOOSE h : P(h)
<1>1. Len(s) \in Nat
  BY LenProperties
<1>2. P(f)
  <2>1. \A i \in 0..Len(s) : f[i] = IF i = 0 THEN <<>> ELSE f[i - 1] \o s[i]
    <3> TAKE i \in 0..Len(s)
    <3>1. i = 0 \/ i \in 1..Len(s)
      BY <1>1
    <3> QED
      BY <3>1 DEF Fronts
  <2>2. f = [i \in 0..Len(s) |-> f[i]]
    BY DEF Fronts
  <2> QED
    BY <2>1, <2>2
<1>3. P(e)
  <2> HIDE DEF P
  <2> QED
    BY <1>2
<1>4. Concatenation(s) = e[Len(s)]
  BY DEF Concatenation
<1> HIDE DEF e
<1>5. \A i \in 0..Len(s) : e[i] = IF i = 0 THEN <<>> ELSE e[i - 1] \o s[i]
  BY <1>3
<1> DEFINE T == {i \in 0..Len(s) : f[i] = e[i]}
<1>6. 0 \in T
  BY <1>1, <1>5 DEF Fronts
<1>7. \A i \in 1..Len(s) : i - 1 \in T => i \in T
  <2> TAKE i \in 1..Len(s)
  <2>1. f[i] = f[i - 1] \o s[i]
    BY DEF Fronts
  <2>2. i \in 0..Len(s) /\ i # 0
    OBVIOUS
  <2>3. e[i] = e[i - 1] \o s[i]
    BY <1>5, <2>2
  <2> QED
    BY <2>1, <2>2, <2>3
<1> HIDE DEF T
<1>8. Len(s) \in T
  <2>1. \A i \in 0..Len(s) : i \in T
    BY <1>1, <1>6, <1>7, UpToInduction
  <2> QED
    BY <1>1, <2>1
<1>9. f[Len(s)] \in Seq(S)
  BY <1>1 DEF Fronts
<1> QED
  BY <1>4, <1>8, <1>9 DEF T

LEMMA ConcatenationType ==
  ASSUME NEW S, NEW s \in Seq(Seq(S))
  PROVE  Concatenation(s) \in Seq(S)
<1>1. PICK f : Fronts(f, s, S)
  BY FrontsExist
<1> QED
  BY <1>1, ConcatenationIsFront

(* A datagram more at the end. *)
LEMMA ConcatenationAppend ==
  ASSUME NEW S, NEW s \in Seq(Seq(S)), NEW x \in Seq(S)
  PROVE  Concatenation(Append(s, x)) = Concatenation(s) \o x
<1> DEFINE t == Append(s, x)
           n == Len(s)
<1>1. /\ t \in Seq(Seq(S)) /\ Len(t) = n + 1 /\ n \in Nat
      /\ \A i \in 1..n : t[i] = s[i]
      /\ t[n + 1] = x
  BY AppendProperties, LenProperties
<1> HIDE DEF t
<1>2. PICK f : Fronts(f, s, S)
  BY FrontsExist
<1>3. PICK g : Fronts(g, t, S)
  BY <1>1, FrontsExist
<1>4. f[n] = g[n]
  <2>0. Len(s) <= Len(t) /\ \A i \in 1..Len(s) : s[i] = t[i]
    BY <1>1
  <2>1. t \in Seq(Seq(S))
    BY <1>1
  <2>2. \A i \in 0..Len(s) : f[i] = g[i]
    BY <2>0, <2>1, <1>2, <1>3, FrontsAgree
  <2> QED
    BY <1>1, <2>2
<1>5. g[n + 1] = g[n] \o x
  <2>1. n + 1 \in 1..Len(t) /\ (n + 1) - 1 = n
    BY <1>1
  <2>2. g[n + 1] = g[(n + 1) - 1] \o t[n + 1]
    BY <1>3, <2>1 DEF Fronts
  <2> QED
    BY <1>1, <2>1, <2>2
<1>6. Concatenation(t) = g[n + 1] /\ Concatenation(s) = f[n]
  BY <1>1, <1>2, <1>3, ConcatenationIsFront
<1> QED
  BY <1>4, <1>5, <1>6 DEF t

(* Nothing to concatenate. *)
LEMMA ConcatenationOfEmpty ==
  ASSUME NEW S, NEW s \in Seq(Seq(S)), \A i \in 1..Len(s) : s[i] = <<>>
  PROVE  Concatenation(s) = <<>>
<1>1. Len(s) \in Nat
  BY LenProperties
<1>2. PICK f : Fronts(f, s, S)
  BY FrontsExist
<1> DEFINE T == {i \in 0..Len(s) : f[i] = <<>>}
<1>3. 0 \in T
  BY <1>1, <1>2 DEF Fronts
<1>4. \A i \in 1..Len(s) : i - 1 \in T => i \in T
  <2> TAKE i \in 1..Len(s)
  <2>1. f[i] = f[i - 1] \o s[i] /\ s[i] = <<>>
    BY <1>2 DEF Fronts
  <2>2. <<>> \o <<>> = <<>>
    BY EmptySeq, ConcatEmptySeq
  <2> QED
    BY <1>1, <2>1, <2>2
<1> HIDE DEF T
<1>5. \A i \in 0..Len(s) : i \in T
  BY <1>1, <1>3, <1>4, UpToInduction
<1>6. f[Len(s)] = <<>>
  BY <1>1, <1>5 DEF T
<1> QED
  BY <1>2, <1>6, ConcatenationIsFront

(* Three sequences in one or the other grouping. *)
LEMMA Regrouped ==
  ASSUME NEW S
  PROVE  \A x, y, z \in Seq(S) : (x \o y) \o z = x \o (y \o z)
  BY ConcatAssociative

(* The first datagram. *)
LEMMA ConcatenationTail ==
  ASSUME NEW S, NEW s \in Seq(Seq(S)), Len(s) > 0
  PROVE  Concatenation(s) = Head(s) \o Concatenation(Tail(s))
<1> DEFINE t == Tail(s)
           h == Head(s)
           n == Len(s) - 1
<1>0. s # <<>>
  BY EmptySeq
<1>1. /\ t \in Seq(Seq(S)) /\ h \in Seq(S) /\ Len(t) = n /\ n \in Nat /\ Len(s) = n + 1
      /\ \A i \in 1..n : t[i] = s[i + 1]
      /\ h = s[1]
  BY <1>0, HeadTailProperties, LenProperties, EmptySeq
<1> HIDE DEF t, h, n
<1>2. PICK f : Fronts(f, s, S)
  BY FrontsExist
<1>3. PICK g : Fronts(g, t, S)
  BY <1>1, FrontsExist
<1> DEFINE T == {i \in 0..n : f[i + 1] = h \o g[i]}
<1>4. 0 \in T
  <2>1. 1 \in 1..Len(s) /\ 0 \in 0..n /\ 1 - 1 = 0
    BY <1>1
  <2>2. f[1] = f[1 - 1] \o s[1] /\ f[0] = <<>> /\ g[0] = <<>>
    BY <1>2, <1>3, <2>1 DEF Fronts
  <2>3. <<>> \o h = h /\ h \o <<>> = h
    BY <1>1, ConcatEmptySeq
  <2>4. f[1] = h
    BY <1>1, <2>1, <2>2, <2>3
  <2>5. f[0 + 1] = h \o g[0]
    BY <2>2, <2>3, <2>4
  <2> QED
    BY <2>1, <2>5
<1> HIDE DEF T
<1>5. \A i \in 1..n : i - 1 \in T => i \in T
  <2> SUFFICES ASSUME NEW i \in 1..n, i - 1 \in T PROVE i \in T
    OBVIOUS
  <2>1. i + 1 \in 1..Len(s) /\ (i + 1) - 1 = i /\ (i - 1) + 1 = i /\ i - 1 \in 0..n /\ i \in 0..n
    BY <1>1
  <2>2. f[i + 1] = f[(i + 1) - 1] \o s[i + 1]
    BY <1>2, <2>1 DEF Fronts
  <2>3. g[i] = g[i - 1] \o t[i] /\ g[i - 1] \in Seq(S) /\ t[i] \in Seq(S)
    <3>1. i \in 1..Len(t) /\ i - 1 \in 0..Len(t)
      BY <1>1, <2>1
    <3> QED
      BY <1>1, <1>3, <3>1, LenProperties DEF Fronts
  <2>4. f[i] = h \o g[i - 1]
    <3>1. f[(i - 1) + 1] = h \o g[i - 1]
      BY DEF T
    <3> QED
      BY <2>1, <3>1
  <2>5. (h \o g[i - 1]) \o t[i] = h \o (g[i - 1] \o t[i])
    <3> DEFINE a == g[i - 1]
               b == t[i]
    <3>1. a \in Seq(S) /\ b \in Seq(S) /\ h \in Seq(S)
      BY <1>1, <2>3
    <3> HIDE DEF a, b
    <3>2. (h \o a) \o b = h \o (a \o b)
      BY ONLY <3>1, Regrouped, SMTT(60)
    <3> QED
      BY <3>2 DEF a, b
  <2>6. f[i + 1] = h \o g[i]
    BY <1>1, <2>1, <2>2, <2>3, <2>4, <2>5
  <2> QED
    BY <2>1, <2>6 DEF T
<1>6. \A i \in 0..n : i \in T
  <2>1. n \in Nat
    BY <1>1
  <2>2. \A i \in 1..n : i - 1 \in T => i \in T
    BY <1>5
  <2> QED
    BY <2>1, <2>2, <1>4, UpToInduction, Zenon
<1>7. f[n + 1] = h \o g[n]
  <2>1. n \in T
    BY <1>1, <1>6
  <2> QED
    BY <2>1 DEF T
<1>8. Concatenation(s) = f[n + 1] /\ Concatenation(t) = g[n]
  BY <1>1, <1>2, <1>3, ConcatenationIsFront
<1> QED
  BY <1>7, <1>8 DEF t, h

NoneOf(s, A) == Range(s) \cap A = {}

(* A sequence that begins with x and has no member of A after that.        *)
Continues(s, x, A, S) == \E v \in Seq(S) : s = x \o v /\ NoneOf(v, A)

LEMMA ContinuesMore ==
  ASSUME NEW S, NEW A, NEW x \in Seq(S), NEW w \in Seq(S), NEW s,
         Continues(s, x, A, S), NoneOf(w, A)
  PROVE  Continues(s \o w, x, A, S)
<1>1. PICK v \in Seq(S) : s = x \o v /\ NoneOf(v, A)
  BY DEF Continues
<1>2. (x \o v) \o w = x \o (v \o w)
  BY ConcatAssociative
<1>3. v \o w \in Seq(S) /\ Range(v \o w) = Range(v) \cup Range(w)
  BY ConcatProperties, RangeConcatenation
<1> QED
  BY <1>1, <1>2, <1>3 DEF Continues, NoneOf

(* One of the sequences in the concatenation, if the members of a set A    *)
(* are found in no other.                                                  *)
LEMMA ConcatenationParts ==
  ASSUME NEW S, NEW s \in Seq(Seq(S)), NEW k \in 1..Len(s), NEW A,
         \A i \in 1..Len(s) : i # k => NoneOf(s[i], A)
  PROVE  \E u, v \in Seq(S) :
           /\ Concatenation(s) = (u \o s[k]) \o v
           /\ NoneOf(u, A) /\ NoneOf(v, A)
<1> DEFINE n == Len(s)
<1>1. n \in Nat /\ (\A i \in 1..n : s[i] \in Seq(S)) /\ k \in Nat /\ k - 1 \in 0..n
  BY LenProperties
<1>2. PICK f : Fronts(f, s, S)
  BY FrontsExist
<1>3. \A i \in 0..n : f[i] \in Seq(S)
  BY <1>2 DEF Fronts
<1>4. \A i \in 1..n : f[i] = f[i - 1] \o s[i]
  BY <1>2 DEF Fronts
<1>41. \A i \in 1..n : i \in 0..n /\ i - 1 \in 0..n
  BY <1>1
<1> DEFINE u == f[k - 1]
           B == {i \in 0..n : i < k => NoneOf(f[i], A)}
           x == u \o s[k]
           C == {i \in 0..n : i >= k => Continues(f[i], x, A, S)}
<1>5. 0 \in B /\ 0 \in C
  <2>1. f[0] = <<>> /\ 0 \in 0..n /\ ~(0 >= k)
    BY <1>1, <1>2 DEF Fronts
  <2> QED
    BY <2>1, RangeEmpty DEF NoneOf
<1> HIDE DEF B, C
<1>6. \A i \in 1..n : i - 1 \in B => i \in B
  <2> SUFFICES ASSUME NEW i \in 1..n, i - 1 \in B, i < k PROVE NoneOf(f[i], A)
    BY <1>41 DEF B
  <2>1. NoneOf(f[i - 1], A) /\ NoneOf(s[i], A)
    BY <1>1, <1>41 DEF B
  <2>2. Range(f[i]) = Range(f[i - 1]) \cup Range(s[i])
    <3> DEFINE a == f[i - 1]
               b == s[i]
    <3>1. a \in Seq(S) /\ b \in Seq(S) /\ f[i] = a \o b
      BY <1>1, <1>3, <1>4, <1>41
    <3> HIDE DEF a, b
    <3>2. Range(a \o b) = Range(a) \cup Range(b)
      BY <3>1, RangeConcatenation
    <3> QED
      BY <3>1, <3>2 DEF a, b
  <2> QED
    BY <2>1, <2>2 DEF NoneOf
<1>61. x \in Seq(S)
  BY <1>1, <1>3, ConcatProperties
<1>7. \A i \in 1..n : i - 1 \in C => i \in C
  <2> SUFFICES ASSUME NEW i \in 1..n, i - 1 \in C, i >= k
               PROVE  Continues(f[i], x, A, S)
    BY <1>41 DEF C
  <2>1. CASE i = k
    <3>1. f[i] = x
      BY <1>4, <2>1
    <3> HIDE DEF x
    <3>2. x = x \o <<>>
      BY <1>61, ConcatEmptySeq
    <3>3. <<>> \in Seq(S) /\ NoneOf(<<>>, A)
      BY EmptySeq, RangeEmpty DEF NoneOf
    <3> QED
      BY <3>1, <3>2, <3>3 DEF Continues
  <2>2. CASE i # k
    <3> HIDE DEF x
    <3>1. i - 1 >= k
      BY <1>1, <2>2
    <3>2. Continues(f[i - 1], x, A, S)
      BY <3>1 DEF C
    <3>3. s[i] \in Seq(S) /\ NoneOf(s[i], A)
      BY <1>1, <2>2
    <3>4. Continues(f[i - 1] \o s[i], x, A, S)
      BY <1>61, <3>2, <3>3, ContinuesMore, Zenon
    <3> QED
      BY <1>4, <3>4
  <2> QED
    BY <2>1, <2>2
<1>8. \A i \in 0..n : i \in B
  BY <1>1, <1>5, <1>6, UpToInduction
<1>9. \A i \in 0..n : i \in C
  BY <1>1, <1>5, <1>7, UpToInduction
<1>10. NoneOf(u, A) /\ u \in Seq(S)
  <2>1. k - 1 \in B /\ k - 1 < k
    BY <1>1, <1>8
  <2> QED
    BY <1>1, <1>3, <2>1 DEF B
<1>11. \E v \in Seq(S) : f[n] = (u \o s[k]) \o v /\ NoneOf(v, A)
  <2>1. n \in C /\ n >= k
    BY <1>1, <1>9
  <2> QED
    BY <2>1 DEF C, Continues
<1>12. Concatenation(s) = f[n]
  BY <1>2, ConcatenationIsFront
<1> HIDE DEF u
<1> QED
  BY <1>10, <1>11, <1>12

-----------------------------------------------------------------------------
(* The words, and the first cell of a ring that holds none yet.            *)
AnyWord == [label : OutLabels \cup {BusOrder[1]}, rank : Nat]
OfLabel(l) == {w \in AnyWord : w.label = l}

(* The words of label l are in the order of their push, in a sequence and  *)
(* from a sequence to the next.                                            *)
Sorted(l, s) ==
  \A i, j \in DOMAIN s :
    i < j /\ s[i].label = l /\ s[j].label = l => s[i].rank < s[j].rank

Below(l, s, t) ==
  \A x \in Range(s) : \A y \in Range(t) :
    x.label = l /\ y.label = l => x.rank < y.rank

LEMMA SortedEmpty == ASSUME NEW l PROVE Sorted(l, <<>>)
  BY DEF Sorted

LEMMA SortedConcat ==
  ASSUME NEW l, NEW s \in Seq(AnyWord), NEW t \in Seq(AnyWord)
  PROVE  Sorted(l, s \o t) <=> Sorted(l, s) /\ Sorted(l, t) /\ Below(l, s, t)
<1> DEFINE u == s \o t
           m == Len(s)
           n == Len(t)
<1>1. /\ u \in Seq(AnyWord) /\ Len(u) = m + n /\ m \in Nat /\ n \in Nat
      /\ \A i \in 1..(m + n) : u[i] = IF i <= m THEN s[i] ELSE t[i - m]
      /\ DOMAIN u = 1..(m + n) /\ DOMAIN s = 1..m /\ DOMAIN t = 1..n
  BY ConcatProperties, LenProperties
<1>2. \A i \in 1..m : i \in 1..(m + n) /\ u[i] = s[i]
  BY <1>1
<1>3. \A i \in 1..n : m + i \in 1..(m + n) /\ u[m + i] = t[i]
  <2> TAKE i \in 1..n
  <2>1. m + i \in 1..(m + n) /\ ~(m + i <= m) /\ (m + i) - m = i
    BY <1>1
  <2> QED
    BY <2>1, <1>1
<1> HIDE DEF u, m, n
<1>4. Sorted(l, u) => Sorted(l, s)
  BY <1>1, <1>2 DEF Sorted
<1>5. Sorted(l, u) => Sorted(l, t)
  <2> SUFFICES ASSUME Sorted(l, u), NEW i \in 1..n, NEW j \in 1..n,
                      i < j, t[i].label = l, t[j].label = l
               PROVE  t[i].rank < t[j].rank
    BY <1>1 DEF Sorted
  <2>1. m + i \in DOMAIN u /\ m + j \in DOMAIN u /\ m + i < m + j
    BY <1>1, <1>3
  <2>2. u[m + i] = t[i] /\ u[m + j] = t[j]
    BY <1>3
  <2> QED
    BY <2>1, <2>2 DEF Sorted
<1>6. Sorted(l, u) => Below(l, s, t)
  <2> SUFFICES ASSUME Sorted(l, u), NEW x \in Range(s), NEW y \in Range(t),
                      x.label = l, y.label = l
               PROVE  x.rank < y.rank
    BY DEF Below
  <2>1. PICK i \in 1..m : x = s[i]
    BY RangeFacts DEF m
  <2>2. PICK j \in 1..n : y = t[j]
    BY RangeFacts DEF n
  <2>3. i \in DOMAIN u /\ m + j \in DOMAIN u /\ i < m + j
    BY <1>1, <1>2, <1>3
  <2>4. u[i] = x /\ u[m + j] = y
    BY <1>2, <1>3, <2>1, <2>2
  <2> QED
    BY <2>3, <2>4 DEF Sorted
<1>7. ASSUME Sorted(l, s), Sorted(l, t), Below(l, s, t)
      PROVE  Sorted(l, u)
  <2> SUFFICES ASSUME NEW i \in 1..(m + n), NEW j \in 1..(m + n),
                      i < j, u[i].label = l, u[j].label = l
               PROVE  u[i].rank < u[j].rank
    BY <1>1 DEF Sorted
  <2>1. CASE j <= m
    <3>1. i \in 1..m /\ j \in 1..m
      BY <1>1, <2>1
    <3>2. u[i] = s[i] /\ u[j] = s[j]
      BY <1>2, <3>1
    <3> QED
      BY <1>1, <1>7, <3>1, <3>2 DEF Sorted
  <2>2. CASE i > m
    <3>1. i - m \in 1..n /\ j - m \in 1..n /\ i - m < j - m
          /\ m + (i - m) = i /\ m + (j - m) = j
      BY <1>1, <2>2
    <3>2. u[i] = t[i - m] /\ u[j] = t[j - m]
      BY <1>3, <3>1
    <3> QED
      BY <1>1, <1>7, <3>1, <3>2 DEF Sorted
  <2>3. CASE i <= m /\ j > m
    <3>1. i \in 1..m /\ j - m \in 1..n /\ m + (j - m) = j
      BY <1>1, <2>3
    <3>2. u[i] = s[i] /\ u[j] = t[j - m]
      BY <1>2, <1>3, <3>1
    <3>3. s[i] \in Range(s) /\ t[j - m] \in Range(t)
      BY <3>1, RangeFacts DEF m, n
    <3> QED
      BY <1>7, <3>2, <3>3 DEF Below
  <2> QED
    BY <1>1, <2>1, <2>2, <2>3
<1> QED
  BY <1>4, <1>5, <1>6, <1>7 DEF u

(* Below is about the words of label l that the sequences hold.            *)
LEMMA BelowParts ==
  ASSUME NEW l, NEW s, NEW t, NEW u, NEW v,
         \A x \in Range(u) : x.label = l => x \in Range(s),
         \A y \in Range(v) : y.label = l => y \in Range(t),
         Below(l, s, t)
  PROVE  Below(l, u, v)
  BY DEF Below

LEMMA SortedFront ==
  ASSUME NEW l, NEW s \in Seq(AnyWord), NEW k \in 0..Len(s), Sorted(l, s)
  PROVE  Sorted(l, SubSeq(s, 1, k))
<1> DEFINE t == SubSeq(s, 1, k)
<1>1. /\ t \in Seq(AnyWord) /\ Len(t) = k /\ \A i \in 1..k : t[i] = s[i]
  BY RangeFront
<1>2. DOMAIN s = 1..Len(s) /\ DOMAIN t = 1..k /\ Len(s) \in Nat
  BY <1>1, LenProperties
<1> HIDE DEF t
<1> QED
  BY <1>1, <1>2 DEF Sorted, t

-----------------------------------------------------------------------------
(* The words that are given to a message are words of the datagram, in     *)
(* their order, and all that the message is to get.                        *)
LEMMA ShareFacts ==
  ASSUME NEW m, NEW words \in Seq(AnyWord)
  PROVE  /\ Share(m, words) \in Seq(AnyWord)
         /\ Range(Share(m, words)) \subseteq Range(words)
         /\ \A w \in Range(words) : m \in Recipients[w.label] => w \in Range(Share(m, words))
         /\ \A l : Sorted(l, words) => Sorted(l, Share(m, words))
<1> DEFINE n == Len(words)
           Given(i) == m \in Recipients[words[i].label]
           s == [i \in DOMAIN words |-> IF Given(i) THEN <<words[i]>> ELSE <<>>]
<1>1. n \in Nat /\ DOMAIN words = 1..n /\ \A i \in 1..n : words[i] \in AnyWord
  BY LenProperties
<1>2. \A i \in 1..n : s[i] \in Seq(AnyWord)
  <2> TAKE i \in 1..n
  <2>1. <<words[i]>> \in Seq(AnyWord) /\ <<>> \in Seq(AnyWord)
    BY <1>1, EmptySeq
  <2> QED
    BY <1>1, <2>1
<1>3. s \in Seq(Seq(AnyWord)) /\ Len(s) = n
  <2>1. s \in [1..n -> Seq(AnyWord)]
    BY <1>1, <1>2
  <2> HIDE DEF s
  <2> QED
    BY <1>1, <2>1, TableIsSeq
<1>4. \A i \in 1..n : \/ Given(i) /\ s[i] = <<words[i]>>
                      \/ ~Given(i) /\ s[i] = <<>>
  BY <1>1
<1>5. Share(m, words) = Concatenation(s)
  BY DEF Share
<1> HIDE DEF s, Given
<1>6. PICK f : Fronts(f, s, AnyWord)
  BY <1>3, FrontsExist
<1>7. /\ \A i \in 0..n : f[i] \in Seq(AnyWord)
      /\ f[0] = <<>>
      /\ \A i \in 1..n : f[i] = f[i - 1] \o s[i]
  BY <1>3, <1>6 DEF Fronts
<1> DEFINE Chosen(i) == {words[j] : j \in {k \in 1..i : Given(k)}}
           A == {i \in 0..n : Range(f[i]) = Chosen(i)}
<1>8. 0 \in A
  BY <1>1, <1>7, RangeEmpty
<1>9. \A i \in 1..n : i - 1 \in A => i \in A
  <2> HIDE DEF n, Chosen
  <2> SUFFICES ASSUME NEW i \in 1..n, Range(f[i - 1]) = Chosen(i - 1)
               PROVE  Range(f[i]) = Chosen(i)
    BY <1>1
  <2>1. i - 1 \in 0..n /\ i \in 0..n /\ 1..i = 1..(i - 1) \cup {i}
    BY <1>1
  <2>2. Range(f[i]) = Range(f[i - 1]) \cup Range(s[i])
    <3> DEFINE a == f[i - 1]
               b == s[i]
    <3>1. a \in Seq(AnyWord) /\ b \in Seq(AnyWord) /\ f[i] = a \o b
      BY <1>3, <1>7, <2>1, LenProperties
    <3> HIDE DEF a, b
    <3> QED
      BY <3>1, RangeConcatenation DEF a, b
  <2>3. CASE Given(i) /\ s[i] = <<words[i]>>
    <3>1. Range(s[i]) = {words[i]}
      BY <2>3 DEF Range
    <3>2. Chosen(i) = Chosen(i - 1) \cup {words[i]}
      BY <2>1, <2>3 DEF Chosen
    <3> QED
      BY <2>2, <3>1, <3>2
  <2>4. CASE ~Given(i) /\ s[i] = <<>>
    <3>1. Range(s[i]) = {}
      BY <2>4, RangeEmpty
    <3>2. Chosen(i) = Chosen(i - 1)
      BY <2>1, <2>4 DEF Chosen
    <3> QED
      BY <2>2, <3>1, <3>2
  <2> QED
    BY <1>4, <2>3, <2>4
<1>10. \A i \in 0..n : i \in A
  <2> HIDE DEF A
  <2> QED
    BY <1>1, <1>8, <1>9, UpToInduction
<1>11. Concatenation(s) = f[n] /\ f[n] \in Seq(AnyWord)
  BY <1>3, <1>6, ConcatenationIsFront
<1>12. Range(Concatenation(s)) = Chosen(n)
  BY <1>1, <1>10, <1>11
<1>13. Chosen(n) \subseteq Range(words)
  BY <1>1, RangeFacts
<1>14. \A w \in Range(words) : m \in Recipients[w.label] => w \in Chosen(n)
  BY <1>1, RangeFacts DEF Given
<1>15. ASSUME NEW l, Sorted(l, words)
       PROVE  Sorted(l, Concatenation(s))
  <2> DEFINE B == {i \in 0..n : Sorted(l, f[i])}
  <2>1. 0 \in B
    BY <1>1, <1>7, SortedEmpty
  <2> HIDE DEF B
  <2>2. \A i \in 1..n : i - 1 \in B => i \in B
    <3> SUFFICES ASSUME NEW i \in 1..n, i - 1 \in B
                 PROVE  i \in B
      OBVIOUS
    <3>1. Sorted(l, f[i - 1]) /\ i - 1 \in 0..n /\ i \in 0..n
      BY <1>1 DEF B
    <3> DEFINE a == f[i - 1]
               b == s[i]
    <3>2. a \in Seq(AnyWord) /\ b \in Seq(AnyWord) /\ f[i] = a \o b
      BY <1>3, <1>7, <3>1, LenProperties
    <3>3. Sorted(l, b)
      BY <1>4 DEF Sorted
    <3>4. Below(l, a, b)
      <4> SUFFICES ASSUME NEW x \in Range(a), NEW y \in Range(b), x.label = l, y.label = l
                   PROVE  x.rank < y.rank
        BY DEF Below
      <4>1. i - 1 \in A
        BY <1>10, <3>1
      <4>2. PICK j \in 1..(i - 1) : x = words[j]
        BY <4>1
      <4>3. y = words[i]
        BY <1>4 DEF Range
      <4>4. j \in DOMAIN words /\ i \in DOMAIN words /\ j < i
        BY <1>1
      <4> QED
        BY <1>15, <4>2, <4>3, <4>4 DEF Sorted
    <3> HIDE DEF a, b
    <3>5. Sorted(l, a \o b)
      BY <3>1, <3>2, <3>3, <3>4, SortedConcat DEF a
    <3> QED
      BY <3>1, <3>2, <3>5 DEF B
  <2>3. \A i \in 0..n : i \in B
    BY <1>1, <2>1, <2>2, UpToInduction
  <2>4. Sorted(l, f[n])
    BY <1>1, <2>3 DEF B
  <2> QED
    BY <1>11, <2>4
<1> QED
  BY <1>5, <1>11, <1>12, <1>13, <1>14, <1>15

-----------------------------------------------------------------------------
(* A datagram takes the first words of what waits.  Of every label it has  *)
(* the words that its ring gives up: the oldest ones, as many as there are *)
(* of the label in the datagram.                                           *)
LEMMA DatagramTakesFront ==
  ASSUME NEW l, NEW u \in Seq(AnyWord), NEW c \in Seq(AnyWord), NEW v \in Seq(AnyWord),
         NoneOf(u, OfLabel(l)), NoneOf(v, OfLabel(l)),
         \A w \in Range(c) : w.label = l,
         NEW d \in 0..Len((u \o c) \o v)
  PROVE  LET words == SubSeq((u \o c) \o v, 1, d)
             k == CountOf(words, l)
         IN  /\ k \in 0..Len(c)
             /\ words \in Seq(AnyWord)
             /\ \A w \in Range(SubSeq(c, 1, k)) : w \in Range(words)
             /\ \A w \in Range(words) : w.label = l => w \in Range(SubSeq(c, 1, k))
             /\ Sorted(l, c) => Sorted(l, words)
             /\ d = Len((u \o c) \o v) => k = Len(c)
<1> DEFINE all == (u \o c) \o v
           words == SubSeq(all, 1, d)
           m == Len(u)
           n == Len(c)
           p == Len(v)
           k == CountOf(words, l)
           a == SubSeq(c, 1, k)
<1>1. m \in Nat /\ n \in Nat /\ p \in Nat
  BY LenProperties
<1>2. /\ all \in Seq(AnyWord) /\ Len(all) = m + n + p
      /\ \A i \in 1..(m + n) : all[i] = (u \o c)[i]
      /\ \A i \in 1..p : all[m + n + i] = v[i]
  <2>1. u \o c \in Seq(AnyWord) /\ Len(u \o c) = m + n
    BY ConcatProperties
  <2>2. /\ all \in Seq(AnyWord) /\ Len(all) = Len(u \o c) + p
        /\ \A i \in 1..(Len(u \o c) + p) :
             all[i] = IF i <= Len(u \o c) THEN (u \o c)[i] ELSE v[i - Len(u \o c)]
    BY <2>1, ConcatProperties
  <2>3. \A i \in 1..p : m + n + i \in 1..(m + n + p) /\ ~(m + n + i <= m + n)
                        /\ (m + n + i) - (m + n) = i
    BY <1>1
  <2> HIDE DEF all
  <2> QED
    BY <1>1, <2>1, <2>2, <2>3
<1>3. /\ \A i \in 1..m : (u \o c)[i] = u[i]
      /\ \A i \in 1..n : (u \o c)[m + i] = c[i]
  <2>1. \A i \in 1..(m + n) : (u \o c)[i] = IF i <= m THEN u[i] ELSE c[i - m]
    BY ConcatProperties
  <2>2. \A i \in 1..n : m + i \in 1..(m + n) /\ ~(m + i <= m) /\ (m + i) - m = i
    BY <1>1
  <2> QED
    BY <1>1, <2>1, <2>2
<1>4. \A i \in 1..m : all[i] = u[i] /\ all[i] \in AnyWord /\ all[i].label # l
  <2> TAKE i \in 1..m
  <2>1. all[i] = u[i]
    BY <1>1, <1>2, <1>3
  <2>2. u[i] \in Range(u) /\ u[i] \in AnyWord
    BY RangeFacts, LenProperties
  <2> QED
    BY <2>1, <2>2 DEF NoneOf, OfLabel
<1>5. \A i \in 1..n : all[m + i] = c[i] /\ c[i].label = l
  <2> TAKE i \in 1..n
  <2>1. m + i \in 1..(m + n)
    BY <1>1
  <2>2. c[i] \in Range(c)
    BY RangeFacts
  <2> QED
    BY <1>2, <1>3, <2>1, <2>2
<1>6. \A i \in 1..p : all[m + n + i].label # l
  <2> TAKE i \in 1..p
  <2>1. v[i] \in Range(v) /\ v[i] \in AnyWord
    BY RangeFacts, LenProperties
  <2> QED
    BY <1>2, <2>1 DEF NoneOf, OfLabel
<1> HIDE DEF all
<1>7. /\ words \in Seq(AnyWord) /\ Len(words) = d
      /\ \A i \in 1..d : words[i] = all[i]
      /\ d \in 0..Len(all) /\ DOMAIN words = 1..d
  <2>1. d \in 0..Len(all)
    BY DEF all
  <2>2. /\ words \in Seq(AnyWord) /\ Len(words) = d
        /\ \A i \in 1..d : words[i] = all[i]
    BY <1>2, <2>1, RangeFront
  <2> QED
    BY <2>1, <2>2, LenProperties
<1> HIDE DEF words
<1> DEFINE t == IF d <= m THEN 0 ELSE IF d <= m + n THEN d - m ELSE n
<1>8. t \in 0..n /\ (\A i \in 1..t : m + i \in 1..d)
      /\ (\A i \in 1..n : m + i <= d => i <= t) /\ (d = m + n + p => t = n)
  BY <1>1, <1>2, <1>7
<1> HIDE DEF t
(* The places of the words of label l. *)
<1>9. ASSUME NEW i \in 1..d, words[i].label = l
      PROVE  i - m \in 1..t /\ m + (i - m) = i /\ words[i] = c[i - m]
  <2>1. i \in 1..(m + n + p) /\ words[i] = all[i]
    BY <1>1, <1>2, <1>7
  <2>2. ~(i \in 1..m)
    BY <1>4, <1>9, <2>1
  <2>3. ~(i > m + n)
    <3> SUFFICES ASSUME i > m + n PROVE FALSE
      OBVIOUS
    <3>1. i - (m + n) \in 1..p /\ m + n + (i - (m + n)) = i
      BY <1>1, <2>1
    <3>2. all[m + n + (i - (m + n))].label # l
      BY <1>6, <3>1
    <3> QED
      BY <1>9, <2>1, <3>1, <3>2
  <2>4. i - m \in 1..n /\ m + (i - m) = i /\ m + (i - m) <= d
    BY <1>1, <1>7, <2>1, <2>2, <2>3
  <2>5. i - m <= t
    BY <1>8, <2>4
  <2>6. all[m + (i - m)] = c[i - m]
    BY <1>5, <2>4
  <2> QED
    BY <1>8, <2>1, <2>4, <2>5, <2>6
<1>10. ASSUME NEW i \in 1..t
       PROVE  m + i \in 1..d /\ words[m + i] = c[i] /\ words[m + i].label = l
  <2>1. m + i \in 1..d
    BY <1>8
  <2>2. i \in 1..n
    BY <1>1, <1>8
  <2> QED
    BY <1>5, <1>7, <2>1, <2>2
<1>11. k = t
  <2> DEFINE T == {i \in DOMAIN words : words[i].label = l}
  <2>1. T \subseteq (m + 1)..(m + t)
    <3> SUFFICES ASSUME NEW i \in 1..d, words[i].label = l
                 PROVE  i \in (m + 1)..(m + t)
      BY <1>7
    <3>1. i - m \in 1..t /\ m + (i - m) = i
      BY <1>9
    <3> QED
      BY <1>1, <1>8, <3>1
  <2>2. (m + 1)..(m + t) \subseteq T
    <3> SUFFICES ASSUME NEW i \in (m + 1)..(m + t)
                 PROVE  i \in 1..d /\ words[i].label = l
      BY <1>7
    <3>1. i - m \in 1..t /\ m + (i - m) = i
      BY <1>1, <1>8
    <3> QED
      BY <1>10, <3>1
  <2>3. T = (m + 1)..(m + t)
    BY <2>1, <2>2
  <2>4. Cardinality((m + 1)..(m + t)) = t
    <3>1. m + 1 \in Int /\ m + t \in Int /\ (m + 1 > m + t => t = 0)
          /\ (m + t) - (m + 1) + 1 = t
      BY <1>1, <1>8
    <3>2. Cardinality((m + 1)..(m + t)) = IF m + 1 > m + t THEN 0 ELSE (m + t) - (m + 1) + 1
      BY <3>1, FS_Interval
    <3> QED
      BY <3>1, <3>2
  <2> HIDE DEF T
  <2>5. k = Cardinality(T)
    BY DEF CountOf, T
  <2> QED
    BY <2>3, <2>4, <2>5
<1> HIDE DEF k
<1>12. k \in 0..Len(c)
  BY <1>8, <1>11
<1>13. /\ a \in Seq(AnyWord) /\ Len(a) = t /\ \A i \in 1..t : a[i] = c[i]
  BY <1>11, <1>12, RangeFront
<1> HIDE DEF a
<1>14. ASSUME NEW w \in Range(a) PROVE w \in Range(words)
  <2>1. PICK i \in 1..t : w = a[i]
    BY <1>13, RangeFacts
  <2>2. m + i \in 1..Len(words) /\ words[m + i] = w
    BY <1>7, <1>10, <1>13, <2>1
  <2> QED
    BY <1>7, <2>2, RangeFacts
<1>15. ASSUME NEW w \in Range(words), w.label = l PROVE w \in Range(a)
  <2>1. PICK i \in 1..d : w = words[i]
    BY <1>7, RangeFacts
  <2>2. i - m \in 1..t /\ w = c[i - m]
    BY <1>9, <1>15, <2>1
  <2>3. i - m \in 1..Len(a) /\ a[i - m] = w
    BY <1>13, <2>2
  <2> QED
    BY <1>13, <2>3, RangeFacts
<1>16. ASSUME Sorted(l, c) PROVE Sorted(l, words)
  <2> SUFFICES ASSUME NEW i \in 1..d, NEW j \in 1..d, i < j,
                      words[i].label = l, words[j].label = l
               PROVE  words[i].rank < words[j].rank
    BY <1>7 DEF Sorted
  <2>1. i - m \in 1..t /\ j - m \in 1..t /\ words[i] = c[i - m] /\ words[j] = c[j - m]
    BY <1>9
  <2>2. i - m < j - m /\ i - m \in 1..n /\ j - m \in 1..n
    BY <1>1, <1>8, <2>1
  <2>3. c[i - m].label = l /\ c[j - m].label = l /\ DOMAIN c = 1..n
    BY <1>5, <2>2, LenProperties
  <2> QED
    BY <1>16, <2>1, <2>2, <2>3 DEF Sorted
<1>17. d = Len(all) => k = Len(c)
  BY <1>2, <1>8, <1>11
<1> QED
  BY <1>7, <1>12, <1>14, <1>15, <1>16, <1>17 DEF all, words, k, a

-----------------------------------------------------------------------------
(* The flow of words in its four parts: popped, in the ring of the         *)
(* receiver, under way, in the ring of the sender.                         *)
Parts(l, a, b, c, d) ==
  /\ Sorted(l, a) /\ Sorted(l, b) /\ Sorted(l, c) /\ Sorted(l, d)
  /\ Below(l, a, b) /\ Below(l, a, c) /\ Below(l, a, d)
  /\ Below(l, b, c) /\ Below(l, b, d)
  /\ Below(l, c, d)

LEMMA BelowConcat ==
  ASSUME NEW l, NEW s \in Seq(AnyWord), NEW t \in Seq(AnyWord), NEW u
  PROVE  /\ Below(l, s \o t, u) <=> Below(l, s, u) /\ Below(l, t, u)
         /\ Below(l, u, s \o t) <=> Below(l, u, s) /\ Below(l, u, t)
<1>1. Range(s \o t) = Range(s) \cup Range(t)
  BY RangeConcatenation
<1> DEFINE x == s \o t
<1> HIDE DEF x
<1>2. Range(x) = Range(s) \cup Range(t)
  BY <1>1 DEF x
<1>3. /\ Below(l, x, u) <=> Below(l, s, u) /\ Below(l, t, u)
      /\ Below(l, u, x) <=> Below(l, u, s) /\ Below(l, u, t)
  BY <1>2 DEF Below
<1> QED
  BY <1>3 DEF x

LEMMA FlowParts ==
  ASSUME NEW l, NEW a \in Seq(AnyWord), NEW b \in Seq(AnyWord),
         NEW c \in Seq(AnyWord), NEW d \in Seq(AnyWord)
  PROVE  /\ Sorted(l, a \o b \o c \o d) <=> Parts(l, a, b, c, d)
         /\ Range(a \o b \o c \o d) = Range(a) \cup Range(b) \cup Range(c) \cup Range(d)
<1> DEFINE x == a \o b
           y == x \o c
           z == y \o d
<1>1. x \in Seq(AnyWord) /\ Range(x) = Range(a) \cup Range(b)
      /\ (Sorted(l, x) <=> Sorted(l, a) /\ Sorted(l, b) /\ Below(l, a, b))
  BY ConcatProperties, RangeConcatenation, SortedConcat
<1>2. /\ Below(l, x, c) <=> Below(l, a, c) /\ Below(l, b, c)
      /\ Below(l, x, d) <=> Below(l, a, d) /\ Below(l, b, d)
  BY BelowConcat
<1> HIDE DEF x
<1>3. y \in Seq(AnyWord) /\ Range(y) = Range(x) \cup Range(c)
      /\ (Sorted(l, y) <=> Sorted(l, x) /\ Sorted(l, c) /\ Below(l, x, c))
  BY <1>1, ConcatProperties, RangeConcatenation, SortedConcat
<1>4. Below(l, y, d) <=> Below(l, x, d) /\ Below(l, c, d)
  BY <1>1, BelowConcat
<1> HIDE DEF y
<1>5. Range(z) = Range(y) \cup Range(d)
      /\ (Sorted(l, z) <=> Sorted(l, y) /\ Sorted(l, d) /\ Below(l, y, d))
  BY <1>3, RangeConcatenation, SortedConcat
<1> HIDE DEF z
<1>6. Sorted(l, z) <=> Parts(l, a, b, c, d)
  BY <1>1, <1>2, <1>3, <1>4, <1>5 DEF Parts
<1>7. Range(z) = Range(a) \cup Range(b) \cup Range(c) \cup Range(d)
  BY <1>1, <1>3, <1>5
<1> QED
  BY <1>6, <1>7 DEF x, y, z

(* An emission: words move from the ring of the sender to the network, or  *)
(* are lost on the way.                                                    *)
LEMMA PartsEmit ==
  ASSUME NEW l, NEW a \in Seq(AnyWord), NEW b \in Seq(AnyWord),
         NEW c \in Seq(AnyWord), NEW t \in Seq(AnyWord), NEW d \in Seq(AnyWord),
         NEW x \in Seq(AnyWord), Sorted(l, x),
         \A w \in Range(x) : w.label = l => w \in Range(t),
         Parts(l, a, b, c, t \o d)
  PROVE  Parts(l, a, b, c \o x, d) /\ Parts(l, a, b, c, d)
<1>1. Sorted(l, t) /\ Sorted(l, d) /\ Below(l, t, d)
  BY SortedConcat DEF Parts
<1>2. /\ Below(l, a, t) /\ Below(l, a, d)
      /\ Below(l, b, t) /\ Below(l, b, d)
      /\ Below(l, c, t) /\ Below(l, c, d)
  BY BelowConcat DEF Parts
<1>3. Below(l, a, x) /\ Below(l, b, x) /\ Below(l, c, x) /\ Below(l, x, d)
  BY <1>1, <1>2 DEF Below
<1>4. Sorted(l, c \o x)
  BY <1>3, SortedConcat DEF Parts
<1>5. Below(l, a, c \o x) /\ Below(l, b, c \o x) /\ Below(l, c \o x, d)
  BY <1>2, <1>3, BelowConcat DEF Parts
<1> QED
  BY <1>1, <1>2, <1>4, <1>5 DEF Parts

(* The arrival of a datagram: some of its words go to the ring of the      *)
(* receiver.                                                               *)
LEMMA PartsArrive ==
  ASSUME NEW l, NEW a \in Seq(AnyWord), NEW b \in Seq(AnyWord),
         NEW h \in Seq(AnyWord), NEW c \in Seq(AnyWord), NEW d \in Seq(AnyWord),
         NEW x \in Seq(AnyWord), Sorted(l, h) => Sorted(l, x), Range(x) \subseteq Range(h),
         Parts(l, a, b, h \o c, d)
  PROVE  Parts(l, a, b \o x, c, d)
<1>1. Sorted(l, h) /\ Sorted(l, c) /\ Below(l, h, c)
  BY SortedConcat DEF Parts
<1>2. /\ Below(l, a, h) /\ Below(l, a, c)
      /\ Below(l, b, h) /\ Below(l, b, c)
      /\ Below(l, h, d) /\ Below(l, c, d)
  BY BelowConcat DEF Parts
<1>3. Below(l, a, x) /\ Below(l, b, x) /\ Below(l, x, c) /\ Below(l, x, d)
  BY <1>1, <1>2 DEF Below
<1>4. Sorted(l, b \o x)
  BY <1>1, <1>3, SortedConcat DEF Parts
<1>5. Below(l, a, b \o x) /\ Below(l, b \o x, c) /\ Below(l, b \o x, d)
  BY <1>2, <1>3, BelowConcat DEF Parts
<1> QED
  BY <1>1, <1>2, <1>4, <1>5 DEF Parts

LEMMA PartsPop ==
  ASSUME NEW l, NEW a \in Seq(AnyWord), NEW x \in Seq(AnyWord), NEW b \in Seq(AnyWord),
         NEW c \in Seq(AnyWord), NEW d \in Seq(AnyWord),
         Parts(l, a, x \o b, c, d)
  PROVE  Parts(l, a \o x, b, c, d)
<1>1. Sorted(l, x) /\ Sorted(l, b) /\ Below(l, x, b)
  BY SortedConcat DEF Parts
<1>2. /\ Below(l, a, x) /\ Below(l, a, b)
      /\ Below(l, x, c) /\ Below(l, b, c)
      /\ Below(l, x, d) /\ Below(l, b, d)
  BY BelowConcat DEF Parts
<1>3. Sorted(l, a \o x)
  BY <1>1, <1>2, SortedConcat DEF Parts
<1>4. Below(l, a \o x, b) /\ Below(l, a \o x, c) /\ Below(l, a \o x, d)
  BY <1>1, <1>2, BelowConcat DEF Parts
<1> QED
  BY <1>1, <1>2, <1>3, <1>4 DEF Parts

(* A push: words of greater ranks than all that went before.               *)
LEMMA PartsPush ==
  ASSUME NEW l, NEW a \in Seq(AnyWord), NEW b \in Seq(AnyWord),
         NEW c \in Seq(AnyWord), NEW d \in Seq(AnyWord), NEW x \in Seq(AnyWord),
         NEW n \in Nat, Sorted(l, x),
         \A w \in Range(a) \cup Range(b) \cup Range(c) \cup Range(d) :
           w.label = l => w.rank <= n,
         \A w \in Range(x) : w.rank > n,
         Parts(l, a, b, c, d)
  PROVE  Parts(l, a, b, c, d \o x)
<1>1. /\ Range(a) \subseteq AnyWord /\ Range(b) \subseteq AnyWord
      /\ Range(c) \subseteq AnyWord /\ Range(d) \subseteq AnyWord
      /\ Range(x) \subseteq AnyWord
  BY RangeFacts
<1>2. \A v, w \in AnyWord : v.rank \in Nat /\ (v.rank <= n /\ w.rank > n => v.rank < w.rank)
  BY DEF AnyWord
<1>3. Below(l, a, x) /\ Below(l, b, x) /\ Below(l, c, x) /\ Below(l, d, x)
  <2>1. \A v \in Range(a) \cup Range(b) \cup Range(c) \cup Range(d) :
          \A w \in Range(x) : v.label = l => v.rank < w.rank
    BY <1>1, <1>2
  <2> QED
    BY <2>1 DEF Below
<1>4. Sorted(l, d \o x)
  BY <1>3, SortedConcat DEF Parts
<1>5. Below(l, a, d \o x) /\ Below(l, b, d \o x) /\ Below(l, c, d \o x)
  BY <1>3, BelowConcat DEF Parts
<1> QED
  BY <1>4, <1>5 DEF Parts

(* A reset empties a ring. *)
LEMMA PartsReset ==
  ASSUME NEW l, NEW a, NEW b, NEW c, NEW d, Parts(l, a, b, c, d)
  PROVE  Parts(l, a, <<>>, c, d) /\ Parts(l, a, b, c, <<>>)
<1>1. \A s : Below(l, s, <<>>) /\ Below(l, <<>>, s)
  BY RangeEmpty DEF Below
<1> QED
  BY <1>1, SortedEmpty DEF Parts

-----------------------------------------------------------------------------
(* The contents of the rings, and the words under way. *)
Outgoing(l) == Contents(out[l], OutSize(l))
Incoming(m) == Contents(in[m], InSize(m))
Net == Concatenation(wire)

(* Type correctness: the rings stay within their bounds. *)
TypeOK ==
  /\ DOMAIN out = OutLabels /\ \A l \in OutLabels : out[l] \in Rings(OutSize(l), AnyWord)
  /\ DOMAIN in = InLabels /\ \A m \in InLabels : in[m] \in Rings(InSize(m), AnyWord)
  /\ queued \in {"yes", "no", "stale"}
  /\ upsets \in Nat
  /\ wire \in Seq(Seq(AnyWord))
  /\ pushed \in [OutLabels -> Nat]
  /\ popped \in [InLabels -> Seq(AnyWord)]
  /\ lost \subseteq AnyWord
  /\ cut \in [InLabels -> SUBSET AnyWord]
  /\ inRoom \in ReceiverRooms
  /\ truncated \subseteq AnyWord

(* The ring of a label holds words of this label only. *)
OwnWords == \A l \in OutLabels : \A w \in Range(Outgoing(l)) : w.label = l

Bounded ==
  \A l \in OutLabels : \A m \in Entitled[l] :
    \A w \in Range(popped[m]) \cup Range(Incoming(m)) \cup Range(Net) \cup Range(Outgoing(l)) :
      w.label = l => w.rank <= pushed[l]

Ordered ==
  \A l \in OutLabels : \A m \in Entitled[l] :
    Parts(l, popped[m], Incoming(m), Net, Outgoing(l))

Accounted ==
  \A l \in OutLabels : \A m \in Entitled[l] : \A k \in 1..pushed[l] :
    \/ Word(l, k) \in Range(popped[m]) \cup Range(Incoming(m)) \cup Range(Net) \cup Range(Outgoing(l))
    \/ Word(l, k) \in lost \cup truncated \cup cut[m]

IInv == TypeOK /\ OwnWords /\ Bounded /\ Ordered /\ Accounted

LEMMA Sizes ==
  /\ \A l \in OutLabels : Depth[l] \in Nat \ {0} /\ OutSize(l) \in Nat \ {0} /\ OutSize(l) >= Depth[l]
  /\ \A m \in InLabels : ReceiverDepth[m] \in Nat \ {0} /\ InSize(m) \in Nat \ {0}
  BY A429BusAssumption DEF OutSize, InSize

LEMMA EntitledAreDeclared ==
  /\ \A l \in OutLabels : Entitled[l] \subseteq InLabels
  /\ \A l \in OutLabels : \A m \in Entitled[l] : m \in Recipients[l]
<1> SUFFICES ASSUME NEW l \in OutLabels, NEW m \in Entitled[l]
             PROVE  m \in InLabels /\ m \in Recipients[l]
  OBVIOUS
<1>1. /\ m \in InLabels /\ m.number = l.number
      /\ \/ m.sdi \in {l.sdi, "DD"}
         \/ m.sdi = "XX" /\ [number |-> l.number, sdi |-> l.sdi] \in InLabels
  BY DEF Entitled
<1>2. l.sdi \in {"00", "01", "10", "11"}
  BY A429BusAssumption DEF SdiBits
<1>3. CASE Declared(l.number, "DD") # {}
  <2>1. PICK k \in InLabels : k.number = l.number /\ k.sdi = "DD"
    BY <1>3 DEF Declared
  <2>2. m.sdi \in {"XX", "DD"}
    BY <1>1, <2>1, A429BusAssumption
  <2> DEFINE q == [number |-> l.number, sdi |-> l.sdi]
  <2>3. q \in InLabels => l.sdi \in {"XX", "DD"}
    <3>1. q.number = l.number /\ q.sdi = l.sdi
      OBVIOUS
    <3> HIDE DEF q
    <3> QED
      BY <2>1, <3>1, A429BusAssumption
  <2>4. q \notin InLabels
    BY <1>2, <2>3
  <2>5. m.sdi = "DD"
    BY <1>1, <1>2, <2>2, <2>4
  <2> QED
    BY <1>1, <1>3, <2>5 DEF Recipients, Declared
<1>4. CASE Declared(l.number, "DD") = {}
  <2>1. m.sdi # "DD"
    BY <1>1, <1>4 DEF Declared
  <2>2. CASE m.sdi = l.sdi
    <3>1. m \in Declared(l.number, l.sdi)
      BY <1>1, <2>2 DEF Declared
    <3> QED
      BY <1>1, <1>4, <3>1 DEF Recipients
  <2>3. CASE m.sdi = "XX" /\ [number |-> l.number, sdi |-> l.sdi] \in InLabels
    <3>1. [number |-> l.number, sdi |-> l.sdi] \in Declared(l.number, l.sdi)
      BY <2>3 DEF Declared
    <3>2. m \in Declared(l.number, "XX")
      BY <1>1, <2>3 DEF Declared
    <3> QED
      BY <1>1, <1>4, <3>1, <3>2 DEF Recipients
  <2> QED
    BY <1>1, <2>1, <2>2, <2>3
<1> QED
  BY <1>3, <1>4

LEMMA PartsAreWords ==
  ASSUME TypeOK
  PROVE  /\ \A l \in OutLabels : Outgoing(l) \in Seq(AnyWord)
         /\ \A m \in InLabels : Incoming(m) \in Seq(AnyWord) /\ popped[m] \in Seq(AnyWord)
         /\ Net \in Seq(AnyWord)
<1>1. ASSUME NEW l \in OutLabels PROVE Outgoing(l) \in Seq(AnyWord)
  <2>1. out[l] \in Rings(OutSize(l), AnyWord) /\ OutSize(l) \in Nat \ {0}
    BY Sizes DEF TypeOK
  <2> QED
    BY <2>1, ContentsFacts DEF Outgoing
<1>2. ASSUME NEW m \in InLabels PROVE Incoming(m) \in Seq(AnyWord)
  <2>1. in[m] \in Rings(InSize(m), AnyWord) /\ InSize(m) \in Nat \ {0}
    BY Sizes DEF TypeOK
  <2> QED
    BY <2>1, ContentsFacts DEF Incoming
<1>3. Net \in Seq(AnyWord)
  BY ConcatenationType DEF TypeOK, Net
<1> QED
  BY <1>1, <1>2, <1>3 DEF TypeOK

LEMMA EmptyRingFacts ==
  ASSUME NEW n \in Nat \ {0}
  PROVE  /\ EmptyRing(n, NoWord) \in Rings(n, AnyWord)
         /\ Contents(EmptyRing(n, NoWord), n) = <<>>
<1>1. NoWord \in AnyWord
  BY DEF NoWord, AnyWord
<1>2. EmptyRing(n, NoWord) \in Rings(n, AnyWord) /\ EmptyRing(n, NoWord).size = 0
  BY <1>1 DEF EmptyRing, Rings
<1>3. Contents(EmptyRing(n, NoWord), n) \in Seq(AnyWord) /\ Len(Contents(EmptyRing(n, NoWord), n)) = 0
  <2> DEFINE r == EmptyRing(n, NoWord)
  <2>1. r \in Rings(n, AnyWord) /\ r.size = 0
    BY <1>2
  <2> HIDE DEF r
  <2>2. Contents(r, n) \in Seq(AnyWord) /\ Len(Contents(r, n)) = 0
    BY <2>1, ContentsFacts
  <2> QED
    BY <2>2 DEF r
<1> QED
  BY <1>2, <1>3, EmptySeq

LEMMA InitHolds == Init => IInv
<1> SUFFICES ASSUME Init PROVE IInv
  OBVIOUS
<1>1. ASSUME NEW l \in OutLabels
      PROVE  out[l] \in Rings(OutSize(l), AnyWord) /\ Outgoing(l) = <<>>
  <2>1. OutSize(l) \in Nat \ {0} /\ out[l] = EmptyRing(OutSize(l), NoWord)
    BY Sizes DEF Init
  <2> QED
    BY <2>1, EmptyRingFacts DEF Outgoing
<1>2. ASSUME NEW m \in InLabels
      PROVE  in[m] \in Rings(InSize(m), AnyWord) /\ Incoming(m) = <<>> /\ popped[m] = <<>>
  <2>1. InSize(m) \in Nat \ {0} /\ in[m] = EmptyRing(InSize(m), NoWord) /\ popped[m] = <<>>
    BY Sizes DEF Init
  <2> QED
    BY <2>1, EmptyRingFacts DEF Incoming
<1>3. wire = <<>> /\ wire \in Seq(Seq(AnyWord)) /\ Net = <<>>
  <2>1. wire = <<>> /\ wire \in Seq(Seq(AnyWord)) /\ Len(wire) = 0
    BY EmptySeq DEF Init
  <2>2. \A i \in 1..Len(wire) : wire[i] = <<>>
    BY <2>1
  <2>3. Concatenation(wire) = <<>>
    BY <2>1, <2>2, ConcatenationOfEmpty
  <2> QED
    BY <2>1, <2>3 DEF Net
<1>4. TypeOK
  BY <1>1, <1>2, <1>3, EmptySeq DEF Init, TypeOK
<1>5. OwnWords
  BY <1>1, RangeEmpty DEF OwnWords
<1>6. ASSUME NEW l \in OutLabels, NEW m \in Entitled[l]
      PROVE  /\ popped[m] = <<>> /\ Incoming(m) = <<>> /\ Net = <<>> /\ Outgoing(l) = <<>>
             /\ pushed[l] = 0
  BY <1>1, <1>2, <1>3, EntitledAreDeclared DEF Init
<1>7. Bounded
  BY <1>6, RangeEmpty DEF Bounded
<1>8. Ordered
  <2>1. \A l : Below(l, <<>>, <<>>)
    BY RangeEmpty DEF Below
  <2> QED
    BY <1>6, <2>1, SortedEmpty DEF Ordered, Parts
<1>9. Accounted
  BY <1>6 DEF Accounted
<1> QED
  BY <1>4, <1>5, <1>7, <1>8, <1>9 DEF IInv

-----------------------------------------------------------------------------
(* What the invariant says of the words of one label on their way to one   *)
(* message.                                                                *)
Fine(l, m) ==
  /\ Parts(l, popped[m], Incoming(m), Net, Outgoing(l))
  /\ \A w \in Range(popped[m]) \cup Range(Incoming(m)) \cup Range(Net) \cup Range(Outgoing(l)) :
       w.label = l => w.rank <= pushed[l]
  /\ \A i \in 1..pushed[l] :
       \/ Word(l, i) \in Range(popped[m]) \cup Range(Incoming(m)) \cup Range(Net)
                         \cup Range(Outgoing(l))
       \/ Word(l, i) \in lost \cup truncated \cup cut[m]

LEMMA ShareOfFlow ==
  ASSUME IInv, NEW l \in OutLabels, NEW m \in Entitled[l]
  PROVE  /\ popped[m] \in Seq(AnyWord) /\ Incoming(m) \in Seq(AnyWord)
         /\ Net \in Seq(AnyWord) /\ Outgoing(l) \in Seq(AnyWord)
         /\ Parts(l, popped[m], Incoming(m), Net, Outgoing(l))
         /\ \A w \in Range(popped[m]) \cup Range(Incoming(m)) \cup Range(Net) \cup Range(Outgoing(l)) :
              w.label = l => w.rank <= pushed[l]
         /\ \A k \in 1..pushed[l] :
              \/ Word(l, k) \in Range(popped[m]) \cup Range(Incoming(m)) \cup Range(Net)
                                \cup Range(Outgoing(l))
              \/ Word(l, k) \in lost \cup truncated \cup cut[m]
         /\ m \in InLabels /\ pushed[l] \in Nat
<1>1. m \in InLabels
  BY EntitledAreDeclared
<1>2. /\ popped[m] \in Seq(AnyWord) /\ Incoming(m) \in Seq(AnyWord)
      /\ Net \in Seq(AnyWord) /\ Outgoing(l) \in Seq(AnyWord)
  BY <1>1, PartsAreWords DEF IInv
<1> QED
  BY <1>1, <1>2 DEF IInv, Ordered, Bounded, Accounted, TypeOK

(* ims_push_queuing_message *)
LEMMA PushKeeps ==
  ASSUME IInv, NEW l \in OutLabels, NEW k \in 1..Depth[l], Push(l, k)
  PROVE  IInv'
<1> DEFINE n == pushed[l]
           x == [i \in 1..k |-> Word(l, n + i)]
           r == out[l]
<1>1. /\ out[l].size + k <= Depth[l]
      /\ out' = [out EXCEPT ![l] = PushRing(r, OutSize(l), x)]
      /\ pushed' = [pushed EXCEPT ![l] = n + k]
      /\ queued' \in {"yes", "no", "stale"}
      /\ UNCHANGED <<upsets, wire, in, popped, lost, cut, inRoom, truncated>>
  BY DEF Push, roomVars, IInv, TypeOK
<1>2. TypeOK /\ n \in Nat /\ k \in Nat /\ OutSize(l) \in Nat \ {0} /\ OutSize(l) >= Depth[l]
      /\ Depth[l] \in Nat /\ r \in Rings(OutSize(l), AnyWord)
  BY Sizes DEF IInv, TypeOK
<1>3. x \in Seq(AnyWord) /\ Len(x) = k /\ \A i \in 1..k : x[i] = Word(l, n + i)
  <2>1. \A i \in 1..k : Word(l, n + i) \in AnyWord
    BY <1>2 DEF Word, AnyWord
  <2>2. x \in [1..k -> AnyWord]
    BY <2>1
  <2>3. \A i \in 1..k : x[i] = Word(l, n + i)
    OBVIOUS
  <2> HIDE DEF x
  <2> QED
    BY <1>2, <2>2, <2>3, TableIsSeq
<1>4. \A w \in Range(x) : \E i \in 1..k : w = Word(l, n + i)
  <2> HIDE DEF x
  <2> QED
    BY <1>3, RangeFacts
<1>5. \A i \in 1..k : Word(l, n + i) \in Range(x)
  <2> HIDE DEF x
  <2> QED
    BY <1>3, RangeFacts
<1>6. Sorted(l, x)
  <2> HIDE DEF n
  <2>1. \A i, j \in 1..k : i < j => Word(l, n + i).rank < Word(l, n + j).rank
    BY <1>2 DEF Word
  <2>2. DOMAIN x = 1..k
    OBVIOUS
  <2> QED
    BY <1>3, <2>1, <2>2 DEF Sorted
<1> HIDE DEF x
<1>7. Outgoing(l)' = Outgoing(l) \o x /\ out'[l] \in Rings(OutSize(l), AnyWord)
  <2>1. out'[l] = PushRing(r, OutSize(l), x)
    BY <1>1, <1>2 DEF TypeOK
  <2>2. PushRing(r, OutSize(l), x) \in Rings(OutSize(l), AnyWord)
    BY <1>2, <1>3, PushKeepsRing
  <2>3. Kept(r, OutSize(l), Len(x)) = k
    BY <1>1, <1>2, <1>3, RingFields DEF Kept, Least
  <2>4. SubSeq(x, 1, k) = x
    BY <1>3, SubSeqFull
  <2>5. Contents(PushRing(r, OutSize(l), x), OutSize(l)) = Contents(r, OutSize(l)) \o x
    <3> DEFINE z == OutSize(l)
    <3>1. r \in Rings(z, AnyWord) /\ z \in Nat \ {0} /\ x \in Seq(AnyWord)
      BY <1>2, <1>3
    <3> HIDE DEF r, z
    <3>2. Contents(PushRing(r, z, x), z) = Contents(r, z) \o SubSeq(x, 1, Kept(r, z, Len(x)))
      BY <3>1, PushAppends
    <3> QED
      BY <2>3, <2>4, <3>2 DEF z
  <2> QED
    BY <2>1, <2>2, <2>5 DEF Outgoing, OutSize
<1>8. /\ \A j \in OutLabels : j # l => out'[j] = out[j] /\ Outgoing(j)' = Outgoing(j)
                                       /\ pushed'[j] = pushed[j]
      /\ pushed'[l] = n + k
      /\ \A m \in InLabels : Incoming(m)' = Incoming(m)
      /\ Net' = Net
  BY <1>1, <1>2 DEF TypeOK, Outgoing, Incoming, Net, OutSize, InSize
<1>9. TypeOK'
  <2>1. DOMAIN out' = OutLabels /\ \A j \in OutLabels : out'[j] \in Rings(OutSize(j), AnyWord)
    BY <1>1, <1>2, <1>7, <1>8 DEF TypeOK
  <2>2. pushed' \in [OutLabels -> Nat]
    BY <1>1, <1>2 DEF TypeOK
  <2> QED
    BY <1>1, <1>2, <2>1, <2>2 DEF TypeOK, OutSize, InSize
<1>10. Outgoing(l) \in Seq(AnyWord) /\ Range(Outgoing(l)') = Range(Outgoing(l)) \cup Range(x)
  <2>1. Outgoing(l) \in Seq(AnyWord)
    BY <1>2, PartsAreWords
  <2> QED
    BY <1>3, <1>7, <2>1, RangeConcatenation
<1>11. \A w \in Range(x) : w.label = l /\ w.rank > n /\ w.rank <= n + k
  <2>1. \A i \in 1..k : n + i > n /\ n + i <= n + k
    BY <1>2
  <2> HIDE DEF n
  <2> QED
    BY <1>4, <2>1 DEF Word
<1>12. OwnWords'
  <2> SUFFICES ASSUME NEW j \in OutLabels, NEW w \in Range(Outgoing(j)') PROVE w.label = j
    BY DEF OwnWords
  <2>1. CASE j = l
    BY <2>1, <1>10, <1>11 DEF IInv, OwnWords
  <2>2. CASE j # l
    BY <2>2, <1>8 DEF IInv, OwnWords
  <2> QED
    BY <2>1, <2>2
<1>13. ASSUME NEW j \in OutLabels, NEW m \in Entitled[j]
       PROVE  Fine(j, m)'
  <2>1. /\ popped'[m] = popped[m] /\ Incoming(m)' = Incoming(m) /\ Net' = Net
        /\ lost' = lost /\ truncated' = truncated /\ cut'[m] = cut[m]
    BY <1>1, <1>8, EntitledAreDeclared
  <2>2. CASE j # l
    BY <1>8, <2>1, <2>2, ShareOfFlow DEF Fine, Word
  <2>3. CASE j = l
    <3> DEFINE A == Range(popped[m]) \cup Range(Incoming(m)) \cup Range(Net) \cup Range(Outgoing(l))
    <3>1. /\ Parts(l, popped[m], Incoming(m), Net, Outgoing(l))
          /\ \A w \in A : w.label = l => w.rank <= n
          /\ \A i \in 1..n : Word(l, i) \in A \/ Word(l, i) \in lost \cup truncated \cup cut[m]
          /\ popped[m] \in Seq(AnyWord) /\ Incoming(m) \in Seq(AnyWord) /\ Net \in Seq(AnyWord)
      BY <2>3, ShareOfFlow
    <3>2. A \subseteq AnyWord
      BY <1>10, <3>1, RangeFacts
    <3>3. Range(popped'[m]) \cup Range(Incoming(m)') \cup Range(Net') \cup Range(Outgoing(l)')
            = A \cup Range(x)
      BY <1>10, <2>1
    <3>4. \A w \in A : w.label = l => w.rank <= n + k
      <4>1. \A w \in A : w.rank \in Nat
        BY <3>2 DEF AnyWord
      <4> HIDE DEF A, n
      <4> QED
        BY <1>2, <3>1, <4>1
    <3>5. \A i \in 1..(n + k) : i \in 1..n \/ (i - n \in 1..k /\ n + (i - n) = i)
      BY <1>2
    <3>6. \A i \in 1..(n + k) : Word(l, i) \in A \cup Range(x) \/ Word(l, i) \in lost \cup truncated \cup cut[m]
      <4> TAKE i \in 1..(n + k)
      <4>1. CASE i \in 1..n
        BY <3>1, <4>1
      <4>2. CASE i - n \in 1..k /\ n + (i - n) = i
        BY <1>5, <4>2
      <4> QED
        BY <3>5, <4>1, <4>2
    <3>7. Parts(l, popped[m], Incoming(m), Net, Outgoing(l) \o x)
      <4> HIDE DEF n
      <4> QED
        BY <1>2, <1>3, <1>6, <1>10, <1>11, <3>1, PartsPush
    <3> HIDE DEF A, n
    <3> QED
      BY <1>7, <1>8, <1>11, <2>1, <2>3, <3>3, <3>4, <3>6, <3>7 DEF Fine, Word
  <2> QED
    BY <2>2, <2>3
<1>14. Ordered' /\ Bounded' /\ Accounted'
  BY <1>13 DEF Fine, Ordered, Bounded, Accounted, Entitled, Word
<1> QED
  BY <1>9, <1>12, <1>14 DEF IInv

-----------------------------------------------------------------------------
(* What waits for emission: the contents of the rings, one after the other. *)
LEMMA WaitingFacts ==
  ASSUME TypeOK
  PROVE  LET s == [i \in DOMAIN BusOrder |-> Outgoing(BusOrder[i])]
         IN  /\ s \in Seq(Seq(AnyWord)) /\ Len(s) = Len(BusOrder)
             /\ \A i \in 1..Len(BusOrder) : s[i] = Outgoing(BusOrder[i])
             /\ Waiting = Concatenation(s)
             /\ Waiting \in Seq(AnyWord)
<1> DEFINE s == [i \in DOMAIN BusOrder |-> Outgoing(BusOrder[i])]
           n == Len(BusOrder)
<1>1. n \in Nat /\ DOMAIN BusOrder = 1..n /\ \A i \in 1..n : BusOrder[i] \in OutLabels
  BY A429BusAssumption, LenProperties
<1>2. \A i \in 1..n : Outgoing(BusOrder[i]) \in Seq(AnyWord)
  BY <1>1, PartsAreWords
<1>3. s \in [1..n -> Seq(AnyWord)] /\ \A i \in 1..n : s[i] = Outgoing(BusOrder[i])
  BY <1>1, <1>2
<1>4. Waiting = Concatenation(s)
  BY DEF Waiting, Outgoing
<1> HIDE DEF s
<1>5. s \in Seq(Seq(AnyWord)) /\ Len(s) = n
  BY <1>1, <1>3, TableIsSeq
<1>6. Waiting \in Seq(AnyWord)
  BY <1>4, <1>5, ConcatenationType
<1> QED
  BY <1>3, <1>4, <1>5, <1>6 DEF s

LEMMA DatagramFacts ==
  ASSUME TypeOK
  PROVE  /\ Datagram \in Seq(AnyWord)
         /\ Least(Len(Waiting), Room) \in 0..Len(Waiting)
         /\ Len(Datagram) = Least(Len(Waiting), Room)
<1>1. Waiting \in Seq(AnyWord)
  BY WaitingFacts
<1>2. Len(Waiting) \in Nat /\ Room \in Nat
  BY <1>1, A429BusAssumption, LenProperties
<1>3. Least(Len(Waiting), Room) \in 0..Len(Waiting)
  BY <1>2 DEF Least
<1> QED
  BY <1>1, <1>3, RangeFront DEF Datagram

(* An emission takes from every ring its oldest words, those of its label  *)
(* that are in the datagram.                                               *)
LEMMA LoadFacts ==
  ASSUME TypeOK, OwnWords, Load(Datagram), NEW l \in OutLabels
  PROVE  /\ out'[l] \in Rings(OutSize(l), AnyWord)
         /\ \E t, rest \in Seq(AnyWord) :
              /\ Outgoing(l) = t \o rest
              /\ Outgoing(l)' = rest
              /\ \A w \in Range(t) : w \in Range(Datagram)
              /\ \A w \in Range(Datagram) : w.label = l => w \in Range(t)
              /\ Sorted(l, Outgoing(l)) => Sorted(l, Datagram)
              /\ Len(Waiting) <= Room => rest = <<>>
<1> DEFINE s == [i \in DOMAIN BusOrder |-> Outgoing(BusOrder[i])]
           c == Outgoing(l)
           size == OutSize(l)
           k == CountOf(Datagram, l)
           r == out[l]
<1>1. PICK b \in 1..Len(BusOrder) : BusOrder[b] = l
  <2>1. DOMAIN BusOrder = 1..Len(BusOrder)
    BY A429BusAssumption, LenProperties
  <2> QED
    BY <2>1 DEF OutLabels, Range
<1>2. /\ s \in Seq(Seq(AnyWord)) /\ Len(s) = Len(BusOrder)
      /\ \A i \in 1..Len(BusOrder) : s[i] = Outgoing(BusOrder[i])
      /\ Waiting = Concatenation(s)
      /\ Waiting \in Seq(AnyWord)
  BY WaitingFacts
<1> HIDE DEF s
<1>3. \A i \in 1..Len(s) : i # b => NoneOf(s[i], OfLabel(l))
  <2> SUFFICES ASSUME NEW i \in 1..Len(BusOrder), i # b
               PROVE  NoneOf(Outgoing(BusOrder[i]), OfLabel(l))
    BY <1>2
  <2>1. DOMAIN BusOrder = 1..Len(BusOrder) /\ BusOrder[i] \in OutLabels
    BY A429BusAssumption, LenProperties
  <2>2. BusOrder[i] # l
    BY <1>1, <2>1, A429BusAssumption DEF IsInjective
  <2> QED
    BY <2>1, <2>2 DEF OwnWords, NoneOf, OfLabel
<1>4. PICK u, v \in Seq(AnyWord) :
        Waiting = (u \o c) \o v /\ NoneOf(u, OfLabel(l)) /\ NoneOf(v, OfLabel(l))
  <2>1. b \in 1..Len(s) /\ s[b] = c
    BY <1>1, <1>2
  <2> HIDE DEF c
  <2>2. \E u, v \in Seq(AnyWord) :
          Concatenation(s) = (u \o s[b]) \o v /\ NoneOf(u, OfLabel(l)) /\ NoneOf(v, OfLabel(l))
    BY <1>2, <1>3, <2>1, ConcatenationParts
  <2> QED
    BY <1>2, <2>1, <2>2
<1>5. c \in Seq(AnyWord) /\ \A w \in Range(c) : w.label = l
  BY PartsAreWords DEF OwnWords
<1> DEFINE d == Least(Len(Waiting), Room)
<1>6. d \in 0..Len((u \o c) \o v) /\ Datagram = SubSeq((u \o c) \o v, 1, d)
  BY <1>4, DatagramFacts DEF Datagram
<1> HIDE DEF d, c
<1>7. /\ k \in 0..Len(c)
      /\ \A w \in Range(SubSeq(c, 1, k)) : w \in Range(Datagram)
      /\ \A w \in Range(Datagram) : w.label = l => w \in Range(SubSeq(c, 1, k))
      /\ Sorted(l, c) => Sorted(l, Datagram)
      /\ d = Len((u \o c) \o v) => k = Len(c)
  BY <1>4, <1>5, <1>6, DatagramTakesFront
<1> HIDE DEF k
<1>8. out'[l] = PopRing(r, size, k)
  BY DEF Load, k
<1>9. size \in Nat \ {0} /\ r \in Rings(size, AnyWord) /\ k \in Nat /\ c = Contents(r, size)
  <2>1. size \in Nat \ {0} /\ r \in Rings(size, AnyWord)
    BY Sizes DEF TypeOK
  <2>2. k \in Nat
    BY <1>5, <1>7, LenProperties
  <2> QED
    BY <2>1, <2>2 DEF c, Outgoing
<1> HIDE DEF size, r
<1>10. PopRing(r, size, k) \in Rings(size, AnyWord)
  BY <1>9, PopKeepsRing
<1> DEFINE t == SubSeq(c, 1, k)
           rest == Contents(PopRing(r, size, k), size)
<1>11. t \in Seq(AnyWord) /\ Len(t) = k
  BY <1>5, <1>7, RangeFront
<1>12. rest \in Seq(AnyWord)
  BY <1>9, <1>10, ContentsFacts
<1>13. c = t \o rest
  <2>1. Len(c) = r.size
    BY <1>9, ContentsFacts
  <2>2. Taken(r, k) = k
    <3>1. r.size \in Nat /\ k <= r.size
      BY <1>7, <1>9, <2>1, RingFields
    <3> QED
      BY <1>9, <3>1 DEF Taken, Least
  <2>3. Contents(r, size) = Popped(r, size, k) \o rest
    BY <1>9, PopTakesPrefix
  <2>4. Popped(r, size, k) = t
    BY <1>9, <2>2 DEF Popped
  <2> QED
    BY <1>9, <2>3, <2>4
<1>14. Len(Waiting) <= Room => rest = <<>>
  <2> SUFFICES ASSUME Len(Waiting) <= Room PROVE rest = <<>>
    OBVIOUS
  <2>1. d = Len(Waiting)
    <3>1. Len(Waiting) \in Nat /\ Room \in Nat
      BY <1>2, A429BusAssumption, LenProperties
    <3> QED
      BY <3>1 DEF d, Least
  <2>2. Len(t) = Len(c)
    BY <1>4, <1>7, <1>11, <2>1
  <2> HIDE DEF t, rest
  <2>3. Len(c) = Len(t) + Len(rest) /\ Len(t) \in Nat /\ Len(rest) \in Nat
    BY <1>11, <1>12, <1>13, ConcatProperties, LenProperties
  <2>4. Len(rest) = 0
    BY <2>2, <2>3
  <2> QED
    BY <1>12, <2>4, EmptySeq
<1>15. Outgoing(l)' = rest
  BY <1>8 DEF Outgoing, size, OutSize
<1>16. out'[l] \in Rings(OutSize(l), AnyWord)
  BY <1>8, <1>10 DEF size
<1> HIDE DEF t, rest
<1>17. /\ \A w \in Range(t) : w \in Range(Datagram)
       /\ \A w \in Range(Datagram) : w.label = l => w \in Range(t)
  BY <1>7 DEF t
<1>18. Outgoing(l) = t \o rest /\ (Sorted(l, Outgoing(l)) => Sorted(l, Datagram))
  BY <1>7, <1>13 DEF c
<1> QED
  BY <1>11, <1>12, <1>14, <1>15, <1>16, <1>17, <1>18
LEMMA EmissionFacts ==
  ASSUME IInv, Load(Datagram)
  PROVE  /\ DOMAIN out' = OutLabels /\ \A l \in OutLabels : out'[l] \in Rings(OutSize(l), AnyWord)
         /\ OwnWords'
         /\ \A l \in OutLabels :
              /\ Range(Outgoing(l)') \subseteq Range(Outgoing(l))
              /\ Range(Outgoing(l)) \subseteq Range(Outgoing(l)') \cup Range(Datagram)
              /\ \A w \in Range(Datagram) : w.label = l => w \in Range(Outgoing(l))
         /\ \A l \in OutLabels : \A m \in Entitled[l] :
              /\ Parts(l, popped[m], Incoming(m), Net \o Datagram, Outgoing(l)')
              /\ Parts(l, popped[m], Incoming(m), Net, Outgoing(l)')
<1>1. TypeOK /\ OwnWords
  BY DEF IInv
<1>2. Datagram \in Seq(AnyWord)
  BY <1>1, DatagramFacts
<1>3. ASSUME NEW l \in OutLabels
      PROVE  /\ out'[l] \in Rings(OutSize(l), AnyWord)
             /\ Range(Outgoing(l)') \subseteq Range(Outgoing(l))
             /\ Range(Outgoing(l)) \subseteq Range(Outgoing(l)') \cup Range(Datagram)
             /\ \A w \in Range(Datagram) : w.label = l => w \in Range(Outgoing(l))
  <2>1. out'[l] \in Rings(OutSize(l), AnyWord)
    BY <1>1, LoadFacts
  <2>2. PICK t, rest \in Seq(AnyWord) :
          /\ Outgoing(l) = t \o rest
          /\ Outgoing(l)' = rest
          /\ \A w \in Range(t) : w \in Range(Datagram)
          /\ \A w \in Range(Datagram) : w.label = l => w \in Range(t)
    BY <1>1, LoadFacts
  <2>3. Range(t \o rest) = Range(t) \cup Range(rest)
    BY RangeConcatenation
  <2> QED
    BY <2>1, <2>2, <2>3
<1>4. ASSUME NEW l \in OutLabels, NEW m \in Entitled[l]
      PROVE  /\ Parts(l, popped[m], Incoming(m), Net \o Datagram, Outgoing(l)')
             /\ Parts(l, popped[m], Incoming(m), Net, Outgoing(l)')
  <2>1. PICK t, rest \in Seq(AnyWord) :
          /\ Outgoing(l) = t \o rest
          /\ Outgoing(l)' = rest
          /\ \A w \in Range(Datagram) : w.label = l => w \in Range(t)
          /\ Sorted(l, Outgoing(l)) => Sorted(l, Datagram)
    BY <1>1, LoadFacts
  <2>2. /\ popped[m] \in Seq(AnyWord) /\ Incoming(m) \in Seq(AnyWord) /\ Net \in Seq(AnyWord)
        /\ Parts(l, popped[m], Incoming(m), Net, Outgoing(l))
    BY ShareOfFlow
  <2>3. Sorted(l, Datagram)
    BY <2>1, <2>2 DEF Parts
  <2> DEFINE a == popped[m]
             b == Incoming(m)
             c == Net
             x == Datagram
             o == Outgoing(l)'
  <2>4. /\ a \in Seq(AnyWord) /\ b \in Seq(AnyWord) /\ c \in Seq(AnyWord) /\ x \in Seq(AnyWord)
        /\ Parts(l, a, b, c, t \o rest) /\ Sorted(l, x) /\ o = rest
        /\ \A w \in Range(x) : w.label = l => w \in Range(t)
    BY <1>2, <2>1, <2>2, <2>3
  <2> HIDE DEF a, b, c, x, o
  <2>5. Parts(l, a, b, c \o x, rest) /\ Parts(l, a, b, c, rest)
    BY <2>4, PartsEmit
  <2>6. Parts(l, a, b, c \o x, o) /\ Parts(l, a, b, c, o)
    BY <2>4, <2>5
  <2> QED
    BY <2>6 DEF a, b, c, x, o
<1>5. OwnWords'
  BY <1>1, <1>3 DEF OwnWords
<1>6. DOMAIN out' = OutLabels
  BY DEF Load
<1> QED
  BY <1>3, <1>4, <1>5, <1>6

(* ims_send_all *)
LEMMA SendAllKeeps ==
  ASSUME IInv, SendAll
  PROVE  IInv'
<1>1. /\ Load(Datagram)
      /\ wire' = IF Datagram = <<>> THEN wire ELSE Append(wire, Datagram)
      /\ queued' = "no"
      /\ UNCHANGED <<upsets, in, pushed, popped, lost, cut, inRoom, truncated>>
  BY DEF SendAll, roomVars
<1>2. TypeOK
  BY DEF IInv
<1>3. Datagram \in Seq(AnyWord) /\ wire \in Seq(Seq(AnyWord)) /\ Net \in Seq(AnyWord)
  BY <1>2, DatagramFacts, PartsAreWords DEF TypeOK
<1>4. wire' \in Seq(Seq(AnyWord)) /\ Net' = Net \o Datagram
  <2> DEFINE x == Datagram
  <2>1. CASE x = <<>>
    <3>1. Net \o <<>> = Net
      BY <1>3, ConcatEmptySeq
    <3> QED
      BY <1>1, <1>3, <2>1, <3>1 DEF Net
  <2>2. CASE x # <<>>
    <3>1. wire' = Append(wire, x)
      BY <1>1, <2>2
    <3> HIDE DEF x
    <3>2. Append(wire, x) \in Seq(Seq(AnyWord)) /\ Concatenation(Append(wire, x)) = Concatenation(wire) \o x
      <4>1. x \in Seq(AnyWord)
        BY <1>3 DEF x
      <4> QED
        BY <1>3, <4>1, ConcatenationAppend, AppendProperties
    <3>3. Net' = Net \o x
      BY <3>1, <3>2 DEF Net
    <3> QED
      BY <3>1, <3>2, <3>3 DEF x
  <2> QED
    BY <2>1, <2>2
<1>5. TypeOK'
  BY <1>1, <1>2, <1>4, EmissionFacts DEF TypeOK, OutSize, InSize
<1>6. OwnWords'
  BY <1>1, EmissionFacts
<1>7. ASSUME NEW l \in OutLabels, NEW m \in Entitled[l]
      PROVE  Fine(l, m)'
  <2>1. /\ popped'[m] = popped[m] /\ Incoming(m)' = Incoming(m) /\ pushed'[l] = pushed[l]
        /\ lost' = lost /\ truncated' = truncated /\ cut'[m] = cut[m]
    BY <1>1 DEF Incoming, InSize
  <2>2. Range(Net') = Range(Net) \cup Range(Datagram)
    BY <1>3, <1>4, RangeConcatenation
  <2>3. /\ Range(Outgoing(l)') \subseteq Range(Outgoing(l))
        /\ Range(Outgoing(l)) \subseteq Range(Outgoing(l)') \cup Range(Datagram)
        /\ \A w \in Range(Datagram) : w.label = l => w \in Range(Outgoing(l))
    BY <1>1, EmissionFacts
  <2>4. Parts(l, popped'[m], Incoming(m)', Net', Outgoing(l)')
    <3>1. Parts(l, popped[m], Incoming(m), Net \o Datagram, Outgoing(l)')
      BY <1>1, EmissionFacts
    <3> QED
      BY <1>4, <2>1, <3>1
  <2>5. /\ \A w \in Range(popped[m]) \cup Range(Incoming(m)) \cup Range(Net) \cup Range(Outgoing(l)) :
             w.label = l => w.rank <= pushed[l]
        /\ \A i \in 1..pushed[l] :
             \/ Word(l, i) \in Range(popped[m]) \cup Range(Incoming(m)) \cup Range(Net)
                               \cup Range(Outgoing(l))
             \/ Word(l, i) \in lost \cup truncated \cup cut[m]
    BY ShareOfFlow
  <2>6. \A w \in Range(popped'[m]) \cup Range(Incoming(m)') \cup Range(Net') \cup Range(Outgoing(l)') :
          w.label = l => w.rank <= pushed'[l]
    BY <2>1, <2>2, <2>3, <2>5
  <2>7. Range(popped[m]) \cup Range(Incoming(m)) \cup Range(Net) \cup Range(Outgoing(l))
          \subseteq Range(popped'[m]) \cup Range(Incoming(m)') \cup Range(Net') \cup Range(Outgoing(l)')
    BY <2>1, <2>2, <2>3
  <2>8. \A i \in 1..pushed'[l] :
          \/ Word(l, i) \in Range(popped'[m]) \cup Range(Incoming(m)') \cup Range(Net')
                            \cup Range(Outgoing(l)')
          \/ Word(l, i) \in lost' \cup truncated' \cup cut'[m]
    BY <2>1, <2>5, <2>7
  <2> QED
    BY <2>4, <2>6, <2>8 DEF Fine, Word
<1>8. Ordered' /\ Bounded' /\ Accounted'
  BY <1>7 DEF Fine, Ordered, Bounded, Accounted, Entitled, Word
<1> QED
  BY <1>5, <1>6, <1>8 DEF IInv

(* The socket call fails. *)
LEMMA SendThrowsKeeps ==
  ASSUME IInv, SendThrows
  PROVE  IInv'
<1>1. /\ Load(Datagram)
      /\ lost' = lost \cup Range(Datagram)
      /\ upsets' = upsets + 1
      /\ queued' = "stale"
      /\ UNCHANGED <<wire, in, pushed, popped, cut, inRoom, truncated>>
  BY DEF SendThrows, roomVars
<1>2. TypeOK
  BY DEF IInv
<1>3. Range(Datagram) \subseteq AnyWord
  BY <1>2, DatagramFacts, RangeFacts
<1>4. Net' = Net
  BY <1>1 DEF Net
<1>5. TypeOK'
  BY <1>1, <1>2, <1>3, EmissionFacts DEF TypeOK, OutSize, InSize
<1>6. OwnWords'
  BY <1>1, EmissionFacts
<1>7. ASSUME NEW l \in OutLabels, NEW m \in Entitled[l]
      PROVE  Fine(l, m)'
  <2>1. /\ popped'[m] = popped[m] /\ Incoming(m)' = Incoming(m) /\ pushed'[l] = pushed[l]
        /\ cut'[m] = cut[m] /\ truncated' = truncated
    BY <1>1 DEF Incoming, InSize
  <2>2. /\ Range(Outgoing(l)') \subseteq Range(Outgoing(l))
        /\ Range(Outgoing(l)) \subseteq Range(Outgoing(l)') \cup Range(Datagram)
    BY <1>1, EmissionFacts
  <2>3. Parts(l, popped'[m], Incoming(m)', Net', Outgoing(l)')
    <3>1. Parts(l, popped[m], Incoming(m), Net, Outgoing(l)')
      BY <1>1, EmissionFacts
    <3> QED
      BY <1>4, <2>1, <3>1
  <2>4. /\ \A w \in Range(popped[m]) \cup Range(Incoming(m)) \cup Range(Net) \cup Range(Outgoing(l)) :
             w.label = l => w.rank <= pushed[l]
        /\ \A i \in 1..pushed[l] :
             \/ Word(l, i) \in Range(popped[m]) \cup Range(Incoming(m)) \cup Range(Net)
                               \cup Range(Outgoing(l))
             \/ Word(l, i) \in lost \cup truncated \cup cut[m]
    BY ShareOfFlow
  <2>5. \A w \in Range(popped'[m]) \cup Range(Incoming(m)') \cup Range(Net') \cup Range(Outgoing(l)') :
          w.label = l => w.rank <= pushed'[l]
    BY <1>4, <2>1, <2>2, <2>4
  <2>6. \A i \in 1..pushed'[l] :
          \/ Word(l, i) \in Range(popped'[m]) \cup Range(Incoming(m)') \cup Range(Net')
                            \cup Range(Outgoing(l)')
          \/ Word(l, i) \in lost' \cup truncated' \cup cut'[m]
    BY <1>1, <1>4, <2>1, <2>2, <2>4
  <2> QED
    BY <2>3, <2>5, <2>6 DEF Fine, Word
<1>8. Ordered' /\ Bounded' /\ Accounted'
  BY <1>7 DEF Fine, Ordered, Bounded, Accounted, Entitled, Word
<1> QED
  BY <1>5, <1>6, <1>8 DEF IInv
(* A reset of a label of the sender. *)
LEMMA ResetOutputKeeps ==
  ASSUME IInv, NEW l \in OutLabels, ResetOutput(l)
  PROVE  IInv'
<1>1. /\ out' = [out EXCEPT ![l] = EmptyRing(OutSize(l), NoWord)]
      /\ lost' = lost \cup Range(Outgoing(l))
      /\ upsets' = upsets + 1
      /\ UNCHANGED <<queued, wire, in, pushed, popped, cut, inRoom, truncated>>
  BY DEF ResetOutput, Outgoing, roomVars
<1>2. TypeOK /\ OutSize(l) \in Nat \ {0} /\ DOMAIN out = OutLabels /\ Outgoing(l) \in Seq(AnyWord)
  BY Sizes, PartsAreWords DEF IInv, TypeOK
<1>3. out'[l] \in Rings(OutSize(l), AnyWord) /\ Outgoing(l)' = <<>>
  <2>1. out'[l] = EmptyRing(OutSize(l), NoWord)
    BY <1>1, <1>2
  <2> QED
    BY <1>2, <2>1, EmptyRingFacts DEF Outgoing, OutSize
<1>4. \A j \in OutLabels : j # l => out'[j] = out[j] /\ Outgoing(j)' = Outgoing(j)
  BY <1>1, <1>2 DEF Outgoing, OutSize
<1>5. TypeOK'
  <2>1. DOMAIN out' = OutLabels /\ \A j \in OutLabels : out'[j] \in Rings(OutSize(j), AnyWord)
    BY <1>1, <1>2, <1>3, <1>4 DEF TypeOK
  <2>2. Range(Outgoing(l)) \subseteq AnyWord
    BY <1>2, RangeFacts
  <2> QED
    BY <1>1, <1>2, <2>1, <2>2 DEF TypeOK, OutSize, InSize
<1>6. OwnWords'
  <2> SUFFICES ASSUME NEW j \in OutLabels, NEW w \in Range(Outgoing(j)') PROVE w.label = j
    BY DEF OwnWords
  <2> QED
    BY <1>3, <1>4, RangeEmpty DEF IInv, OwnWords
<1>7. ASSUME NEW j \in OutLabels, NEW m \in Entitled[j]
      PROVE  Fine(j, m)'
  <2>1. /\ popped'[m] = popped[m] /\ Incoming(m)' = Incoming(m) /\ Net' = Net
        /\ pushed'[j] = pushed[j] /\ cut'[m] = cut[m] /\ truncated' = truncated /\ lost \subseteq lost'
    BY <1>1 DEF Incoming, InSize, Net
  <2>2. /\ Parts(j, popped[m], Incoming(m), Net, Outgoing(j))
        /\ \A w \in Range(popped[m]) \cup Range(Incoming(m)) \cup Range(Net) \cup Range(Outgoing(j)) :
             w.label = j => w.rank <= pushed[j]
        /\ \A i \in 1..pushed[j] :
             \/ Word(j, i) \in Range(popped[m]) \cup Range(Incoming(m)) \cup Range(Net)
                               \cup Range(Outgoing(j))
             \/ Word(j, i) \in lost \cup truncated \cup cut[m]
    BY ShareOfFlow
  <2>3. CASE j # l
    <3>1. Outgoing(j)' = Outgoing(j)
      BY <1>4, <2>3
    <3> QED
      BY <2>1, <2>2, <3>1 DEF Fine, Word
  <2>4. CASE j = l
    <3>1. Parts(j, popped[m], Incoming(m), Net, <<>>)
      BY <2>2, PartsReset
    <3>2. Outgoing(j)' = <<>> /\ Range(Outgoing(j)) \subseteq lost' /\ Range(<<>>) = {}
      BY <1>1, <1>3, <2>4, RangeEmpty
    <3> QED
      BY <2>1, <2>2, <3>1, <3>2 DEF Fine, Word
  <2> QED
    BY <2>3, <2>4
<1>8. Ordered' /\ Bounded' /\ Accounted'
  BY <1>7 DEF Fine, Ordered, Bounded, Accounted, Entitled, Word
<1> QED
  BY <1>5, <1>6, <1>8 DEF IInv

(* The sender's labels, and what they count, are as they were. *)
LEMMA SenderUnchanged ==
  ASSUME UNCHANGED out
  PROVE  /\ \A l \in OutLabels : Outgoing(l)' = Outgoing(l)
         /\ OwnWords => OwnWords'
<1>1. \A l \in OutLabels : Outgoing(l)' = Outgoing(l)
  BY DEF Outgoing, OutSize
<1> QED
  BY <1>1 DEF OwnWords

-----------------------------------------------------------------------------
(* ims_pop_queuing_message *)
LEMMA PopKeeps ==
  ASSUME IInv, NEW m \in InLabels, Pop(m)
  PROVE  IInv'
<1> DEFINE r == in[m]
           z == InSize(m)
           max == ReceiverDepth[m]
           x == Popped(r, z, max)
<1>1. /\ popped' = [popped EXCEPT ![m] = popped[m] \o x]
      /\ in' = [in EXCEPT ![m] = PopRing(r, z, max)]
      /\ UNCHANGED <<out, queued, upsets, wire, pushed, lost, cut, inRoom, truncated>>
  BY DEF Pop, senderVars, roomVars, IInv, TypeOK
<1>2. /\ TypeOK /\ z \in Nat \ {0} /\ max \in Nat /\ r \in Rings(z, AnyWord)
      /\ DOMAIN in = InLabels /\ popped \in [InLabels -> Seq(AnyWord)]
  BY Sizes DEF IInv, TypeOK
<1>3. in'[m] = PopRing(r, z, max) /\ popped'[m] = popped[m] \o x
  BY <1>1, <1>2
<1>4. \A k \in InLabels : k # m => /\ in'[k] = in[k] /\ popped'[k] = popped[k]
                                   /\ Incoming(k)' = Incoming(k)
  BY <1>1, <1>2 DEF Incoming, InSize
<1>5. x \in Seq(AnyWord) /\ in'[m] \in Rings(z, AnyWord) /\ Incoming(m)' \in Seq(AnyWord)
      /\ Incoming(m) = x \o Incoming(m)'
  <2> HIDE DEF r, z, max
  <2>1. PopRing(r, z, max) \in Rings(z, AnyWord)
    BY <1>2, PopKeepsRing
  <2>2. Contents(r, z) \in Seq(AnyWord) /\ Len(Contents(r, z)) = r.size
    BY <1>2, ContentsFacts
  <2>3. x \in Seq(AnyWord)
    <3>1. Taken(r, max) \in 0..Len(Contents(r, z))
      BY <1>2, <2>2, TakenRange
    <3> QED
      BY <2>2, <3>1, RangeFront DEF Popped
  <2>4. Contents(r, z) = x \o Contents(PopRing(r, z, max), z)
    BY <1>2, PopTakesPrefix
  <2>5. Contents(PopRing(r, z, max), z) \in Seq(AnyWord)
    BY <1>2, <2>1, ContentsFacts
  <2>6. Incoming(m) = Contents(r, z) /\ Incoming(m)' = Contents(PopRing(r, z, max), z)
    BY <1>3 DEF Incoming, r, z, InSize
  <2> QED
    BY <1>3, <2>1, <2>3, <2>4, <2>5, <2>6
<1> HIDE DEF x
<1>6. TypeOK'
  <2>1. DOMAIN in' = InLabels /\ \A k \in InLabels : in'[k] \in Rings(InSize(k), AnyWord)
    BY <1>1, <1>2, <1>4, <1>5 DEF TypeOK
  <2>2. popped[m] \o x \in Seq(AnyWord)
    BY <1>2, <1>5, ConcatProperties
  <2>3. popped' \in [InLabels -> Seq(AnyWord)]
    <3> DEFINE y == popped[m] \o x
    <3>1. y \in Seq(AnyWord) /\ popped' = [popped EXCEPT ![m] = y]
      BY <1>1, <2>2
    <3> HIDE DEF y
    <3> QED
      BY <1>2, <3>1
  <2> QED
    BY <1>1, <1>2, <2>1, <2>3 DEF TypeOK, OutSize, InSize
<1>7. OwnWords'
  BY <1>1, SenderUnchanged DEF IInv
<1>8. ASSUME NEW l \in OutLabels, NEW k \in Entitled[l]
      PROVE  Fine(l, k)'
  <2>1. /\ Net' = Net /\ Outgoing(l)' = Outgoing(l)
        /\ pushed'[l] = pushed[l] /\ cut'[k] = cut[k] /\ lost' = lost /\ truncated' = truncated
    BY <1>1, SenderUnchanged DEF Net
  <2>2. /\ Parts(l, popped[k], Incoming(k), Net, Outgoing(l))
        /\ \A w \in Range(popped[k]) \cup Range(Incoming(k)) \cup Range(Net) \cup Range(Outgoing(l)) :
             w.label = l => w.rank <= pushed[l]
        /\ \A i \in 1..pushed[l] :
             \/ Word(l, i) \in Range(popped[k]) \cup Range(Incoming(k)) \cup Range(Net)
                               \cup Range(Outgoing(l))
             \/ Word(l, i) \in lost \cup truncated \cup cut[k]
        /\ popped[k] \in Seq(AnyWord) /\ Net \in Seq(AnyWord) /\ Outgoing(l) \in Seq(AnyWord)
        /\ k \in InLabels
    BY ShareOfFlow
  <2>3. CASE k # m
    <3>1. popped'[k] = popped[k] /\ Incoming(k)' = Incoming(k)
      BY <1>4, <2>2, <2>3
    <3> QED
      BY <2>1, <2>2, <3>1 DEF Fine, Word
  <2>4. CASE k = m
    <3> DEFINE a == popped[k]
               b == Incoming(k)'
               c == Net
               d == Outgoing(l)
    <3>1. /\ a \in Seq(AnyWord) /\ b \in Seq(AnyWord) /\ c \in Seq(AnyWord) /\ d \in Seq(AnyWord)
          /\ Parts(l, a, x \o b, c, d)
          /\ popped'[k] = a \o x /\ Incoming(k) = x \o b
      BY <1>3, <1>5, <2>2, <2>4
    <3> HIDE DEF a, b, c, d
    <3>2. Parts(l, a \o x, b, c, d)
      BY <1>5, <3>1, PartsPop
    <3>3. Range(a \o x) = Range(a) \cup Range(x) /\ Range(x \o b) = Range(x) \cup Range(b)
      BY <1>5, <3>1, RangeConcatenation
    <3>4. Range(popped'[k]) \cup Range(Incoming(k)') = Range(popped[k]) \cup Range(Incoming(k))
      BY <3>1, <3>3 DEF a, b
    <3>5. Parts(l, popped'[k], Incoming(k)', Net, Outgoing(l))
      BY <3>1, <3>2 DEF b, c, d
    <3> QED
      BY <2>1, <2>2, <3>4, <3>5 DEF Fine, Word
  <2> QED
    BY <2>3, <2>4
<1>9. Ordered' /\ Bounded' /\ Accounted'
  BY <1>8 DEF Fine, Ordered, Bounded, Accounted, Entitled, Word
<1> QED
  BY <1>6, <1>7, <1>9 DEF IInv

(* A reset of a label of the receiver. *)
LEMMA ResetInputKeeps ==
  ASSUME IInv, NEW m \in InLabels, ResetInput(m)
  PROVE  IInv'
<1>1. /\ in' = [in EXCEPT ![m] = EmptyRing(InSize(m), NoWord)]
      /\ cut' = [cut EXCEPT ![m] = cut[m] \cup Range(Incoming(m))]
      /\ upsets' = upsets + 1
      /\ UNCHANGED <<out, queued, wire, pushed, popped, lost, inRoom, truncated>>
  BY DEF ResetInput, Incoming, senderVars, roomVars, IInv, TypeOK
<1>2. /\ TypeOK /\ InSize(m) \in Nat \ {0} /\ DOMAIN in = InLabels
      /\ Incoming(m) \in Seq(AnyWord) /\ cut \in [InLabels -> SUBSET AnyWord]
  BY Sizes, PartsAreWords DEF IInv, TypeOK
<1>3. in'[m] \in Rings(InSize(m), AnyWord) /\ Incoming(m)' = <<>>
  <2>1. in'[m] = EmptyRing(InSize(m), NoWord)
    BY <1>1, <1>2
  <2> QED
    BY <1>2, <2>1, EmptyRingFacts DEF Incoming, InSize
<1>4. \A k \in InLabels : k # m => /\ in'[k] = in[k] /\ cut'[k] = cut[k]
                                   /\ Incoming(k)' = Incoming(k)
  BY <1>1, <1>2 DEF Incoming, InSize
<1>5. TypeOK'
  <2>1. DOMAIN in' = InLabels /\ \A k \in InLabels : in'[k] \in Rings(InSize(k), AnyWord)
    BY <1>1, <1>2, <1>3, <1>4 DEF TypeOK
  <2>2. Range(Incoming(m)) \subseteq AnyWord
    BY <1>2, RangeFacts
  <2>3. cut' \in [InLabels -> SUBSET AnyWord]
    BY <1>1, <1>2, <2>2
  <2> QED
    BY <1>1, <1>2, <2>1, <2>3 DEF TypeOK, OutSize, InSize
<1>6. OwnWords'
  BY <1>1, SenderUnchanged DEF IInv
<1>7. ASSUME NEW l \in OutLabels, NEW k \in Entitled[l]
      PROVE  Fine(l, k)'
  <2>1. /\ Net' = Net /\ Outgoing(l)' = Outgoing(l) /\ popped'[k] = popped[k]
        /\ pushed'[l] = pushed[l] /\ lost' = lost /\ truncated' = truncated
    BY <1>1, SenderUnchanged DEF Net
  <2>2. /\ Parts(l, popped[k], Incoming(k), Net, Outgoing(l))
        /\ \A w \in Range(popped[k]) \cup Range(Incoming(k)) \cup Range(Net) \cup Range(Outgoing(l)) :
             w.label = l => w.rank <= pushed[l]
        /\ \A i \in 1..pushed[l] :
             \/ Word(l, i) \in Range(popped[k]) \cup Range(Incoming(k)) \cup Range(Net)
                               \cup Range(Outgoing(l))
             \/ Word(l, i) \in lost \cup truncated \cup cut[k]
        /\ k \in InLabels
    BY ShareOfFlow
  <2>3. CASE k # m
    <3>1. cut'[k] = cut[k] /\ Incoming(k)' = Incoming(k)
      BY <1>4, <2>2, <2>3
    <3> QED
      BY <2>1, <2>2, <3>1 DEF Fine, Word
  <2>4. CASE k = m
    <3>1. Parts(l, popped[k], <<>>, Net, Outgoing(l))
      BY <2>2, PartsReset
    <3>2. Incoming(k)' = <<>> /\ Range(<<>>) = {} /\ cut'[k] = cut[k] \cup Range(Incoming(k))
      BY <1>1, <1>2, <1>3, <2>4, RangeEmpty
    <3> QED
      BY <2>1, <2>2, <3>1, <3>2 DEF Fine, Word
  <2> QED
    BY <2>3, <2>4
<1>8. Ordered' /\ Bounded' /\ Accounted'
  BY <1>7 DEF Fine, Ordered, Bounded, Accounted, Entitled, Word
<1> QED
  BY <1>5, <1>6, <1>8 DEF IInv
LEMMA RangeSplit ==
  ASSUME NEW S, NEW s \in Seq(S), NEW k \in 0..Len(s)
  PROVE  /\ SubSeq(s, k + 1, Len(s)) \in Seq(S)
         /\ Range(s) = Range(SubSeq(s, 1, k)) \cup Range(SubSeq(s, k + 1, Len(s)))
<1> DEFINE u == SubSeq(s, 1, k)
           v == SubSeq(s, k + 1, Len(s))
<1>1. u \in Seq(S)
  BY RangeFront
<1>2. v \in Seq(S)
  <2>1. Len(s) \in Nat /\ k \in Nat /\ \A i \in (k + 1)..Len(s) : s[i] \in S
    BY LenProperties, ElementOfSeq
  <2> QED
    BY <2>1, SubSeqProperties
<1>3. u \o v = s
  <2>1. Len(s) \in Nat
    BY LenProperties
  <2>2. 1 \in 1..(Len(s) + 1) /\ k \in (1 - 1)..Len(s) /\ Len(s) \in k..Len(s)
    BY <2>1
  <2>3. SubSeq(s, 1, k) \o SubSeq(s, k + 1, Len(s)) = SubSeq(s, 1, Len(s))
    BY <2>2, ConcatAdjacentSubSeq
  <2> QED
    BY <2>3, SubSeqFull
<1> HIDE DEF u, v
<1>4. Range(s) = Range(u) \cup Range(v)
  BY <1>1, <1>2, <1>3, RangeConcatenation
<1> QED
  BY <1>2, <1>4 DEF u, v

(* What the receiver reads of a datagram, and what it does not read.       *)
LEMMA ReadFacts ==
  ASSUME TypeOK, NEW f \in Seq(AnyWord)
  PROVE  /\ Received(f) \in Seq(AnyWord)
         /\ Range(f) = Range(Received(f)) \cup Range(Beyond(f))
         /\ \A l : Sorted(l, f) => Sorted(l, Received(f))
         /\ Range(Beyond(f)) \subseteq AnyWord
         /\ inRoom >= Len(f) => Range(Beyond(f)) = {}
<1> DEFINE k == Least(Len(f), inRoom)
<1>1. Len(f) \in Nat /\ inRoom \in Nat
  BY LenProperties, A429BusAssumption DEF TypeOK
<1>2. k \in 0..Len(f) /\ (inRoom >= Len(f) => k = Len(f))
  BY <1>1 DEF Least
<1>3. Received(f) = SubSeq(f, 1, k) /\ Beyond(f) = SubSeq(f, k + 1, Len(f))
  BY DEF Received, Beyond
<1> HIDE DEF k
<1>4. SubSeq(f, 1, k) \in Seq(AnyWord) /\ \A l : Sorted(l, f) => Sorted(l, SubSeq(f, 1, k))
  BY <1>2, RangeFront, SortedFront
<1>5. /\ SubSeq(f, k + 1, Len(f)) \in Seq(AnyWord)
      /\ Range(f) = Range(SubSeq(f, 1, k)) \cup Range(SubSeq(f, k + 1, Len(f)))
  BY <1>2, RangeSplit
<1>6. Range(SubSeq(f, k + 1, Len(f))) \subseteq AnyWord
  BY <1>5, RangeFacts
<1>7. k = Len(f) => SubSeq(f, k + 1, Len(f)) = <<>>
  BY <1>1, SubSeqEmpty
<1> QED
  BY <1>2, <1>3, <1>4, <1>5, <1>6, <1>7, RangeEmpty

(* What a datagram does to one message of the receiver: the first words of *)
(* its share go to the ring, the others are cut off.                       *)
LEMMA ImportFacts ==
  ASSUME TypeOK, Import, NEW m \in InLabels
  PROVE  /\ in'[m] \in Rings(InSize(m), AnyWord)
         /\ cut[m] \subseteq cut'[m] /\ cut'[m] \subseteq AnyWord
         /\ \E x \in Seq(AnyWord) :
              /\ Incoming(m)' = Incoming(m) \o x
              /\ Range(x) \subseteq Range(Head(wire))
              /\ \A l : Sorted(l, Head(wire)) => Sorted(l, x)
              /\ \A w \in Range(Head(wire)) :
                   m \in Recipients[w.label] => w \in Range(x) \cup truncated' \cup cut'[m]
<1> DEFINE f == Head(wire)
           h == Received(f)
           s == Share(m, h)
           r == in[m]
           z == InSize(m)
           k == Kept(r, z, Len(s))
           x == SubSeq(s, 1, k)
           y == SubSeq(s, k + 1, Len(s))
<1>1. in'[m] = PushRing(r, z, s) /\ cut'[m] = cut[m] \cup Range(y)
  BY DEF Import, CutOff
<1>f. f \in Seq(AnyWord)
  <2>1. wire \in Seq(Seq(AnyWord)) /\ wire # <<>>
    BY DEF TypeOK, Import
  <2> QED
    BY <2>1, HeadTailProperties
<1>t. truncated' = truncated \cup Range(Beyond(f))
  BY DEF Import
<1> HIDE DEF f
<1>2. /\ h \in Seq(AnyWord)
      /\ Range(f) = Range(h) \cup Range(Beyond(f))
      /\ \A l : Sorted(l, f) => Sorted(l, h)
  BY <1>f, ReadFacts
<1>3. z \in Nat \ {0} /\ r \in Rings(z, AnyWord) /\ cut[m] \subseteq AnyWord
  BY Sizes DEF TypeOK
<1> HIDE DEF h
<1>4. /\ s \in Seq(AnyWord)
      /\ Range(s) \subseteq Range(h)
      /\ \A w \in Range(h) : m \in Recipients[w.label] => w \in Range(s)
      /\ \A l : Sorted(l, h) => Sorted(l, s)
  BY <1>2, ShareFacts
<1> HIDE DEF s, r, z
<1>5. k \in 0..Len(s)
  <2>1. Len(s) \in Nat
    BY <1>4, LenProperties
  <2> QED
    BY <1>3, <2>1, KeptRange
<1>6. PushRing(r, z, s) \in Rings(z, AnyWord)
  BY <1>3, <1>4, PushKeepsRing
<1>7. Contents(PushRing(r, z, s), z) = Contents(r, z) \o x
  BY <1>3, <1>4, PushAppends
<1>8. Incoming(m)' = Incoming(m) \o x
  <2>1. Incoming(m)' = Contents(PushRing(r, z, s), z)
    BY <1>1 DEF Incoming, InSize, z
  <2>2. Incoming(m) = Contents(r, z)
    BY DEF Incoming, r, z
  <2> QED
    BY <1>7, <2>1, <2>2
<1> HIDE DEF k
<1>9. x \in Seq(AnyWord) /\ Range(x) \subseteq Range(s)
  BY <1>4, <1>5, RangeFront
<1>10. y \in Seq(AnyWord) /\ Range(s) = Range(x) \cup Range(y)
  BY <1>4, <1>5, RangeSplit
<1>11. \A l : Sorted(l, h) => Sorted(l, x)
  BY <1>4, <1>5, SortedFront
<1> HIDE DEF x, y
<1>12. Range(y) \subseteq AnyWord
  BY <1>10, RangeFacts
<1>13. \A w \in Range(f) :
         m \in Recipients[w.label] => w \in Range(x) \cup truncated' \cup cut'[m]
  BY <1>1, <1>2, <1>4, <1>10, <1>t
<1>14. in'[m] \in Rings(InSize(m), AnyWord)
  BY <1>1, <1>6 DEF z
<1>15. cut[m] \subseteq cut'[m] /\ cut'[m] \subseteq AnyWord
  BY <1>1, <1>3, <1>12
<1>16. Range(x) \subseteq Range(f)
  BY <1>2, <1>4, <1>9
<1>17. \A l : Sorted(l, f) => Sorted(l, x)
  BY <1>2, <1>11
<1> QED
  BY <1>8, <1>9, <1>13, <1>14, <1>15, <1>16, <1>17 DEF f

(* One datagram of ims_import. *)
LEMMA ImportKeeps ==
  ASSUME IInv, Import
  PROVE  IInv'
<1> DEFINE h == Head(wire)
<1>1. /\ wire # <<>> /\ wire' = Tail(wire)
      /\ DOMAIN in' = InLabels /\ DOMAIN cut' = InLabels
      /\ cut' = [m \in InLabels |-> cut'[m]]
      /\ truncated' = truncated \cup Range(Beyond(h))
      /\ UNCHANGED <<out, queued, upsets, pushed, popped, lost, inRoom>>
  BY DEF Import, senderVars
<1>2. TypeOK
  BY DEF IInv
<1>3. h \in Seq(AnyWord) /\ wire' \in Seq(Seq(AnyWord)) /\ Net' \in Seq(AnyWord)
      /\ Net = h \o Net'
  <2>1. wire \in Seq(Seq(AnyWord)) /\ Len(wire) > 0
    <3>1. wire \in Seq(Seq(AnyWord)) /\ Len(wire) \in Nat /\ Len(wire) # 0
      BY <1>1, <1>2, LenProperties, EmptySeq DEF TypeOK
    <3> QED
      BY <3>1
  <2>2. h \in Seq(AnyWord) /\ Tail(wire) \in Seq(Seq(AnyWord))
    BY <1>1, <2>1, HeadTailProperties
  <2>3. Concatenation(wire) = Head(wire) \o Concatenation(Tail(wire))
    BY <2>1, ConcatenationTail
  <2>4. Concatenation(Tail(wire)) \in Seq(AnyWord)
    BY <2>2, ConcatenationType
  <2> QED
    BY <1>1, <2>2, <2>3, <2>4 DEF Net
<1>4. TypeOK'
  <2>1. \A m \in InLabels : in'[m] \in Rings(InSize(m), AnyWord) /\ cut'[m] \in SUBSET AnyWord
    BY <1>2, ImportFacts
  <2>2. cut' \in [InLabels -> SUBSET AnyWord]
    BY <1>1, <2>1
  <2>3. Range(Beyond(h)) \subseteq AnyWord
    BY <1>2, <1>3, ReadFacts
  <2> QED
    BY <1>1, <1>2, <1>3, <2>1, <2>2, <2>3 DEF TypeOK, OutSize, InSize
<1>5. OwnWords'
  BY <1>1, SenderUnchanged DEF IInv
<1>6. ASSUME NEW l \in OutLabels, NEW m \in Entitled[l]
      PROVE  Fine(l, m)'
  <2>1. /\ Outgoing(l)' = Outgoing(l) /\ popped'[m] = popped[m] /\ pushed'[l] = pushed[l]
        /\ lost' = lost /\ truncated \subseteq truncated'
    BY <1>1, SenderUnchanged
  <2>2. /\ Parts(l, popped[m], Incoming(m), Net, Outgoing(l))
        /\ \A w \in Range(popped[m]) \cup Range(Incoming(m)) \cup Range(Net) \cup Range(Outgoing(l)) :
             w.label = l => w.rank <= pushed[l]
        /\ \A i \in 1..pushed[l] :
             \/ Word(l, i) \in Range(popped[m]) \cup Range(Incoming(m)) \cup Range(Net)
                               \cup Range(Outgoing(l))
             \/ Word(l, i) \in lost \cup truncated \cup cut[m]
        /\ popped[m] \in Seq(AnyWord) /\ Incoming(m) \in Seq(AnyWord) /\ Outgoing(l) \in Seq(AnyWord)
        /\ m \in InLabels
    BY ShareOfFlow
  <2>3. PICK x \in Seq(AnyWord) :
          /\ Incoming(m)' = Incoming(m) \o x
          /\ Range(x) \subseteq Range(h)
          /\ \A j : Sorted(j, h) => Sorted(j, x)
          /\ \A w \in Range(h) :
               m \in Recipients[w.label] => w \in Range(x) \cup truncated' \cup cut'[m]
    BY <1>2, <2>2, ImportFacts
  <2>4. cut[m] \subseteq cut'[m]
    BY <1>2, <2>2, ImportFacts
  <2>5. Range(Net) = Range(h) \cup Range(Net') /\ Range(Incoming(m)') = Range(Incoming(m)) \cup Range(x)
    BY <1>3, <2>2, <2>3, RangeConcatenation
  <2>6. Parts(l, popped[m], Incoming(m)', Net', Outgoing(l))
    <3> DEFINE a == popped[m]
               b == Incoming(m)
               c == Net'
               d == Outgoing(l)
    <3>1. /\ a \in Seq(AnyWord) /\ b \in Seq(AnyWord) /\ c \in Seq(AnyWord) /\ d \in Seq(AnyWord)
          /\ h \in Seq(AnyWord) /\ x \in Seq(AnyWord) /\ Range(x) \subseteq Range(h)
          /\ Incoming(m)' = b \o x
      BY <1>3, <2>2, <2>3
    <3>2. Sorted(l, h) => Sorted(l, x)
      BY <2>3
    <3>3. Parts(l, a, b, h \o c, d)
      BY <1>3, <2>2
    <3> HIDE DEF a, b, c, d, h
    <3>4. Parts(l, a, b \o x, c, d)
      BY <3>1, <3>2, <3>3, PartsArrive
    <3> QED
      BY <3>1, <3>4 DEF a, c, d
  <2>7. \A w \in Range(popped[m]) \cup Range(Incoming(m)') \cup Range(Net') \cup Range(Outgoing(l)) :
          w.label = l => w.rank <= pushed[l]
    BY <2>2, <2>3, <2>5
  <2>8. \A i \in 1..pushed[l] :
          Word(l, i) \in Range(h) => Word(l, i) \in Range(x) \cup truncated' \cup cut'[m]
    <3>1. \A i \in 1..pushed[l] : Word(l, i).label = l
      BY DEF Word
    <3>2. m \in Recipients[l]
      BY EntitledAreDeclared
    <3> QED
      BY <2>3, <3>1, <3>2
  <2>9. \A i \in 1..pushed[l] :
          \/ Word(l, i) \in Range(popped[m]) \cup Range(Incoming(m)') \cup Range(Net')
                            \cup Range(Outgoing(l))
          \/ Word(l, i) \in lost \cup truncated' \cup cut'[m]
    BY <2>1, <2>2, <2>4, <2>5, <2>8
  <2> QED
    BY <2>1, <2>6, <2>7, <2>9 DEF Fine, Word
<1>7. Ordered' /\ Bounded' /\ Accounted'
  BY <1>6 DEF Fine, Ordered, Bounded, Accounted, Entitled, Word
<1> QED
  BY <1>4, <1>5, <1>7 DEF IInv

-----------------------------------------------------------------------------
LEMMA StutterKeeps ==
  ASSUME IInv, UNCHANGED <<out, upsets, wire, in, pushed, popped, lost, cut, inRoom, truncated>>,
         queued' \in {"yes", "no", "stale"}
  PROVE  IInv'
<1>1. TypeOK'
  BY DEF IInv, TypeOK, OutSize, InSize
<1>2. OwnWords'
  BY SenderUnchanged DEF IInv
<1>3. ASSUME NEW l \in OutLabels, NEW m \in Entitled[l]
      PROVE  Fine(l, m)'
  <2>1. /\ Net' = Net /\ Outgoing(l)' = Outgoing(l) /\ Incoming(m)' = Incoming(m)
        /\ popped'[m] = popped[m] /\ pushed'[l] = pushed[l] /\ cut'[m] = cut[m] /\ lost' = lost /\ truncated' = truncated
    BY SenderUnchanged DEF Net, Incoming, InSize
  <2> QED
    BY <2>1, ShareOfFlow DEF Fine, Word
<1>4. Ordered' /\ Bounded' /\ Accounted'
  BY <1>3 DEF Fine, Ordered, Bounded, Accounted, Entitled, Word
<1> QED
  BY <1>1, <1>2, <1>4 DEF IInv

LEMMA NextKeeps == IInv /\ [Next]_vars => IInv'
<1> SUFFICES ASSUME IInv, [Next]_vars PROVE IInv'
  OBVIOUS
<1>1. ASSUME NEW l \in OutLabels, ResetOutput(l) PROVE IInv'
  BY <1>1, ResetOutputKeeps
<1>2. ASSUME NEW l \in OutLabels, NEW k \in 1..Depth[l], Push(l, k) PROVE IInv'
  BY <1>2, PushKeeps
<1>3. CASE SendAll
  BY <1>3, SendAllKeeps
<1>4. CASE SendThrows
  BY <1>4, SendThrowsKeeps
<1>5. CASE EmptySendAll
  BY <1>5, StutterKeeps DEF EmptySendAll, roomVars
<1>6. CASE Import
  BY <1>6, ImportKeeps
<1>7. ASSUME NEW m \in InLabels, Pop(m) PROVE IInv'
  BY <1>7, PopKeeps
<1>8. ASSUME NEW m \in InLabels, ResetInput(m) PROVE IInv'
  BY <1>8, ResetInputKeeps
<1>9. CASE UNCHANGED vars
  BY <1>9, StutterKeeps DEF vars, senderVars, roomVars, IInv, TypeOK
<1> QED
  BY <1>1, <1>2, <1>3, <1>4, <1>5, <1>6, <1>7, <1>8, <1>9 DEF Next

LEMMA Invariant == Spec => []IInv
<1>1. Init => IInv
  BY InitHolds
<1>2. IInv /\ [Next]_vars => IInv'
  BY NextKeeps
<1> QED
  BY <1>1, <1>2, PTL DEF Spec

(* The two applications and the network between them are always in a state *)
(* of their types; no ring of a label ever holds more than its buffer.     *)
THEOREM TypeCorrect == Spec => []TypeOK
<1>1. IInv => TypeOK
  BY DEF IInv
<1> QED
  BY <1>1, Invariant, PTL

(* No datagram is longer than the sender's size, so nothing is truncated   *)
(* by a receiver that reads as much.                                       *)
Fits ==
  /\ \A i \in 1..Len(wire) : Len(wire[i]) <= Room
  /\ inRoom >= Room => truncated = {}

LEMMA DatagramFits ==
  ASSUME TypeOK
  PROVE  Datagram \in Seq(AnyWord) /\ Len(Datagram) <= Room
<1>1. Datagram \in Seq(AnyWord) /\ Len(Datagram) = Least(Len(Waiting), Room)
  BY DatagramFacts
<1>2. Len(Waiting) \in Nat /\ Room \in Nat
  BY WaitingFacts, A429BusAssumption, LenProperties
<1> QED
  BY <1>1, <1>2 DEF Least

LEMMA FitsKept ==
  ASSUME TypeOK, Fits, [Next]_vars
  PROVE  Fits'
<1>1. CASE SendAll
  <2> DEFINE x == Datagram
             t == Append(wire, x)
  <2>1. x \in Seq(AnyWord) /\ Len(x) <= Room
    BY DatagramFits
  <2>2. /\ wire \in Seq(Seq(AnyWord))
        /\ wire' = IF x = <<>> THEN wire ELSE t
        /\ UNCHANGED <<inRoom, truncated>>
    BY <1>1 DEF SendAll, roomVars, TypeOK
  <2> HIDE DEF x
  <2>3. /\ Len(wire) \in Nat /\ Len(t) = Len(wire) + 1
        /\ \A i \in 1..Len(wire) : t[i] = wire[i]
        /\ t[Len(wire) + 1] = x
    BY <2>1, <2>2, AppendProperties, LenProperties
  <2> HIDE DEF t
  <2>4. \A i \in 1..Len(t) : Len(t[i]) <= Room
    <3> SUFFICES ASSUME NEW i \in 1..Len(t) PROVE Len(t[i]) <= Room
      OBVIOUS
    <3>1. i \in 1..Len(wire) \/ i = Len(wire) + 1
      BY <2>3
    <3> QED
      BY <3>1, <2>1, <2>3 DEF Fits
  <2> QED
    BY <2>2, <2>4 DEF Fits
<1>2. CASE Import
  <2> DEFINE h == Head(wire)
             t == Tail(wire)
  <2>1. /\ wire \in Seq(Seq(AnyWord)) /\ wire # <<>> /\ wire' = t
        /\ truncated' = truncated \cup Range(Beyond(h))
        /\ inRoom' = inRoom
    BY <1>2 DEF Import, TypeOK
  <2>2. /\ h \in Seq(AnyWord) /\ h = wire[1]
        /\ Len(wire) \in Nat /\ Len(wire) # 0 /\ Len(t) = Len(wire) - 1
        /\ \A i \in 1..Len(t) : t[i] = wire[i + 1]
    BY <2>1, HeadTailProperties, LenProperties, EmptySeq
  <2> HIDE DEF h, t
  <2>3. \A i \in 1..Len(t) : Len(t[i]) <= Room
    <3> SUFFICES ASSUME NEW i \in 1..Len(t) PROVE Len(t[i]) <= Room
      OBVIOUS
    <3>1. i + 1 \in 1..Len(wire) /\ t[i] = wire[i + 1]
      BY <2>2
    <3> QED
      BY <3>1 DEF Fits
  <2>4. Len(h) <= Room
    BY <2>2 DEF Fits
  <2>5. inRoom >= Room => Range(Beyond(h)) = {}
    <3>1. Len(h) \in Nat /\ Room \in Nat /\ inRoom \in Nat
      BY <2>2, LenProperties, A429BusAssumption DEF TypeOK
    <3>2. inRoom >= Room => inRoom >= Len(h)
      BY <2>4, <3>1
    <3> QED
      BY <2>2, <3>2, ReadFacts
  <2> QED
    BY <2>1, <2>3, <2>5 DEF Fits
<1>3. CASE UNCHANGED <<wire, inRoom, truncated>>
  BY <1>3 DEF Fits
<1>4. \/ SendAll \/ Import
      \/ UNCHANGED <<wire, inRoom, truncated>>
  BY DEF Next, vars, roomVars, senderVars, ResetOutput, Push, SendThrows, EmptySendAll, Pop, ResetInput
<1> QED
  BY <1>1, <1>2, <1>3, <1>4

LEMMA FitsAlways == Spec => []Fits
<1>1. Init => Fits
  <2>1. Len(<<>>) = 0
    BY EmptySeq
  <2> QED
    BY <2>1 DEF Init, Fits
<1>2. IInv /\ Fits /\ [Next]_vars => Fits'
  BY FitsKept DEF IInv
<1> QED
  BY <1>1, <1>2, Invariant, PTL DEF Spec

LEMMA FlowIsSorted ==
  ASSUME IInv, NEW l \in OutLabels, NEW m \in Entitled[l]
  PROVE  /\ Sorted(l, Flow(l, m))
         /\ Range(Flow(l, m)) = Range(popped[m]) \cup Range(Incoming(m)) \cup Range(Net)
                                  \cup Range(Outgoing(l))
<1> DEFINE a == popped[m]
           b == Incoming(m)
           c == Net
           d == Outgoing(l)
<1>1. /\ a \in Seq(AnyWord) /\ b \in Seq(AnyWord) /\ c \in Seq(AnyWord) /\ d \in Seq(AnyWord)
      /\ Parts(l, a, b, c, d)
  BY ShareOfFlow
<1>2. Flow(l, m) = a \o b \o c \o d
  BY DEF Flow, Incoming, Outgoing, Net
<1> HIDE DEF a, b, c, d
<1>3. Sorted(l, a \o b \o c \o d)
      /\ Range(a \o b \o c \o d) = Range(a) \cup Range(b) \cup Range(c) \cup Range(d)
  BY <1>1, FlowParts
<1> QED
  BY <1>2, <1>3 DEF a, b, c, d

(* Words keep the order of their push through the ring of the sender, the  *)
(* datagrams and the ring of the receiver, and none comes twice, for every *)
(* depth, every size of the datagram and every set of declared labels.     *)
THEOREM WordsComeInPushOrder == Spec => []InPushOrder
<1>1. IInv => InPushOrder
  <2> SUFFICES ASSUME IInv, NEW l \in OutLabels, NEW m \in Entitled[l]
               PROVE  \A i, j \in DOMAIN Flow(l, m) :
                        i < j /\ Flow(l, m)[i].label = l /\ Flow(l, m)[j].label = l
                          => Flow(l, m)[i].rank < Flow(l, m)[j].rank
    BY DEF InPushOrder
  <2>1. Sorted(l, Flow(l, m))
    BY FlowIsSorted
  <2> QED
    BY <2>1 DEF Sorted
<1> QED
  BY <1>1, Invariant, PTL

(* A word that push accepted is on its way to every message entitled to    *)
(* it, was popped by it, or is among the words that a failed emission, a   *)
(* reset, a full ring or a datagram longer than the receiver reads took.   *)
(* Applications that give the bus the same size lose none to the latter.   *)
THEOREM NoWordVanishes == Spec => []NothingVanishes
<1>1. IInv /\ Fits => NothingVanishes
  <2> SUFFICES ASSUME IInv, Fits, NEW l \in OutLabels, NEW m \in Entitled[l], NEW i \in 1..pushed[l]
               PROVE  Word(l, i) \in Range(Flow(l, m)) \cup lost \cup truncated \cup cut[m]
    BY DEF NothingVanishes, Fits
  <2> QED
    BY FlowIsSorted, ShareOfFlow
<1> QED
  BY <1>1, Invariant, FitsAlways, PTL
AllSent == \A l \in OutLabels : Outgoing(l) = <<>>

LEMMA NothingWaits == IInv => (AllSent => Waiting = <<>>)
<1> SUFFICES ASSUME IInv, AllSent PROVE Waiting = <<>>
  OBVIOUS
<1> DEFINE s == [i \in DOMAIN BusOrder |-> Outgoing(BusOrder[i])]
<1>1. /\ s \in Seq(Seq(AnyWord)) /\ Len(s) = Len(BusOrder)
      /\ \A i \in 1..Len(BusOrder) : s[i] = Outgoing(BusOrder[i])
      /\ Waiting = Concatenation(s)
  BY WaitingFacts DEF IInv
<1> HIDE DEF s
<1>2. \A i \in 1..Len(BusOrder) : BusOrder[i] \in OutLabels
  BY A429BusAssumption, LenProperties
<1>3. \A i \in 1..Len(s) : s[i] = <<>>
  BY <1>1, <1>2 DEF AllSent
<1> QED
  BY <1>1, <1>3, ConcatenationOfEmpty

(* An emission that leaves words behind has filled its datagram, however   *)
(* the words are spread over the labels of the bus.                        *)
THEOREM DatagramsAreFilled == Spec => FullBeforeLeftBehind
<1> DEFINE Emptied == AllSent => Waiting = <<>>
           Full == Waiting' # <<>> /\ SendAll => Len(wire'[Len(wire')]) = Room
<1>1. ASSUME IInv, Emptied', [Next]_vars, Waiting' # <<>>, SendAll
      PROVE  Len(wire'[Len(wire')]) = Room
  <2>1. TypeOK /\ OwnWords /\ Load(Datagram)
    BY <1>1 DEF IInv, SendAll
  <2>2. Len(Waiting) \in Nat /\ Room \in Nat \ {0}
    BY <2>1, WaitingFacts, A429BusAssumption, LenProperties
  <2>3. ~(Len(Waiting) <= Room)
    <3> SUFFICES ASSUME Len(Waiting) <= Room PROVE FALSE
      OBVIOUS
    <3>1. \A l \in OutLabels : Outgoing(l)' = <<>>
      BY <2>1, LoadFacts
    <3> QED
      BY <1>1, <3>1 DEF AllSent
  <2> DEFINE x == Datagram
  <2>4. x \in Seq(AnyWord) /\ Len(x) = Least(Len(Waiting), Room)
    BY <2>1, DatagramFacts
  <2>5. Len(x) = Room
    BY <2>2, <2>3, <2>4 DEF Least
  <2>6. x # <<>>
    <3> HIDE DEF x
    <3> QED
      BY <2>2, <2>4, <2>5, EmptySeq
  <2>7. wire' = Append(wire, x) /\ wire \in Seq(Seq(AnyWord))
    BY <2>1, <1>1, <2>6 DEF SendAll, TypeOK
  <2> HIDE DEF x
  <2>8. Append(wire, x)[Len(Append(wire, x))] = x
    <3>1. Len(wire) \in Nat /\ Len(Append(wire, x)) = Len(wire) + 1
          /\ Append(wire, x)[Len(wire) + 1] = x
      BY <2>4, <2>7, AppendProperties, LenProperties
    <3> QED
      BY <3>1
  <2> QED
    BY <2>5, <2>7, <2>8
<1>2. IInv /\ Emptied' /\ [Next]_vars => [Full]_vars
  BY <1>1
<1>3. IInv => Emptied
  BY NothingWaits
<1> HIDE DEF Emptied, Full
<1>4. Spec => [][Full]_vars
  BY <1>2, <1>3, Invariant, PTL DEF Spec
<1> QED
  BY <1>4 DEF FullBeforeLeftBehind, Full
=============================================================================
