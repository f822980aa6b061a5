------------------------------ MODULE A429Ring ------------------------------
(***************************************************************************)
(* The cycle buffer of an A429 queuing message                             *)
(* (VISTAS/src/vistas_message_queuing_a429.cpp).  It is kept in bytes, but *)
(* every size that reaches it is a multiple of the four bytes of a label,  *)
(* so a cell is a label here.  A push or a pop moves several labels with   *)
(* up to two copies, one to the end of the buffer and one from its start;  *)
(* what does not fit is cut off the end of a push.                         *)
(*                                                                         *)
(* n is the number of cells: _max_size, in labels.                         *)
(***************************************************************************)
EXTENDS Integers, Sequences

Rings(n, Words) ==
  [data : [0..(n - 1) -> Words], begin : 0..(n - 1), size : 0..n]

EmptyRing(n, word) == [data |-> [i \in 0..(n - 1) |-> word], begin |-> 0, size |-> 0]

(* The labels of the ring, in the order in which pop returns them. *)
Contents(r, n) == [i \in 1..r.size |-> r.data[(r.begin + i - 1) % n]]

Least(x, y) == IF x < y THEN x ELSE y

(* How many of k labels a push keeps. *)
Kept(r, n, k) == Least(k, n - r.size)

(* The place of cell i when the cells are counted from cell "first".       *)
Place(i, first, n) == IF i >= first THEN i - first ELSE i - first + n

(* Variant of PushRing that cuts off the beginning of the labels.          *)
PushRingLast(r, n, words) ==
  LET kept  == Kept(r, n, Len(words))
      first == (r.begin + r.size) % n
  IN  [data  |-> [i \in 0..(n - 1) |->
                    IF Place(i, first, n) < kept
                    THEN words[Place(i, first, n) + 1 + Len(words) - kept]
                    ELSE r.data[i]],
       begin |-> r.begin,
       size  |-> r.size + kept]

(* message_queuing_a429::push *)
PushRing(r, n, words) ==
  LET kept  == Kept(r, n, Len(words))
      first == (r.begin + r.size) % n
  IN  [data  |-> [i \in 0..(n - 1) |->
                    IF Place(i, first, n) < kept
                    THEN words[Place(i, first, n) + 1]
                    ELSE r.data[i]],
       begin |-> r.begin,
       size  |-> r.size + kept]

Taken(r, max) == Least(r.size, max)

(* message_queuing_a429::pop *)
PopRing(r, n, max) ==
  LET taken == Taken(r, max)
  IN  [data  |-> r.data,
       begin |-> IF taken < n - r.begin THEN r.begin + taken ELSE taken - (n - r.begin),
       size  |-> r.size - taken]

(* The labels that pop returns. *)
Popped(r, n, max) == SubSeq(Contents(r, n), 1, Taken(r, max))
=============================================================================
