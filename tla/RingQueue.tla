----------------------------- MODULE RingQueue -----------------------------
(***************************************************************************)
(* RingQueue<T> (utils/ring_queue.hpp) as operators on a record: the array *)
(* of max cells, and the read and write pointers as offsets from mHead.    *)
(* mTail is offset max, ONE PAST the array, and the pointers wrap only     *)
(* after they have been there, so that every (max + 1)-th value is stored  *)
(* and read behind the array: undefined behaviour.  Its outcomes here: the *)
(* allocation may have room for one more T (slack), which keeps the value, *)
(* and where it has none the value is Lost and some T is read in its place.*)
(* What such a store damages elsewhere is not modelled.                    *)
(***************************************************************************)
EXTENDS Naturals, Sequences

CONSTANTS
  Items,    \* values of T
  NoItem,   \* a default-constructed T
  Lost,     \* a value stored behind an array without slack
  Junk      \* the values of T that may be found in its place

ASSUME RingAssumption ==
  /\ NoItem \notin Items /\ Lost \notin Items \cup {NoItem}
  /\ Junk \subseteq Items /\ Junk # {}

Cells == Items \cup {NoItem}

(* The constructor, and set_max_size, which drops what the ring held.      *)
RingOf(max, slack) ==
  [max |-> max, slack |-> slack, cell |-> [i \in 0..(max - 1) |-> NoItem],
   behind |-> NoItem, rd |-> 0, wr |-> 0]

Rings(max) ==
  {q \in [max : {max}, slack : BOOLEAN, cell : [0..(max - 1) -> Cells],
          behind : Cells \cup {Lost}, rd : 0..max, wr : 0..max] :
     q.slack => q.behind # Lost}

(* A value has been stored behind the array, and is gone.                  *)
Strayed(q) == q.behind = Lost

Advance(q, p) == IF p = q.max THEN 0 ELSE p + 1

RingEmpty(q) == q.rd = q.wr

RingFull(q) == Advance(q, q.wr) = q.rd

(* *p = v, for a pointer at offset p, and what is found there.             *)
PutAt(q, p, v) ==
  IF p = q.max
  THEN [q EXCEPT !.behind = IF q.slack THEN v ELSE Lost]
  ELSE [q EXCEPT !.cell[p] = v]

At(q, p) == IF p = q.max THEN q.behind ELSE q.cell[p]

\* Mutant: the write pointer moves before the store.
RingPushAhead(q, v) ==
  [PutAt(q, Advance(q, q.wr), v) EXCEPT !.wr = Advance(q, q.wr)]

(* push_unchecked(), and push() when the ring is not full.                 *)
RingPush(q, v) == [PutAt(q, q.wr, v) EXCEPT !.wr = Advance(q, q.wr)]

(* The values pop() and pop_unchecked() may move out.                      *)
RingFronts(q) == IF At(q, q.rd) = Lost THEN Junk ELSE {At(q, q.rd)}

(* The moved-from T is modelled as default-constructed; what was Lost      *)
(* stays so.                                                               *)
RingPop(q) ==
  [(IF At(q, q.rd) = Lost THEN q ELSE PutAt(q, q.rd, NoItem)) EXCEPT !.rd = Advance(q, q.rd)]

(* What the ring holds, oldest first.                                      *)
RingCount(q) == IF q.wr >= q.rd THEN q.wr - q.rd ELSE q.wr + q.max + 1 - q.rd
RingContents(q) ==
  [i \in 1..RingCount(q) |->
     At(q, IF q.rd + i - 1 > q.max THEN q.rd + i - 2 - q.max ELSE q.rd + i - 1)]
=============================================================================
