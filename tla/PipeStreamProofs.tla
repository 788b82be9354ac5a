--------------------------- MODULE PipeStreamProofs ---------------------------
(***************************************************************************)
(* Proofs about the ring, the queue and the pipe built on it.              *)
(*                                                                         *)
(* The operators of RingQueue compute a bounded first-in first-out queue,  *)
(* for every size and every position of the two pointers, except that what *)
(* is stored behind an array without room there is lost.  ConcurrentQueue  *)
(* implements that channel for any number of tasks on any number of        *)
(* threads and any size, and so does Queue for the tasks of one thread:    *)
(* the steps of pop() and push() that test and move the ring are whole,    *)
(* under the lock or because no other coroutine runs, and nothing else     *)
(* touches it.  A queue whose tasks share one thread and whose successes   *)
(* all notify leaves nobody asleep beside work, however many they are.     *)
(* The streams of a pipe keep every byte and its place until one of the    *)
(* harms that HarmKnown names, or the ring's, happens; with reader and     *)
(* writer on one thread nobody sleeps beside work, and the end is the end. *)
(***************************************************************************)
EXTENDS PipeStream, FutexProofs

-----------------------------------------------------------------------------
(* The ring.                                                               *)

(* Where the i-th oldest value is.                                         *)
Place(q, i) == IF q.rd + i - 1 > q.max THEN q.rd + i - 2 - q.max ELSE q.rd + i - 1

(* A ring of n values, and two pointers that may also stand behind them.   *)
LEMMA RingType ==
  ASSUME NEW n \in Nat, NEW q \in Rings(n)
  PROVE  /\ q.max = n /\ q.slack \in BOOLEAN
         /\ q.cell \in [0..(n - 1) -> Cells]
         /\ q.behind \in Cells \cup {Lost}
         /\ q.rd \in 0..n /\ q.wr \in 0..n
         /\ q.slack => ~Strayed(q)
  BY DEF Rings, Strayed

LEMMA LostIsNone == Lost \notin Cells /\ Items \subseteq Cells /\ NoItem \in Cells
  BY RingAssumption DEF Cells

LEMMA AdvanceType ==
  ASSUME NEW n \in Nat, NEW q \in Rings(n), NEW p \in 0..n
  PROVE  Advance(q, p) \in 0..n
  BY RingType DEF Advance

LEMMA AtType ==
  ASSUME NEW n \in Nat, NEW q \in Rings(n), NEW p \in 0..n
  PROVE  At(q, p) \in Cells \cup {Lost}
  <1>1. CASE p = n
    BY <1>1, RingType DEF At
  <1>2. CASE p # n
    <2>1. p \in 0..(n - 1)
      BY <1>2
    <2> QED BY <1>2, <2>1, RingType DEF At
  <1> QED BY <1>1, <1>2

(* Moving a pointer keeps what is stored, ...                              *)
LEMMA ReadMoves ==
  ASSUME NEW n \in Nat, NEW q \in Rings(n), NEW p \in 0..n, NEW r, r = [q EXCEPT !.rd = p]
  PROVE  /\ r \in Rings(n) /\ r.rd = p /\ r.wr = q.wr
         /\ r.slack = q.slack /\ r.behind = q.behind
         /\ \A k \in 0..n : At(r, k) = At(q, k)
  <1>1. r \in Rings(n)
    BY DEF Rings
  <1>2. r.rd = p /\ r.wr = q.wr /\ r.slack = q.slack /\ r.behind = q.behind
    BY DEF Rings
  <1>3. \A k \in 0..n : At(r, k) = At(q, k)
    BY DEF At, Rings
  <1> QED BY <1>1, <1>2, <1>3

LEMMA WriteMoves ==
  ASSUME NEW n \in Nat, NEW q \in Rings(n), NEW p \in 0..n, NEW r, r = [q EXCEPT !.wr = p]
  PROVE  /\ r \in Rings(n) /\ r.wr = p /\ r.rd = q.rd
         /\ r.slack = q.slack /\ r.behind = q.behind
         /\ \A k \in 0..n : At(r, k) = At(q, k)
  <1>1. r \in Rings(n)
    BY DEF Rings
  <1>2. r.wr = p /\ r.rd = q.rd /\ r.slack = q.slack /\ r.behind = q.behind
    BY DEF Rings
  <1>3. \A k \in 0..n : At(r, k) = At(q, k)
    BY DEF At, Rings
  <1> QED BY <1>1, <1>2, <1>3

(* ... and a store changes one place, and loses what it stores behind an   *)
(* array without room there.                                               *)
LEMMA StoreAt ==
  ASSUME NEW n \in Nat, NEW q \in Rings(n), NEW p \in 0..n, NEW v \in Cells
  PROVE  /\ PutAt(q, p, v) \in Rings(n)
         /\ PutAt(q, p, v).rd = q.rd /\ PutAt(q, p, v).wr = q.wr
         /\ PutAt(q, p, v).slack = q.slack
         /\ PutAt(q, p, v).behind = IF p # n THEN q.behind ELSE IF q.slack THEN v ELSE Lost
         /\ \A k \in 0..n \ {p} : At(PutAt(q, p, v), k) = At(q, k)
         /\ At(PutAt(q, p, v), p) = IF p = n /\ ~q.slack THEN Lost ELSE v
  <1>0. q.max = n
    BY RingType
  <1>1. CASE p = n
    <2> DEFINE w == IF q.slack THEN v ELSE Lost
               r == [q EXCEPT !.behind = w]
    <2>1. PutAt(q, p, v) = r
      BY <1>0, <1>1 DEF PutAt
    <2>2. w \in Cells \cup {Lost} /\ (q.slack => w # Lost)
      BY LostIsNone
    <2> HIDE DEF w
    <2>3. r \in Rings(n)
      BY <2>2 DEF Rings
    <2>4. /\ r.rd = q.rd /\ r.wr = q.wr /\ r.slack = q.slack /\ r.max = n
          /\ r.behind = w /\ r.cell = q.cell
      BY DEF Rings
    <2>5. \A k \in 0..n \ {p} : At(r, k) = At(q, k)
      <3> HIDE DEF r
      <3> QED BY <1>0, <1>1, <2>4 DEF At
    <2>6. At(r, p) = w
      <3> HIDE DEF r
      <3> QED BY <1>1, <2>4 DEF At
    <2> QED BY <1>1, <2>1, <2>3, <2>4, <2>5, <2>6 DEF w
  <1>2. CASE p # n
    <2> DEFINE r == [q EXCEPT !.cell[p] = v]
    <2>1. PutAt(q, p, v) = r
      BY <1>0, <1>2 DEF PutAt
    <2>2. p \in 0..(n - 1)
      BY <1>2
    <2>3. r \in Rings(n)
      BY <2>2 DEF Rings
    <2>4. /\ r.rd = q.rd /\ r.wr = q.wr /\ r.slack = q.slack /\ r.max = n
          /\ r.behind = q.behind
          /\ r.cell = [q.cell EXCEPT ![p] = v]
      BY DEF Rings
    <2>5. q.cell \in [0..(n - 1) -> Cells]
      BY RingType
    <2> HIDE DEF r
    <2>6. \A k \in 0..n \ {p} : At(r, k) = At(q, k)
      <3> TAKE k \in 0..n \ {p}
      <3>1. CASE k = n
        BY <3>1, <1>0, <2>4 DEF At
      <3>2. CASE k # n
        <4>1. k \in 0..(n - 1) /\ k # p
          BY <3>2
        <4>2. r.cell[k] = q.cell[k]
          BY <4>1, <2>4, <2>5
        <4> QED BY <3>2, <4>2, <1>0, <2>4 DEF At
      <3> QED BY <3>1, <3>2
    <2>7. At(r, p) = v
      <3>1. r.cell[p] = v
        BY <2>2, <2>4, <2>5
      <3> QED BY <3>1, <1>2, <2>4 DEF At
    <2> QED BY <1>2, <2>1, <2>3, <2>4, <2>6, <2>7
  <1> QED BY <1>1, <1>2

(* What a push and a pop do to the ring.                                   *)
LEMMA PushIs ==
  ASSUME NEW n \in Nat, NEW q \in Rings(n), NEW v \in Cells
  PROVE  /\ RingPush(q, v) \in Rings(n)
         /\ RingPush(q, v).rd = q.rd /\ RingPush(q, v).wr = Advance(q, q.wr)
         /\ RingPush(q, v).slack = q.slack
         /\ ~Strayed(RingPush(q, v)) => ~Strayed(q) /\ (q.wr = n => q.slack)
         /\ \A k \in 0..n \ {q.wr} : At(RingPush(q, v), k) = At(q, k)
         /\ At(RingPush(q, v), q.wr) = IF q.wr = n /\ ~q.slack THEN Lost ELSE v
  <1> DEFINE r == PutAt(q, q.wr, v)
             s == RingPush(q, v)
  <1>1. q.wr \in 0..n /\ Advance(q, q.wr) \in 0..n /\ (q.slack => ~Strayed(q))
    BY RingType, AdvanceType
  <1>2. /\ r \in Rings(n) /\ r.rd = q.rd /\ r.slack = q.slack
        /\ r.behind = IF q.wr # n THEN q.behind ELSE IF q.slack THEN v ELSE Lost
        /\ \A k \in 0..n \ {q.wr} : At(r, k) = At(q, k)
        /\ At(r, q.wr) = IF q.wr = n /\ ~q.slack THEN Lost ELSE v
    BY <1>1, StoreAt
  <1>3. s = [r EXCEPT !.wr = Advance(q, q.wr)]
    BY DEF RingPush
  <1> HIDE DEF r, s
  <1>4. /\ s \in Rings(n) /\ s.wr = Advance(q, q.wr) /\ s.rd = r.rd
        /\ s.slack = r.slack /\ s.behind = r.behind
        /\ \A k \in 0..n : At(s, k) = At(r, k)
    BY <1>1, <1>2, <1>3, WriteMoves
  <1>5. ~Strayed(s) => ~Strayed(q) /\ (q.wr = n => q.slack)
    BY <1>1, <1>2, <1>4 DEF Strayed
  <1>6. \A k \in 0..n \ {q.wr} : At(s, k) = At(q, k)
    BY <1>2, <1>4
  <1>7. At(s, q.wr) = IF q.wr = n /\ ~q.slack THEN Lost ELSE v
    BY <1>1, <1>2, <1>4
  <1> QED BY <1>2, <1>4, <1>5, <1>6, <1>7 DEF s

LEMMA PopIs ==
  ASSUME NEW n \in Nat, NEW q \in Rings(n)
  PROVE  /\ RingPop(q) \in Rings(n)
         /\ RingPop(q).rd = Advance(q, q.rd) /\ RingPop(q).wr = q.wr
         /\ RingPop(q).slack = q.slack
         /\ ~Strayed(RingPop(q)) => ~Strayed(q)
         /\ \A k \in 0..n \ {q.rd} : At(RingPop(q), k) = At(q, k)
  <1> DEFINE r == IF At(q, q.rd) = Lost THEN q ELSE PutAt(q, q.rd, NoItem)
             s == RingPop(q)
  <1>1. q.rd \in 0..n /\ Advance(q, q.rd) \in 0..n /\ q.max = n
    BY RingType, AdvanceType
  <1>2. /\ r \in Rings(n) /\ r.wr = q.wr /\ r.slack = q.slack
        /\ ~Strayed(r) => ~Strayed(q)
        /\ \A k \in 0..n \ {q.rd} : At(r, k) = At(q, k)
    <2>1. CASE At(q, q.rd) = Lost
      BY <2>1
    <2>2. CASE At(q, q.rd) # Lost
      <3>1. r = PutAt(q, q.rd, NoItem)
        BY <2>2
      <3>2. q.rd = n => q.behind # Lost
        BY <2>2, <1>1 DEF At
      <3>3. NoItem \in Cells
        BY LostIsNone
      <3>4. /\ r \in Rings(n) /\ r.wr = q.wr /\ r.slack = q.slack
            /\ q.rd # n => r.behind = q.behind
            /\ \A k \in 0..n \ {q.rd} : At(r, k) = At(q, k)
        BY <1>1, <3>1, <3>3, StoreAt
      <3> HIDE DEF r
      <3> QED BY <3>2, <3>4 DEF Strayed
    <2> QED BY <2>1, <2>2
  <1>3. s = [r EXCEPT !.rd = Advance(q, q.rd)]
    BY DEF RingPop
  <1> HIDE DEF r, s
  <1>4. /\ s \in Rings(n) /\ s.rd = Advance(q, q.rd) /\ s.wr = r.wr
        /\ s.slack = r.slack /\ s.behind = r.behind
        /\ \A k \in 0..n : At(s, k) = At(r, k)
    BY <1>1, <1>2, <1>3, ReadMoves
  <1>5. \A k \in 0..n \ {q.rd} : At(s, k) = At(q, k)
    BY <1>2, <1>4
  <1>6. ~Strayed(s) => ~Strayed(q)
    BY <1>2, <1>4 DEF Strayed
  <1> QED BY <1>2, <1>4, <1>5, <1>6 DEF s

(* A fresh ring is one, and holds nothing.                                 *)
LEMMA FreshRing ==
  ASSUME NEW n \in Nat, NEW slack \in BOOLEAN
  PROVE  /\ RingOf(n, slack) \in Rings(n) /\ RingContents(RingOf(n, slack)) = <<>>
         /\ RingOf(n, slack).wr = 0 /\ RingOf(n, slack).slack = slack
         /\ ~Strayed(RingOf(n, slack))
  <1>1. NoItem \in Cells /\ NoItem # Lost
    BY LostIsNone
  <1>2. RingOf(n, slack) \in Rings(n)
    BY <1>1 DEF RingOf, Rings
  <1>3. RingCount(RingOf(n, slack)) = 0
    BY DEF RingOf, RingCount
  <1>4. RingContents(RingOf(n, slack)) = <<>>
    BY <1>3 DEF RingContents
  <1>5. /\ RingOf(n, slack).wr = 0 /\ RingOf(n, slack).slack = slack
        /\ RingOf(n, slack).behind = NoItem
    BY DEF RingOf
  <1> QED BY <1>1, <1>2, <1>4, <1>5 DEF Strayed

(* What a ring holds is a sequence, never longer than the ring.            *)
LEMMA ContentsType ==
  ASSUME NEW n \in Nat, NEW q \in Rings(n)
  PROVE  /\ RingCount(q) \in 0..n
         /\ RingContents(q) \in Seq(Cells \cup {Lost})
         /\ Len(RingContents(q)) = RingCount(q)
         /\ \A i \in 1..RingCount(q) :
              Place(q, i) \in 0..n /\ RingContents(q)[i] = At(q, Place(q, i))
  <1>1. RingCount(q) \in 0..n
    BY RingType DEF RingCount
  <1>2. \A i \in 1..RingCount(q) : Place(q, i) \in 0..n
    <2> SUFFICES ASSUME NEW i \in 1..RingCount(q) PROVE Place(q, i) \in 0..n
      OBVIOUS
    <2>1. q.max = n /\ q.rd \in 0..n /\ i \in Nat /\ 1 <= i /\ i <= n
      BY <1>1, RingType
    <2> QED BY <2>1 DEF Place
  <1>3. RingContents(q) = [i \in 1..RingCount(q) |-> At(q, Place(q, i))]
    BY DEF RingContents, Place
  <1>4. \A i \in 1..RingCount(q) : At(q, Place(q, i)) \in Cells \cup {Lost}
    BY <1>2, AtType
  <1>5. RingContents(q) \in [1..RingCount(q) -> Cells \cup {Lost}]
    BY <1>3, <1>4
  <1>6. RingContents(q) \in Seq(Cells \cup {Lost}) /\ Len(RingContents(q)) = RingCount(q)
    BY <1>1, <1>5
  <1> QED BY <1>1, <1>2, <1>3, <1>6

(* The tests of the code are those of the sequence.                        *)
LEMMA EmptyAndFull ==
  ASSUME NEW n \in Nat, NEW q \in Rings(n)
  PROVE  /\ RingEmpty(q) <=> RingContents(q) = <<>>
         /\ RingFull(q) <=> Len(RingContents(q)) = n
  <1>1. RingEmpty(q) <=> RingCount(q) = 0
    BY RingType DEF RingEmpty, RingCount
  <1>2. RingFull(q) <=> RingCount(q) = n
    BY RingType DEF RingFull, RingCount, Advance
  <1>3. RingContents(q) = <<>> <=> Len(RingContents(q)) = 0
    BY ContentsType, EmptySeq
  <1> QED BY <1>1, <1>2, <1>3, ContentsType

(* What a push of v leaves in the place the write pointer is at.           *)
Kept(q, v) == IF q.wr = q.max /\ ~q.slack THEN Lost ELSE v

(* A push appends the value, or what becomes of it behind the array, ...   *)
LEMMA PushAppends ==
  ASSUME NEW n \in Nat, NEW q \in Rings(n), NEW v \in Items, ~RingFull(q)
  PROVE  /\ RingPush(q, v) \in Rings(n)
         /\ RingContents(RingPush(q, v)) = Append(RingContents(q), Kept(q, v))
         /\ RingPush(q, v).wr = IF q.wr = n THEN 0 ELSE q.wr + 1
         /\ RingPush(q, v).slack = q.slack
         /\ ~Strayed(RingPush(q, v)) => ~Strayed(q) /\ Kept(q, v) = v
  <1> DEFINE r == RingPush(q, v)
             u == Kept(q, v)
  <1>1. v \in Cells /\ u \in Cells \cup {Lost}
    BY LostIsNone DEF Kept
  <1>2. /\ r \in Rings(n) /\ r.rd = q.rd /\ r.wr = Advance(q, q.wr) /\ r.slack = q.slack
        /\ ~Strayed(r) => ~Strayed(q) /\ (q.wr = n => q.slack)
        /\ \A k \in 0..n \ {q.wr} : At(r, k) = At(q, k)
        /\ At(r, q.wr) = IF q.wr = n /\ ~q.slack THEN Lost ELSE v
    BY <1>1, PushIs
  <1>3. /\ q.max = n /\ q.rd \in 0..n /\ q.wr \in 0..n /\ r.max = n
        /\ r.wr = IF q.wr = n THEN 0 ELSE q.wr + 1
        /\ r.wr # q.rd
    BY <1>2, RingType DEF Advance, RingFull
  <1>4. At(r, q.wr) = u
    BY <1>2, <1>3 DEF Kept
  <1> HIDE DEF r, u
  <1>5. RingCount(r) = RingCount(q) + 1 /\ RingCount(q) \in Nat
    BY <1>2, <1>3 DEF RingCount
  <1>6. \A i \in 1..RingCount(q) : Place(r, i) = Place(q, i) /\ Place(q, i) # q.wr
    BY <1>2, <1>3 DEF Place, RingCount
  <1>7. Place(r, RingCount(q) + 1) = q.wr
    BY <1>2, <1>3 DEF Place, RingCount
  <1>8. \A i \in 1..RingCount(q) : RingContents(r)[i] = RingContents(q)[i]
    <2> SUFFICES ASSUME NEW i \in 1..RingCount(q)
                 PROVE  RingContents(r)[i] = RingContents(q)[i]
      OBVIOUS
    <2>1. i \in 1..RingCount(r)
      BY <1>5
    <2>2. RingContents(r)[i] = At(r, Place(q, i)) /\ RingContents(q)[i] = At(q, Place(q, i))
      BY <1>2, <1>6, <2>1, ContentsType
    <2>3. Place(q, i) \in 0..n \ {q.wr}
      BY <1>6, ContentsType
    <2> QED BY <1>2, <2>2, <2>3
  <1>9. RingContents(r)[RingCount(q) + 1] = u
    <2>1. RingCount(q) + 1 \in 1..RingCount(r)
      BY <1>5
    <2> QED BY <1>2, <1>4, <1>7, <2>1, ContentsType
  <1>10. RingContents(r) = Append(RingContents(q), u)
    <2> DEFINE s == RingContents(q)
    <2>1. s \in Seq(Cells \cup {Lost}) /\ Len(s) = RingCount(q) /\ Len(s) \in Nat
      BY ContentsType
    <2>2. /\ Append(s, u) \in Seq(Cells \cup {Lost}) /\ Len(Append(s, u)) = Len(s) + 1
          /\ \A i \in 1..Len(s) : Append(s, u)[i] = s[i]
          /\ Append(s, u)[Len(s) + 1] = u
      BY <1>1, <2>1, AppendProperties
    <2>3. RingContents(r) \in Seq(Cells \cup {Lost}) /\ Len(RingContents(r)) = Len(s) + 1
      BY <1>2, <1>5, <2>1, ContentsType
    <2>4. \A i \in 1..Len(RingContents(r)) : RingContents(r)[i] = Append(s, u)[i]
      <3> HIDE DEF s
      <3> TAKE i \in 1..Len(RingContents(r))
      <3>1. i \in 1..Len(s) \/ i = Len(s) + 1
        BY <2>1, <2>3
      <3>2. CASE i \in 1..Len(s)
        BY <3>2, <1>8, <2>1, <2>2 DEF s
      <3>3. CASE i = Len(s) + 1
        BY <3>3, <1>9, <2>1, <2>2
      <3> QED BY <3>1, <3>2, <3>3
    <2> HIDE DEF s
    <2>5. RingContents(r) = Append(s, u)
      BY <2>2, <2>3, <2>4, SeqEqual
    <2> QED BY <2>5 DEF s
  <1>11. ~Strayed(r) => ~Strayed(q) /\ u = v
    BY <1>2, <1>3 DEF Kept, u
  <1> QED BY <1>2, <1>3, <1>10, <1>11 DEF r, u

(* ... and a pop takes the oldest one out: what was lost reads as any of   *)
(* Junk.                                                                   *)
LEMMA PopTakesFirst ==
  ASSUME NEW n \in Nat, NEW q \in Rings(n), ~RingEmpty(q)
  PROVE  /\ RingPop(q) \in Rings(n)
         /\ Head(RingContents(q)) \in Cells \cup {Lost}
         /\ RingFronts(q) = IF Head(RingContents(q)) = Lost THEN Junk ELSE {Head(RingContents(q))}
         /\ RingFronts(q) \subseteq Cells
         /\ RingContents(RingPop(q)) = Tail(RingContents(q))
         /\ RingPop(q).wr = q.wr /\ RingPop(q).slack = q.slack
         /\ ~Strayed(RingPop(q)) => ~Strayed(q)
  <1> DEFINE r == RingPop(q)
  <1>1. /\ r \in Rings(n) /\ r.rd = Advance(q, q.rd) /\ r.wr = q.wr /\ r.slack = q.slack
        /\ ~Strayed(r) => ~Strayed(q)
        /\ \A k \in 0..n \ {q.rd} : At(r, k) = At(q, k)
    BY PopIs
  <1>2. /\ q.max = n /\ q.rd \in 0..n /\ q.wr \in 0..n /\ q.rd # q.wr /\ r.max = n
        /\ r.rd = IF q.rd = n THEN 0 ELSE q.rd + 1
    BY <1>1, RingType DEF Advance, RingEmpty
  <1> HIDE DEF r
  <1>3. RingCount(q) = RingCount(r) + 1
    BY <1>1, <1>2 DEF RingCount
  <1>4. \A i \in 1..RingCount(r) : Place(r, i) = Place(q, i + 1) /\ Place(r, i) # q.rd
    BY <1>1, <1>2 DEF Place, RingCount
  <1>5. Place(q, 1) = q.rd
    BY <1>2 DEF Place
  <1>6. RingContents(q) # <<>>
    BY EmptyAndFull
  <1>7. Head(RingContents(q)) = At(q, q.rd) /\ At(q, q.rd) \in Cells \cup {Lost}
    <2>1. 1 \in 1..RingCount(q)
      BY <1>1, <1>3, ContentsType
    <2>2. RingContents(q)[1] = At(q, q.rd)
      BY <1>5, <2>1, ContentsType
    <2>3. Head(RingContents(q)) = RingContents(q)[1]
      OBVIOUS
    <2> QED BY <1>2, <2>2, <2>3, AtType
  <1>8. \A i \in 1..RingCount(r) : RingContents(r)[i] = RingContents(q)[i + 1]
    <2> SUFFICES ASSUME NEW i \in 1..RingCount(r)
                 PROVE  RingContents(r)[i] = RingContents(q)[i + 1]
      OBVIOUS
    <2>1. RingCount(r) \in Nat /\ i + 1 \in 1..RingCount(q)
      BY <1>1, <1>3, ContentsType
    <2>2. Place(q, i + 1) \in 0..n \ {q.rd}
      BY <1>4, <2>1, ContentsType
    <2>3. RingContents(r)[i] = At(r, Place(q, i + 1))
      BY <1>1, <1>4, ContentsType
    <2> QED BY <1>1, <2>1, <2>2, <2>3, ContentsType
  <1>9. RingContents(r) = Tail(RingContents(q))
    <2> DEFINE s == RingContents(q)
    <2>1. s \in Seq(Cells \cup {Lost}) /\ s # <<>> /\ Len(s) = RingCount(r) + 1 /\ RingCount(r) \in Nat
      BY <1>1, <1>3, <1>6, ContentsType
    <2>2. /\ Tail(s) \in Seq(Cells \cup {Lost}) /\ Len(Tail(s)) = Len(s) - 1
          /\ \A i \in 1..Len(Tail(s)) : Tail(s)[i] = s[i + 1]
      BY <2>1, HeadTailProperties
    <2>3. RingContents(r) \in Seq(Cells \cup {Lost}) /\ Len(RingContents(r)) = RingCount(r)
      BY <1>1, ContentsType
    <2>4. \A i \in 1..Len(RingContents(r)) : RingContents(r)[i] = Tail(s)[i]
      BY <1>8, <2>1, <2>2, <2>3
    <2>5. Len(RingContents(r)) = Len(Tail(s))
      BY <2>1, <2>2, <2>3
    <2> HIDE DEF s
    <2>6. RingContents(r) = Tail(s)
      BY <2>2, <2>3, <2>4, <2>5, SeqEqual
    <2> QED BY <2>6 DEF s
  <1>10. /\ RingFronts(q) = IF Head(RingContents(q)) = Lost THEN Junk ELSE {Head(RingContents(q))}
         /\ RingFronts(q) \subseteq Cells
    BY <1>7, RingAssumption DEF RingFronts, Cells
  <1> QED BY <1>1, <1>7, <1>9, <1>10 DEF r
-----------------------------------------------------------------------------
(* The queue.                                                              *)

(* The types of the queue's own state; who is in push() has an item to     *)
(* store, which a failed test and a wait in between have not lost.         *)
ArgKept ==
  /\ ring \in Rings(MaxSize)
  /\ pc \in [Tasks -> PCs]
  /\ arg \in [Tasks -> Cells]
  /\ got \in [Tasks -> Cells]
  /\ \A t \in Tasks : pc[t] \in {"push", "pushwait"} => arg[t] \in Items

LEMMA InitKept == Init => ArgKept
  <1> SUFFICES ASSUME Init PROVE ArgKept
    OBVIOUS
  <1>1. MaxSize \in Nat /\ Slacks \subseteq BOOLEAN
    BY QueueAssumption
  <1>2. PICK slack \in Slacks : ring = RingOf(MaxSize, slack)
    BY DEF Init
  <1>3. ring \in Rings(MaxSize)
    BY <1>1, <1>2, FreshRing
  <1> QED BY <1>3 DEF Init, ArgKept, PCs, Cells

(* Steps that leave the queue's own state alone.                           *)
Elsewhere ==
  \/ \E t \in Tasks : WaitOn(t) \/ TellBump(t) \/ Cancel(t)
  \/ \E c \in Contexts : Submit(c)
  \/ UNCHANGED vars

LEMMA ElsewhereKeeps == Elsewhere => UNCHANGED queueVars
  BY DEF Elsewhere, WaitOn, TellBump, Cancel, Submit, vars, queueVars

(* Steps that move a task and leave the ring alone.                        *)
LEMMA MovesKeep ==
  ASSUME ArgKept, NEW t \in Tasks,
         CallPop(t) \/ PopEmpty(t) \/ PushFull(t) \/ WaitReturns(t) \/ WaitFails(t) \/ Tell(t)
  PROVE  /\ ArgKept'
         /\ UNCHANGED ring
         /\ got' = got \/ got' = [got EXCEPT ![t] = NoItem]
  <1> USE DEF ArgKept, Goto, PCs, Cells
  <1>1. CASE CallPop(t)
    BY <1>1 DEF CallPop
  <1>2. CASE PopEmpty(t)
    BY <1>2 DEF PopEmpty
  <1>3. CASE PushFull(t)
    BY <1>3 DEF PushFull
  <1>4. CASE WaitReturns(t)
    BY <1>4 DEF WaitReturns, Waiting
  <1>5. CASE WaitFails(t)
    BY <1>5 DEF WaitFails, Waiting
  <1>6. CASE Tell(t)
    BY <1>6 DEF Tell
  <1> QED BY <1>1, <1>2, <1>3, <1>4, <1>5, <1>6

LEMMA CallPushKeeps ==
  ASSUME ArgKept, NEW t \in Tasks, NEW v \in Items, CallPush(t, v)
  PROVE  ArgKept' /\ UNCHANGED <<ring, got>>
  BY DEF ArgKept, CallPush, Goto, PCs, Cells

(* push() and try_push() store an item in a ring that has room.            *)
LEMMA StoreIsPush ==
  ASSUME ArgKept, NEW t \in Tasks, PushStore(t) \/ \E v \in Items : TryPush(t, v)
  PROVE  ArgKept' /\ \E v \in Items : Abstract!Push(v)
  <1>1. ASSUME NEW v \in Items, ~RingFull(ring), ring' = RingPush(ring, v), got' = got
        PROVE  ring' \in Rings(MaxSize) /\ Abstract!Push(v)
    <2>1. ring \in Rings(MaxSize) /\ MaxSize \in Nat /\ ring.max = MaxSize
      BY QueueAssumption, RingType DEF ArgKept
    <2>2. /\ ring' \in Rings(MaxSize)
          /\ RingContents(ring') = Append(RingContents(ring), Kept(ring, v))
          /\ ring'.wr = IF ring.wr = MaxSize THEN 0 ELSE ring.wr + 1
          /\ ring'.slack = ring.slack
      BY <1>1, <2>1, PushAppends
    <2>3. Len(RingContents(ring)) < MaxSize
      <3>1. Len(RingContents(ring)) \in 0..MaxSize
        BY <2>1, ContentsType
      <3>2. Len(RingContents(ring)) # MaxSize
        BY <1>1, <2>1, EmptyAndFull
      <3> QED BY <2>1, <3>1, <3>2
    <2> QED BY <1>1, <2>1, <2>2, <2>3 DEF Abstract!Push, Kept
  <1>2. CASE PushStore(t)
    <2>1. arg[t] \in Items
      BY <1>2 DEF ArgKept, PushStore
    <2>2. ring' \in Rings(MaxSize) /\ Abstract!Push(arg[t])
      BY <1>1, <1>2, <2>1 DEF PushStore
    <2> QED BY <1>2, <2>1, <2>2 DEF ArgKept, PushStore, Goto, PCs, Cells
  <1>3. ASSUME NEW v \in Items, TryPush(t, v)
        PROVE  ArgKept' /\ Abstract!Push(v)
    <2>1. ring' \in Rings(MaxSize) /\ Abstract!Push(v)
      BY <1>1, <1>3 DEF TryPush
    <2> QED BY <1>3, <2>1 DEF ArgKept, TryPush, Goto, PCs, Cells
  <1> QED BY <1>2, <1>3

(* pop() and try_pop() return the oldest item of a ring that holds one.    *)
LEMMA TakeIsPop ==
  ASSUME ArgKept, NEW t \in Tasks, PopTake(t) \/ TryPop(t)
  PROVE  ArgKept' /\ Abstract!Pop(t)
  <1>1. PICK v \in RingFronts(ring) : got' = [got EXCEPT ![t] = v]
    BY DEF PopTake, TryPop
  <1>2. /\ ~RingEmpty(ring) /\ ring' = RingPop(ring) /\ arg' = arg
        /\ \E l \in {"out", "tellFull"} : Goto(t, l)
    BY DEF PopTake, TryPop
  <1>3. ring \in Rings(MaxSize) /\ MaxSize \in Nat
    BY QueueAssumption DEF ArgKept
  <1>4. /\ ring' \in Rings(MaxSize)
        /\ RingFronts(ring) =
             IF Head(RingContents(ring)) = Lost THEN Junk ELSE {Head(RingContents(ring))}
        /\ RingFronts(ring) \subseteq Cells
        /\ RingContents(ring') = Tail(RingContents(ring))
        /\ ring'.wr = ring.wr /\ ring'.slack = ring.slack
    BY <1>2, <1>3, PopTakesFirst
  <1>5. RingContents(ring) # <<>>
    BY <1>2, <1>3, EmptyAndFull
  <1>6. Abstract!Pop(t)
    BY <1>1, <1>4, <1>5 DEF Abstract!Pop
  <1>7. ArgKept'
    BY <1>1, <1>2, <1>4 DEF ArgKept, Goto, PCs
  <1> QED BY <1>6, <1>7

(* Every step of the code's queue is one of the channel's, or none.        *)
LEMMA NextKept == ArgKept /\ [Next]_vars => ArgKept' /\ [Abstract!Next]_<<RingContents(ring), ring.wr, ring.slack, got>>
  <1> SUFFICES ASSUME ArgKept, [Next]_vars
               PROVE  ArgKept' /\ [Abstract!Next]_<<RingContents(ring), ring.wr, ring.slack, got>>
    OBVIOUS
  <1>1. CASE Elsewhere
    BY <1>1, ElsewhereKeeps DEF queueVars, ArgKept
  <1>2. ASSUME NEW t \in Tasks,
               CallPop(t) \/ PopEmpty(t) \/ PushFull(t) \/ WaitReturns(t) \/ WaitFails(t) \/ Tell(t)
        PROVE  ArgKept' /\ [Abstract!Next]_<<RingContents(ring), ring.wr, ring.slack, got>>
    BY <1>2, MovesKeep DEF Abstract!Next, Abstract!Use
  <1>3. ASSUME NEW t \in Tasks, NEW v \in Items, CallPush(t, v)
        PROVE  ArgKept' /\ [Abstract!Next]_<<RingContents(ring), ring.wr, ring.slack, got>>
    BY <1>3, CallPushKeeps
  <1>4. ASSUME NEW t \in Tasks, PushStore(t) \/ \E v \in Items : TryPush(t, v)
        PROVE  ArgKept' /\ [Abstract!Next]_<<RingContents(ring), ring.wr, ring.slack, got>>
    BY <1>4, StoreIsPush DEF Abstract!Next
  <1>5. ASSUME NEW t \in Tasks, PopTake(t) \/ TryPop(t)
        PROVE  ArgKept' /\ [Abstract!Next]_<<RingContents(ring), ring.wr, ring.slack, got>>
    BY <1>5, TakeIsPop DEF Abstract!Next
  <1> QED BY <1>1, <1>2, <1>3, <1>4, <1>5 DEF Next, TaskStep, Progress, Elsewhere

(* The queue of the code implements the bounded first-in first-out channel *)
(* over an array that is one value short of a turn: what pops return is    *)
(* what pushes stored, once each and in order, but for the values stored   *)
(* behind an array without room, and never more than MaxSize of them wait. *)
(* ConcurrentQueue's tasks may be on any number of threads, Queue's share  *)
(* one (QueueAssumption).                                                  *)
THEOREM Refinement == Spec => RefinesQueue
  <1>1. ASSUME Init PROVE Abstract!Init
    <2>1. MaxSize \in Nat /\ Slacks \subseteq BOOLEAN
      BY QueueAssumption
    <2>2. PICK slack \in Slacks : ring = RingOf(MaxSize, slack)
      BY <1>1 DEF Init
    <2>3. RingContents(ring) = <<>> /\ ring.wr = 0 /\ ring.slack \in BOOLEAN
      BY <2>1, <2>2, FreshRing
    <2> QED BY <1>1, <2>3 DEF Init, Abstract!Init
  <1> QED BY <1>1, InitKept, NextKept, PTL DEF Spec, Abstract!Spec, RefinesQueue

-----------------------------------------------------------------------------
(* Where the tasks of a queue are in its condition variable.               *)
Telling(t) == pc[t] \in {"tellEmpty", "tellFull"}

CvPlaces(t) ==
  IF Waiting(t) THEN {"idle", "prep", "wait", "check"}
  ELSE IF Telling(t) THEN {"idle", "bumped"} ELSE {"idle"}

(* A task is inside a wait() or a notify only where the queue calls one,   *)
(* and has an operation in flight only while it is suspended there, for    *)
(* the counter it loaded and the mask of its call.                         *)
InPlace(t) ==
  /\ cv[t] \in CvPlaces(t)
  /\ op[t] = "none" <=> cv[t] # "wait"
  /\ cv[t] = "wait" => want[t] = [val |-> old[t], mask |-> WaitMask(t)]

Settled ==
  /\ CvTypeOK /\ WaitsOwned
  /\ pc \in [Tasks -> PCs]
  /\ \A t \in Tasks : InPlace(t)

LEMMA QueueMasks ==
  /\ kNonEmptyMask \in SUBSET Bits /\ kNonFullMask \in SUBSET Bits
  /\ \A t : WaitMask(t) \in SUBSET Bits
  BY QueueAssumption DEF kNonEmptyMask, kNonFullMask, WaitMask

(* A task that is not inside a wait() finds a value nobody holds.          *)
LEMMA IncrementedType ==
  ASSUME NEW t \in Tasks, ~Holding(t)
  PROVE  /\ Incremented \in Words /\ Incremented # word
         /\ \A u \in Tasks : Holding(u) => Incremented # old[u]
  <1> DEFINE f == [u \in Tasks |-> IF Holding(u) THEN old[u] ELSE word]
  <1>1. \E w \in 0..Cardinality(Tasks) : \A u \in Tasks : f[u] # w
    BY TasksFinite, FreshValue
  <1>2. PICK w \in Words : \A u \in Tasks : f[u] # w
    BY <1>1 DEF Words
  <1>3. w # word /\ \A u \in Tasks : Holding(u) => w # old[u]
    BY <1>2
  <1> QED BY <1>3 DEF Incremented

LEMMA SettledTypes ==
  ASSUME Settled
  PROVE  /\ FutexTypeOK(Words) /\ WaitsOwned /\ \A t \in Tasks : InPlace(t)
         /\ cv \in [Tasks -> CvStates] /\ old \in [Tasks -> Words] /\ pc \in [Tasks -> PCs]
         /\ word \in Words /\ sq \in [Contexts -> Seq(Sqes)] /\ op \in [Tasks -> OpStates]
         /\ want \in [Tasks -> [val : Words, mask : SUBSET Bits]]
         /\ canceled \in [Tasks -> BOOLEAN] /\ 0 \in Words
  <1>1. FutexTypeOK(Words)
    BY DEF Settled, CvTypeOK
  <1>2. 0 \in Words
    BY TasksFinite, FS_CardinalityType DEF Words
  <1> QED BY <1>1, <1>2 DEF Settled, CvTypeOK, FutexTypeOK

LEMMA SettledInit == Init => Settled
  <1> SUFFICES ASSUME Init PROVE Settled
    OBVIOUS
  <1>1. 0 \in Words
    BY TasksFinite, FS_CardinalityType DEF Words
  <1>2. FutexTypeOK(Words)
    BY <1>1, FutexInitType DEF Init, CvInit
  <1>3. CvTypeOK /\ pc \in [Tasks -> PCs]
    BY <1>1, <1>2 DEF Init, CvInit, CvTypeOK, CvStates, PCs
  <1>4. \A c \in Contexts : 1..Len(sq[c]) = {}
    BY DEF Init, CvInit, FutexInit
  <1>5. \A t \in Tasks : op[t] = "none" /\ cv[t] = "idle" /\ pc[t] = "out"
    BY DEF Init, CvInit, FutexInit
  <1> QED BY <1>3, <1>4, <1>5 DEF Settled, WaitsOwned, InPlace, CvPlaces, Waiting, Telling

(* A step of one task leaves the others where they are, ...                *)
LEMMA SettledOthers ==
  ASSUME Settled, NEW t \in Tasks, InPlace(t)',
         want' = want \/ want' = [want EXCEPT ![t] = want'[t]],
         \A u \in Tasks \ {t} :
           /\ pc'[u] = pc[u] /\ cv'[u] = cv[u] /\ old'[u] = old[u]
           /\ op'[u] = "none" <=> op[u] = "none",
         FutexTypeOK(Words)', WaitsOwned',
         cv' \in [Tasks -> CvStates], old' \in [Tasks -> Words], pc' \in [Tasks -> PCs]
  PROVE  Settled'
  <1>1. ASSUME NEW u \in Tasks \ {t} PROVE InPlace(u)'
    <2>1. want'[u] = want[u]
      BY <1>1, SettledTypes
    <2>2. InPlace(u)
      BY SettledTypes
    <2> QED BY <1>1, <2>1, <2>2 DEF InPlace, CvPlaces, Waiting, Telling, WaitMask
  <1>2. \A u \in Tasks : InPlace(u)'
    BY <1>1
  <1> QED BY <1>2 DEF Settled, CvTypeOK

(* ... as does one that leaves the futex alone.                            *)
LEMMA SettledRings ==
  ASSUME Settled, UNCHANGED <<word, sq, op, want>>, canceled' \in [Tasks -> BOOLEAN]
  PROVE  FutexTypeOK(Words)' /\ WaitsOwned'
  BY SettledTypes, OwnedKept DEF FutexTypeOK

(* Outside of wait() and notify a task may be sent anywhere.               *)
LEMMA SettledMove ==
  ASSUME Settled, NEW t \in Tasks, NEW l \in PCs, Goto(t, l), pc[t] \in {"out", "pop", "push"},
         UNCHANGED <<word, sq, op, want, cv, old>>, canceled' \in [Tasks -> BOOLEAN]
  PROVE  Settled'
  <1>1. pc' = [pc EXCEPT ![t] = l] /\ pc' \in [Tasks -> PCs] /\ pc'[t] = l
    BY SettledTypes DEF Goto
  <1>2. InPlace(t) /\ cv[t] = "idle"
    BY SettledTypes DEF InPlace, CvPlaces, Waiting, Telling
  <1>3. InPlace(t)'
    BY <1>2 DEF InPlace, CvPlaces, Waiting, Telling
  <1> QED BY <1>1, <1>3, SettledOthers, SettledRings, SettledTypes

LEMMA SettledQuiet ==
  ASSUME Settled, UNCHANGED <<cvVars, pc>>
  PROVE  Settled'
  <1>1. UNCHANGED <<word, sq, op, want, canceled, cv, old, pc>>
    BY DEF cvVars, futexVars
  <1>2. \A t \in Tasks : InPlace(t)'
    BY <1>1, SettledTypes DEF InPlace, CvPlaces, Waiting, Telling, WaitMask
  <1> QED BY <1>1, <1>2, SettledTypes, SettledRings DEF Settled, CvTypeOK

(* Every step of a task in the queue keeps everybody in place, ...         *)
LEMMA SettledProgress ==
  ASSUME Settled, NEW t \in Tasks, Progress(t) \/ WaitFails(t)
  PROVE  Settled'
  <1>a. /\ FutexTypeOK(Words) /\ WaitsOwned /\ InPlace(t)
        /\ cv \in [Tasks -> CvStates] /\ old \in [Tasks -> Words] /\ pc \in [Tasks -> PCs]
        /\ word \in Words /\ sq \in [Contexts -> Seq(Sqes)] /\ op \in [Tasks -> OpStates]
        /\ want \in [Tasks -> [val : Words, mask : SUBSET Bits]]
        /\ canceled \in [Tasks -> BOOLEAN] /\ 0 \in Words
    BY SettledTypes
  <1>1. CASE PopEmpty(t) \/ PopTake(t) \/ PushFull(t) \/ PushStore(t)
    <2>1. /\ pc[t] \in {"out", "pop", "push"}
          /\ \E l \in PCs : Goto(t, l)
          /\ UNCHANGED <<word, sq, op, want, canceled, cv, old>>
      BY <1>1 DEF PopEmpty, PopTake, PushFull, PushStore, PCs, cvVars, futexVars
    <2> QED BY <1>a, <2>1, SettledMove
  <1>2. CASE Waiting(t) /\ CvLoad(t) /\ UNCHANGED queueVars
    <2>1. /\ cv[t] = "idle" /\ cv' = [cv EXCEPT ![t] = "prep"] /\ pc' = pc
          /\ old' = [old EXCEPT ![t] = word] /\ UNCHANGED <<word, sq, op, want, canceled>>
      BY <1>2 DEF CvLoad, CvGoto, futexVars, queueVars
    <2>2. InPlace(t)'
      BY <1>2, <1>a, <2>1 DEF InPlace, CvPlaces, Waiting, Telling
    <2> QED BY <1>a, <2>1, <2>2, SettledOthers, SettledRings DEF CvStates
  <1>3. CASE Waiting(t) /\ CvSleep(t, WaitMask(t)) /\ UNCHANGED queueVars
    <2>1. /\ cv[t] = "prep" /\ cv' = [cv EXCEPT ![t] = "wait"] /\ pc' = pc /\ old' = old
          /\ FutexWait(t, old[t], WaitMask(t))
      BY <1>3 DEF CvSleep, CvGoto, queueVars
    <2>2. FutexTypeOK(Words)' /\ WaitsOwned'
      BY <1>a, <2>1, QueueMasks, FutexWaitType, FutexWaitOwned
    <2>3. /\ op' = [op EXCEPT ![t] = "queued"]
          /\ want' = [want EXCEPT ![t] = [val |-> old[t], mask |-> WaitMask(t)]]
      BY <2>1 DEF FutexWait
    <2>4. InPlace(t)'
      BY <1>3, <1>a, <2>1, <2>3 DEF InPlace, CvPlaces, Waiting, Telling, WaitMask
    <2>5. want' = [want EXCEPT ![t] = want'[t]]
      BY <1>a, <2>3
    <2> QED BY <1>a, <2>1, <2>2, <2>3, <2>4, <2>5, SettledOthers DEF CvStates
  <1>4. CASE Waiting(t) /\ CvResume(t) /\ UNCHANGED queueVars
    <2>1. /\ cv[t] = "wait" /\ cv' = [cv EXCEPT ![t] = "check"] /\ pc' = pc /\ old' = old
          /\ FutexResume(t, 0)
      BY <1>4 DEF CvResume, CvGoto, queueVars
    <2>2. FutexTypeOK(Words)' /\ WaitsOwned'
      BY <1>a, <2>1, FutexResumeType, FutexResumeOwned
    <2>3. /\ op' = [op EXCEPT ![t] = "none"]
          /\ want' = [want EXCEPT ![t] = [val |-> 0, mask |-> MatchAny]]
      BY <2>1 DEF FutexResume
    <2>4. InPlace(t)'
      BY <1>4, <1>a, <2>1, <2>3 DEF InPlace, CvPlaces, Waiting, Telling
    <2>5. want' = [want EXCEPT ![t] = want'[t]]
      BY <1>a, <2>3
    <2> QED BY <1>a, <2>1, <2>2, <2>3, <2>4, <2>5, SettledOthers DEF CvStates
  <1>5. CASE Waiting(t) /\ CvAgain(t) /\ UNCHANGED queueVars
    <2>1. /\ cv[t] = "check" /\ cv' = [cv EXCEPT ![t] = "prep"] /\ pc' = pc /\ old' = old
          /\ UNCHANGED <<word, sq, op, want, canceled>>
      BY <1>5 DEF CvAgain, CvGoto, futexVars, queueVars
    <2>2. InPlace(t)'
      BY <1>5, <1>a, <2>1 DEF InPlace, CvPlaces, Waiting, Telling
    <2> QED BY <1>a, <2>1, <2>2, SettledOthers, SettledRings DEF CvStates
  <1>6. CASE WaitReturns(t)
    <2>1. /\ Waiting(t) /\ cv[t] = "check" /\ cv' = [cv EXCEPT ![t] = "idle"]
          /\ old' = [old EXCEPT ![t] = 0] /\ UNCHANGED <<word, sq, op, want, canceled>>
          /\ pc' = [pc EXCEPT ![t] = IF pc[t] = "popwait" THEN "pop" ELSE "push"]
      BY <1>6 DEF WaitReturns, CvReturn, CvGoto, futexVars, Goto
    <2>2. InPlace(t)'
      BY <1>a, <2>1 DEF InPlace, CvPlaces, Waiting, Telling
    <2> QED BY <1>a, <2>1, <2>2, SettledOthers, SettledRings DEF CvStates, PCs
  <1>7. CASE WaitFails(t)
    <2>1. /\ Waiting(t) /\ cv[t] = "wait" /\ cv' = [cv EXCEPT ![t] = "idle"]
          /\ old' = [old EXCEPT ![t] = 0] /\ FutexResume(t, 0)
          /\ pc' = [pc EXCEPT ![t] = "out"]
      BY <1>7 DEF WaitFails, CvCanceled, CvGoto, Goto
    <2>2. FutexTypeOK(Words)' /\ WaitsOwned'
      BY <1>a, <2>1, FutexResumeType, FutexResumeOwned
    <2>3. /\ op' = [op EXCEPT ![t] = "none"]
          /\ want' = [want EXCEPT ![t] = [val |-> 0, mask |-> MatchAny]]
      BY <2>1 DEF FutexResume
    <2>4. InPlace(t)'
      BY <1>a, <2>1, <2>3 DEF InPlace, CvPlaces, Waiting, Telling
    <2>5. want' = [want EXCEPT ![t] = want'[t]]
      BY <1>a, <2>3
    <2> QED BY <1>a, <2>1, <2>2, <2>3, <2>4, <2>5, SettledOthers DEF CvStates, PCs
  <1>8. CASE TellBump(t)
    <2>1. /\ Telling(t) /\ cv[t] = "idle" /\ word' = Incremented /\ cv' = [cv EXCEPT ![t] = "bumped"]
          /\ pc' = pc /\ UNCHANGED <<sq, op, want, canceled, old>>
      BY <1>8 DEF TellBump, CvBump, CvGoto, queueVars, Telling
    <2>2. word' \in Words
      BY <2>1, IncrementedType DEF Holding
    <2>3. FutexTypeOK(Words)' /\ WaitsOwned'
      BY <1>a, <2>1, <2>2, OwnedKept DEF FutexTypeOK
    <2>4. InPlace(t)'
      BY <1>a, <2>1 DEF InPlace, CvPlaces, Waiting, Telling
    <2> QED BY <1>a, <2>1, <2>3, <2>4, SettledOthers DEF CvStates
  <1>9. CASE Tell(t)
    <2> DEFINE m == IF pc[t] = "tellEmpty" THEN kNonEmptyMask ELSE kNonFullMask
    <2>1. /\ Telling(t) /\ cv[t] = "bumped" /\ FutexNotify(t, FALSE, m)
          /\ cv' = [cv EXCEPT ![t] = "idle"] /\ pc' = [pc EXCEPT ![t] = "out"] /\ old' = old
      BY <1>9 DEF Tell, CvNotify, CvGoto, Goto, Telling
    <2>2. m \in SUBSET Bits
      BY QueueMasks
    <2>3. FutexTypeOK(Words)' /\ WaitsOwned'
      BY <1>a, <2>1, <2>2, FutexNotifyType, FutexNotifyOwned
    <2>4. \A u \in Tasks : op'[u] # op[u] => op[u] = "asleep" /\ op'[u] = "ok"
      BY <1>a, <2>1, <2>2, NotifyEffect
    <2>5. want' = want
      BY <2>1 DEF FutexNotify
    <2>6. op[t] = "none" /\ op'[t] = "none"
      BY <1>a, <2>1, <2>4 DEF InPlace
    <2>7. InPlace(t)'
      BY <1>a, <2>1, <2>6 DEF InPlace, CvPlaces, Waiting, Telling
    <2>8. \A u \in Tasks : op'[u] = "none" <=> op[u] = "none"
      BY <2>4
    <2> QED BY <1>a, <2>1, <2>3, <2>5, <2>7, <2>8, SettledOthers DEF CvStates, PCs
  <1> QED
    BY <1>1, <1>2, <1>3, <1>4, <1>5, <1>6, <1>7, <1>8, <1>9 DEF Progress, WaitOn

(* ... and so do a cancellation and the kernel.                            *)
LEMMA SettledCancel ==
  ASSUME Settled, NEW t \in Tasks, Cancel(t)
  PROVE  Settled'
  <1>1. FutexCancel(t) /\ UNCHANGED <<cv, old, pc>>
    BY DEF Cancel, queueVars
  <1>2. FutexTypeOK(Words)' /\ WaitsOwned'
    BY <1>1, SettledTypes, FutexCancelType, FutexCancelOwned
  <1>3. \A u \in Tasks : InPlace(u)'
    BY <1>1, SettledTypes DEF InPlace, CvPlaces, Waiting, Telling, WaitMask, FutexCancel
  <1> QED BY <1>1, <1>2, <1>3 DEF Settled, CvTypeOK

LEMMA SettledSubmit ==
  ASSUME Settled, NEW c \in Contexts, Submit(c)
  PROVE  Settled'
  <1>1. FutexSubmit(c) /\ UNCHANGED <<cv, old, pc>>
    BY DEF Submit, queueVars
  <1>2. FutexTypeOK(Words)' /\ WaitsOwned' /\ want' = want
    BY <1>1, SettledTypes, FutexSubmitType, FutexSubmitOwned DEF FutexSubmit
  <1>3. \A u \in Tasks : op'[u] # op[u] => op[u] # "none" /\ op'[u] # "none"
    BY <1>1, SettledTypes, KernelEffect
  <1>4. \A u \in Tasks : InPlace(u)'
    BY <1>1, <1>2, <1>3, SettledTypes DEF InPlace, CvPlaces, Waiting, Telling, WaitMask
  <1> QED BY <1>1, <1>2, <1>4 DEF Settled, CvTypeOK

LEMMA SettledNext == Settled /\ [Next]_vars => Settled'
  <1> SUFFICES ASSUME Settled, [Next]_vars PROVE Settled'
    OBVIOUS
  <1>1. ASSUME NEW t \in Tasks, NEW v \in Items,
               CallPush(t, v) \/ TryPush(t, v)
        PROVE  Settled'
    <2>1. /\ pc[t] = "out" /\ \E l \in PCs : Goto(t, l)
          /\ UNCHANGED <<word, sq, op, want, cv, old>> /\ canceled' \in [Tasks -> BOOLEAN]
      BY <1>1, SettledTypes DEF CallPush, TryPush, PCs, FreshToken, cvVars, futexVars
    <2> QED BY <2>1, SettledMove
  <1>2. UNCHANGED vars => Settled'
    BY SettledQuiet DEF vars, queueVars
  <1>3. ASSUME NEW t \in Tasks, CallPop(t) \/ TryPop(t) PROVE Settled'
    <2>1. /\ pc[t] = "out" /\ \E l \in PCs : Goto(t, l)
          /\ UNCHANGED <<word, sq, op, want, cv, old>> /\ canceled' \in [Tasks -> BOOLEAN]
      BY <1>3, SettledTypes DEF CallPop, TryPop, PCs, FreshToken, cvVars, futexVars
    <2> QED BY <2>1, SettledMove
  <1> QED BY <1>1, <1>2, <1>3, SettledProgress, SettledCancel, SettledSubmit DEF Next, TaskStep

-----------------------------------------------------------------------------
(* A queue whose tasks are coroutines of one thread c, and in which every  *)
(* success tells: a Queue of which only pop() and push() are used, or one  *)
(* of either kind with a single place.                                     *)
Together(c) == c \in Contexts /\ \A t \in Tasks : Home[t] = c

EverySuccessTells == MaxSize <= 1 \/ (AlwaysNotify /\ Pollers = {})

(* One task runs at a time.                                                *)
Single == \A t, u \in Tasks : Running(t) /\ Running(u) => t = u

LEMMA SingleInit == Init => Single
  BY DEF Init, Single, Running, Waiting

(* Whoever moves runs, or is resumed by its thread; it is the only one.    *)
LEMMA SingleMover ==
  ASSUME Settled, [Next]_vars
  PROVE  \/ UNCHANGED <<pc, cv>>
         \/ \E t \in Tasks :
              /\ Running(t) \/ Turn(t)
              /\ \A u \in Tasks \ {t} : pc'[u] = pc[u] /\ cv'[u] = cv[u]
  <1>1. ASSUME NEW t \in Tasks, CallPop(t) \/ TryPop(t) \/ TaskStep(t)
        PROVE  /\ Running(t) \/ Turn(t)
               /\ \A u \in Tasks \ {t} : pc'[u] = pc[u] /\ cv'[u] = cv[u]
    <2>1. Running(t) \/ Turn(t)
      BY <1>1
         DEF CallPop, TryPop, TaskStep, Progress, PopEmpty, PopTake, PushFull, PushStore, WaitOn,
             WaitReturns, WaitFails, TellBump, Tell, Running, Waiting, CvLoad, CvSleep, CvAgain,
             CvReturn
    <2>2. /\ \E l : pc' = pc \/ Goto(t, l)
          /\ \E l : cv' = cv \/ CvGoto(t, l)
      BY <1>1
         DEF CallPop, TryPop, TaskStep, Progress, PopEmpty, PopTake, PushFull, PushStore, WaitOn,
             WaitReturns, WaitFails, TellBump, Tell, CvLoad, CvSleep, CvResume, CvAgain, CvReturn,
             CvCanceled, CvBump, CvNotify, cvVars, queueVars
    <2> QED BY <2>1, <2>2, SettledTypes DEF Goto, CvGoto
  <1>2. ASSUME NEW t \in Tasks, NEW v \in Items, CallPush(t, v) \/ TryPush(t, v)
        PROVE  /\ Running(t) \/ Turn(t)
               /\ \A u \in Tasks \ {t} : pc'[u] = pc[u] /\ cv'[u] = cv[u]
    BY <1>2, SettledTypes DEF CallPush, TryPush, Goto, cvVars
  <1>3. ASSUME NEW t \in Tasks, Cancel(t) PROVE UNCHANGED <<pc, cv>>
    BY <1>3 DEF Cancel, queueVars
  <1>4. ASSUME NEW c \in Contexts, Submit(c) PROVE UNCHANGED <<pc, cv>>
    BY <1>4 DEF Submit, queueVars
  <1>5. UNCHANGED vars => UNCHANGED <<pc, cv>>
    BY DEF vars, queueVars, cvVars
  <1> QED BY <1>1, <1>2, <1>3, <1>4, <1>5 DEF Next

LEMMA Undisturbed ==
  ASSUME NEW c, Together(c), Single, NEW t \in Tasks, Running(t) \/ Turn(t)
  PROVE  \A u \in Tasks \ {t} : ~Running(u)
  BY DEF Single, Turn, Together

LEMMA SingleNext ==
  ASSUME NEW c, Together(c), Settled, Single, [Next]_vars
  PROVE  Single'
  <1>1. CASE UNCHANGED <<pc, cv>>
    BY <1>1 DEF Single, Running, Waiting
  <1>2. ASSUME NEW t \in Tasks, Running(t) \/ Turn(t),
               \A u \in Tasks \ {t} : pc'[u] = pc[u] /\ cv'[u] = cv[u]
        PROVE  Single'
    <2>1. \A u \in Tasks \ {t} : ~Running(u)
      BY <1>2, Undisturbed
    <2>2. \A u \in Tasks \ {t} : ~Running(u)'
      BY <1>2, <2>1 DEF Running, Waiting
    <2> QED BY <2>2 DEF Single
  <1> QED BY <1>1, <1>2, SingleMover

-----------------------------------------------------------------------------
(* The two kinds of calls, and what there is to do for each: values to     *)
(* pop, places to push into.                                               *)
Kinds == {"pop", "push"}
Peer(k) == IF k = "pop" THEN "push" ELSE "pop"
WaitAt(k) == IF k = "pop" THEN "popwait" ELSE "pushwait"
TellAt(k) == IF k = "pop" THEN "tellEmpty" ELSE "tellFull"
MaskOf(k) == IF k = "pop" THEN kNonEmptyMask ELSE kNonFullMask
Amount(k) == IF k = "pop" THEN RingCount(ring) ELSE MaxSize - RingCount(ring)

LEMMA KindIs ==
  ASSUME NEW k \in Kinds
  PROVE  /\ Peer(k) \in Kinds /\ Peer(k) # k /\ Kinds = {k, Peer(k)} /\ Peer(Peer(k)) = k
         /\ WaitAt(k) # WaitAt(Peer(k)) /\ TellAt(k) # TellAt(Peer(k))
         /\ MaskOf(k) \in SUBSET Bits /\ MaskOf(k) \cap MaskOf(Peer(k)) = {} /\ MaskOf(k) # {}
         /\ {k, WaitAt(k), TellAt(k)} \subseteq PCs
         /\ {WaitAt(k), WaitAt(Peer(k))} = {"popwait", "pushwait"}
         /\ {TellAt(k), TellAt(Peer(k))} = {"tellEmpty", "tellFull"}
  BY QueueMasks
     DEF Kinds, Peer, WaitAt, TellAt, MaskOf, kNonEmptyMask, kNonFullMask, PCs

LEMMA AmountIs ==
  ASSUME ArgKept
  PROVE  /\ \A k \in Kinds : Amount(k) \in Nat /\ Amount(k) + Amount(Peer(k)) = MaxSize
         /\ Amount("pop") = Len(RingContents(ring))
         /\ RingEmpty(ring) <=> Amount("pop") = 0
         /\ RingFull(ring) <=> Amount("push") = 0
  <1>1. ring \in Rings(MaxSize) /\ MaxSize \in Nat
    BY QueueAssumption DEF ArgKept
  <1>2. RingCount(ring) \in 0..MaxSize /\ Len(RingContents(ring)) = RingCount(ring)
    BY <1>1, ContentsType
  <1>3. /\ RingEmpty(ring) <=> RingContents(ring) = <<>>
        /\ RingFull(ring) <=> Len(RingContents(ring)) = MaxSize
        /\ RingContents(ring) \in Seq(Cells \cup {Lost})
    BY <1>1, EmptyAndFull, ContentsType
  <1>4. RingContents(ring) = <<>> <=> Len(RingContents(ring)) = 0
    BY <1>3, EmptySeq
  <1> QED BY <1>1, <1>2, <1>3, <1>4 DEF Kinds, Amount, Peer

(* The steps of the queue by what they do for the waiters.                 *)
Begins(k, t) ==
  /\ pc[t] = "out" /\ Goto(t, k)
  /\ UNCHANGED <<word, sq, op, want, cv, old, ring>>

Misses(k, t) ==
  /\ pc[t] = k /\ Amount(k) = 0 /\ Goto(t, WaitAt(k))
  /\ UNCHANGED <<word, sq, op, want, cv, old, ring>>

Succeeds(k, t) ==
  /\ pc[t] \in {k, "out"} /\ Amount(k) # 0 /\ Goto(t, TellAt(Peer(k)))
  /\ Amount(k)' = Amount(k) - 1 /\ Amount(Peer(k))' = Amount(Peer(k)) + 1
  /\ UNCHANGED <<word, sq, op, want, cv, old>>

Synchronises(t) ==
  /\ WaitOn(t) \/ WaitReturns(t) \/ WaitFails(t) \/ TellBump(t) \/ Tell(t)
  /\ UNCHANGED ring

(* Since every success tells, these are all.                               *)
LEMMA AmountMoves ==
  ASSUME ArgKept, ArgKept'
  PROVE  /\ Len(RingContents(ring)') = Len(RingContents(ring)) + 1 =>
              Amount("push")' = Amount("push") - 1 /\ Amount("pop")' = Amount("pop") + 1
         /\ Len(RingContents(ring)') + 1 = Len(RingContents(ring)) =>
              Amount("pop")' = Amount("pop") - 1 /\ Amount("push")' = Amount("push") + 1
  <1>1. MaxSize \in Nat /\ ring \in Rings(MaxSize) /\ ring' \in Rings(MaxSize)
    BY QueueAssumption DEF ArgKept
  <1>2. /\ RingCount(ring) \in 0..MaxSize /\ Len(RingContents(ring)) = RingCount(ring)
        /\ RingCount(ring') \in 0..MaxSize /\ Len(RingContents(ring')) = RingCount(ring')
    BY <1>1, ContentsType
  <1> QED BY <1>1, <1>2 DEF Amount

LEMMA TakeSucceeds ==
  ASSUME EverySuccessTells, ArgKept, NEW t \in Tasks, PopTake(t) \/ TryPop(t)
  PROVE  Succeeds("pop", t)
  <1>1. Abstract!Pop(t) /\ ArgKept'
    BY TakeIsPop
  <1>2. RingContents(ring) \in Seq(Cells \cup {Lost}) /\ RingContents(ring) # <<>>
        /\ RingContents(ring)' = Tail(RingContents(ring))
    BY <1>1, ContentsType, QueueAssumption DEF ArgKept, Abstract!Pop
  <1>3. Len(RingContents(ring)') + 1 = Len(RingContents(ring))
    BY <1>2
  <1>4. /\ Amount("pop")' = Amount("pop") - 1 /\ Amount("push")' = Amount("push") + 1
        /\ Amount("pop") # 0
    BY <1>1, <1>2, <1>3, AmountMoves, AmountIs, EmptySeq
  <1>5. MaxSize <= 1 => RingFull(ring)
    BY <1>1, <1>2, AmountIs, QueueAssumption, EmptySeq DEF Kinds, Peer
  <1>6. Goto(t, "tellFull")
    BY <1>5 DEF PopTake, TryPop, EverySuccessTells
  <1> QED
    BY <1>4, <1>6 DEF PopTake, TryPop, Succeeds, TellAt, Peer, cvVars, futexVars

LEMMA StoreSucceeds ==
  ASSUME EverySuccessTells, ArgKept, NEW t \in Tasks, PushStore(t) \/ \E v \in Items : TryPush(t, v)
  PROVE  Succeeds("push", t)
  <1>1. ArgKept' /\ \E v \in Items : Abstract!Push(v)
    BY StoreIsPush
  <1>2. /\ RingContents(ring) \in Seq(Cells \cup {Lost}) /\ Len(RingContents(ring)) < MaxSize
        /\ \E v \in Items \cup {Lost} : RingContents(ring)' = Append(RingContents(ring), v)
    BY <1>1, ContentsType, QueueAssumption DEF ArgKept, Abstract!Push
  <1>3. Len(RingContents(ring)') = Len(RingContents(ring)) + 1
    BY <1>2
  <1>4. /\ Amount("push")' = Amount("push") - 1 /\ Amount("pop")' = Amount("pop") + 1
        /\ Amount("push") # 0
    BY <1>1, <1>2, <1>3, AmountMoves, AmountIs DEF Kinds, Peer
  <1>5. MaxSize <= 1 => RingEmpty(ring)
    BY <1>2, AmountIs, QueueAssumption
  <1>6. Goto(t, "tellEmpty")
    BY <1>5 DEF PushStore, TryPush, EverySuccessTells
  <1> QED
    BY <1>4, <1>6 DEF PushStore, TryPush, Succeeds, TellAt, Peer, cvVars, futexVars

LEMMA QueueSteps ==
  ASSUME EverySuccessTells, ArgKept, [Next]_vars
  PROVE  \/ \E k \in Kinds, t \in Tasks : Begins(k, t) \/ Misses(k, t)
         \/ \E k \in Kinds, t \in Tasks : Succeeds(k, t) /\ (Running(t) \/ Turn(t))
         \/ \E t \in Tasks : Synchronises(t) \/ Cancel(t)
         \/ \E c \in Contexts : Submit(c)
         \/ UNCHANGED vars
  <1>1. ASSUME NEW t \in Tasks, PopTake(t) \/ TryPop(t)
        PROVE  Succeeds("pop", t) /\ (Running(t) \/ Turn(t)) /\ "pop" \in Kinds
    BY <1>1, TakeSucceeds DEF PopTake, TryPop, Running, Waiting, Kinds
  <1>2. ASSUME NEW t \in Tasks, PushStore(t) \/ \E v \in Items : TryPush(t, v)
        PROVE  Succeeds("push", t) /\ (Running(t) \/ Turn(t)) /\ "push" \in Kinds
    BY <1>2, StoreSucceeds DEF PushStore, TryPush, Running, Waiting, Kinds
  <1>3. ASSUME NEW t \in Tasks, CallPop(t) \/ \E v \in Items : CallPush(t, v)
        PROVE  \E k \in Kinds : Begins(k, t)
    BY <1>3 DEF CallPop, CallPush, Begins, Kinds
  <1>4. ASSUME NEW t \in Tasks, PopEmpty(t) \/ PushFull(t)
        PROVE  \E k \in Kinds : Misses(k, t)
    BY <1>4, AmountIs DEF PopEmpty, PushFull, Misses, Kinds, WaitAt, cvVars, futexVars
  <1>5. ASSUME NEW t \in Tasks,
               WaitOn(t) \/ WaitReturns(t) \/ WaitFails(t) \/ TellBump(t) \/ Tell(t)
        PROVE  Synchronises(t)
    BY <1>5 DEF Synchronises, WaitOn, WaitReturns, WaitFails, TellBump, Tell, queueVars
  <1> QED BY <1>1, <1>2, <1>3, <1>4, <1>5 DEF Next, TaskStep, Progress

-----------------------------------------------------------------------------
(* Who waits although there is something to do is suspended or woken, and  *)
(* the counter has left the value it loaded, or the one success there was  *)
(* is about to change it.                                                  *)
Noticed(k, t) ==
  pc[t] = WaitAt(k) /\ Amount(k) # 0 =>
    /\ cv[t] \in {"wait", "check"}
    /\ \/ word # old[t]
       \/ Amount(k) = 1 /\ \E u \in Tasks : pc[u] = TellAt(k) /\ cv[u] = "idle"

AllNoticed == \A k \in Kinds, t \in Tasks : Noticed(k, t)

LEMMA NoticedSame ==
  ASSUME AllNoticed, UNCHANGED <<word, cv, old, pc, ring>>
  PROVE  AllNoticed'
  BY DEF AllNoticed, Noticed, Amount

(* One that runs finds the counter changed if there is anything to do.     *)
LEMMA NoticedAlone ==
  ASSUME AllNoticed, NEW t \in Tasks, \A u \in Tasks \ {t} : ~Running(u),
         pc[t] \notin {"tellEmpty", "tellFull"} \/ cv[t] # "idle",
         NEW k \in Kinds, NEW u \in Tasks, pc[u] = WaitAt(k), Amount(k) # 0
  PROVE  cv[u] \in {"wait", "check"} /\ word # old[u]
  <1>1. Noticed(k, u)
    BY DEF AllNoticed
  <1>2. ASSUME NEW v \in Tasks, pc[v] = TellAt(k), cv[v] = "idle" PROVE FALSE
    <2>1. Running(v) /\ pc[v] \in {"tellEmpty", "tellFull"}
      BY <1>2 DEF Running, Waiting, TellAt
    <2> QED BY <1>2, <2>1
  <1> QED BY <1>1, <1>2 DEF Noticed

LEMMA NoticedSync ==
  ASSUME NEW c, Together(c), Settled, Single, AllNoticed, NEW t \in Tasks, Synchronises(t)
  PROVE  AllNoticed'
  <1>a. /\ cv \in [Tasks -> CvStates] /\ old \in [Tasks -> Words] /\ pc \in [Tasks -> PCs]
        /\ InPlace(t) /\ ring' = ring
    BY SettledTypes DEF Synchronises
  <1>b. \A k \in Kinds : Amount(k)' = Amount(k)
    BY <1>a DEF Amount
  \* Nobody else is touched, and t has not been about to tell.
  <1>c. ASSUME word' = word, pc[t] \notin {"tellEmpty", "tellFull"} \/ cv[t] # "idle",
               \A u \in Tasks \ {t} : pc'[u] = pc[u] /\ cv'[u] = cv[u] /\ old'[u] = old[u],
               \A k \in Kinds : Noticed(k, t)'
        PROVE  AllNoticed'
    <2>1. ASSUME NEW k \in Kinds, NEW u \in Tasks \ {t} PROVE Noticed(k, u)'
      <3>1. Noticed(k, u)
        BY DEF AllNoticed
      <3>2. \A v \in Tasks : pc[v] = TellAt(k) /\ cv[v] = "idle" => pc'[v] = pc[v] /\ cv'[v] = cv[v]
        BY <1>c DEF TellAt
      <3>3. /\ pc'[u] = pc[u] /\ cv'[u] = cv[u] /\ old'[u] = old[u] /\ word' = word
            /\ Amount(k)' = Amount(k)
        BY <1>b, <1>c, <2>1
      <3> QED BY <3>1, <3>2, <3>3 DEF Noticed
    <2> QED BY <1>c, <2>1 DEF AllNoticed
  <1>1. CASE WaitOn(t) \/ WaitReturns(t)
    <2>1. Running(t) \/ Turn(t)
      BY <1>1 DEF WaitOn, WaitReturns, Running, CvLoad, CvSleep, CvAgain, CvReturn
    <2>2. \A u \in Tasks \ {t} : ~Running(u)
      BY <2>1, Undisturbed
    <2>3. /\ Waiting(t) /\ word' = word
          /\ \A u \in Tasks \ {t} : pc'[u] = pc[u] /\ cv'[u] = cv[u] /\ old'[u] = old[u]
      BY <1>1, <1>a
         DEF WaitOn, WaitReturns, CvLoad, CvSleep, CvResume, CvAgain, CvReturn, FutexWait,
             FutexResume, CvGoto, Goto, futexVars, queueVars
    <2>4. ASSUME NEW k \in Kinds PROVE Noticed(k, t)'
      <3>1. pc[t] = WaitAt(k) /\ Amount(k) # 0 => cv[t] \in {"wait", "check"} /\ word # old[t]
        BY <2>2, <2>3, NoticedAlone DEF Waiting
      <3>2. CASE CvResume(t) /\ UNCHANGED queueVars
        BY <1>a, <1>b, <3>1, <3>2 DEF CvResume, FutexResume, CvGoto, queueVars, Noticed
      <3>3. CASE (CvLoad(t) \/ CvSleep(t, WaitMask(t)) \/ CvAgain(t)) /\ UNCHANGED queueVars
        <4>1. pc' = pc /\ (cv[t] \in {"idle", "prep"} \/ word = old[t])
          BY <3>3 DEF CvLoad, CvSleep, CvAgain, queueVars
        <4> QED BY <1>b, <3>1, <4>1 DEF Noticed
      <3>4. CASE WaitReturns(t)
        BY <1>a, <3>4 DEF WaitReturns, Goto, Noticed, WaitAt
      <3> QED BY <1>1, <3>2, <3>3, <3>4 DEF WaitOn
    <2> QED BY <1>c, <2>3, <2>4 DEF Waiting
  <1>2. CASE WaitFails(t) \/ Tell(t)
    <2>1. /\ word' = word /\ pc' = [pc EXCEPT ![t] = "out"]
          /\ \A u \in Tasks \ {t} : cv'[u] = cv[u] /\ old'[u] = old[u]
          /\ pc[t] \notin {"tellEmpty", "tellFull"} \/ cv[t] # "idle"
      BY <1>2, <1>a
         DEF WaitFails, Tell, CvCanceled, CvNotify, FutexResume, FutexNotify, CvGoto, Goto, Waiting
    <2>2. \A k \in Kinds : Noticed(k, t)'
      BY <1>a, <2>1 DEF Noticed, WaitAt
    <2> QED BY <1>a, <1>c, <2>1, <2>2
  <1>3. CASE TellBump(t)
    <2>1. /\ Telling(t) /\ cv[t] = "idle" /\ word' = Incremented /\ old' = old /\ pc' = pc
          /\ cv' = [cv EXCEPT ![t] = "bumped"]
      BY <1>3 DEF TellBump, CvBump, CvGoto, queueVars, Telling
    <2>2. \A u \in Tasks : Holding(u) => word' # old[u]
      BY <2>1, IncrementedType DEF Holding
    <2>3. ASSUME NEW k \in Kinds, NEW u \in Tasks, pc[u] = WaitAt(k), Amount(k) # 0
          PROVE  cv'[u] \in {"wait", "check"} /\ word' # old'[u]
      <3>1. cv[u] \in {"wait", "check"}
        BY <2>3 DEF AllNoticed, Noticed
      <3>2. u # t
        BY <2>1, <2>3 DEF Telling, WaitAt
      <3> QED BY <1>a, <2>1, <2>2, <3>1, <3>2 DEF Holding
    <2> QED BY <1>b, <2>1, <2>3 DEF AllNoticed, Noticed
  <1> QED BY <1>1, <1>2, <1>3 DEF Synchronises

LEMMA NoticedNext ==
  ASSUME NEW c, Together(c), EverySuccessTells, ArgKept, Settled, Single, AllNoticed, [Next]_vars
  PROVE  AllNoticed'
  <1>a. /\ pc \in [Tasks -> PCs] /\ \A t \in Tasks : InPlace(t)
        /\ \A k \in Kinds : Amount(k) \in Nat
    BY SettledTypes, AmountIs
  <1>1. ASSUME NEW j \in Kinds, NEW t \in Tasks, Begins(j, t) \/ Misses(j, t) PROVE AllNoticed'
    <2>1. /\ UNCHANGED <<word, cv, old, ring>> /\ pc[t] \in {"out", "pop", "push"}
          /\ \A u \in Tasks \ {t} : pc'[u] = pc[u]
          /\ pc'[t] = j \/ (pc'[t] = WaitAt(j) /\ Amount(j) = 0)
      BY <1>1, <1>a DEF Begins, Misses, Goto, Kinds
    <2>2. \A k \in Kinds : Amount(k)' = Amount(k)
      BY <2>1 DEF Amount
    <2>3. ASSUME NEW k \in Kinds PROVE Noticed(k, t)'
      BY <2>1, <2>2 DEF Noticed, Kinds, WaitAt
    <2>4. ASSUME NEW k \in Kinds, NEW u \in Tasks \ {t} PROVE Noticed(k, u)'
      <3>1. Noticed(k, u)
        BY DEF AllNoticed
      <3>2. \A v \in Tasks : pc[v] = TellAt(k) => pc'[v] = pc[v]
        BY <2>1 DEF TellAt
      <3> QED BY <2>1, <2>2, <3>1, <3>2 DEF Noticed
    <2> QED BY <2>3, <2>4 DEF AllNoticed
  <1>2. ASSUME NEW j \in Kinds, NEW t \in Tasks, Succeeds(j, t), Running(t) \/ Turn(t)
        PROVE  AllNoticed'
    <2>1. /\ UNCHANGED <<word, cv, old>> /\ pc[t] \in {"out", "pop", "push"}
          /\ \A u \in Tasks \ {t} : pc'[u] = pc[u]
          /\ pc'[t] = TellAt(Peer(j))
      BY <1>2, <1>a DEF Succeeds, Goto, Kinds
    <2>2. cv[t] = "idle"
      BY <1>a, <2>1 DEF InPlace, CvPlaces, Waiting, Telling
    <2>3. \A u \in Tasks \ {t} : ~Running(u)
      BY <1>2, Undisturbed
    <2>4. ASSUME NEW k \in Kinds, NEW u \in Tasks, pc'[u] = WaitAt(k), Amount(k)' # 0
          PROVE  /\ cv[u] \in {"wait", "check"}
                 /\ word # old[u] \/ (Amount(k)' = 1 /\ k = Peer(j))
      <3>1. u # t /\ pc[u] = WaitAt(k)
        BY <2>1, <2>4 DEF TellAt, WaitAt
      <3>2. CASE Amount(k) # 0
        BY <2>1, <2>3, <3>1, <3>2, NoticedAlone
      <3>3. CASE Amount(k) = 0
        <4>1. k = Peer(j) /\ Amount(k)' = 1
          BY <1>2, <3>3, KindIs DEF Succeeds
        <4>2. cv[u] = "wait"
          BY <2>3, <3>1 DEF Running, Waiting, WaitAt
        <4> QED BY <4>1, <4>2
      <3> QED BY <3>2, <3>3
    <2> QED BY <2>1, <2>2, <2>4 DEF AllNoticed, Noticed
  <1>3. ASSUME NEW t \in Tasks, Cancel(t) PROVE AllNoticed'
    BY <1>3, NoticedSame DEF Cancel, FutexCancel, queueVars
  <1>4. ASSUME NEW d \in Contexts, Submit(d) PROVE AllNoticed'
    BY <1>4, NoticedSame DEF Submit, FutexSubmit, queueVars
  <1>5. UNCHANGED vars => AllNoticed'
    BY NoticedSame DEF vars, cvVars, futexVars, queueVars
  <1> QED BY <1>1, <1>2, <1>3, <1>4, <1>5, QueueSteps, NoticedSync

-----------------------------------------------------------------------------
(* Counting the wakes on the ring of the thread and those who are on the   *)
(* way to a test of the queue or have somebody to tell.                    *)
Positions(s, e) == {i \in 1..Len(s) : s[i] = e}

WakesOn(c, k) == Positions(sq[c], WakeSqe(FALSE, MaskOf(k)))

Coming(k, t) ==
  \/ pc[t] \in {k, TellAt(k)}
  \/ pc[t] = WaitAt(k) /\ word # old[t] /\ (op[t] = "ok" \/ cv[t] = "check")

Carriers(k) == {t \in Tasks : Coming(k, t)}

Slept(k) == \E t \in Tasks : pc[t] = WaitAt(k) /\ op[t] = "asleep"

(* While somebody sleeps, they are at least as many as there is to do.     *)
Enough(c, k) == Slept(k) => Amount(k) <= Cardinality(WakesOn(c, k)) + Cardinality(Carriers(k))

LEMMA SetCounts ==
  ASSUME NEW A, NEW B, IsFiniteSet(A), IsFiniteSet(B)
  PROVE  /\ A \subseteq B => Cardinality(A) <= Cardinality(B)
         /\ \A t : A \ {t} \subseteq B => Cardinality(A) <= Cardinality(B) + 1
         /\ \A u \in B \ A : A \subseteq B => Cardinality(A) + 1 <= Cardinality(B)
         /\ \A t, u : A \ {t} \subseteq B /\ u \in B \ A => Cardinality(A) <= Cardinality(B)
  <1>1. Cardinality(A) \in Nat /\ Cardinality(B) \in Nat
    BY FS_CardinalityType
  <1>2. A \subseteq B => Cardinality(A) <= Cardinality(B)
    BY FS_Subset
  <1>3. ASSUME NEW t, A \ {t} \subseteq B PROVE Cardinality(A) <= Cardinality(B) + 1
    <2>1. /\ IsFiniteSet(A \ {t})
          /\ Cardinality(A \ {t}) = IF t \in A THEN Cardinality(A) - 1 ELSE Cardinality(A)
      BY FS_RemoveElement
    <2>2. Cardinality(A \ {t}) <= Cardinality(B)
      BY <1>3, FS_Subset
    <2> QED BY <1>1, <2>1, <2>2
  <1>4. ASSUME NEW u \in B \ A, A \subseteq B PROVE Cardinality(A) + 1 <= Cardinality(B)
    <2>1. IsFiniteSet(A \cup {u}) /\ Cardinality(A \cup {u}) = Cardinality(A) + 1
      BY FS_AddElement
    <2>2. A \cup {u} \subseteq B
      BY <1>4
    <2> QED BY <2>1, <2>2, FS_Subset
  <1>5. ASSUME NEW t, NEW u, A \ {t} \subseteq B, u \in B \ A
        PROVE  Cardinality(A) <= Cardinality(B)
    <2>1. /\ IsFiniteSet(A \ {t})
          /\ Cardinality(A \ {t}) = IF t \in A THEN Cardinality(A) - 1 ELSE Cardinality(A)
      BY FS_RemoveElement
    <2>2. /\ IsFiniteSet((A \ {t}) \cup {u})
          /\ Cardinality((A \ {t}) \cup {u}) = Cardinality(A \ {t}) + 1
      BY <1>5, <2>1, FS_AddElement
    <2>3. (A \ {t}) \cup {u} \subseteq B
      BY <1>5
    <2>4. Cardinality((A \ {t}) \cup {u}) <= Cardinality(B)
      BY <2>3, FS_Subset
    <2> QED BY <1>1, <2>1, <2>2, <2>4
  <1> QED BY <1>2, <1>3, <1>4, <1>5

LEMMA PositionsType ==
  ASSUME NEW S, NEW s \in Seq(S), NEW e
  PROVE  IsFiniteSet(Positions(s, e)) /\ Cardinality(Positions(s, e)) \in Nat
  <1>1. IsFiniteSet(1..Len(s))
    BY FS_Interval
  <1>2. Positions(s, e) \subseteq 1..Len(s)
    BY DEF Positions
  <1>3. IsFiniteSet(Positions(s, e))
    BY <1>1, <1>2, FS_Subset
  <1> QED BY <1>3, FS_CardinalityType

LEMMA PositionsAppend ==
  ASSUME NEW S, NEW s \in Seq(S), NEW x \in S, NEW e
  PROVE  /\ Cardinality(Positions(s, e)) <= Cardinality(Positions(Append(s, x), e))
         /\ x = e => Cardinality(Positions(s, e)) + 1 <= Cardinality(Positions(Append(s, x), e))
  <1>1. /\ Append(s, x) \in Seq(S) /\ Len(Append(s, x)) = Len(s) + 1 /\ Len(s) \in Nat
        /\ \A i \in 1..Len(s) : Append(s, x)[i] = s[i]
        /\ Append(s, x)[Len(s) + 1] = x
    OBVIOUS
  <1>2. Positions(s, e) \subseteq Positions(Append(s, x), e)
    BY <1>1 DEF Positions
  <1>3. Len(s) + 1 \notin 1..Len(s) /\ Len(s) + 1 \in 1..(Len(s) + 1)
    BY <1>1
  <1>4. x = e => Len(s) + 1 \in Positions(Append(s, x), e) \ Positions(s, e)
    BY <1>1, <1>3 DEF Positions
  <1>5. IsFiniteSet(Positions(s, e)) /\ IsFiniteSet(Positions(Append(s, x), e))
    BY <1>1, PositionsType
  <1> QED BY <1>2, <1>4, <1>5, SetCounts

LEMMA PositionsTail ==
  ASSUME NEW S, NEW s \in Seq(S), NEW e, s # <<>>
  PROVE  /\ Cardinality(Positions(s, e)) <= Cardinality(Positions(Tail(s), e)) + 1
         /\ Head(s) # e => Cardinality(Positions(s, e)) <= Cardinality(Positions(Tail(s), e))
  <1> DEFINE A == Positions(s, e)
             B == Positions(Tail(s), e)
             f == [i \in A \ {1} |-> i - 1]
  <1>1. /\ Head(s) = s[1] /\ Tail(s) \in Seq(S)
        /\ \A i \in 1..Len(s) : i # 1 => i - 1 \in 1..Len(Tail(s)) /\ Tail(s)[i - 1] = s[i]
    OBVIOUS
  <1>2. /\ IsFiniteSet(A) /\ Cardinality(A) \in Nat
        /\ IsFiniteSet(B) /\ Cardinality(B) \in Nat
    BY <1>1, PositionsType
  <1>3. \A i \in A \ {1} : i \in Int /\ i - 1 \in B
    BY <1>1 DEF Positions
  <1>4. 1 \in A => Head(s) = e
    BY <1>1 DEF Positions
  <1> HIDE DEF A, B
  <1>5. f \in Injection(A \ {1}, B)
    BY <1>3 DEF Injection, IsInjective
  <1> HIDE DEF f
  <1>6. Cardinality(A \ {1}) <= Cardinality(B)
    BY <1>2, <1>5, FS_Injection
  <1>7. Cardinality(A \ {1}) = IF 1 \in A THEN Cardinality(A) - 1 ELSE Cardinality(A)
    BY <1>2, FS_RemoveElement
  <1>8. /\ Cardinality(A) <= Cardinality(B) + 1
        /\ 1 \notin A => Cardinality(A) <= Cardinality(B)
    BY <1>2, <1>6, <1>7
  <1> QED BY <1>4, <1>8 DEF A, B

LEMMA CarriersType ==
  /\ \A k : IsFiniteSet(Carriers(k)) /\ Cardinality(Carriers(k)) \in Nat
  /\ \A k : IsFiniteSet(Carriers(k)') /\ Cardinality(Carriers(k)') \in Nat
  <1>1. \A S \in SUBSET Tasks : IsFiniteSet(S) /\ Cardinality(S) \in Nat
    BY TasksFinite, FS_Subset, FS_CardinalityType
  <1>2. \A k : Carriers(k) \in SUBSET Tasks /\ Carriers(k)' \in SUBSET Tasks
    BY DEF Carriers
  <1> QED BY <1>1, <1>2

(* An entry that is prepared is one more, if it is such a wake; the kernel *)
(* takes at most one away, and that only if it was first.                  *)
LEMMA WakesPrepare ==
  ASSUME Settled, NEW c \in Contexts, NEW d \in Contexts, NEW s \in Sqes, Prepare(d, s), NEW k
  PROVE  /\ Cardinality(WakesOn(c, k)) <= Cardinality(WakesOn(c, k)')
         /\ d = c /\ s = WakeSqe(FALSE, MaskOf(k)) =>
              Cardinality(WakesOn(c, k)) + 1 <= Cardinality(WakesOn(c, k)')
  <1>1. sq[c] \in Seq(Sqes) /\ sq'[c] = IF d = c THEN Append(sq[c], s) ELSE sq[c]
    BY SettledTypes DEF Prepare
  <1>2. WakesOn(c, k)' = Positions(sq'[c], WakeSqe(FALSE, MaskOf(k)))
    BY DEF WakesOn, Positions, WakeSqe, MaskOf
  <1>3. Cardinality(WakesOn(c, k)) \in Nat
    BY <1>1, PositionsType DEF WakesOn
  <1>4. CASE d = c
    BY <1>1, <1>2, <1>4, PositionsAppend DEF WakesOn
  <1>5. CASE d # c
    <2>1. Cardinality(WakesOn(c, k)') = Cardinality(WakesOn(c, k))
      BY <1>1, <1>2, <1>5 DEF WakesOn
    <2>2. Cardinality(WakesOn(c, k)) <= Cardinality(WakesOn(c, k)')
      BY <1>3, <2>1
    <2> QED BY <1>5, <2>2
  <1> QED BY <1>4, <1>5

LEMMA WakesSubmit ==
  ASSUME Settled, NEW c \in Contexts, NEW d \in Contexts, FutexSubmit(d), NEW k
  PROVE  /\ Cardinality(WakesOn(c, k)) <= Cardinality(WakesOn(c, k)') + 1
         /\ d # c \/ Head(sq[d]) # WakeSqe(FALSE, MaskOf(k)) =>
              Cardinality(WakesOn(c, k)) <= Cardinality(WakesOn(c, k)')
  <1>1. sq[c] \in Seq(Sqes) /\ sq[d] # <<>> /\ sq'[c] = IF d = c THEN Tail(sq[c]) ELSE sq[c]
    BY SettledTypes DEF FutexSubmit
  <1>2. WakesOn(c, k)' = Positions(sq'[c], WakeSqe(FALSE, MaskOf(k)))
    BY DEF WakesOn, Positions, WakeSqe, MaskOf
  <1>3. Cardinality(WakesOn(c, k)) \in Nat
    BY <1>1, PositionsType DEF WakesOn
  <1>4. CASE d = c
    BY <1>1, <1>2, <1>4, PositionsTail DEF WakesOn
  <1>5. CASE d # c
    <2>1. Cardinality(WakesOn(c, k)') = Cardinality(WakesOn(c, k))
      BY <1>1, <1>2, <1>5 DEF WakesOn
    <2> QED BY <1>3, <1>5, <2>1
  <1> QED BY <1>4, <1>5

LEMMA WakesSame ==
  ASSUME Settled, NEW c \in Contexts, NEW k, sq' = sq
  PROVE  Cardinality(WakesOn(c, k)) <= Cardinality(WakesOn(c, k)')
  <1>1. sq[c] \in Seq(Sqes)
    BY SettledTypes
  <1>2. WakesOn(c, k)' = WakesOn(c, k)
    BY DEF WakesOn, Positions, WakeSqe, MaskOf
  <1>3. Cardinality(WakesOn(c, k)) \in Nat
    BY <1>1, PositionsType DEF WakesOn
  <1> QED BY <1>2, <1>3

LEMMA CarriersCount ==
  ASSUME NEW k
  PROVE  LET a == Cardinality(Carriers(k))
             b == Cardinality(Carriers(k)')
         IN /\ Carriers(k) \subseteq Carriers(k)' => a <= b
            /\ \A t : Carriers(k) \ {t} \subseteq Carriers(k)' => a + (-1) <= b
            /\ \A u \in Carriers(k)' \ Carriers(k) : Carriers(k) \subseteq Carriers(k)' => a + 1 <= b
            /\ \A t, u : /\ Carriers(k) \ {t} \subseteq Carriers(k)'
                         /\ u \in Carriers(k)' \ Carriers(k)
                        => a <= b
  <1> DEFINE A == Carriers(k)
             B == Carriers(k)'
             a == Cardinality(A)
             b == Cardinality(B)
  <1>1. IsFiniteSet(A) /\ IsFiniteSet(B) /\ a \in Nat /\ b \in Nat
    BY CarriersType
  <1> HIDE DEF A, B
  <1>2. /\ A \subseteq B => a <= b
        /\ \A t : A \ {t} \subseteq B => a <= b + 1
        /\ \A u \in B \ A : A \subseteq B => a + 1 <= b
        /\ \A t, u : A \ {t} \subseteq B /\ u \in B \ A => a <= b
    BY <1>1, SetCounts
  <1>3. a <= b + 1 <=> a + (-1) <= b
    BY <1>1
  <1> QED BY <1>2, <1>3 DEF A, B

(* They stay enough if there is not more to do than there are more of      *)
(* them.                                                                   *)
LEMMA EnoughCounts ==
  ASSUME ArgKept, Settled, Settled', NEW c \in Contexts, NEW k \in Kinds, Enough(c, k),
         Slept(k)' => Slept(k), NEW wakes \in Int, NEW carriers \in Int,
         Cardinality(WakesOn(c, k)) + wakes <= Cardinality(WakesOn(c, k)'),
         Cardinality(Carriers(k)) + carriers <= Cardinality(Carriers(k)'),
         Amount(k)' = Amount(k) + (wakes + carriers)
  PROVE  Enough(c, k)'
  <1> DEFINE W == Cardinality(WakesOn(c, k))
             X == Cardinality(WakesOn(c, k)')
             a == Cardinality(Carriers(k))
             b == Cardinality(Carriers(k)')
             m == Amount(k)
             n == Amount(k)'
  <1>1. /\ sq \in [Contexts -> Seq(Sqes)] /\ sq' \in [Contexts -> Seq(Sqes)]
        /\ a \in Nat /\ b \in Nat /\ m \in Nat
    BY CarriersType, AmountIs DEF Settled, CvTypeOK, FutexTypeOK
  <1>2. W \in Nat /\ X \in Nat
    <2>1. WakesOn(c, k)' = Positions(sq'[c], WakeSqe(FALSE, MaskOf(k)))
      BY DEF WakesOn, Positions, WakeSqe, MaskOf
    <2>2. sq[c] \in Seq(Sqes) /\ sq'[c] \in Seq(Sqes)
      BY <1>1
    <2> QED BY <2>1, <2>2, PositionsType DEF WakesOn
  <1>3. Slept(k)' => m <= W + a
    BY DEF Enough
  <1>4. W + wakes <= X /\ a + carriers <= b /\ n = m + (wakes + carriers)
    OBVIOUS
  <1>5. Enough(c, k)' <=> (Slept(k)' => n <= X + b)
    BY DEF Enough
  <1> HIDE DEF W, X, a, b, m, n
  <1>6. m <= W + a => n <= X + b
    BY <1>1, <1>2, <1>4
  <1> QED BY <1>3, <1>5, <1>6

(* With one of them somebody is enough for one.                            *)
LEMMA EnoughOne ==
  ASSUME Settled', NEW c \in Contexts, NEW k \in Kinds, Amount(k)' <= 1, Amount(k)' \in Nat,
         Amount(k)' = 0 \/ Carriers(k)' # {}
  PROVE  Enough(c, k)'
  <1>1. sq' \in [Contexts -> Seq(Sqes)]
    BY DEF Settled, CvTypeOK, FutexTypeOK
  <1>2. WakesOn(c, k)' = Positions(sq'[c], WakeSqe(FALSE, MaskOf(k)))
    BY DEF WakesOn, Positions, WakeSqe, MaskOf
  <1>3. Cardinality(WakesOn(c, k)') \in Nat
    BY <1>1, <1>2, PositionsType
  <1>4. /\ IsFiniteSet(Carriers(k)') /\ Cardinality(Carriers(k)') \in Nat
        /\ Cardinality(Carriers(k)') = 0 <=> Carriers(k)' = {}
    BY CarriersType, FS_EmptySet
  <1> QED BY <1>3, <1>4 DEF Enough

LEMMA WakesType ==
  ASSUME Settled, NEW c \in Contexts, NEW k
  PROVE  Cardinality(WakesOn(c, k)) \in Nat
  BY SettledTypes, PositionsType DEF WakesOn

LEMMA WakesTypeNext ==
  ASSUME Settled', NEW c \in Contexts, NEW k
  PROVE  Cardinality(WakesOn(c, k)') \in Nat
  <1>1. sq' \in [Contexts -> Seq(Sqes)]
    BY DEF Settled, CvTypeOK, FutexTypeOK
  <1>2. WakesOn(c, k)' = Positions(sq'[c], WakeSqe(FALSE, MaskOf(k)))
    BY DEF WakesOn, Positions, WakeSqe, MaskOf
  <1> QED BY <1>1, <1>2, PositionsType

(* Nothing is lost.                                                        *)
LEMMA EnoughKept ==
  ASSUME ArgKept, Settled, Settled', NEW c \in Contexts, NEW k \in Kinds, Enough(c, k),
         Slept(k)' => Slept(k), Amount(k)' = Amount(k), Carriers(k) \subseteq Carriers(k)',
         Cardinality(WakesOn(c, k)) <= Cardinality(WakesOn(c, k)')
  PROVE  Enough(c, k)'
  <1>1. Cardinality(WakesOn(c, k)) \in Nat /\ Cardinality(Carriers(k)) \in Nat /\ Amount(k) \in Nat
    BY WakesType, CarriersType, AmountIs
  <1>2. Cardinality(Carriers(k)) <= Cardinality(Carriers(k)')
    BY CarriersCount
  <1>3. /\ Cardinality(WakesOn(c, k)) + 0 <= Cardinality(WakesOn(c, k)')
        /\ Cardinality(Carriers(k)) + 0 <= Cardinality(Carriers(k)')
        /\ Amount(k)' = Amount(k) + (0 + 0)
    BY <1>1, <1>2
  <1> QED BY <1>3, EnoughCounts

(* A step of one task that leaves the counter alone changes nothing for    *)
(* the others.                                                             *)
LEMMA ComingOthers ==
  ASSUME NEW t \in Tasks, word' = word,
         \A u \in Tasks \ {t} : pc'[u] = pc[u] /\ cv'[u] = cv[u] /\ old'[u] = old[u] /\ op'[u] = op[u],
         NEW k
  PROVE  /\ \A u \in Tasks \ {t} : u \in Carriers(k) <=> u \in Carriers(k)'
         /\ Slept(k)' => Slept(k) \/ (pc'[t] = WaitAt(k) /\ op'[t] = "asleep")
  BY DEF Carriers, Coming, Slept, WaitAt, TellAt

LEMMA EnoughMoves ==
  ASSUME ArgKept, Settled, Settled', NEW c \in Contexts, NEW k \in Kinds, Enough(c, k),
         NEW j \in Kinds, NEW t \in Tasks, Begins(j, t) \/ Misses(j, t) \/ Succeeds(j, t)
  PROVE  Enough(c, k)'
  <1>1. /\ UNCHANGED <<word, sq, op, cv, old>> /\ pc[t] \in {j, "out"}
        /\ \A u \in Tasks \ {t} : pc'[u] = pc[u]
        /\ pc'[t] \in {j, WaitAt(j), TellAt(Peer(j))} /\ pc \in [Tasks -> PCs] /\ InPlace(t)
    BY SettledTypes DEF Begins, Misses, Succeeds, Goto
  <1>2. op[t] = "none"
    BY <1>1 DEF InPlace, CvPlaces, Waiting, Telling, Kinds
  <1>3. /\ \A u \in Tasks \ {t} : u \in Carriers(k) <=> u \in Carriers(k)'
        /\ Slept(k)' => Slept(k)
    BY <1>1, <1>2, ComingOthers
  <1>4. t \in Carriers(k) => k = j /\ pc[t] = j
    BY <1>1, <1>2 DEF Carriers, Coming, Kinds, TellAt, WaitAt
  <1>5. /\ Cardinality(WakesOn(c, k)) \in Nat /\ Cardinality(Carriers(k)) \in Nat /\ Amount(k) \in Nat
        /\ Cardinality(WakesOn(c, k)) <= Cardinality(WakesOn(c, k)')
    BY <1>1, WakesType, CarriersType, AmountIs, WakesSame
  <1>6. Carriers(k) \subseteq Tasks /\ Carriers(k)' \subseteq Tasks
    BY DEF Carriers
  <1>7. CASE Begins(j, t)
    <2>1. t \notin Carriers(k)
      BY <1>4, <1>7 DEF Begins, Kinds
    <2>2. Carriers(k) \subseteq Carriers(k)' /\ Amount(k)' = Amount(k)
      BY <1>3, <1>6, <1>7, <2>1 DEF Begins, Amount
    <2> QED BY <1>3, <1>5, <2>2, EnoughKept
  <1>8. CASE Misses(j, t)
    <2>1. Amount(k)' = Amount(k)
      BY <1>8 DEF Misses, Amount
    <2>2. CASE k = j
      <3>1. Amount(k)' = 0
        BY <1>8, <2>1, <2>2 DEF Misses
      <3> QED BY <3>1, EnoughOne
    <2>3. CASE k # j
      <3>1. Carriers(k) \subseteq Carriers(k)'
        BY <1>3, <1>4, <1>6, <2>3
      <3> QED BY <1>3, <1>5, <2>1, <3>1, EnoughKept
    <2> QED BY <2>2, <2>3
  <1>9. CASE Succeeds(j, t)
    <2>1. CASE k = j
      <3>1. Carriers(k) \ {t} \subseteq Carriers(k)'
        BY <1>3, <1>6
      <3>2. /\ Cardinality(WakesOn(c, k)) + 0 <= Cardinality(WakesOn(c, k)')
            /\ Cardinality(Carriers(k)) + (-1) <= Cardinality(Carriers(k)')
            /\ Amount(k)' = Amount(k) + (0 + (-1))
        BY <1>5, <1>9, <2>1, <3>1, CarriersCount DEF Succeeds
      <3> QED BY <1>3, <3>2, EnoughCounts
    <2>2. CASE k = Peer(j)
      <3>1. t \in Carriers(k)' \ Carriers(k)
        BY <1>4, <1>9, <2>2, KindIs, SettledTypes DEF Succeeds, Goto, Carriers, Coming
      <3>2. Carriers(k) \subseteq Carriers(k)'
        BY <1>3, <1>6, <3>1
      <3>3. /\ Cardinality(WakesOn(c, k)) + 0 <= Cardinality(WakesOn(c, k)')
            /\ Cardinality(Carriers(k)) + 1 <= Cardinality(Carriers(k)')
            /\ Amount(k)' = Amount(k) + (0 + 1)
        BY <1>5, <1>9, <2>2, <3>1, <3>2, CarriersCount DEF Succeeds
      <3> QED BY <1>3, <3>3, EnoughCounts
    <2> QED BY <2>1, <2>2, KindIs
  <1> QED BY <1>7, <1>8, <1>9

(* Who sleeps waits for the mask of its kind.                              *)
LEMMA SleeperKind ==
  ASSUME Settled, NEW k \in Kinds, NEW u \in Tasks
  PROVE  op[u] = "asleep" =>
           /\ cv[u] = "wait" /\ want[u].val = old[u]
           /\ pc[u] = WaitAt(k) <=> u \in Sleepers(MaskOf(k))
  <1> SUFFICES ASSUME op[u] = "asleep"
               PROVE  /\ cv[u] = "wait" /\ want[u].val = old[u]
                      /\ pc[u] = WaitAt(k) <=> u \in Sleepers(MaskOf(k))
    OBVIOUS
  <1>1. cv[u] = "wait" /\ want[u] = [val |-> old[u], mask |-> WaitMask(u)] /\ Waiting(u)
    BY SettledTypes DEF InPlace, CvPlaces, Telling
  <1>2. u \in Sleepers(MaskOf(k)) <=> WaitMask(u) \cap MaskOf(k) # {}
    BY <1>1 DEF Sleepers
  <1>3. pc[u] = WaitAt(k) <=> WaitMask(u) \cap MaskOf(k) # {}
    BY <1>1 DEF Kinds, WaitAt, WaitMask, MaskOf, Waiting, kNonEmptyMask, kNonFullMask
  <1> QED BY <1>1, <1>2, <1>3

(* A sleeper that is woken for something is one of them from then on.      *)
LEMMA WokenComes ==
  ASSUME Settled, NEW k \in Kinds, NEW u \in Sleepers(MaskOf(k)), op'[u] = "ok",
         word # old[u], UNCHANGED <<word, old>>, pc'[u] = pc[u]
  PROVE  u \in Carriers(k)' \ Carriers(k)
  <1>1. u \in Tasks /\ op[u] = "asleep"
    BY DEF Sleepers
  <1>2. cv[u] = "wait" /\ pc[u] = WaitAt(k)
    BY <1>1, SleeperKind
  <1>3. u \notin Carriers(k)
    BY <1>1, <1>2 DEF Carriers, Coming, WaitAt, TellAt, Kinds
  <1>4. u \in Carriers(k)'
    BY <1>1, <1>2 DEF Carriers, Coming
  <1> QED BY <1>3, <1>4

LEMMA EnoughTell ==
  ASSUME NEW c, Together(c), ArgKept, Settled, Settled', Single, AllNoticed,
         NEW k \in Kinds, Enough(c, k), NEW t \in Tasks, Tell(t)
  PROVE  Enough(c, k)'
  <1> DEFINE j == IF pc[t] = "tellEmpty" THEN "pop" ELSE "push"
  <1>a. /\ c \in Contexts /\ Home[t] = c /\ j \in Kinds /\ pc[t] = TellAt(j)
        /\ ring' = ring /\ pc \in [Tasks -> PCs] /\ cv \in [Tasks -> CvStates]
    BY SettledTypes DEF Together, Tell, Kinds, TellAt
  <1>1. /\ cv[t] = "bumped" /\ FutexNotify(t, FALSE, MaskOf(j)) /\ old' = old
        /\ pc' = [pc EXCEPT ![t] = "out"] /\ cv' = [cv EXCEPT ![t] = "idle"]
    BY DEF Tell, CvNotify, CvGoto, Goto, MaskOf
  <1> HIDE DEF j
  <1>b. MaskOf(j) \in SUBSET Bits /\ FutexTypeOK(Words) /\ FALSE \in BOOLEAN
    BY <1>a, KindIs, SettledTypes
  <1>2. /\ \A u \in Tasks : op'[u] # op[u] => op[u] = "asleep" /\ op'[u] = "ok"
        /\ SyncWake /\ Sleepers(MaskOf(j)) # {} => \E u \in Sleepers(MaskOf(j)) : op'[u] = "ok"
        /\ word' = word /\ WakeSqe(FALSE, MaskOf(j)) \in Sqes
    <2>1. /\ \A u \in Tasks : op'[u] # op[u] => op[u] = "asleep" /\ op'[u] = "ok"
          /\ SyncWake /\ Sleepers(MaskOf(j)) # {} => \E u \in Sleepers(MaskOf(j)) : op'[u] = "ok"
      BY <1>1, <1>b, NotifyEffect
    <2>2. word' = word
      BY <1>1 DEF FutexNotify
    <2> QED BY <1>b, <2>1, <2>2, SqeTypes
  <1>3. /\ ~SyncWake => Prepare(c, WakeSqe(FALSE, MaskOf(j)))
        /\ SyncWake => sq' = sq
    BY <1>a, <1>1 DEF FutexNotify
  <1>4. Slept(k)' => Slept(k)
    BY <1>a, <1>1, <1>2 DEF Slept, WaitAt
  <1>5. Carriers(k) \ {t} \subseteq Carriers(k)'
    <2> SUFFICES ASSUME NEW u \in Tasks \ {t}, Coming(k, u) PROVE Coming(k, u)'
      BY DEF Carriers
    <2>1. op[u] = "ok" => op'[u] = "ok"
      BY <1>2
    <2> QED BY <1>a, <1>1, <1>2, <2>1 DEF Coming
  <1>6. /\ Cardinality(WakesOn(c, k)) \in Nat /\ Cardinality(Carriers(k)) \in Nat /\ Amount(k) \in Nat
        /\ Cardinality(WakesOn(c, k)) <= Cardinality(WakesOn(c, k)')
        /\ Amount(k)' = Amount(k)
    BY <1>a, <1>2, <1>3, WakesType, CarriersType, AmountIs, WakesSame, WakesPrepare DEF Amount
  <1>7. CASE k # j
    <2>1. t \notin Carriers(k)
      BY <1>a, <1>7 DEF Carriers, Coming, Kinds, TellAt, WaitAt
    <2> QED BY <1>4, <1>5, <1>6, <2>1, <1>a, EnoughKept
  <1>8. CASE k = j /\ ~SyncWake
    <2>1. Cardinality(WakesOn(c, k)) + 1 <= Cardinality(WakesOn(c, k)')
      BY <1>a, <1>2, <1>3, <1>8, WakesPrepare
    <2>2. /\ Cardinality(Carriers(k)) + (-1) <= Cardinality(Carriers(k)')
          /\ Amount(k)' = Amount(k) + (1 + (-1))
      BY <1>5, <1>6, CarriersCount
    <2> QED BY <1>a, <1>4, <2>1, <2>2, EnoughCounts
  <1>9. CASE k = j /\ SyncWake
    <2>1. CASE ~Slept(k)
      BY <1>4, <2>1 DEF Enough
    <2>2. CASE Amount(k) = 0
      BY <1>a, <1>6, <2>2, EnoughOne
    <2>3. CASE Slept(k) /\ Amount(k) # 0
      <3>1. Sleepers(MaskOf(j)) # {}
        BY <1>9, <2>3, SleeperKind DEF Slept
      <3>2. PICK u \in Sleepers(MaskOf(k)) : op'[u] = "ok"
        BY <1>2, <1>9, <3>1
      <3>3. u \in Tasks /\ op[u] = "asleep"
        BY DEF Sleepers
      <3>4. pc[u] = WaitAt(k) /\ u # t
        BY <1>a, <3>3, SleeperKind DEF WaitAt, TellAt
      <3>5. \A v \in Tasks \ {t} : ~Running(v)
        <4>1. Running(t)
          BY <1>a DEF Running, Waiting, TellAt
        <4> QED BY <4>1, Undisturbed
      <3>6. word # old[u]
        BY <1>1, <2>3, <3>3, <3>4, <3>5, NoticedAlone
      <3>7. u \in Carriers(k)' \ Carriers(k)
        BY <1>1, <1>2, <3>2, <3>3, <3>4, <3>6, <1>a, WokenComes
      <3>8. /\ Cardinality(Carriers(k)) + 0 <= Cardinality(Carriers(k)')
            /\ Cardinality(WakesOn(c, k)) + 0 <= Cardinality(WakesOn(c, k)')
            /\ Amount(k)' = Amount(k) + (0 + 0)
        BY <1>5, <1>6, <3>7, CarriersCount
      <3> QED BY <1>a, <1>4, <3>8, EnoughCounts
    <2> QED BY <2>1, <2>2, <2>3
  <1> QED BY <1>7, <1>8, <1>9


(* A step of a task inside wait() or a notify leaves enough of them.       *)
LEMMA EnoughSync ==
  ASSUME NEW c, Together(c), ArgKept, Settled, Settled', Single, AllNoticed,
         NEW k \in Kinds, Enough(c, k), NEW t \in Tasks, Synchronises(t)
  PROVE  Enough(c, k)'
  <1>a. /\ c \in Contexts /\ Home[t] = c /\ ring' = ring /\ InPlace(t) /\ WaitSqe(t) \in Sqes
        /\ pc \in [Tasks -> PCs] /\ cv \in [Tasks -> CvStates] /\ old \in [Tasks -> Words]
        /\ op \in [Tasks -> OpStates]
    BY SettledTypes, SqeTypes DEF Together, Synchronises
  <1>b. Amount(k)' = Amount(k)
    BY <1>a DEF Amount
  <1>c. ASSUME sq' = sq \/ Prepare(c, WaitSqe(t))
        PROVE  Cardinality(WakesOn(c, k)) <= Cardinality(WakesOn(c, k)')
    BY <1>a, <1>c, WakesSame, WakesPrepare
  <1>d. ASSUME word' = word, sq' = sq \/ Prepare(c, WaitSqe(t)),
               \A u \in Tasks \ {t} :
                 pc'[u] = pc[u] /\ cv'[u] = cv[u] /\ old'[u] = old[u] /\ op'[u] = op[u],
               op'[t] # "asleep", Coming(k, t) => Coming(k, t)'
        PROVE  Enough(c, k)'
    <2>1. /\ \A u \in Tasks \ {t} : u \in Carriers(k) <=> u \in Carriers(k)'
          /\ Slept(k)' => Slept(k)
      BY <1>d, ComingOthers
    <2>2. Carriers(k) \subseteq Carriers(k)'
      BY <1>d, <2>1 DEF Carriers
    <2> QED BY <1>a, <1>b, <1>c, <1>d, <2>1, <2>2, EnoughKept
  <1>1. CASE WaitOn(t)
    <2>1. Waiting(t) /\ pc' = pc
      BY <1>1 DEF WaitOn, queueVars
    <2>2. CASE CvLoad(t) \/ CvAgain(t)
      <3>1. /\ UNCHANGED <<word, sq, op>> /\ op[t] = "none"
            /\ \A u \in Tasks \ {t} : cv'[u] = cv[u] /\ old'[u] = old[u]
            /\ cv[t] = "idle" \/ word = old[t]
        BY <1>a, <2>2 DEF CvLoad, CvAgain, CvGoto, futexVars, InPlace
      <3>2. ~Coming(k, t)
        BY <2>1, <3>1 DEF Coming, Waiting, Kinds, TellAt
      <3> QED BY <1>d, <2>1, <3>1, <3>2
    <2>3. CASE CvSleep(t, WaitMask(t))
      <3>1. /\ cv[t] = "prep" /\ op[t] = "none" /\ UNCHANGED <<word, old>>
            /\ Prepare(c, WaitSqe(t)) /\ op' = [op EXCEPT ![t] = "queued"]
            /\ cv' = [cv EXCEPT ![t] = "wait"]
        BY <1>a, <2>3 DEF CvSleep, FutexWait, CvGoto
      <3>2. ~Coming(k, t)
        BY <2>1, <3>1 DEF Coming, Waiting, Kinds, TellAt
      <3> QED BY <1>a, <1>d, <2>1, <3>1, <3>2
    <2>4. CASE CvResume(t)
      <3>1. /\ UNCHANGED <<word, sq, old>> /\ op' = [op EXCEPT ![t] = "none"]
            /\ cv' = [cv EXCEPT ![t] = "check"]
        BY <2>4 DEF CvResume, FutexResume, CvGoto
      <3>2. Coming(k, t) => Coming(k, t)'
        BY <1>a, <2>1, <3>1 DEF Coming
      <3> QED BY <1>a, <1>d, <2>1, <3>1, <3>2
    <2> QED BY <1>1, <2>2, <2>3, <2>4 DEF WaitOn
  <1>2. CASE WaitReturns(t)
    <2>1. /\ Waiting(t) /\ UNCHANGED <<word, sq, op>> /\ op[t] = "none"
          /\ pc' = [pc EXCEPT ![t] = IF pc[t] = "popwait" THEN "pop" ELSE "push"]
          /\ cv' = [cv EXCEPT ![t] = "idle"] /\ old' = [old EXCEPT ![t] = 0]
      BY <1>2, <1>a DEF WaitReturns, CvReturn, CvGoto, Goto, futexVars, InPlace
    <2>2. Coming(k, t) => Coming(k, t)'
      BY <1>a, <2>1 DEF Coming, Waiting, Kinds, TellAt, WaitAt
    <2> QED BY <1>a, <1>d, <2>1, <2>2
  <1>3. CASE WaitFails(t)
    <2>1. /\ Waiting(t) /\ UNCHANGED <<word, sq>> /\ op[t] = "canceled" /\ cv[t] = "wait"
          /\ op' = [op EXCEPT ![t] = "none"] /\ pc' = [pc EXCEPT ![t] = "out"]
          /\ cv' = [cv EXCEPT ![t] = "idle"] /\ old' = [old EXCEPT ![t] = 0]
      BY <1>3 DEF WaitFails, CvCanceled, FutexResume, CvGoto, Goto
    <2>2. ~Coming(k, t)
      BY <2>1 DEF Coming, Waiting, Kinds, TellAt
    <2> QED BY <1>a, <1>d, <2>1, <2>2
  <1>4. CASE TellBump(t)
    <2>1. /\ Telling(t) /\ cv[t] = "idle" /\ word' = Incremented
          /\ UNCHANGED <<old, pc, sq, op>> /\ cv' = [cv EXCEPT ![t] = "bumped"]
      BY <1>4 DEF TellBump, CvBump, CvGoto, queueVars, Telling
    <2>2. \A u \in Tasks : Holding(u) => word' # old[u]
      BY <2>1, IncrementedType DEF Holding
    <2>3. ASSUME NEW u \in Tasks, Coming(k, u) PROVE Coming(k, u)'
      <3>1. CASE pc[u] \in {k, TellAt(k)}
        BY <2>1, <3>1 DEF Coming
      <3>2. CASE pc[u] = WaitAt(k) /\ (op[u] = "ok" \/ cv[u] = "check")
        <4>1. u # t
          BY <2>1, <3>2 DEF Telling, WaitAt
        <4>2. Holding(u)
          BY <3>2, SettledTypes DEF InPlace, Holding
        <4> QED BY <1>a, <2>1, <2>2, <3>2, <4>1, <4>2 DEF Coming
      <3> QED BY <2>3, <3>1, <3>2 DEF Coming
    <2>4. Carriers(k) \subseteq Carriers(k)' /\ (Slept(k)' => Slept(k))
      BY <2>1, <2>3 DEF Carriers, Slept
    <2> QED BY <1>a, <1>b, <1>c, <2>1, <2>4, EnoughKept
  <1>5. CASE Tell(t)
    BY <1>5, EnoughTell
  <1> QED BY <1>1, <1>2, <1>3, <1>4, <1>5 DEF Synchronises

(* Nor does a cancellation take any away.                                  *)
LEMMA ComingSame ==
  ASSUME UNCHANGED <<word, op, pc, cv, old>>, NEW k
  PROVE  Carriers(k) \subseteq Carriers(k)' /\ (Slept(k)' => Slept(k))
  BY DEF Carriers, Coming, Slept

LEMMA EnoughCancel ==
  ASSUME NEW c, Together(c), ArgKept, Settled, Settled',
         NEW k \in Kinds, Enough(c, k), NEW t \in Tasks, Cancel(t)
  PROVE  Enough(c, k)'
  <1>1. /\ UNCHANGED <<word, op, pc, cv, old, ring>> /\ Prepare(c, CancelSqe(t))
        /\ c \in Contexts
    BY DEF Cancel, FutexCancel, queueVars, Together
  <1>2. Amount(k)' = Amount(k)
    BY <1>1 DEF Amount
  <1> QED BY <1>1, <1>2, ComingSame, WakesPrepare, SqeTypes, EnoughKept

(* The kernel wakes a sleeper for every wake it takes, and puts nobody to  *)
(* sleep unless the one success there was is about to change the counter.  *)
LEMMA EnoughSubmit ==
  ASSUME NEW c, Together(c), ArgKept, Settled, Settled', AllNoticed,
         NEW k \in Kinds, Enough(c, k), NEW d \in Contexts, Submit(d)
  PROVE  Enough(c, k)'
  <1>1. /\ FutexSubmit(d) /\ UNCHANGED <<word, cv, old, pc, ring, want>> /\ c \in Contexts
    BY DEF Submit, FutexSubmit, queueVars, Together
  <1>2. Amount(k)' = Amount(k) /\ Amount(k) \in Nat
    BY <1>1, AmountIs DEF Amount
  <1>a. FutexTypeOK(Words) /\ WaitsOwned
    BY SettledTypes
  <1>3. /\ \A u \in Tasks : op'[u] # op[u] =>
             \/ /\ Head(sq[d]) = WaitSqe(u) /\ op[u] = "queued"
                /\ op'[u] = IF word = want[u].val THEN "asleep" ELSE "ok"
             \/ op[u] = "asleep"
        /\ Head(sq[d]).kind = "wake" =>
             (Sleepers(Head(sq[d]).mask) # {} =>
                \E u \in Sleepers(Head(sq[d]).mask) : op'[u] = "ok")
    BY <1>1, <1>a, KernelEffect
  <1>4. Carriers(k) \subseteq Carriers(k)'
    <2> SUFFICES ASSUME NEW u \in Tasks, Coming(k, u) PROVE Coming(k, u)'
      BY DEF Carriers
    <2>1. op[u] = "ok" => op'[u] = "ok"
      BY <1>3
    <2> QED BY <1>1, <2>1 DEF Coming
  <1>5. \A u \in Tasks : Noticed(k, u)
    BY DEF AllNoticed
  <1>6. \A u \in Tasks : pc[u] = TellAt(k) => u \in Carriers(k)'
    BY <1>1 DEF Carriers, Coming
  <1>7. CASE \E u \in Tasks : pc[u] = WaitAt(k) /\ Amount(k) # 0 /\ word = old[u]
    <2>1. Amount(k) = 1 /\ Carriers(k)' # {}
      BY <1>5, <1>6, <1>7 DEF Noticed
    <2> QED BY <1>1, <1>2, <2>1, EnoughOne
  <1>8. CASE Amount(k) = 0
    BY <1>1, <1>2, <1>8, EnoughOne
  <1>9. CASE Amount(k) # 0 /\ \A u \in Tasks : pc[u] = WaitAt(k) => word # old[u]
    <2>1. Slept(k)' => Slept(k)
      <3> SUFFICES ASSUME NEW u \in Tasks, pc[u] = WaitAt(k), op'[u] = "asleep"
                   PROVE  op[u] = "asleep"
        BY <1>1 DEF Slept
      <3>1. op[u] = "queued" => want[u].val = old[u]
        BY SettledTypes DEF InPlace
      <3>2. word # old[u]
        BY <1>9
      <3> QED BY <1>3, <3>1, <3>2
    <2>2. CASE d # c \/ Head(sq[d]) # WakeSqe(FALSE, MaskOf(k))
      <3>1. Cardinality(WakesOn(c, k)) <= Cardinality(WakesOn(c, k)')
        BY <1>1, <2>2, WakesSubmit
      <3> QED BY <1>1, <1>2, <1>4, <2>1, <3>1, EnoughKept
    <2>3. CASE d = c /\ Head(sq[d]) = WakeSqe(FALSE, MaskOf(k))
      <3>1. CASE ~Slept(k)
        BY <2>1, <3>1 DEF Enough
      <3>2. CASE Slept(k)
        <4>1. Sleepers(MaskOf(k)) # {}
          BY <3>2, SleeperKind DEF Slept
        <4>2. PICK u \in Sleepers(MaskOf(k)) : op'[u] = "ok"
          BY <1>3, <2>3, <4>1 DEF WakeSqe
        <4>3. u \in Tasks /\ op[u] = "asleep"
          BY DEF Sleepers
        <4>4. pc[u] = WaitAt(k)
          BY <4>3, SleeperKind
        <4>5. u \in Carriers(k)' \ Carriers(k)
          BY <1>1, <1>9, <4>2, <4>3, <4>4, WokenComes
        <4>6. /\ Cardinality(WakesOn(c, k)) \in Nat /\ Cardinality(WakesOn(c, k)') \in Nat
              /\ Cardinality(Carriers(k)) + 1 <= Cardinality(Carriers(k)')
              /\ Cardinality(WakesOn(c, k)) <= Cardinality(WakesOn(c, k)') + 1
          BY <1>1, <1>4, <4>5, CarriersCount, WakesType, WakesTypeNext, WakesSubmit
        <4>7. /\ Cardinality(WakesOn(c, k)) + (-1) <= Cardinality(WakesOn(c, k)')
              /\ Amount(k)' = Amount(k) + ((-1) + 1)
          BY <1>2, <4>6
        <4> QED BY <1>1, <2>1, <4>6, <4>7, EnoughCounts
      <3> QED BY <3>1, <3>2
    <2> QED BY <2>2, <2>3
  <1> QED BY <1>7, <1>8, <1>9

-----------------------------------------------------------------------------
(* The queue of one thread: everybody is in place, one task runs, who      *)
(* waits beside work has noticed, and enough of them are on the way.       *)
QueueCalm(c) ==
  /\ ArgKept /\ Settled /\ Single /\ AllNoticed
  /\ \A k \in Kinds : Enough(c, k)

LEMMA CalmInit ==
  ASSUME NEW c
  PROVE  Init => QueueCalm(c)
  <1> SUFFICES ASSUME Init PROVE QueueCalm(c)
    OBVIOUS
  <1>1. \A t \in Tasks : pc[t] = "out"
    BY DEF Init
  <1>2. AllNoticed
    BY <1>1 DEF AllNoticed, Noticed, WaitAt
  <1>3. \A k \in Kinds : Enough(c, k)
    BY <1>1 DEF Enough, Slept, WaitAt
  <1> QED BY <1>2, <1>3, InitKept, SettledInit, SingleInit DEF QueueCalm

LEMMA CalmNext ==
  ASSUME NEW c, Together(c), EverySuccessTells, QueueCalm(c), [Next]_vars
  PROVE  QueueCalm(c)'
  <1>a. ArgKept /\ Settled /\ Single /\ AllNoticed /\ \A k \in Kinds : Enough(c, k)
    BY DEF QueueCalm
  <1>b. ArgKept' /\ Settled' /\ Single' /\ AllNoticed' /\ c \in Contexts
    BY <1>a, NextKept, SettledNext, SingleNext, NoticedNext DEF Together
  <1>1. ASSUME NEW k \in Kinds PROVE Enough(c, k)'
    <2>1. Enough(c, k)
      BY <1>a
    <2>2. ASSUME NEW j \in Kinds, NEW t \in Tasks, Begins(j, t) \/ Misses(j, t) \/ Succeeds(j, t)
          PROVE  Enough(c, k)'
      BY <1>a, <1>b, <2>1, <2>2, EnoughMoves
    <2>3. ASSUME NEW t \in Tasks, Synchronises(t) \/ Cancel(t) PROVE Enough(c, k)'
      BY <1>a, <1>b, <2>1, <2>3, EnoughSync, EnoughCancel
    <2>4. ASSUME NEW d \in Contexts, Submit(d) PROVE Enough(c, k)'
      BY <1>a, <1>b, <2>1, <2>4, EnoughSubmit
    <2>5. CASE UNCHANGED vars
      <3>1. UNCHANGED <<word, sq, op, cv, old, pc, ring>>
        BY <2>5 DEF vars, cvVars, futexVars, queueVars
      <3>2. Amount(k)' = Amount(k)
        BY <3>1 DEF Amount
      <3> QED BY <1>a, <1>b, <2>1, <3>1, <3>2, ComingSame, WakesSame, EnoughKept
    <2> QED BY <1>a, <2>2, <2>3, <2>4, <2>5, QueueSteps
  <1> QED BY <1>b, <1>1 DEF QueueCalm

(* Enough of them are more than none.                                      *)
LEMMA CalmServes ==
  ASSUME NEW c, Together(c), QueueCalm(c)
  PROVE  NoStrandedPopper /\ NoStrandedPusher
  <1>a. ArgKept /\ Settled /\ c \in Contexts /\ \A k \in Kinds : Enough(c, k)
    BY DEF QueueCalm, Together
  <1>1. ASSUME NEW k \in Kinds, Amount(k) # 0, Slept(k)
        PROVE  OnTheWay(WaitAt(k), k, TellAt(k), MaskOf(k))
    <2>1. Amount(k) \in Nat /\ Amount(k) <= Cardinality(WakesOn(c, k)) + Cardinality(Carriers(k))
      BY <1>a, <1>1, AmountIs DEF Enough
    <2>2. WakesOn(c, k) # {} \/ Carriers(k) # {}
      BY <1>1, <2>1, FS_EmptySet
    <2>3. CASE WakesOn(c, k) # {}
      <3>1. PICK i \in 1..Len(sq[c]) : sq[c][i] = WakeSqe(FALSE, MaskOf(k))
        BY <2>3 DEF WakesOn, Positions
      <3> QED BY <1>a, <3>1 DEF OnTheWay, WakeSqe
    <2>4. CASE Carriers(k) # {}
      <3>1. PICK t \in Tasks : Coming(k, t)
        BY <2>4 DEF Carriers
      <3> QED BY <3>1 DEF Coming, OnTheWay
    <2> QED BY <2>2, <2>3, <2>4
  <1>2. NoStrandedPopper
    BY <1>a, <1>1, AmountIs DEF NoStrandedPopper, Slept, Kinds, WaitAt, TellAt, MaskOf
  <1>3. NoStrandedPusher
    BY <1>a, <1>1, AmountIs DEF NoStrandedPusher, Slept, Kinds, WaitAt, TellAt, MaskOf
  <1> QED BY <1>2, <1>3

(* No popper sleeps on a queue that holds a value with nobody on the way   *)
(* to take it, however many tasks share it, if they are coroutines of one  *)
(* thread and every success of the queue notifies.                         *)
THEOREM PoppersServed ==
  ASSUME NEW c, Together(c), EverySuccessTells
  PROVE  Spec => []NoStrandedPopper
  <1>1. Init => QueueCalm(c)
    BY CalmInit
  <1>2. QueueCalm(c) /\ [Next]_vars => QueueCalm(c)'
    BY CalmNext
  <1>3. QueueCalm(c) => NoStrandedPopper
    BY CalmServes
  <1> QED BY <1>1, <1>2, <1>3, PTL DEF Spec

(* And no pusher sleeps on one that has room.                              *)
THEOREM PushersServed ==
  ASSUME NEW c, Together(c), EverySuccessTells
  PROVE  Spec => []NoStrandedPusher
  <1>1. Init => QueueCalm(c)
    BY CalmInit
  <1>2. QueueCalm(c) /\ [Next]_vars => QueueCalm(c)'
    BY CalmNext
  <1>3. QueueCalm(c) => NoStrandedPusher
    BY CalmServes
  <1> QED BY <1>1, <1>2, <1>3, PTL DEF Spec

-----------------------------------------------------------------------------
(* The pipe: where its two coroutines are in the queue and in its          *)
(* condition variable.                                                     *)
Two == {Reader, Writer}
Other(t) == IF t = Reader THEN Writer ELSE Reader

(* Reader and writer are coroutines of one thread.                         *)
OneThread == Home[Reader] = Home[Writer]

Places(t) ==
  IF t = Reader THEN {"out", "pop", "popwait", "tellFull"}
  ELSE IF t = Writer THEN {"out", "push", "pushwait", "tellEmpty"} ELSE {"out"}

(* Each is where its calls bring it.                                       *)
Placed(t) == pc[t] \in Places(t) /\ InPlace(t)

Coupled == Settled /\ \A t \in Tasks : Placed(t)

(* What a step of the pipe does to the queue, besides the steps of the     *)
(* queue itself: a coroutine starts a pop or a push, or ~OPipeStream       *)
(* stores the end.                                                         *)
Starts(t) ==
  /\ pc[t] = "out"
  /\ Goto(t, IF t = Reader THEN "pop" ELSE "push")
  /\ canceled' = canceled \/ FreshToken(t)
  /\ UNCHANGED <<word, sq, op, want, cv, old, ring>>

Announces ==
  /\ pc[Writer] = "out" /\ ~RingFull(ring)
  /\ Goto(Writer, IF RingEmpty(ring) THEN "tellEmpty" ELSE "out")
  /\ UNCHANGED cvVars

Quiet == UNCHANGED <<cvVars, ring, pc>>

(* Its own tells that it goes on: the two are never at it at once.         *)
BackOf(t) == pc[t] = "out" /\ IF t = Reader THEN Reading ELSE Writing

LEMMA BackIs == PipeQueue => (Back <=> BackOf(Reader) \/ BackOf(Writer))
  BY DEF PipeQueue, Back, BackOf

(* The constants of the queue between the streams.                         *)
LEMMA PipeTasks ==
  ASSUME PipeQueue
  PROVE  /\ Reader \in Tasks /\ Writer \in Tasks /\ Reader # Writer
         /\ Other(Reader) = Writer /\ Other(Writer) = Reader
         /\ \A t \in Two : t \in Tasks /\ Other(t) \in Two /\ Other(t) # t
         /\ kNonEmptyMask \in SUBSET Bits /\ kNonFullMask \in SUBSET Bits
  BY QueueAssumption DEF PipeQueue, Two, Other, kNonEmptyMask, kNonFullMask

(* What the writer does once a push has succeeded, one case each.          *)
LEMMA PushedCases ==
  ASSUME Pushed
  PROVE  /\ pc[Writer] = "out" /\ UNCHANGED <<sent, readerVars, harm>>
         /\ \/ /\ wop = "put" /\ Len(rest) <= BufSize
               /\ wop' = "idle" /\ out' = rest /\ rest' = <<>> /\ UNCHANGED vars
            \/ /\ wop = "put" /\ ~(Len(rest) <= BufSize) /\ rop = "closed"
               /\ out' = SubSeq(rest, 1, BufSize)
               /\ rest' = SubSeq(rest, BufSize + 1, Len(rest))
               /\ wop' = "idle" /\ UNCHANGED vars
            \/ /\ wop = "put" /\ ~(Len(rest) <= BufSize) /\ rop # "closed"
               /\ out' = SubSeq(rest, 1, BufSize)
               /\ rest' = SubSeq(rest, BufSize + 1, Len(rest))
               /\ wop' = "put" /\ PushAgain(out')
            \/ wop = "flush" /\ wop' = "idle" /\ out' = <<>> /\ UNCHANGED <<rest, vars>>
            \/ wop = "write" /\ wop' = "idle" /\ UNCHANGED <<out, rest, vars>>
            \/ wop = "close" /\ wop' = "closed" /\ UNCHANGED <<out, rest, vars>>
  <1>1. pc[Writer] = "out" /\ UNCHANGED <<sent, readerVars, harm>>
    BY DEF Pushed
  <1>2. CASE wop = "put"
    BY <1>2 DEF Pushed
  <1>3. CASE wop = "flush"
    BY <1>3 DEF Pushed
  <1>4. CASE wop = "write"
    BY <1>4 DEF Pushed
  <1>5. CASE wop = "close"
    BY <1>5 DEF Pushed
  <1> QED BY <1>1, <1>2, <1>3, <1>4, <1>5 DEF Pushed, Writing

(* The lengths the calls are made for are all in 1..MaxPut.                *)
LEMMA CallLengths ==
  ASSUME PipeStep
  PROVE  \/ \E n \in 1..MaxPut : Put(n) \/ Write(n)
         \/ \E n \in 1..MaxPut : Get(n) \/ ReadSpan(n) \/ Peek(n)
         \/ Flush \/ Close \/ Destroy \/ Forward \/ CloseReader
         \/ Pushed \/ PushFails \/ Popped \/ PopFails
  <1>1. /\ Lengths.put \subseteq 1..MaxPut /\ Lengths.write \subseteq 1..MaxPut
        /\ Lengths.get \subseteq 1..MaxPut /\ Lengths.read \subseteq 1..MaxPut
        /\ Lengths.peek \subseteq 1..MaxPut
    BY PipeAssumption
  <1> QED BY <1>1 DEF PipeStep

(* What the reader does with what pop() has returned, one case each.       *)
LEMMA PoppedMoves ==
  ASSUME Popped
  PROVE  /\ Reading /\ pc[Reader] = "out"
         /\ UNCHANGED <<ring, arg, cvVars, writerVars>>
         /\ \/ UNCHANGED pc /\ rop' \in {"eof", "idle"}
            \/ Goto(Reader, "pop") /\ rop' = rop
  BY DEF Popped, Filled

(* The steps of the pipe, as the queue and its condition variable see      *)
(* them: a task that runs, or that its thread may resume, moves.           *)
LEMMA PipeMoves ==
  ASSUME PipeQueue, [PipeNext]_pipeVars
  PROVE  \/ Quiet
         \/ \E t \in Two : Starts(t) /\ (Turn(t) \/ BackOf(t))
         \/ Announces /\ Turn(Writer)
         \/ \E t \in Two : WaitFails(t)
         \/ \E t \in Tasks : Progress(t) \/ Cancel(t)
         \/ \E c \in Contexts : Submit(c)
  <1> USE DEF Two
  <1>1. CASE UNCHANGED pipeVars
    BY <1>1 DEF pipeVars, vars, queueVars, Quiet
  <1>2. ASSUME NEW t \in Tasks, Goes(t) \/ Queue(Cancel(t))
        PROVE  Progress(t) \/ Cancel(t)
    BY <1>2 DEF Goes, Queue
  <1>3. ASSUME NEW c \in Contexts, Queue(Submit(c)) PROVE Submit(c)
    BY <1>3 DEF Queue
  <1>4. ASSUME NEW v, CallPush(Writer, v)
        PROVE  Starts(Writer) /\ Turn(Writer)
    BY <1>4, PipeTasks DEF CallPush, Starts
  <1>5. CallPop(Reader) => Starts(Reader) /\ Turn(Reader)
    BY DEF CallPop, Starts
  <1>6. UNCHANGED vars => Quiet
    BY DEF vars, queueVars, Quiet
  <1>7. ASSUME NEW w, NEW v, RawWrite(w, v)
        PROVE  Quiet \/ (Starts(Writer) /\ Turn(Writer))
    BY <1>4, <1>6, <1>7 DEF RawWrite
  <1>8. ASSUME NEW n \in 1..MaxPut, Put(n) \/ Write(n)
        PROVE  Quiet \/ (Starts(Writer) /\ Turn(Writer))
    BY <1>6, <1>7, <1>8 DEF Put, Write, Store
  <1>9. ASSUME NEW n \in 1..MaxPut, Get(n) \/ ReadSpan(n) \/ Peek(n)
        PROVE  Quiet \/ (Starts(Reader) /\ Turn(Reader))
    BY <1>5, <1>6, <1>9 DEF Get, ReadSpan, Peek, RawRead
  <1>10. Flush \/ Close => Quiet \/ (Starts(Writer) /\ Turn(Writer))
    BY <1>6, <1>7 DEF Flush, Close
  <1>11. Destroy => Quiet \/ (Announces /\ Turn(Writer))
    BY <1>6 DEF Destroy, Announces
  <1>12. Forward => Starts(Reader) /\ Turn(Reader)
    BY <1>5 DEF Forward, RawRead
  <1>13. CloseReader => Quiet
    BY <1>6 DEF CloseReader
  <1>14. ASSUME NEW v, PushAgain(v), Pushed PROVE Starts(Writer) /\ BackOf(Writer)
    BY <1>14, PipeTasks DEF PushAgain, Pushed, Starts, BackOf, cvVars, futexVars
  <1>15. Pushed => Quiet \/ (Starts(Writer) /\ BackOf(Writer))
    <2> SUFFICES ASSUME Pushed PROVE Quiet \/ (Starts(Writer) /\ BackOf(Writer))
      OBVIOUS
    <2>1. UNCHANGED vars \/ PushAgain(out')
      BY PushedCases
    <2> QED BY <1>6, <1>14, <2>1
  <1>16. Popped => Quiet \/ (Starts(Reader) /\ BackOf(Reader))
    BY PoppedMoves DEF Starts, BackOf, cvVars, futexVars, Quiet
  <1>17. PushFails => WaitFails(Writer)
    BY DEF PushFails
  <1>18. PopFails => WaitFails(Reader)
    BY DEF PopFails
  <1> QED
    BY <1>1, <1>2, <1>3, <1>8, <1>9, <1>10, <1>11, <1>12, <1>13, <1>15, <1>16, <1>17, <1>18,
       CallLengths DEF PipeNext

LEMMA CoupledInit == PipeQueue /\ PipeInit => Coupled
  <1> SUFFICES ASSUME PipeInit PROVE Coupled
    OBVIOUS
  <1>1. Settled
    BY SettledInit DEF PipeInit
  <1>2. \A t \in Tasks : pc[t] = "out"
    BY DEF PipeInit, Init
  <1> QED BY <1>1, <1>2 DEF Coupled, Settled, Placed, Places

(* Every step keeps the types of the queue's synchronisation and who is    *)
(* where in it.                                                            *)
LEMMA CoupledStep ==
  ASSUME PipeQueue, Coupled, [PipeNext]_pipeVars
  PROVE  Coupled'
  <1>a. Settled /\ pc \in [Tasks -> PCs] /\ \A t \in Tasks : Placed(t)
    BY DEF Coupled, Settled
  <1>b. ASSUME Settled', pc' = pc PROVE Coupled'
    BY <1>a, <1>b DEF Coupled, Settled, Placed, Places
  <1>c. ASSUME Settled', NEW t \in Tasks, NEW l \in Places(t), Goto(t, l) PROVE Coupled'
    BY <1>a, <1>c DEF Coupled, Settled, Placed, Places, Goto
  <1>1. CASE Quiet
    BY <1>1, <1>a, <1>b, SettledQuiet DEF Quiet
  <1>2. ASSUME NEW t \in Two, Starts(t) PROVE Coupled'
    <2> DEFINE l == IF t = Reader THEN "pop" ELSE "push"
    <2>1. t \in Tasks /\ canceled' \in [Tasks -> BOOLEAN]
      BY <1>2, <1>a, PipeTasks, SettledTypes DEF Starts, FreshToken
    <2>2. l \in Places(t) /\ l \in PCs
      BY PipeTasks DEF Two, Places, PCs
    <2>3. /\ Goto(t, l) /\ pc[t] \in {"out", "pop", "push"}
          /\ UNCHANGED <<word, sq, op, want, cv, old>>
      BY <1>2 DEF Starts
    <2> HIDE DEF l
    <2>4. Settled'
      BY <1>a, <2>1, <2>2, <2>3, SettledMove
    <2> QED BY <1>c, <2>1, <2>2, <2>3, <2>4
  <1>3. CASE Announces
    <2>1. Writer \in Tasks /\ {"tellEmpty", "out"} \subseteq Places(Writer) \cap PCs
      BY PipeTasks DEF Places, PCs
    <2>2. /\ pc[Writer] \in {"out", "pop", "push"}
          /\ UNCHANGED <<word, sq, op, want, canceled, cv, old>>
      BY <1>3 DEF Announces, cvVars, futexVars
    <2>3. PICK l \in {"tellEmpty", "out"} : Goto(Writer, l)
      BY <1>3 DEF Announces
    <2>4. Settled'
      BY <1>a, <2>1, <2>2, <2>3, SettledMove, SettledTypes
    <2> QED BY <1>c, <2>1, <2>3, <2>4
  <1>4. ASSUME NEW t \in Tasks, Progress(t) \/ (t \in Two /\ WaitFails(t)) PROVE Coupled'
    <2>1. Settled'
      BY <1>4, <1>a, SettledProgress
    <2>2. pc[t] \in Places(t)
      BY <1>a DEF Placed
    <2>3. CASE PopEmpty(t) \/ PopTake(t) \/ PushFull(t) \/ PushStore(t)
      <3>1. \E l \in Places(t) : Goto(t, l)
        BY <2>2, <2>3, PipeTasks DEF PopEmpty, PopTake, PushFull, PushStore, Places
      <3> QED BY <1>c, <2>1, <3>1
    <2>4. CASE WaitReturns(t) \/ WaitFails(t) \/ Tell(t)
      <3>1. \E l \in Places(t) : Goto(t, l)
        BY <2>2, <2>4, PipeTasks DEF WaitReturns, WaitFails, Tell, Waiting, Places
      <3> QED BY <1>c, <2>1, <3>1
    <2>5. CASE WaitOn(t) \/ TellBump(t)
      BY <1>b, <2>1, <2>5 DEF WaitOn, TellBump, queueVars
    <2> QED BY <1>4, <2>3, <2>4, <2>5 DEF Progress
  <1>5. ASSUME NEW t \in Tasks, Cancel(t) PROVE Coupled'
    BY <1>5, <1>a, <1>b, SettledCancel DEF Cancel, queueVars
  <1>6. ASSUME NEW c \in Contexts, Submit(c) PROVE Coupled'
    BY <1>6, <1>a, <1>b, SettledSubmit DEF Submit, queueVars
  <1>7. \A t \in Two : t \in Tasks
    BY PipeTasks
  <1> QED BY PipeMoves, <1>1, <1>2, <1>3, <1>4, <1>5, <1>6, <1>7

-----------------------------------------------------------------------------
(* On one thread only one of the two runs, and neither while the answer of *)
(* the queue is acted upon.                                                *)
Alone ==
  /\ ~(Running(Reader) /\ Running(Writer))
  /\ Back => ~Running(Reader) /\ ~Running(Writer)
  /\ ~(BackOf(Reader) /\ BackOf(Writer))

LEMMA TurnAlone ==
  ASSUME PipeQueue, OneThread, NEW t \in Two, Turn(t)
  PROVE  ~Running(Other(t))
  BY PipeTasks DEF Turn, OneThread, Two

LEMMA RunsAlone ==
  ASSUME PipeQueue, Alone, NEW t \in Two, Running(t) \/ BackOf(t)
  PROVE  ~Running(Other(t))
  BY PipeTasks, BackIs DEF Alone, Two

(* Whoever moves runs, or is resumed by its thread.                        *)
LEMMA ProgressAlone ==
  ASSUME PipeQueue, OneThread, Coupled, Alone, NEW t \in Tasks, Progress(t)
  PROVE  /\ t \in Two /\ ~Running(Other(t))
         /\ pc'[Other(t)] = pc[Other(t)] /\ cv'[Other(t)] = cv[Other(t)]
  <1>1. Placed(t) /\ cv \in [Tasks -> CvStates] /\ pc \in [Tasks -> PCs]
    BY DEF Coupled, Settled, CvTypeOK
  <1>2. pc[t] # "out"
    BY DEF Progress, PopEmpty, PopTake, PushFull, PushStore, WaitOn, WaitReturns, TellBump, Tell,
           Waiting
  <1>3. t \in Two
    BY <1>1, <1>2 DEF Placed, InPlace, Places, Two
  <1>4. Running(t) \/ Turn(t)
    BY DEF Progress, PopEmpty, PopTake, PushFull, PushStore, WaitOn, WaitReturns, TellBump, Tell,
           Running, Waiting, CvLoad, CvSleep, CvAgain, CvReturn
  <1>5. ~Running(Other(t))
    BY <1>3, <1>4, TurnAlone, RunsAlone
  <1>6. ASSUME NEW u \in Tasks \ {t} PROVE pc'[u] = pc[u] /\ cv'[u] = cv[u]
    BY <1>1, <1>6
       DEF Progress, PopEmpty, PopTake, PushFull, PushStore, WaitOn, WaitReturns, TellBump, Tell,
           CvLoad, CvSleep, CvResume, CvAgain, CvReturn, CvBump, CvNotify, CvGoto, Goto,
           cvVars, queueVars
  <1> QED BY <1>3, <1>5, <1>6, PipeTasks

LEMMA AloneInit == PipeQueue /\ PipeInit => Alone
  BY DEF PipeQueue, PipeInit, Init, Alone, Running, Waiting, Back, BackOf, Reading, Writing

LEMMA AloneStep ==
  ASSUME PipeQueue, OneThread, Coupled, Alone, [PipeNext]_pipeVars
  PROVE  Alone'
  <1>a. /\ Reader \in Two /\ Writer \in Two /\ Other(Reader) = Writer /\ Other(Writer) = Reader
        /\ Reader \in Tasks /\ Writer \in Tasks /\ Reader # Writer
        /\ cv \in [Tasks -> CvStates] /\ pc \in [Tasks -> PCs]
    BY PipeTasks DEF Two, Coupled, Settled, CvTypeOK
  <1>b. /\ Back <=> BackOf(Reader) \/ BackOf(Writer)
        /\ (Back <=> BackOf(Reader) \/ BackOf(Writer))'
    BY BackIs DEF Back, BackOf, PipeQueue
  <1>h. ASSUME NEW t \in Two, ~Running(Other(t)), ~BackOf(Other(t))',
               pc'[Other(t)] = pc[Other(t)], cv'[Other(t)] = cv[Other(t)]
        PROVE  Alone'
    <2>1. ~Running(Other(t))'
      BY <1>h DEF Running, Waiting
    <2>2. BackOf(t)' => ~Running(t)'
      BY DEF BackOf, Running, Waiting
    <2> QED BY <1>a, <1>b, <1>h, <2>1, <2>2 DEF Alone, Two
  <1>q. ASSUME pc' = pc, cv' = cv, ~Back' PROVE Alone'
    <2>1. Running(Reader)' = Running(Reader) /\ Running(Writer)' = Running(Writer)
      BY <1>q DEF Running, Waiting
    <2> QED BY <1>b, <1>q, <2>1 DEF Alone
  <1>v. /\ UNCHANGED vars => pc' = pc /\ cv' = cv
        /\ UNCHANGED cvVars => cv' = cv
        /\ UNCHANGED readerVars => rop' = rop
        /\ UNCHANGED writerVars => wop' = wop
    BY DEF vars, queueVars, cvVars, readerVars, writerVars
  <1>w. ASSUME WriterRuns, rop' = rop,
               \/ UNCHANGED vars /\ wop' = wop
               \/ \E w, v : RawWrite(w, v)
        PROVE  Alone'
    <2>1. ~Back /\ Turn(Writer) /\ pc[Writer] = "out" /\ wop = "idle"
      BY <1>w DEF WriterRuns
    <2>2. CASE UNCHANGED vars /\ wop' \in {wop, "idle"}
      BY <1>q, <1>v, <1>w, <2>1, <2>2 DEF Back, Reading, Writing
    <2>3. ASSUME NEW v, CallPush(Writer, v) PROVE Alone'
      <3>1. pc'[Reader] = pc[Reader] /\ cv' = cv
        BY <1>a, <2>3 DEF CallPush, Goto
      <3>2. ~BackOf(Reader)'
        BY <1>b, <1>w, <2>1, <3>1 DEF BackOf, Reading
      <3> QED BY <1>a, <1>h, <2>1, <3>1, <3>2, TurnAlone
    <2> QED BY <1>w, <2>1, <2>2, <2>3 DEF RawWrite
  <1>r. ASSUME ReaderRuns, wop' = wop, (UNCHANGED vars /\ rop' = rop) \/ CallPop(Reader)
        PROVE  Alone'
    <2>1. ~Back /\ Turn(Reader) /\ pc[Reader] = "out" /\ rop = "idle"
      BY <1>r DEF ReaderRuns
    <2>2. CASE UNCHANGED vars /\ rop' = rop
      BY <1>q, <1>v, <1>r, <2>1, <2>2 DEF Back, Reading, Writing
    <2>3. CASE CallPop(Reader)
      <3>1. pc'[Writer] = pc[Writer] /\ cv' = cv
        BY <1>a, <2>3 DEF CallPop, Goto
      <3>2. ~BackOf(Writer)'
        BY <1>a, <1>b, <1>r, <2>1, <3>1 DEF BackOf, Writing
      <3> QED BY <1>a, <1>h, <2>1, <3>1, <3>2, TurnAlone
    <2> QED BY <1>r, <2>2, <2>3
  <1>1. CASE UNCHANGED pipeVars
    <2>1. pc' = pc /\ cv' = cv /\ rop' = rop /\ wop' = wop
      BY <1>1, <1>v DEF pipeVars
    <2> QED BY <2>1 DEF Alone, Running, Waiting, Back, BackOf, Reading, Writing
  <1>2. ASSUME NEW n \in 1..MaxPut, Put(n) \/ Write(n) PROVE Alone'
    <2>1. CASE Put(n)
      <3>1. WriterRuns /\ rop' = rop
        BY <2>1, <1>v DEF Put
      <3>2. (UNCHANGED vars /\ wop' = wop) \/ \E w, v : RawWrite(w, v)
        BY <2>1, <3>1 DEF Put, Store, WriterRuns
      <3> QED BY <1>w, <3>1, <3>2
    <2>2. CASE Write(n)
      <3>1. WriterRuns /\ rop' = rop
        BY <2>2, <1>v DEF Write
      <3> QED BY <1>w, <2>2, <3>1 DEF Write
    <2> QED BY <1>2, <2>1, <2>2
  <1>3. CASE Flush \/ Close
    <2>1. WriterRuns /\ rop' = rop
      BY <1>3, <1>v DEF Flush, Close
    <2>2. (UNCHANGED vars /\ wop' = wop) \/ \E w, v : RawWrite(w, v)
      BY <1>3 DEF Flush, Close
    <2> QED BY <1>w, <2>1, <2>2
  <1>4. CASE Destroy
    <2>1. /\ ~Back /\ Turn(Writer) /\ pc[Writer] = "out" /\ rop' = rop
          /\ wop' \in {"gone", "silent"} /\ cv' = cv
          /\ pc' = pc \/ \E l \in PCs : Goto(Writer, l)
      BY <1>4, <1>v DEF Destroy, PCs
    <2>2. pc'[Reader] = pc[Reader]
      BY <1>a, <2>1 DEF Goto
    <2>3. ~BackOf(Reader)'
      BY <1>b, <2>1, <2>2 DEF BackOf, Reading
    <2> QED BY <1>a, <1>h, <2>1, <2>2, <2>3, TurnAlone
  <1>5. CASE Pushed
    <2>1. BackOf(Writer) /\ pc[Writer] = "out"
      BY <1>5, <1>a DEF Pushed, BackOf
    <2>2. /\ rop' = rop /\ cv' = cv
          /\ pc' = pc \/ \E v : PushAgain(v)
      BY <1>5, <1>v, PushedCases DEF PushAgain
    <2>3. pc'[Reader] = pc[Reader]
      BY <1>a, <2>2 DEF PushAgain, Goto
    <2>4. ~BackOf(Reader)'
      BY <1>a, <2>1, <2>2, <2>3 DEF Alone, BackOf, Reading
    <2> QED BY <1>a, <1>h, <2>1, <2>2, <2>3, <2>4, RunsAlone
  <1>6. CASE PushFails
    <2>1. /\ ~Back /\ Turn(Writer) /\ rop' = rop /\ pc' = [pc EXCEPT ![Writer] = "out"]
          /\ cv' = [cv EXCEPT ![Writer] = "idle"]
      BY <1>6, <1>v DEF PushFails, WaitFails, CvCanceled, CvGoto, Goto
    <2>2. pc'[Reader] = pc[Reader] /\ cv'[Reader] = cv[Reader]
      BY <1>a, <2>1
    <2>3. ~BackOf(Reader)'
      BY <1>b, <2>1, <2>2 DEF BackOf, Reading
    <2> QED BY <1>a, <1>h, <2>1, <2>2, <2>3, TurnAlone
  <1>7. ASSUME NEW n \in 1..MaxPut, Get(n) \/ ReadSpan(n) \/ Peek(n) PROVE Alone'
    <2>1. ReaderRuns /\ wop' = wop
      BY <1>7, <1>v DEF Get, ReadSpan, Peek
    <2> QED BY <1>7, <1>r, <2>1 DEF Get, ReadSpan, Peek, RawRead
  <1>8. CASE Forward
    <2>1. ReaderRuns /\ wop' = wop
      BY <1>8, <1>v DEF Forward
    <2> QED BY <1>8, <1>r, <2>1 DEF Forward, RawRead
  <1>9. CASE Popped
    <2>1. BackOf(Reader) /\ pc[Reader] = "out" /\ wop' = wop /\ cv' = cv
          /\ (pc' = pc \/ Goto(Reader, "pop"))
      BY <1>9, <1>v, PoppedMoves DEF BackOf, cvVars
    <2>2. pc'[Writer] = pc[Writer]
      BY <1>a, <2>1 DEF Goto
    <2>3. ~BackOf(Writer)'
      BY <1>a, <2>1, <2>2 DEF Alone, BackOf, Writing
    <2> QED BY <1>a, <1>h, <2>1, <2>2, <2>3, RunsAlone
  <1>10. CASE PopFails
    <2>1. /\ ~Back /\ Turn(Reader) /\ wop' = wop /\ pc' = [pc EXCEPT ![Reader] = "out"]
          /\ cv' = [cv EXCEPT ![Reader] = "idle"]
      BY <1>10, <1>v DEF PopFails, WaitFails, CvCanceled, CvGoto, Goto
    <2>2. pc'[Writer] = pc[Writer] /\ cv'[Writer] = cv[Writer]
      BY <1>a, <2>1
    <2>3. ~BackOf(Writer)'
      BY <1>a, <1>b, <2>1, <2>2 DEF BackOf, Writing
    <2> QED BY <1>a, <1>h, <2>1, <2>2, <2>3, TurnAlone
  <1>11. CASE CloseReader
    BY <1>11, <1>q, <1>v DEF CloseReader, Back, Reading, Writing
  <1>12. ASSUME NEW t \in Tasks, Goes(t) PROVE Alone'
    <2>1. Progress(t) /\ ~Back /\ rop' = rop /\ wop' = wop
      BY <1>12, <1>v DEF Goes, Queue
    <2>2. /\ t \in Two /\ ~Running(Other(t))
          /\ pc'[Other(t)] = pc[Other(t)] /\ cv'[Other(t)] = cv[Other(t)]
      BY <2>1, ProgressAlone
    <2>3. ~BackOf(Other(t))'
      BY <1>a, <1>b, <2>1, <2>2 DEF BackOf, Reading, Writing, Two
    <2> QED BY <1>h, <2>2, <2>3
  <1>13. ASSUME NEW t \in Tasks, Queue(Cancel(t)) PROVE Alone'
    BY <1>13, <1>q, <1>v DEF Queue, Cancel, queueVars, Back, Reading, Writing
  <1>14. ASSUME NEW c \in Contexts, Queue(Submit(c)) PROVE Alone'
    BY <1>14, <1>q, <1>v DEF Queue, Submit, queueVars, Back, Reading, Writing
  <1> QED
    BY <1>1, <1>2, <1>3, <1>4, <1>5, <1>6, <1>7, <1>8, <1>9, <1>10, <1>11, <1>12, <1>13, <1>14,
       CallLengths DEF PipeNext

-----------------------------------------------------------------------------
(* There is something to do for t: a chunk to pop, or room to push.        *)
Stocked(t) == IF t = Reader THEN ~RingEmpty(ring) ELSE ~RingFull(ring)

TheMask(t) == IF t = Reader THEN kNonEmptyMask ELSE kNonFullMask

(* Who waits although there is something to do is suspended, or woken, and *)
(* the counter has left the value it loaded or is about to.                *)
Seen(t) ==
  Waiting(t) /\ Stocked(t) =>
    /\ cv[t] \in {"wait", "check"}
    /\ word # old[t] \/ (Telling(Other(t)) /\ cv[Other(t)] = "idle")

(* Who sleeps on a counter that has changed has a wake on its way.         *)
Heard(t) ==
  op[t] = "asleep" /\ word # old[t] =>
    Queued(WakeSqe(FALSE, TheMask(t))) \/ (Telling(Other(t)) /\ cv[Other(t)] = "bumped")

Awake == \A t \in Two : Seen(t) /\ Heard(t)

(* A wake for one of the two can reach only that one.                      *)
LEMMA OnlySleeper ==
  ASSUME PipeQueue, Coupled, NEW t \in Two, NEW u \in Sleepers(TheMask(t))
  PROVE  u = t
  <1>1. u \in Tasks /\ op[u] = "asleep" /\ want[u].mask \cap TheMask(t) # {}
    BY DEF Sleepers
  <1>2. Placed(u)
    BY <1>1 DEF Coupled, Settled
  <1>3. cv[u] = "wait" /\ want[u].mask = WaitMask(u)
    BY <1>1, <1>2 DEF Placed, InPlace
  <1>4. Waiting(u)
    BY <1>2, <1>3 DEF Placed, InPlace, CvPlaces, Telling
  <1>5. u \in Two /\ WaitMask(u) = TheMask(u)
    BY <1>2, <1>4, PipeTasks DEF Placed, InPlace, Places, Waiting, WaitMask, TheMask, Two
  <1>6. TheMask(u) \cap TheMask(t) # {} => u = t
    BY <1>5 DEF TheMask, Two, kNonEmptyMask, kNonFullMask
  <1> QED BY <1>1, <1>3, <1>5, <1>6

(* While t only moves on in the queue, and neither tells nor waits, the    *)
(* other one is as it was.                                                 *)
LEMMA AwakeMove ==
  ASSUME PipeQueue, Coupled, Awake, NEW t \in Two,
         UNCHANGED <<word, ring>>, op'[Other(t)] = op[Other(t)],
         \A s : Queued(s) => Queued(s)',
         \A u \in Tasks \ {t} : pc'[u] = pc[u] /\ cv'[u] = cv[u] /\ old'[u] = old[u],
         ~Telling(t) /\ ~Telling(t)',
         Seen(t)', op'[t] # "asleep"
  PROVE  Awake'
  <1> DEFINE o == Other(t)
  <1>1. o \in Two /\ o \in Tasks \ {t} /\ Other(o) = t /\ t \in Tasks /\ Two = {t, o}
    BY PipeTasks DEF Two
  <1>2. Seen(o) /\ Heard(o) /\ (Stocked(o)' <=> Stocked(o)) /\ (Waiting(o)' <=> Waiting(o))
    BY <1>1 DEF Awake, Stocked, Waiting
  <1> HIDE DEF o
  <1>3. Seen(o)'
    BY <1>1, <1>2 DEF Seen
  <1>4. Heard(o)'
    BY <1>1, <1>2 DEF Heard, o
  <1>5. Heard(t)'
    BY DEF Heard
  <1> QED BY <1>1, <1>3, <1>4, <1>5 DEF Awake

(* The ring changes while t runs: what the other one waits for is there    *)
(* only if the counter has changed, or t is on its way to change it.       *)
LEMMA AwakeTouch ==
  ASSUME PipeQueue, Coupled, Awake, NEW t \in Two, ~Running(Other(t)),
         UNCHANGED cvVars, pc[t] \in {"out", "pop", "push"},
         NEW l, Goto(t, l), l \notin {"popwait", "pushwait"},
         Stocked(Other(t)) \/ l \in {"tellEmpty", "tellFull"}
  PROVE  Awake'
  <1> DEFINE o == Other(t)
  <1>1. o \in Two /\ o \in Tasks \ {t} /\ Other(o) = t /\ t \in Tasks /\ Two = {t, o}
    BY PipeTasks DEF Two
  <1>2. /\ UNCHANGED <<word, sq, op, cv, old>> /\ Placed(t) /\ pc \in [Tasks -> PCs]
        /\ Seen(o) /\ Heard(o)
    BY <1>1 DEF cvVars, futexVars, Coupled, Settled, Awake
  <1> HIDE DEF o
  <1>3. cv[t] = "idle" /\ op[t] = "none" /\ ~Telling(t)
    BY <1>2 DEF Placed, InPlace, CvPlaces, Waiting, Telling
  <1>4. pc'[t] = l /\ pc'[o] = pc[o]
    BY <1>1, <1>2 DEF Goto
  <1>5. Seen(t)' /\ Heard(t)'
    BY <1>2, <1>3, <1>4 DEF Seen, Heard, Waiting
  <1>6. Heard(o)'
    BY <1>1, <1>2, <1>3 DEF Heard, Queued
  <1>7. Seen(o)'
    <2> SUFFICES ASSUME Waiting(o) PROVE Seen(o)'
      BY <1>4 DEF Seen, Waiting
    <2>1. cv'[o] = "wait"
      BY <1>2 DEF Running, o
    <2>2. CASE Telling(t)'
      BY <1>1, <1>2, <1>3, <2>1, <2>2 DEF Seen
    <2>3. CASE ~Telling(t)'
      <3>1. Stocked(o)
        BY <1>4, <2>3 DEF Telling, o
      <3>2. word # old[o]
        BY <1>1, <1>2, <1>3, <3>1 DEF Seen
      <3> QED BY <1>2, <2>1, <3>2 DEF Seen
    <2> QED BY <2>2, <2>3
  <1> QED BY <1>1, <1>5, <1>6, <1>7 DEF Awake

(* Who runs inside its wait() finds nothing to do: the test it has made    *)
(* still holds, since the other one has not run.                           *)
LEMMA NothingToDo ==
  ASSUME PipeQueue, Awake, NEW t \in Two, Waiting(t), ~Running(Other(t)),
         cv[t] \in {"idle", "prep"} \/ (cv[t] = "check" /\ word = old[t])
  PROVE  ~Stocked(t)
  <1>1. Seen(t) /\ ~Telling(Other(t))
    BY DEF Awake, Running, Waiting, Telling
  <1> QED BY <1>1 DEF Seen

(* Every step keeps that.                                                  *)
LEMMA AwakeStep ==
  ASSUME PipeQueue, OneThread, Coupled, Alone, Awake, [PipeNext]_pipeVars
  PROVE  Awake'
  <1>a. /\ FutexTypeOK(Words) /\ WaitsOwned /\ \A t \in Tasks : Placed(t)
        /\ cv \in [Tasks -> CvStates] /\ old \in [Tasks -> Words] /\ pc \in [Tasks -> PCs]
    BY DEF Coupled, Settled, CvTypeOK
  <1>b. /\ sq \in [Contexts -> Seq(Sqes)] /\ op \in [Tasks -> OpStates]
        /\ want \in [Tasks -> [val : Words, mask : SUBSET Bits]]
    BY <1>a DEF FutexTypeOK
  <1>c. \A t \in Two : t \in Tasks /\ Other(t) \in Two /\ Other(t) \in Tasks \ {t}
                       /\ Other(Other(t)) = t /\ Two = {t, Other(t)}
    BY PipeTasks DEF Two
  <1>d. UNCHANGED cvVars => UNCHANGED <<word, sq, op, want, canceled, cv, old>>
    BY DEF cvVars, futexVars
  <1>e. sq' = sq => \A s : Queued(s) <=> Queued(s)'
    BY DEF Queued
  <1>1. CASE Quiet
    <2>1. UNCHANGED <<word, sq, op, cv, old, pc, ring>>
      BY <1>1, <1>d DEF Quiet
    <2>2. \A t \in Two : Seen(t)'
      BY <2>1 DEF Awake, Seen, Waiting, Stocked, Telling
    <2>3. \A t \in Two : Heard(t)'
      BY <1>e, <2>1 DEF Awake, Heard, Telling
    <2> QED BY <2>2, <2>3 DEF Awake
  <1>2. ASSUME NEW t \in Two, Starts(t) PROVE Awake'
    <2>1. Placed(t)
      BY <1>a, <1>c
    <2>2. cv[t] = "idle" /\ op[t] = "none"
      BY <1>2, <2>1 DEF Starts, Placed, InPlace, CvPlaces, Waiting, Telling
    <2>3. pc'[t] \in {"pop", "push"} /\ \A u \in Tasks \ {t} : pc'[u] = pc[u]
      BY <1>2, <1>a, <1>c DEF Starts, Goto
    <2>4. ~Telling(t) /\ ~Telling(t)' /\ Seen(t)' /\ op'[t] # "asleep"
      BY <1>2, <2>2, <2>3 DEF Starts, Telling, Seen, Waiting
    <2> QED BY <1>2, <1>c, <1>e, <2>3, <2>4, AwakeMove DEF Starts
  <1>3. CASE Announces /\ Turn(Writer)
    <2> DEFINE l == IF RingEmpty(ring) THEN "tellEmpty" ELSE "out"
    <2>1. ~Running(Other(Writer)) /\ Writer \in Two /\ Other(Writer) = Reader
      BY <1>3, TurnAlone, PipeTasks DEF Two
    <2>2. Goto(Writer, l) /\ pc[Writer] \in {"out", "pop", "push"} /\ UNCHANGED cvVars
      BY <1>3 DEF Announces
    <2>3. l \notin {"popwait", "pushwait"} /\ (Stocked(Reader) \/ l \in {"tellEmpty", "tellFull"})
      BY DEF Stocked
    <2> HIDE DEF l
    <2> QED BY <2>1, <2>2, <2>3, AwakeTouch
  <1>4. ASSUME NEW t \in Two, ~Running(Other(t)), PopTake(t) \/ PushStore(t) PROVE Awake'
    <2>1. CASE PopTake(t)
      <3> DEFINE l == IF AlwaysNotify \/ RingFull(ring) THEN "tellFull" ELSE "out"
      <3>1. Goto(t, l) /\ pc[t] \in {"out", "pop", "push"} /\ UNCHANGED cvVars
        BY <2>1 DEF PopTake
      <3>2. t = Reader
        BY <1>a, <1>c, <2>1 DEF PopTake, Placed, InPlace, Places
      <3>3. l \notin {"popwait", "pushwait"}
            /\ (Stocked(Other(t)) \/ l \in {"tellEmpty", "tellFull"})
        BY <3>2, PipeTasks DEF Stocked
      <3> HIDE DEF l
      <3> QED BY <1>4, <3>1, <3>3, AwakeTouch
    <2>2. CASE PushStore(t)
      <3> DEFINE l == IF AlwaysNotify \/ RingEmpty(ring) THEN "tellEmpty" ELSE "out"
      <3>1. Goto(t, l) /\ pc[t] \in {"out", "pop", "push"} /\ UNCHANGED cvVars
        BY <2>2 DEF PushStore
      <3>2. t = Writer
        BY <1>a, <1>c, <2>2, PipeTasks DEF PushStore, Placed, InPlace, Places, Two
      <3>3. l \notin {"popwait", "pushwait"}
            /\ (Stocked(Other(t)) \/ l \in {"tellEmpty", "tellFull"})
        BY <3>2, PipeTasks DEF Stocked
      <3> HIDE DEF l
      <3> QED BY <1>4, <3>1, <3>3, AwakeTouch
    <2> QED BY <1>4, <2>1, <2>2
  <1>5. ASSUME NEW t \in Two, PopEmpty(t) \/ PushFull(t) PROVE Awake'
    <2>1. Placed(t) /\ pc[t] \in {"pop", "push"} /\ UNCHANGED cvVars /\ ring' = ring
      BY <1>5, <1>a, <1>c DEF PopEmpty, PushFull
    <2>2. cv[t] = "idle" /\ op[t] = "none" /\ ~Telling(t)
      BY <2>1 DEF Placed, InPlace, CvPlaces, Waiting, Telling
    <2>3. ~Stocked(t)'
      BY <1>5, <2>1, PipeTasks DEF PopEmpty, PushFull, Stocked, Two, Placed, InPlace, Places
    <2>4. pc'[t] \in {"popwait", "pushwait"} /\ \A u \in Tasks \ {t} : pc'[u] = pc[u]
      BY <1>5, <1>a, <1>c DEF PopEmpty, PushFull, Goto
    <2>5. ~Telling(t)' /\ Seen(t)' /\ op'[t] # "asleep"
      BY <1>d, <2>1, <2>2, <2>3, <2>4 DEF Telling, Seen
    <2> QED BY <1>c, <1>d, <1>e, <2>1, <2>2, <2>4, <2>5, AwakeMove
  <1>6. ASSUME NEW t \in Two, ~Running(Other(t)), Waiting(t), UNCHANGED queueVars,
               CvLoad(t) \/ CvAgain(t)
        PROVE  Awake'
    <2>1. /\ Placed(t) /\ pc' = pc /\ ring' = ring /\ UNCHANGED <<word, sq, op>>
          /\ cv[t] = "idle" \/ (cv[t] = "check" /\ word = old[t])
          /\ \A u \in Tasks \ {t} : cv'[u] = cv[u] /\ old'[u] = old[u]
      BY <1>6, <1>a, <1>c DEF CvLoad, CvAgain, CvGoto, futexVars, queueVars
    <2>2. op[t] = "none" /\ ~Telling(t)
      BY <1>6, <2>1 DEF Placed, InPlace, Waiting, Telling
    <2>3. ~Stocked(t)'
      BY <1>6, <2>1, NothingToDo DEF Stocked
    <2>4. ~Telling(t)' /\ Seen(t)' /\ op'[t] # "asleep"
      BY <2>1, <2>2, <2>3 DEF Telling, Seen
    <2> QED BY <1>c, <1>e, <2>1, <2>2, <2>4, AwakeMove
  <1>7. ASSUME NEW t \in Two, ~Running(Other(t)), Waiting(t), UNCHANGED queueVars,
               CvSleep(t, WaitMask(t))
        PROVE  Awake'
    <2>1. /\ pc' = pc /\ ring' = ring /\ word' = word /\ cv[t] = "prep" /\ old' = old
          /\ Prepare(Home[t], WaitSqe(t)) /\ op' = [op EXCEPT ![t] = "queued"]
          /\ \A u \in Tasks \ {t} : cv'[u] = cv[u]
      BY <1>7, <1>a, <1>c DEF CvSleep, CvGoto, FutexWait, queueVars
    <2>2. \A s : Queued(s) => Queued(s)'
      BY <1>b, <1>c, <2>1, FutexAssumption, SqeTypes, PrepareQueued
    <2>3. ~Stocked(t)'
      BY <1>7, <2>1, NothingToDo DEF Stocked
    <2>4. ~Telling(t) /\ ~Telling(t)' /\ Seen(t)' /\ op'[t] # "asleep" /\ op'[Other(t)] = op[Other(t)]
      BY <1>7, <1>b, <1>c, <2>1, <2>3 DEF Telling, Seen, Waiting
    <2> QED BY <1>c, <2>1, <2>2, <2>4, AwakeMove
  <1>8. ASSUME NEW t \in Two, Waiting(t), UNCHANGED queueVars, CvResume(t) PROVE Awake'
    <2>1. /\ pc' = pc /\ ring' = ring /\ UNCHANGED <<word, sq>> /\ old' = old /\ cv[t] = "wait"
          /\ cv'[t] = "check" /\ op' = [op EXCEPT ![t] = "none"]
          /\ \A u \in Tasks \ {t} : cv'[u] = cv[u]
      BY <1>8, <1>a, <1>c DEF CvResume, CvGoto, FutexResume, queueVars
    <2>2. Seen(t)'
      BY <1>8, <1>c, <2>1 DEF Awake, Seen, Waiting, Stocked, Telling
    <2>3. ~Telling(t) /\ ~Telling(t)' /\ op'[t] # "asleep" /\ op'[Other(t)] = op[Other(t)]
      BY <1>8, <1>b, <1>c, <2>1 DEF Telling, Waiting
    <2> QED BY <1>c, <1>e, <2>1, <2>2, <2>3, AwakeMove
  <1>9. ASSUME NEW t \in Two, WaitReturns(t) \/ WaitFails(t) PROVE Awake'
    <2>1. /\ Waiting(t) /\ ring' = ring /\ UNCHANGED <<word, sq>>
          /\ pc'[t] \in {"pop", "push", "out"}
          /\ \A u \in Tasks \ {t} : pc'[u] = pc[u] /\ cv'[u] = cv[u] /\ old'[u] = old[u]
          /\ op'[t] # "asleep" /\ op'[Other(t)] = op[Other(t)]
      <3>1. CASE WaitReturns(t)
        <4>1. op[t] = "none"
          BY <1>a, <1>c, <3>1 DEF WaitReturns, CvReturn, Placed, InPlace
        <4> QED BY <3>1, <4>1, <1>a, <1>c DEF WaitReturns, CvReturn, CvGoto, Goto, futexVars
      <3>2. CASE WaitFails(t)
        BY <3>2, <1>a, <1>b, <1>c DEF WaitFails, CvCanceled, FutexResume, CvGoto, Goto
      <3> QED BY <1>9, <3>1, <3>2
    <2>2. ~Telling(t) /\ ~Telling(t)' /\ Seen(t)'
      BY <2>1 DEF Telling, Waiting, Seen
    <2> QED BY <1>c, <1>e, <2>1, <2>2, AwakeMove
  <1>10. ASSUME NEW t \in Two, ~Running(Other(t)), TellBump(t) PROVE Awake'
    <2> DEFINE o == Other(t)
    <2>1. /\ Telling(t) /\ cv[t] = "idle" /\ word' = Incremented /\ cv'[t] = "bumped" /\ pc' = pc
          /\ ring' = ring /\ UNCHANGED <<sq, op, old>> /\ cv'[o] = cv[o]
      BY <1>10, <1>a, <1>c DEF TellBump, CvBump, CvGoto, queueVars, Telling
    <2>2. Seen(t)' /\ Heard(t)'
      BY <1>a, <1>c, <2>1 DEF Seen, Heard, Waiting, Telling, Placed, InPlace
    <2>3. Waiting(o) => cv[o] = "wait" /\ word' # old[o]
      BY <1>10, <1>c, <2>1, IncrementedType DEF Running, Holding
    <2>4. Seen(o)'
      BY <2>1, <2>3 DEF Seen, Waiting
    <2>5. Heard(o)'
      BY <1>c, <2>1 DEF Heard, Telling
    <2> QED BY <1>c, <2>2, <2>4, <2>5 DEF Awake
  <1>11. ASSUME NEW t \in Two, ~Running(Other(t)), Tell(t) PROVE Awake'
    <2> DEFINE o == Other(t)
               m == TheMask(o)
    <2>a. m = IF pc[t] = "tellEmpty" THEN kNonEmptyMask ELSE kNonFullMask
      <3>1. Placed(t) /\ pc[t] \in {"tellEmpty", "tellFull"}
        BY <1>11, <1>a, <1>c DEF Tell
      <3> QED BY <1>c, <3>1, PipeTasks DEF Placed, InPlace, Places, TheMask, Two
    <2>1. /\ Telling(t) /\ cv[t] = "bumped" /\ FutexNotify(t, FALSE, m)
          /\ cv' = [cv EXCEPT ![t] = "idle"] /\ pc' = [pc EXCEPT ![t] = "out"] /\ old' = old
          /\ ring' = ring /\ word' = word
      BY <1>11, <2>a DEF Tell, CvNotify, FutexNotify, CvGoto, Goto, Telling
    <2>2. m \in SUBSET Bits
      BY PipeTasks DEF TheMask
    <2>3. /\ \A u \in Tasks : op'[u] # op[u] => op[u] = "asleep" /\ op'[u] = "ok"
          /\ \A s : Queued(s) => Queued(s)'
          /\ SyncWake /\ Sleepers(m) # {} => \E u \in Sleepers(m) : op'[u] = "ok"
          /\ ~SyncWake => Queued(WakeSqe(FALSE, m))'
      BY <1>a, <1>c, <2>1, <2>2, NotifyEffect
    <2>4. cv'[o] = cv[o] /\ pc'[o] = pc[o] /\ pc'[t] = "out" /\ Placed(t) /\ Placed(o)
      BY <1>a, <1>c, <2>1
    <2>5. Seen(t)' /\ Heard(t)'
      BY <1>c, <2>1, <2>3, <2>4 DEF Seen, Heard, Waiting, Placed, InPlace
    <2>6. Seen(o)'
      <3>1. Seen(o)
        BY <1>c DEF Awake
      <3> QED BY <1>c, <2>1, <2>4, <3>1 DEF Seen, Waiting, Stocked
    <2>7. Heard(o)'
      <3> SUFFICES ASSUME op'[o] = "asleep" PROVE Queued(WakeSqe(FALSE, TheMask(o)))'
        BY DEF Heard
      <3>1. op[o] = "asleep"
        BY <1>c, <2>3
      <3>2. cv[o] = "wait" /\ want[o].mask = WaitMask(o)
        BY <2>4, <3>1 DEF Placed, InPlace
      <3>3. WaitMask(o) = TheMask(o) /\ TheMask(o) # {}
        BY <1>c, <2>4, <3>2, PipeTasks
           DEF Placed, InPlace, CvPlaces, Waiting, Telling, Places, WaitMask, TheMask, Two,
               kNonEmptyMask, kNonFullMask
      <3>4. o \in Sleepers(m)
        BY <1>c, <2>2, <3>1, <3>2, <3>3 DEF Sleepers
      <3>5. ~SyncWake
        BY <1>c, <2>2, <2>3, <3>4, OnlySleeper
      <3> QED BY <2>3, <3>5
    <2> QED BY <1>c, <2>5, <2>6, <2>7 DEF Awake
  <1>12. ASSUME NEW t \in Tasks, Cancel(t) PROVE Awake'
    <2>1. UNCHANGED <<word, op, cv, old, pc, ring>> /\ Prepare(Home[t], CancelSqe(t))
      BY <1>12 DEF Cancel, FutexCancel, queueVars
    <2>2. \A s : Queued(s) => Queued(s)'
      BY <1>b, <2>1, FutexAssumption, SqeTypes, PrepareQueued
    <2> QED BY <2>1, <2>2 DEF Awake, Seen, Heard, Waiting, Stocked, Telling
  <1>13. ASSUME NEW c \in Contexts, Submit(c) PROVE Awake'
    <2>1. UNCHANGED <<word, want, cv, old, pc, ring>> /\ FutexSubmit(c)
      BY <1>13 DEF Submit, FutexSubmit, queueVars
    <2>2. ASSUME NEW t \in Two PROVE Seen(t)'
      BY <2>1 DEF Awake, Seen, Waiting, Stocked, Telling
    <2>3. ASSUME NEW t \in Two, op'[t] = "asleep", word # old[t]
          PROVE  Queued(WakeSqe(FALSE, TheMask(t)))' \/ (Telling(Other(t)) /\ cv[Other(t)] = "bumped")
      <3> DEFINE w == WakeSqe(FALSE, TheMask(t))
      <3>1. Placed(t) /\ t \in Tasks
        BY <1>a, <1>c
      <3>2. op[t] = "asleep"
        <4> SUFFICES ASSUME op'[t] # op[t] PROVE FALSE
          BY <2>3
        <4>1. op[t] = "queued" /\ word = want[t].val
          BY <1>a, <2>1, <2>3, <3>1, KernelEffect
        <4> QED BY <2>3, <3>1, <4>1 DEF Placed, InPlace
      <3>3. Queued(w) \/ (Telling(Other(t)) /\ cv[Other(t)] = "bumped")
        BY <2>3, <3>2 DEF Awake, Heard
      <3>4. CASE Queued(w) /\ w = Head(sq[c])
        <4>1. w.kind = "wake" /\ w.mask = TheMask(t)
          BY DEF WakeSqe
        <4>2. cv[t] = "wait" /\ want[t].mask = WaitMask(t)
          BY <3>1, <3>2 DEF Placed, InPlace
        <4>3. WaitMask(t) = TheMask(t) /\ TheMask(t) # {}
          BY <3>1, <4>2, PipeTasks
             DEF Placed, InPlace, CvPlaces, Waiting, Telling, Places, WaitMask, TheMask, Two,
                 kNonEmptyMask, kNonFullMask
        <4>4. t \in Sleepers(TheMask(t))
          BY <3>1, <3>2, <4>2, <4>3 DEF Sleepers
        <4>5. \E u \in Sleepers(TheMask(t)) : op'[u] = "ok"
          BY <1>a, <2>1, <3>4, <4>1, <4>4, KernelEffect
        <4> QED BY <2>3, <4>5, OnlySleeper
      <3>5. CASE Queued(w) /\ w # Head(sq[c])
        BY <1>b, <2>1, <3>5, SubmitQueued
      <3> QED BY <3>3, <3>4, <3>5
    <2> QED BY <2>1, <2>2, <2>3 DEF Awake, Heard, Telling
  <1>14. ASSUME NEW t \in Tasks, Progress(t) PROVE Awake'
    <2>1. t \in Two /\ ~Running(Other(t))
      BY <1>14, ProgressAlone
    <2> QED BY <1>14, <2>1, <1>4, <1>5, <1>6, <1>7, <1>8, <1>9, <1>10, <1>11 DEF Progress, WaitOn
  <1> QED BY PipeMoves, <1>1, <1>2, <1>3, <1>9, <1>12, <1>13, <1>14

(* Reader and writer of a pipe, on one thread, for any number of other     *)
(* tasks and threads, any sizes, both builds and both kinds of queue.      *)
PipeCalm == Coupled /\ Alone /\ Awake

LEMMA PipeCalmInv == ASSUME PipeQueue, OneThread PROVE PipeSpec => []PipeCalm
  <1>1. PipeInit => PipeCalm
    <2> SUFFICES ASSUME PipeInit PROVE PipeCalm
      OBVIOUS
    <2>1. Init
      BY DEF PipeInit
    <2>2. \A t \in Tasks : pc[t] = "out" /\ op[t] = "none"
      BY <2>1 DEF Init, CvInit, FutexInit
    <2>3. Awake
      BY <2>2, PipeTasks DEF Awake, Seen, Heard, Waiting
    <2> QED BY <2>3, CoupledInit, AloneInit DEF PipeCalm
  <1>2. PipeCalm /\ [PipeNext]_pipeVars => PipeCalm'
    BY CoupledStep, AloneStep, AwakeStep DEF PipeCalm
  <1> QED BY <1>1, <1>2, PTL DEF PipeSpec

(* No reader sleeps on a pipe that holds a chunk, with nobody on the way   *)
(* to take it.                                                             *)
THEOREM PopperNotStranded ==
  ASSUME PipeQueue, OneThread PROVE PipeSpec => []NoStrandedPopper
  <1>1. PipeCalm => NoStrandedPopper
    <2> SUFFICES ASSUME PipeCalm, ~RingEmpty(ring), NEW t \in Tasks, pc[t] = "popwait", op[t] = "asleep"
                 PROVE  OnTheWay("popwait", "pop", "tellEmpty", kNonEmptyMask)
      BY DEF NoStrandedPopper
    <2>1. Placed(t) /\ Placed(Writer) /\ Seen(Reader) /\ Heard(Reader)
      BY PipeTasks DEF PipeCalm, Coupled, Settled, Awake, Two
    <2>2. t = Reader
      BY <2>1 DEF Placed, InPlace, Places
    <2>3. Telling(Writer) => pc[Writer] = "tellEmpty"
      BY <2>1, PipeTasks DEF Placed, InPlace, Places, Telling
    <2>4. pc[Writer] = "tellEmpty" \/ Queued(WakeSqe(FALSE, kNonEmptyMask))
      BY <2>1, <2>2, <2>3, PipeTasks DEF Seen, Heard, Waiting, Stocked, TheMask
    <2> QED BY <2>4, PipeTasks DEF OnTheWay, Queued, WakeSqe
  <1> QED BY <1>1, PipeCalmInv, PTL

(* No writer sleeps on a pipe that has room, with nobody on the way to use *)
(* it.                                                                     *)
THEOREM PusherNotStranded ==
  ASSUME PipeQueue, OneThread PROVE PipeSpec => []NoStrandedPusher
  <1>1. PipeCalm => NoStrandedPusher
    <2> SUFFICES ASSUME PipeCalm, ~RingFull(ring), NEW t \in Tasks, pc[t] = "pushwait", op[t] = "asleep"
                 PROVE  OnTheWay("pushwait", "push", "tellFull", kNonFullMask)
      BY DEF NoStrandedPusher
    <2>1. Placed(t) /\ Placed(Reader) /\ Seen(Writer) /\ Heard(Writer)
      BY PipeTasks DEF PipeCalm, Coupled, Settled, Awake, Two
    <2>2. t = Writer
      BY <2>1 DEF Placed, InPlace, Places
    <2>3. Telling(Reader) => pc[Reader] = "tellFull"
      BY <2>1, PipeTasks DEF Placed, InPlace, Places, Telling
    <2>4. pc[Reader] = "tellFull" \/ Queued(WakeSqe(FALSE, kNonFullMask))
      BY <2>1, <2>2, <2>3, PipeTasks DEF Seen, Heard, Waiting, Stocked, TheMask
    <2> QED BY <2>4, PipeTasks DEF OnTheWay, Queued, WakeSqe
  <1> QED BY <1>1, PipeCalmInv, PTL

-----------------------------------------------------------------------------
(* Sequences of bytes.                                                     *)
LEMMA BytesType ==
  ASSUME NEW i \in Nat, NEW j \in Nat, 1 <= i, i <= j + 1
  PROVE  /\ Bytes(i, j) \in Seq(Nat)
         /\ Len(Bytes(i, j)) = j + 1 - i
         /\ \A k \in 1..Len(Bytes(i, j)) : Bytes(i, j)[k] = i + k - 1
  <1>1. Bytes(i, j) \in [1..(j - i + 1) -> Nat] /\ j - i + 1 \in Nat
    BY DEF Bytes
  <1> QED BY <1>1 DEF Bytes

LEMMA NoBytes ==
  ASSUME NEW i \in Nat, NEW j \in Nat, j < i
  PROVE  Bytes(i, j) = <<>>
  <1>1. 1..(j - i + 1) = {}
    OBVIOUS
  <1> QED BY <1>1 DEF Bytes

LEMMA BytesCat ==
  ASSUME NEW i \in Nat, NEW j \in Nat, NEW k \in Nat, 1 <= i, i <= j + 1, j <= k
  PROVE  Bytes(i, j) \o Bytes(j + 1, k) = Bytes(i, k)
  <1> DEFINE s == Bytes(i, j)
             t == Bytes(j + 1, k)
             u == Bytes(i, k)
  <1>a. s \in Seq(Nat) /\ Len(s) = j + 1 - i /\ \A n \in 1..Len(s) : s[n] = i + n - 1
    BY BytesType
  <1>b. t \in Seq(Nat) /\ Len(t) = k + 1 - (j + 1) /\ \A n \in 1..Len(t) : t[n] = (j + 1) + n - 1
    <2>1. j + 1 \in Nat /\ 1 <= j + 1 /\ j + 1 <= k + 1
      OBVIOUS
    <2> QED BY <2>1, BytesType
  <1>c. u \in Seq(Nat) /\ Len(u) = k + 1 - i /\ \A n \in 1..Len(u) : u[n] = i + n - 1
    <2>1. i <= k + 1
      OBVIOUS
    <2> QED BY <2>1, BytesType
  <1> HIDE DEF s, t, u
  <1>1. Len(s) = j - i + 1 /\ Len(t) = k - j /\ Len(u) = k - i + 1
    BY <1>a, <1>b, <1>c
  <1>2. /\ s \o t \in Seq(Nat) /\ Len(s \o t) = Len(s) + Len(t)
        /\ \A n \in 1..Len(s) + Len(t) : (s \o t)[n] = IF n <= Len(s) THEN s[n] ELSE t[n - Len(s)]
    BY <1>a, <1>b, ConcatProperties
  <1>3. Len(s \o t) = Len(u)
    BY <1>1, <1>2
  <1>4. ASSUME NEW n \in 1..Len(s \o t) PROVE (s \o t)[n] = u[n]
    <2>1. CASE n <= Len(s)
      BY <1>a, <1>c, <1>1, <1>2, <1>3, <2>1
    <2>2. CASE n > Len(s)
      <3>1. n - Len(s) \in 1..Len(t) /\ n \in 1..Len(u)
        BY <1>c, <1>1, <1>2, <1>3, <2>2
      <3>2. (s \o t)[n] = t[n - Len(s)] /\ n \in Nat
        BY <1>2, <2>2
      <3>3. t[n - Len(s)] = (j + 1) + (n - Len(s)) - 1 /\ u[n] = i + n - 1
        BY <1>b, <1>c, <3>1
      <3> QED BY <1>1, <3>2, <3>3
    <2> QED BY <1>1, <2>1, <2>2
  <1>5. s \o t = u
    BY <1>c, <1>2, <1>3, <1>4, SeqEqual
  <1> QED BY <1>5 DEF s, t, u

(* s is the bytes from i to j.                                             *)
Run(s, i, j) == s = Bytes(i, j)

LEMMA RunType ==
  ASSUME NEW i \in Nat, NEW j \in Nat, 1 <= i, i <= j + 1, NEW s, Run(s, i, j)
  PROVE  s \in Seq(Nat) /\ Len(s) \in Nat /\ Len(s) = j + 1 - i
  BY BytesType DEF Run

LEMMA RunNone ==
  ASSUME NEW i \in Nat, NEW j \in Nat, i = j + 1
  PROVE  Run(<<>>, i, j)
  BY NoBytes DEF Run

LEMMA RunCat ==
  ASSUME NEW i \in Nat, NEW j \in Nat, NEW k \in Nat, 1 <= i, i <= j + 1, j <= k,
         NEW s, NEW t, Run(s, i, j), Run(t, j + 1, k)
  PROVE  Run(s \o t, i, k)
  BY BytesCat DEF Run

(* Two sequences that together are consecutive bytes are so themselves.    *)
LEMMA RunSplit ==
  ASSUME NEW s \in Seq(Nat), NEW t \in Seq(Nat), NEW i \in Nat, NEW j \in Nat,
         1 <= i, i <= j + 1, Run(s \o t, i, j), NEW e \in Nat, e + 1 = i + Len(s)
  PROVE  i <= e + 1 /\ e <= j /\ Run(s, i, e) /\ Run(t, e + 1, j)
  <1> DEFINE u == Bytes(i, j)
             a == Bytes(i, e)
             b == Bytes(e + 1, j)
  <1>1. /\ Len(s) \in Nat /\ Len(t) \in Nat /\ Len(s \o t) = Len(s) + Len(t)
        /\ \A n \in 1..Len(s) + Len(t) : (s \o t)[n] = IF n <= Len(s) THEN s[n] ELSE t[n - Len(s)]
    BY ConcatProperties, LenProperties
  <1>2. Len(u) = j + 1 - i /\ \A n \in 1..Len(u) : u[n] = i + n - 1
    BY BytesType
  <1>3. s \o t = u
    BY DEF Run
  <1>4. Len(s) + Len(t) = j + 1 - i
    BY <1>1, <1>2, <1>3
  <1>5. i <= e + 1 /\ e <= j /\ e + 1 \in Nat /\ 1 <= e + 1 /\ e + 1 <= j + 1
    BY <1>1, <1>4
  <1>6. a \in Seq(Nat) /\ Len(a) = e + 1 - i /\ \A n \in 1..Len(a) : a[n] = i + n - 1
    BY <1>5, BytesType
  <1>7. b \in Seq(Nat) /\ Len(b) = j + 1 - (e + 1) /\ \A n \in 1..Len(b) : b[n] = (e + 1) + n - 1
    BY <1>5, BytesType
  <1> HIDE DEF u, a, b
  <1>8. Len(a) = Len(s) /\ Len(b) = Len(t)
    BY <1>1, <1>4, <1>6, <1>7
  <1>9. \A n \in 1..Len(s) + Len(t) : (s \o t)[n] = i + n - 1
    BY <1>1, <1>2, <1>3
  <1>10. ASSUME NEW n \in 1..Len(s) PROVE a[n] = s[n]
    <2>1. n \in 1..Len(s) + Len(t) /\ n <= Len(s)
      BY <1>1
    <2> QED BY <1>1, <1>6, <1>8, <1>9, <2>1
  <1>11. ASSUME NEW n \in 1..Len(t) PROVE b[n] = t[n]
    <2>1. n + Len(s) \in 1..Len(s) + Len(t) /\ ~(n + Len(s) <= Len(s)) /\ n + Len(s) - Len(s) = n
      BY <1>1
    <2>2. (s \o t)[n + Len(s)] = t[n]
      BY <1>1, <2>1
    <2>3. (s \o t)[n + Len(s)] = i + (n + Len(s)) - 1
      BY <1>9, <2>1
    <2>4. n \in 1..Len(b) /\ b[n] = (e + 1) + n - 1
      BY <1>7, <1>8
    <2>5. Len(s) = e + 1 - i /\ n \in Nat
      BY <1>6, <1>8
    <2> QED BY <1>5, <2>2, <2>3, <2>4, <2>5
  <1>12. a = s /\ b = t
    BY <1>6, <1>7, <1>8, <1>10, <1>11, SeqEqual
  <1> QED BY <1>5, <1>12 DEF Run, a, b

(* A sequence cut in two is what it was.                                   *)
LEMMA CutInTwo ==
  ASSUME NEW S, NEW s \in Seq(S), NEW n \in 0..Len(s)
  PROVE  /\ SubSeq(s, 1, n) \in Seq(S) /\ SubSeq(s, n + 1, Len(s)) \in Seq(S)
         /\ Len(SubSeq(s, 1, n)) = n /\ Len(SubSeq(s, n + 1, Len(s))) = Len(s) - n
         /\ SubSeq(s, 1, n) \o SubSeq(s, n + 1, Len(s)) = s
  <1>1. Len(s) \in Nat /\ \A k \in 1..Len(s) : s[k] \in S
    BY LenProperties
  <1>2. SubSeq(s, 1, n) \in Seq(S) /\ Len(SubSeq(s, 1, n)) = n
    BY <1>1, SubSeqProperties
  <1>3. SubSeq(s, n + 1, Len(s)) \in Seq(S) /\ Len(SubSeq(s, n + 1, Len(s))) = Len(s) - n
    BY <1>1, SubSeqProperties
  <1>4. SubSeq(s, 1, n) \o SubSeq(s, n + 1, Len(s)) = SubSeq(s, 1, Len(s))
    <2>1. 1 \in 1..Len(s) + 1 /\ n \in 1 - 1..Len(s) /\ Len(s) \in n..Len(s)
      BY <1>1
    <2> QED BY <2>1, ConcatAdjacentSubSeq
  <1> QED BY <1>2, <1>3, <1>4, SubSeqFull

(* A chunk is a run of bytes of the pipe.                                  *)
LEMMA ChunkIs ==
  ASSUME NEW b \in Chunks
  PROVE  /\ b \in Seq(Nat) /\ Len(b) \in 0..MaxBytes
         /\ \E i, j \in Nat :
              1 <= i /\ i <= j + 1 /\ i <= MaxBytes /\ j <= MaxBytes /\ b = Bytes(i, j)
  <1>1. PICK i \in 1..MaxBytes, j \in 0..MaxBytes : b = Bytes(i, j)
    BY DEF Chunks
  <1>2. MaxBytes \in Nat /\ 1 <= MaxBytes /\ i \in Nat /\ j \in Nat /\ 1 <= i
    BY PipeAssumption
  <1>4. CASE i <= j + 1
    <2>1. b \in Seq(Nat) /\ Len(b) = j + 1 - i
      BY <1>1, <1>2, <1>4, BytesType
    <2> QED BY <1>1, <1>2, <1>4, <2>1
  <1>5. CASE j + 1 < i
    <2>1. b = <<>> /\ Bytes(1, 0) = <<>>
      BY <1>1, <1>2, <1>5, NoBytes
    <2>2. 1 \in 1..MaxBytes /\ 0 \in 0..MaxBytes /\ 1 <= 0 + 1
      BY <1>2
    <2>3. <<>> \in Seq(Nat) /\ Len(<<>>) \in 0..MaxBytes
      BY <1>2, EmptySeq
    <2> QED BY <2>1, <2>2, <2>3
  <1> QED BY <1>2, <1>4, <1>5

LEMMA BytesChunk ==
  ASSUME NEW i \in 1..MaxBytes + 1, NEW j \in 0..MaxBytes
  PROVE  Bytes(i, j) \in Chunks
  <1>1. MaxBytes \in Nat /\ 1 <= MaxBytes /\ i \in Nat /\ 1 <= i /\ j \in Nat
    BY PipeAssumption
  <1>2. CASE i <= MaxBytes
    BY <1>1, <1>2 DEF Chunks
  <1>3. CASE i > MaxBytes
    <2>1. Bytes(i, j) = <<>> /\ Bytes(1, 0) = <<>>
      BY <1>1, <1>3, NoBytes
    <2>2. 1 \in 1..MaxBytes /\ 0 \in 0..MaxBytes
      BY <1>1
    <2> QED BY <2>1, <2>2 DEF Chunks
  <1> QED BY <1>1, <1>2, <1>3

LEMMA EndIsChunk == End \in Chunks /\ Len(End) = 0
  <1>1. 1 \in 1..MaxBytes + 1 /\ 0 \in 0..MaxBytes
    BY PipeAssumption
  <1>2. Bytes(1, 0) = <<>>
    BY NoBytes
  <1> QED BY <1>1, <1>2, BytesChunk DEF End

(* So are its two parts.                                                   *)
LEMMA ChunkCut ==
  ASSUME NEW b \in Chunks, NEW n \in 0..Len(b)
  PROVE  SubSeq(b, 1, n) \in Chunks /\ SubSeq(b, n + 1, Len(b)) \in Chunks
  <1> DEFINE s == SubSeq(b, 1, n)
             t == SubSeq(b, n + 1, Len(b))
  <1>1. PICK i \in Nat, j \in Nat :
          1 <= i /\ i <= j + 1 /\ i <= MaxBytes /\ j <= MaxBytes /\ b = Bytes(i, j)
    BY ChunkIs
  <1>2. b \in Seq(Nat) /\ Len(b) \in Nat /\ Len(b) = j + 1 - i /\ MaxBytes \in Nat
    <2>1. Run(b, i, j)
      BY <1>1 DEF Run
    <2> QED BY <1>1, <2>1, RunType, PipeAssumption
  <1>3. s \in Seq(Nat) /\ t \in Seq(Nat) /\ Len(s) = n /\ Run(s \o t, i, j)
    BY <1>1, <1>2, CutInTwo DEF Run
  <1> DEFINE e == i + n - 1
  <1>4. e \in Nat /\ e + 1 = i + Len(s) /\ e + 1 = i + n
    BY <1>1, <1>2, <1>3
  <1> HIDE DEF s, t, e
  <1>5. e <= j /\ Run(s, i, e) /\ Run(t, e + 1, j)
    BY <1>1, <1>3, <1>4, RunSplit
  <1>6. i \in 1..MaxBytes + 1 /\ e \in 0..MaxBytes /\ e + 1 \in 1..MaxBytes + 1 /\ j \in 0..MaxBytes
    BY <1>1, <1>2, <1>4, <1>5
  <1> QED BY <1>5, <1>6, BytesChunk DEF Run, s, t

-----------------------------------------------------------------------------
(* Chunks that are consecutive bytes stay so when the first is taken out,  *)
LEMMA BetweenTake ==
  ASSUME NEW chunks \in Seq(Cells \cup {Lost}), NEW c \in 0..MaxBytes, NEW d \in 0..MaxBytes,
         Between(chunks, c, d), chunks # <<>>
  PROVE  \E e \in c..d : Head(chunks) = Bytes(c + 1, e) /\ Between(Tail(chunks), e, d)
  <1> DEFINE n == Len(chunks)
             rear == Tail(chunks)
  <1>1. PICK cut \in [0..n -> 0..MaxBytes] :
          /\ cut[0] = c /\ cut[n] = d
          /\ \A i, j \in 0..n : i <= j => cut[i] <= cut[j]
          /\ \A i \in 1..n : chunks[i] = Bytes(cut[i - 1] + 1, cut[i])
    BY DEF Between
  <1>2. /\ n \in Nat \ {0} /\ rear \in Seq(Cells \cup {Lost}) /\ Len(rear) = n - 1
        /\ \A i \in 1..Len(rear) : rear[i] = chunks[i + 1]
        /\ Head(chunks) = chunks[1]
    BY EmptySeq, HeadTailProperties
  <1> DEFINE e == cut[1]
             cut2 == [i \in 0..n - 1 |-> cut[i + 1]]
  <1>3. 0 \in 0..n /\ 1 \in 0..n /\ n \in 0..n /\ 1 \in 1..n /\ MaxBytes \in Nat
    BY <1>2, PipeAssumption
  <1>4. c <= e /\ e <= d /\ e \in 0..MaxBytes
    BY <1>1, <1>2, <1>3
  <1>5. e \in c..d
    BY <1>3, <1>4
  <1>6. Head(chunks) = Bytes(c + 1, e)
    BY <1>1, <1>2, <1>3
  <1>7. Between(rear, e, d)
    <2>1. cut2 \in [0..Len(rear) -> 0..MaxBytes] /\ cut2[0] = e /\ cut2[Len(rear)] = d
      BY <1>1, <1>2
    <2>2. ASSUME NEW i \in 0..Len(rear), NEW j \in 0..Len(rear), i <= j PROVE cut2[i] <= cut2[j]
      <3>1. i + 1 \in 0..n /\ j + 1 \in 0..n /\ i + 1 <= j + 1 /\ i \in 0..n - 1 /\ j \in 0..n - 1
        BY <1>2, <2>2
      <3> QED BY <1>1, <3>1
    <2>3. ASSUME NEW i \in 1..Len(rear) PROVE rear[i] = Bytes(cut2[i - 1] + 1, cut2[i])
      <3>1. i + 1 \in 1..n /\ i - 1 \in 0..n - 1 /\ i \in 0..n - 1 /\ (i + 1) - 1 = i /\ (i - 1) + 1 = i
        BY <1>2
      <3> QED BY <1>1, <1>2, <3>1
    <2> HIDE DEF cut2, rear
    <2> QED BY <2>1, <2>2, <2>3 DEF Between
  <1> QED BY <1>5, <1>6, <1>7

(* and when the bytes that follow are added.                               *)
LEMMA BetweenAdd ==
  ASSUME NEW chunks \in Seq(Cells \cup {Lost}), NEW c \in 0..MaxBytes, NEW d \in 0..MaxBytes,
         Between(chunks, c, d), NEW e \in d..MaxBytes, Bytes(d + 1, e) \in Cells
  PROVE  Between(Append(chunks, Bytes(d + 1, e)), c, e)
  <1> DEFINE n == Len(chunks)
             longer == Append(chunks, Bytes(d + 1, e))
  <1>1. PICK cut \in [0..n -> 0..MaxBytes] :
          /\ cut[0] = c /\ cut[n] = d
          /\ \A i, j \in 0..n : i <= j => cut[i] <= cut[j]
          /\ \A i \in 1..n : chunks[i] = Bytes(cut[i - 1] + 1, cut[i])
    BY DEF Between
  <1>2. n \in Nat /\ MaxBytes \in Nat /\ e \in 0..MaxBytes /\ d <= e
    BY LenProperties, PipeAssumption
  <1>3. /\ Len(longer) = n + 1 /\ longer[n + 1] = Bytes(d + 1, e)
        /\ \A i \in 1..n : longer[i] = chunks[i]
    BY AppendProperties
  <1> DEFINE cut2 == [i \in 0..n + 1 |-> IF i = n + 1 THEN e ELSE cut[i]]
  <1>4. cut2 \in [0..Len(longer) -> 0..MaxBytes]
    <2>1. \A i \in 0..n + 1 : i # n + 1 => i \in 0..n
      BY <1>2
    <2> QED BY <1>1, <1>2, <1>3, <2>1
  <1>5. cut2[0] = c /\ cut2[Len(longer)] = e
    BY <1>1, <1>2, <1>3
  <1>6. ASSUME NEW i \in 0..Len(longer), NEW j \in 0..Len(longer), i <= j PROVE cut2[i] <= cut2[j]
    <2>1. i \in 0..n + 1 /\ j \in 0..n + 1 /\ n \in 0..n
      BY <1>2, <1>3
    <2>2. CASE j = n + 1
      <3>1. CASE i = n + 1
        BY <1>2, <2>1, <2>2, <3>1
      <3>2. CASE i # n + 1
        <4>1. i \in 0..n /\ i <= n
          BY <1>2, <2>1, <3>2
        <4>2. cut[i] <= d /\ cut[i] \in 0..MaxBytes /\ d \in 0..MaxBytes
          BY <1>1, <2>1, <4>1
        <4>3. cut[i] <= e
          BY <1>2, <4>2
        <4> QED BY <2>1, <2>2, <3>2, <4>3
      <3> QED BY <3>1, <3>2
    <2>3. CASE j # n + 1
      <3>1. i \in 0..n /\ j \in 0..n /\ i # n + 1
        BY <1>2, <1>6, <2>1, <2>3
      <3> QED BY <1>1, <1>6, <2>1, <2>3, <3>1
    <2> QED BY <2>2, <2>3
  <1>7. ASSUME NEW i \in 1..Len(longer) PROVE longer[i] = Bytes(cut2[i - 1] + 1, cut2[i])
    <2>1. i \in 0..n + 1 /\ i - 1 \in 0..n + 1 /\ i - 1 # n + 1
      BY <1>2, <1>3
    <2>2. CASE i = n + 1
      BY <1>1, <1>2, <1>3, <2>1, <2>2
    <2>3. CASE i # n + 1
      <3>1. i \in 1..n
        BY <1>2, <1>3, <2>3
      <3> QED BY <1>1, <1>3, <2>1, <2>3, <3>1
    <2> QED BY <2>2, <2>3
  <1> HIDE DEF cut2, longer
  <1>8. Between(longer, c, e)
    BY <1>4, <1>5, <1>6, <1>7 DEF Between
  <1> QED BY <1>8 DEF longer

(* No chunks hold no bytes.                                                *)
LEMMA BetweenNone ==
  ASSUME NEW c \in 0..MaxBytes
  PROVE  Between(<<>>, c, c)
  <1> DEFINE cut == [i \in 0..0 |-> c]
  <1>1. Len(<<>>) = 0 /\ 1..0 = {} /\ \A i \in 0..0 : i = 0
    OBVIOUS
  <1>2. cut \in [0..0 -> 0..MaxBytes] /\ cut[0] = c
    OBVIOUS
  <1>3. \A i, j \in 0..0 : i <= j => cut[i] <= cut[j]
    BY <1>1, PipeAssumption
  <1> HIDE DEF cut
  <1> QED BY <1>1, <1>2, <1>3 DEF Between

LEMMA BetweenOrder ==
  ASSUME NEW q, Len(q) \in Nat, NEW c, NEW d, Between(q, c, d)
  PROVE  c <= d
  <1>1. 0 \in 0..Len(q) /\ Len(q) \in 0..Len(q) /\ 0 <= Len(q)
    OBVIOUS
  <1> QED BY <1>1 DEF Between

-----------------------------------------------------------------------------
(* Nothing has harmed the pipe, the ring included.                         *)
Unharmed == harm = {} /\ ~Strayed(ring)

(* The bytes from 1 to n, in order: first f, then those of the chunks of q,*)
(* then b.                                                                 *)
InOrder(f, q, b, n) ==
  \E c, d \in 0..n : Run(f, 1, c) /\ Between(q, c, d) /\ Run(b, d + 1, n)

LEMMA ConservedIsInOrder ==
  Conserved <=>
    (Unharmed /\ rop # "closed" => InOrder(Front, RingContents(ring), Behind, sent))
  BY DEF Conserved, InOrder, Run, Unharmed

(* A pop moves the first chunk behind what is in front.                    *)
LEMMA OrderTake ==
  ASSUME NEW n \in 0..MaxBytes, NEW f, NEW b, NEW q \in Seq(Cells \cup {Lost}), q # <<>>, InOrder(f, q, b, n)
  PROVE  InOrder(f \o Head(q), Tail(q), b, n)
  <1>1. PICK c \in 0..n, d \in 0..n : Run(f, 1, c) /\ Between(q, c, d) /\ Run(b, d + 1, n)
    BY DEF InOrder
  <1>2. n \in Nat /\ n <= MaxBytes /\ c \in 0..MaxBytes /\ d \in 0..MaxBytes
    BY PipeAssumption
  <1>3. PICK e \in c..d : Head(q) = Bytes(c + 1, e) /\ Between(Tail(q), e, d)
    BY <1>1, <1>2, BetweenTake
  <1>4. /\ c \in Nat /\ e \in Nat /\ c <= e /\ e \in 0..n /\ 1 <= c + 1
        /\ 1 \in Nat /\ 1 <= 1
    BY <1>2
  <1>5. Run(f \o Head(q), 1, e)
    <2>1. Run(Head(q), c + 1, e)
      BY <1>3 DEF Run
    <2> QED BY <1>1, <1>4, <2>1, RunCat
  <1> QED BY <1>1, <1>3, <1>4, <1>5 DEF InOrder

(* A push moves the first bytes behind the last chunk.                     *)
LEMMA OrderAdd ==
  ASSUME NEW n \in 0..MaxBytes, NEW f, NEW q \in Seq(Cells \cup {Lost}),
         NEW a \in Seq(Nat), NEW b \in Seq(Nat), a \in Cells, InOrder(f, q, a \o b, n)
  PROVE  InOrder(f, Append(q, a), b, n)
  <1>1. PICK c \in 0..n, d \in 0..n : Run(f, 1, c) /\ Between(q, c, d) /\ Run(a \o b, d + 1, n)
    BY DEF InOrder
  <1>2. /\ n \in Nat /\ MaxBytes \in Nat /\ c \in 0..MaxBytes /\ d \in 0..MaxBytes /\ d \in Nat
        /\ d + 1 \in Nat /\ 1 <= d + 1 /\ d + 1 <= n + 1 /\ Len(a) \in Nat
    BY PipeAssumption, LenProperties
  <1> DEFINE e == d + Len(a)
  <1>3. e \in Nat /\ e + 1 = (d + 1) + Len(a) /\ d <= e
    BY <1>2
  <1> HIDE DEF e
  <1>4. e <= n /\ Run(a, d + 1, e) /\ Run(b, e + 1, n)
    BY <1>1, <1>2, <1>3, RunSplit
  <1>5. e \in 0..n /\ e \in d..MaxBytes
    BY <1>2, <1>3, <1>4
  <1>6. Between(Append(q, a), c, e)
    <2>1. a = Bytes(d + 1, e)
      BY <1>4 DEF Run
    <2>2. Bytes(d + 1, e) \in Cells
      BY <2>1
    <2>3. Between(Append(q, Bytes(d + 1, e)), c, e)
      BY <1>1, <1>2, <1>5, <2>2, BetweenAdd
    <2> QED BY <2>1, <2>3
  <1> QED BY <1>1, <1>4, <1>5, <1>6 DEF InOrder

(* The next bytes are put behind the last.                                 *)
LEMMA OrderPut ==
  ASSUME NEW n \in 0..MaxBytes, NEW m \in n..MaxBytes, NEW f, NEW q, NEW b,
         InOrder(f, q, b, n), NEW s, Run(s, n + 1, m)
  PROVE  InOrder(f, q, b \o s, m)
  <1>1. PICK c \in 0..n, d \in 0..n : Run(f, 1, c) /\ Between(q, c, d) /\ Run(b, d + 1, n)
    BY DEF InOrder
  <1>2. /\ n \in Nat /\ m \in Nat /\ n <= m /\ d + 1 \in Nat /\ 1 <= d + 1 /\ d + 1 <= n + 1
        /\ c \in 0..m /\ d \in 0..m
    BY PipeAssumption
  <1>3. Run(b \o s, d + 1, m)
    BY <1>1, <1>2, RunCat
  <1> QED BY <1>1, <1>2, <1>3 DEF InOrder

(* The last bytes are taken back.                                          *)
LEMMA OrderDrop ==
  ASSUME NEW n \in 0..MaxBytes, NEW f, NEW q, Len(q) \in Nat, NEW b \in Seq(Nat), NEW s \in Seq(Nat),
         InOrder(f, q, b \o s, n), NEW m \in Nat, m + Len(s) = n
  PROVE  InOrder(f, q, b, m)
  <1>1. PICK c \in 0..n, d \in 0..n : Run(f, 1, c) /\ Between(q, c, d) /\ Run(b \o s, d + 1, n)
    BY DEF InOrder
  <1>2. /\ n \in Nat /\ d \in Nat /\ d + 1 \in Nat /\ 1 <= d + 1 /\ d + 1 <= n + 1
        /\ Len(b) \in Nat /\ Len(s) \in Nat
    BY PipeAssumption, LenProperties
  <1> DEFINE e == d + Len(b)
  <1>3. e \in Nat /\ e + 1 = (d + 1) + Len(b)
    BY <1>2
  <1> HIDE DEF e
  <1>4. e <= n /\ Run(b, d + 1, e) /\ Run(s, e + 1, n)
    BY <1>1, <1>2, <1>3, RunSplit
  <1>5. Len(s) = n + 1 - (e + 1)
    <2>1. e + 1 \in Nat /\ 1 <= e + 1 /\ e + 1 <= n + 1
      BY <1>2, <1>3, <1>4
    <2> QED BY <1>2, <1>4, <2>1, RunType
  <1>6. m = e
    BY <1>2, <1>3, <1>5
  <1>7. c <= d /\ c \in 0..m /\ d \in 0..m
    <2>1. c \in 0..MaxBytes /\ d \in 0..MaxBytes /\ d <= e
      BY <1>2, <1>3, PipeAssumption
    <2>2. c <= d
      BY <1>1, BetweenOrder, <2>1
    <2> QED BY <1>2, <1>6, <2>1, <2>2
  <1> QED BY <1>1, <1>4, <1>6, <1>7 DEF InOrder

-----------------------------------------------------------------------------
(* What reader and writer have in their hands.                             *)

(* s is what comes last of the first n bytes.                              *)
EndsAt(s, n) == \E k \in 0..n : Run(s, k + 1, n)

QueueHands ==
  /\ ring \in Rings(MaxSize)
  /\ RingContents(ring) \in Seq(Items \cup {Lost})
  /\ ~Strayed(ring) => RingContents(ring) \in Seq(Items)
  /\ arg \in [Tasks -> Cells]
  /\ got \in [Tasks -> Cells]

(* The reader holds a chunk from the pop() that has returned it until it   *)
(* is in the window, and reads only when the window is empty or shorter    *)
(* than what peekn asks for; getn has the whole buffer to read into.       *)
ReaderHands ==
  /\ rop \in {"idle", "get", "read", "peek", "forward", "eof", "closed"} /\ need \in 0..MaxPut
  /\ taken \in Seq(Nat) /\ win \in Seq(Nat) /\ ix \in Nat /\ ix + Len(win) <= BufSize
  /\ part \in 0..Len(taken)
  /\ ~Reading => pc[Reader] = "out"
  /\ got[Reader] # NoItem <=> Reading /\ pc[Reader] \in {"tellFull", "out"}
  /\ rop \in {"get", "read", "forward"} => win = <<>>
  /\ rop = "peek" => Len(win) < need
  /\ rop = "get" => ix = 0

(* A buffer with room ends with the byte put last; while the writer pushes *)
(* it out of putspan the buffer is full and what follows is in rest.       *)
WriterHands ==
  /\ wop \in {"idle", "put", "flush", "write", "close", "closed", "unheard", "gone", "silent"}
  /\ sent \in 0..MaxBytes
  /\ out \in Chunks \cup {NoBuffer} /\ Len(Held) <= BufSize
  /\ Held # <<>> /\ Len(Held) < BufSize => EndsAt(Held, sent)
  /\ ~Writing => pc[Writer] \in {"out", "tellEmpty"}
  /\ arg[Writer] # NoItem <=> pc[Writer] \in {"push", "pushwait"}
  /\ wop = "put" => Len(Held) = BufSize /\ EndsAt(rest, sent)
  /\ rest \in Seq(Nat) /\ (rest # <<>> => wop = "put" \/ rop = "closed")
  /\ wop \in {"flush", "write", "close"} => rest = <<>>
  /\ wop = "write" => Held = <<>> \/ Len(Held) = BufSize
  /\ wop = "write" /\ harm = {} => Held = <<>>
  /\ wop = "write" /\ arg[Writer] # NoItem => EndsAt(arg[Writer], sent)
  /\ wop \in {"put", "flush"} /\ arg[Writer] # NoItem => arg[Writer] = out
  /\ arg[Writer] # NoItem => (arg[Writer] = End <=> wop = "close")

Hands == QueueHands /\ ReaderHands /\ WriterHands

LEMMA EndsAtType ==
  ASSUME NEW n \in 0..MaxBytes, NEW s, EndsAt(s, n)
  PROVE  s \in Seq(Nat) /\ Len(s) \in 0..n /\ s \in Chunks
  <1>1. PICK k \in 0..n : Run(s, k + 1, n)
    BY DEF EndsAt
  <1>2. /\ n \in Nat /\ MaxBytes \in Nat /\ k + 1 \in Nat /\ 1 <= k + 1 /\ k + 1 <= n + 1
        /\ k + 1 \in 1..MaxBytes + 1
    BY PipeAssumption
  <1>3. s \in Seq(Nat) /\ Len(s) = n + 1 - (k + 1)
    BY <1>1, <1>2, RunType
  <1>4. Bytes(k + 1, n) \in Chunks
    BY <1>2, BytesChunk
  <1> QED BY <1>1, <1>2, <1>3, <1>4 DEF Run

LEMMA EndsAtNone ==
  ASSUME NEW n \in 0..MaxBytes
  PROVE  EndsAt(<<>>, n)
  <1>1. n \in Nat /\ n \in 0..n /\ n + 1 \in Nat
    BY PipeAssumption
  <1> QED BY <1>1, RunNone DEF EndsAt

LEMMA EndsAtPut ==
  ASSUME NEW n \in 0..MaxBytes, NEW m \in n..MaxBytes, NEW s, EndsAt(s, n),
         NEW t, Run(t, n + 1, m)
  PROVE  EndsAt(s \o t, m)
  <1>1. PICK k \in 0..n : Run(s, k + 1, n)
    BY DEF EndsAt
  <1>2. /\ n \in Nat /\ m \in Nat /\ n <= m /\ k + 1 \in Nat /\ 1 <= k + 1 /\ k + 1 <= n + 1
        /\ k \in 0..m
    BY PipeAssumption
  <1>3. Run(s \o t, k + 1, m)
    BY <1>1, <1>2, RunCat
  <1> QED BY <1>2, <1>3 DEF EndsAt

LEMMA EndsAtCut ==
  ASSUME NEW n \in 0..MaxBytes, NEW s, EndsAt(s, n), NEW k \in 0..Len(s)
  PROVE  EndsAt(SubSeq(s, k + 1, Len(s)), n) /\ SubSeq(s, 1, k) \in Chunks
  <1> DEFINE a == SubSeq(s, 1, k)
             b == SubSeq(s, k + 1, Len(s))
  <1>1. PICK j \in 0..n : Run(s, j + 1, n)
    BY DEF EndsAt
  <1>2. s \in Seq(Nat) /\ Len(s) \in Nat /\ s \in Chunks
    BY EndsAtType
  <1>3. a \in Seq(Nat) /\ b \in Seq(Nat) /\ Len(a) = k /\ a \o b = s
    BY <1>2, CutInTwo
  <1>4. a \in Chunks
    BY <1>2, ChunkCut
  <1> HIDE DEF a, b
  <1>5. n \in Nat /\ j + 1 \in Nat /\ 1 <= j + 1 /\ j + 1 <= n + 1 /\ k \in Nat
    BY <1>2, PipeAssumption
  <1> DEFINE e == j + k
  <1>6. e \in Nat /\ e + 1 = (j + 1) + Len(a)
    BY <1>3, <1>5
  <1> HIDE DEF e
  <1>7. Run(a \o b, j + 1, n)
    BY <1>1, <1>3
  <1>8. e <= n /\ Run(b, e + 1, n)
    BY <1>3, <1>5, <1>6, <1>7, RunSplit
  <1>9. EndsAt(b, n)
    BY <1>5, <1>6, <1>8 DEF EndsAt
  <1> QED BY <1>4, <1>9 DEF a, b

(* The bytes a put or a write brings.                                      *)
LEMMA NextBytes ==
  ASSUME NEW n \in 0..MaxBytes, NEW k \in Nat, n + k <= MaxBytes
  PROVE  /\ n + k \in 0..MaxBytes /\ n + k \in n..MaxBytes
         /\ Run(Bytes(n + 1, n + k), n + 1, n + k)
         /\ EndsAt(Bytes(n + 1, n + k), n + k)
         /\ Bytes(n + 1, n + k) \in Chunks
         /\ Bytes(n + 1, n + k) \in Seq(Nat) /\ Len(Bytes(n + 1, n + k)) = k
  <1>1. /\ n \in Nat /\ MaxBytes \in Nat /\ n + k \in 0..MaxBytes /\ n + k \in n..MaxBytes
        /\ n \in 0..n + k /\ n + k \in Nat /\ n + 1 \in Nat /\ 1 <= n + 1 /\ n + 1 <= n + k + 1
    BY PipeAssumption
  <1>2. Run(Bytes(n + 1, n + k), n + 1, n + k)
    BY DEF Run
  <1>3. EndsAt(Bytes(n + 1, n + k), n + k)
    BY <1>1, <1>2 DEF EndsAt
  <1>4. Bytes(n + 1, n + k) \in Chunks
    BY <1>1, <1>3, EndsAtType
  <1>5. Bytes(n + 1, n + k) \in Seq(Nat) /\ Len(Bytes(n + 1, n + k)) = n + k + 1 - (n + 1)
    BY <1>1, BytesType
  <1> QED BY <1>1, <1>2, <1>3, <1>4, <1>5

(* The queue's own steps: nothing moves between the hands and the ring,    *)
(* or the reader takes a chunk, or the writer stores one.                  *)
Stays(t) ==
  /\ UNCHANGED <<ring, arg, got>>
  /\ \/ pc'[t] = pc[t]
     \/ {pc[t], pc'[t]} \subseteq {"pop", "popwait"}
     \/ {pc[t], pc'[t]} \subseteq {"push", "pushwait"}
     \/ Telling(t) /\ pc'[t] = "out"

Takes ==
  /\ pc[Reader] = "pop" /\ pc'[Reader] \in {"tellFull", "out"}
  /\ ~RingEmpty(ring) /\ ring' = RingPop(ring)
  /\ \E v \in RingFronts(ring) : got' = [got EXCEPT ![Reader] = v]
  /\ arg' = arg

Stores ==
  /\ pc[Writer] = "push" /\ pc'[Writer] \in {"tellEmpty", "out"}
  /\ ~RingFull(ring) /\ ring' = RingPush(ring, arg[Writer])
  /\ arg' = [arg EXCEPT ![Writer] = NoItem] /\ got' = got

LEMMA QueueMoves ==
  ASSUME PipeQueue, Coupled, NEW t \in Tasks, Progress(t)
  PROVE  /\ t \in Two /\ pc'[Other(t)] = pc[Other(t)]
         /\ Stays(t) \/ (t = Reader /\ Takes) \/ (t = Writer /\ Stores)
  <1>1. Placed(t) /\ pc \in [Tasks -> PCs]
    BY DEF Coupled, Settled
  <1>2. t \in Two
    <2>1. pc[t] # "out"
      BY DEF Progress, PopEmpty, PopTake, PushFull, PushStore, WaitOn, WaitReturns, TellBump,
             Tell, Waiting
    <2> QED BY <1>1, <2>1 DEF Placed, InPlace, Places, Two
  <1>3. pc'[Other(t)] = pc[Other(t)]
    <2>1. Other(t) \in Tasks /\ Other(t) # t
      BY <1>2, PipeTasks DEF Two
    <2> QED BY <1>1, <2>1
          DEF Progress, PopEmpty, PopTake, PushFull, PushStore, WaitOn, WaitReturns, TellBump,
              Tell, Goto, queueVars
  <1>4. CASE PopEmpty(t)
    BY <1>1, <1>2, <1>3, <1>4 DEF PopEmpty, Goto, Stays
  <1>5. CASE PopTake(t)
    <2>1. t = Reader
      BY <1>1, <1>5 DEF PopTake, Placed, InPlace, Places
    <2> QED BY <1>1, <1>2, <1>3, <1>5, <2>1 DEF PopTake, Goto, Takes
  <1>6. CASE PushFull(t)
    BY <1>1, <1>2, <1>3, <1>6 DEF PushFull, Goto, Stays
  <1>7. CASE PushStore(t)
    <2>1. t = Writer
      BY <1>1, <1>7 DEF PushStore, Placed, InPlace, Places
    <2> QED BY <1>1, <1>2, <1>3, <1>7, <2>1 DEF PushStore, Goto, Stores
  <1>8. CASE WaitOn(t) \/ TellBump(t)
    BY <1>2, <1>3, <1>8 DEF WaitOn, TellBump, queueVars, Stays
  <1>9. CASE WaitReturns(t)
    BY <1>1, <1>2, <1>3, <1>9 DEF WaitReturns, Waiting, Goto, Stays
  <1>10. CASE Tell(t)
    BY <1>1, <1>2, <1>3, <1>10 DEF Tell, Telling, Goto, Stays
  <1> QED BY <1>4, <1>5, <1>6, <1>7, <1>8, <1>9, <1>10 DEF Progress

(* Steps that leave a stream alone.                                        *)
LEMMA WriterRests ==
  ASSUME WriterHands, UNCHANGED writerVars, arg'[Writer] = arg[Writer],
         \/ pc'[Writer] = pc[Writer]
         \/ {pc[Writer], pc'[Writer]} \subseteq {"push", "pushwait"}
         \/ {pc[Writer], pc'[Writer]} \subseteq {"tellEmpty", "out"},
         harm' = {} => harm = {}, rop = "closed" => rop' = "closed"
  PROVE  WriterHands'
  BY DEF WriterHands, writerVars, Writing, Held, EndsAt

LEMMA ReaderRests ==
  ASSUME ReaderHands, UNCHANGED readerVars, got'[Reader] = got[Reader],
         \/ pc'[Reader] = pc[Reader]
         \/ {pc[Reader], pc'[Reader]} \subseteq {"pop", "popwait"}
         \/ pc[Reader] = "tellFull" /\ pc'[Reader] = "out"
  PROVE  ReaderHands'
  BY DEF ReaderHands, readerVars, Reading

(* What the reader does with a chunk, one case each.                       *)
CutFrom(chunk) == IF chunk = got[Reader] THEN {} ELSE {"cut"}
OverWindow == IF rop = "peek" /\ win # <<>> THEN {"overwritten"} ELSE {}

LEMMA PoppedCases ==
  ASSUME Popped, NEW chunk, chunk = SubSeq(got[Reader], 1, SmallerOf(Room, Len(got[Reader])))
  PROVE  /\ Reading /\ pc[Reader] = "out" /\ UNCHANGED <<ring, arg, writerVars, cvVars>>
         /\ got' = [got EXCEPT ![Reader] = NoItem]
         /\ \/ chunk = <<>> /\ GivesUp(CutFrom(chunk)) /\ rop' = "eof" /\ pc' = pc
            \/ chunk # <<>> /\ Filled(chunk) /\ harm' = harm \cup CutFrom(chunk) \cup OverWindow
  BY DEF Popped, CutFrom, OverWindow

LEMMA Regroup ==
  ASSUME NEW s \in Seq(Nat), NEW t \in Seq(Nat), NEW u \in Seq(Nat)
  PROVE  (s \o t) \o u = s \o (t \o u)
  BY ConcatAssociative, Z3

(* Giving n of the bytes in w away, and keeping the others.                *)
LEMMA GiveType ==
  ASSUME taken \in Seq(Nat), NEW w \in Seq(Nat), NEW n \in 0..Len(w), Give(n, w)
  PROVE  /\ taken' \in Seq(Nat) /\ win' \in Seq(Nat) /\ Len(win') = Len(w) - n
         /\ taken' \o win' = taken \o w
         /\ Len(taken') = Len(taken) + n
  <1> DEFINE a == SubSeq(w, 1, n)
             b == SubSeq(w, n + 1, Len(w))
  <1>1. a \in Seq(Nat) /\ b \in Seq(Nat) /\ Len(a) = n /\ Len(b) = Len(w) - n /\ a \o b = w
    BY CutInTwo
  <1>2. taken' = taken \o a /\ win' = b
    BY DEF Give
  <1> HIDE DEF a, b
  <1>3. (taken \o a) \o b = taken \o (a \o b)
    <2>1. a \in Seq(Nat) /\ b \in Seq(Nat)
      BY <1>1
    <2> QED BY <2>1, Regroup
  <1>4. taken \o a \in Seq(Nat) /\ Len(taken \o a) = Len(taken) + Len(a)
    BY <1>1, ConcatProperties
  <1> QED BY <1>1, <1>2, <1>3, <1>4

LEMMA ItemsAre ==
  ASSUME PipeQueue, QueueHands, NEW t \in Tasks
  PROVE  /\ got[t] # NoItem => got[t] \in Chunks
         /\ arg[t] # NoItem => arg[t] \in Chunks
         /\ NoItem \notin Chunks /\ NoBuffer \notin Chunks
  BY RingAssumption DEF PipeQueue, QueueHands, Cells

(* A call of the reader that is answered from the window, or goes to the   *)
(* queue for more.                                                         *)
LEMMA ReaderGets ==
  ASSUME PipeQueue, Coupled, Hands, NEW n \in 1..MaxPut, Get(n) \/ ReadSpan(n)
  PROVE  ReaderHands' /\ taken' \o win' = taken \o win
  <1> DEFINE k == SmallerOf(n, Len(win))
  <1>1. /\ rop = "idle" /\ pc[Reader] = "out" /\ need \in 0..MaxPut
        /\ taken \in Seq(Nat) /\ win \in Seq(Nat) /\ ix \in Nat /\ ix + Len(win) <= BufSize
        /\ got[Reader] = NoItem /\ part \in 0..Len(taken) /\ Give(k, win)
    BY DEF Hands, ReaderHands, Get, ReadSpan, ReaderRuns, Reading
  <1>2. /\ Reader \in Tasks /\ pc \in [Tasks -> PCs] /\ got \in [Tasks -> Cells]
        /\ Len(win) \in Nat /\ Len(taken) \in Nat /\ BufSize \in Nat /\ MaxPut \in Nat
    BY <1>1, PipeTasks, PipeAssumption, LenProperties DEF Coupled, Settled, Hands, QueueHands
  <1>3. k \in 0..Len(win) /\ (n <= Len(win) => k = n) /\ (~(n <= Len(win)) => k = Len(win))
    BY <1>2 DEF SmallerOf
  <1> HIDE DEF k
  <1>4. /\ taken' \in Seq(Nat) /\ win' \in Seq(Nat) /\ Len(win') = Len(win) - k
        /\ taken' \o win' = taken \o win /\ Len(taken') = Len(taken) + k
    BY <1>1, <1>3, GiveType
  <1>5. ix + k \in Nat /\ (ix + k) + Len(win') <= BufSize
        /\ part \in 0..Len(taken') /\ (k = Len(win) => k \in 0..Len(taken') /\ win' = <<>>)
    <2>1. /\ ix + k \in Nat /\ (ix + k) + Len(win') <= BufSize
          /\ part \in 0..Len(taken') /\ k \in 0..Len(taken')
          /\ k = Len(win) => Len(win') = 0
      BY <1>1, <1>2, <1>3, <1>4
    <2> QED BY <1>4, <2>1, EmptySeq
  <1>6. CallPop(Reader) => pc'[Reader] = "pop" /\ got'[Reader] = NoItem
    BY <1>2 DEF CallPop, Goto
  <1>7. UNCHANGED vars => pc' = pc /\ got' = got
    BY DEF vars, queueVars
  <1>8. CASE ix' = ix + k /\ part' = part /\ UNCHANGED <<rop, need, vars>>
    BY <1>1, <1>4, <1>5, <1>7, <1>8 DEF ReaderHands, Reading
  <1>9. CASE /\ k = Len(win) /\ ix' = 0 /\ part' = Len(win) /\ need' \in 0..MaxPut
             /\ rop' = "get" /\ CallPop(Reader)
    BY <1>2, <1>4, <1>5, <1>6, <1>9, EmptySeq DEF ReaderHands, Reading
  <1>10. CASE /\ k = Len(win) /\ ix' = ix + k /\ part' = part /\ need' \in 0..MaxPut
              /\ rop' = "read" /\ CallPop(Reader)
    BY <1>2, <1>4, <1>5, <1>6, <1>10 DEF ReaderHands, Reading
  <1>11. CASE Get(n)
    <2>1. CASE n <= Len(win)
      BY <1>3, <1>8, <1>11, <2>1 DEF Get
    <2>2. CASE ~(n <= Len(win))
      <3>1. n - Len(win) \in 0..MaxPut
        BY <1>2, <2>2
      <3> QED BY <1>3, <1>9, <1>11, <2>2, <3>1 DEF Get, RawRead
    <2> QED BY <2>1, <2>2
  <1>12. CASE ReadSpan(n)
    <2>1. ix' = ix + k /\ part' = part
      BY <1>12 DEF ReadSpan, k
    <2>2. CASE win # <<>>
      BY <1>8, <1>12, <2>1, <2>2 DEF ReadSpan
    <2>3. CASE win = <<>>
      <3>1. k = Len(win) /\ n \in 0..MaxPut
        BY <1>2, <1>3, <2>3, EmptySeq
      <3> QED BY <1>10, <1>12, <2>1, <2>3, <3>1 DEF ReadSpan, RawRead
    <2> QED BY <2>2, <2>3
  <1> QED BY <1>4, <1>11, <1>12

LEMMA ReaderPeeks ==
  ASSUME PipeQueue, Coupled, Hands, NEW n \in 1..MaxPut, Peek(n)
  PROVE  ReaderHands' /\ UNCHANGED <<taken, win>>
  <1>1. /\ rop = "idle" /\ pc[Reader] = "out" /\ got[Reader] = NoItem
        /\ win \in Seq(Nat) /\ ix \in Nat /\ ix + Len(win) <= BufSize
        /\ UNCHANGED <<taken, win, part>>
    BY DEF Hands, ReaderHands, Peek, ReaderRuns, Reading
  <1>2. /\ Reader \in Tasks /\ pc \in [Tasks -> PCs] /\ got \in [Tasks -> Cells]
        /\ Len(win) \in Nat /\ BufSize \in Nat /\ MaxPut \in Nat
    BY <1>1, PipeTasks, PipeAssumption, LenProperties DEF Coupled, Settled, Hands, QueueHands
  <1>3. ix' \in Nat /\ ix' + Len(win) <= BufSize
    BY <1>1, <1>2 DEF Peek
  <1>4. CASE n <= Len(win)
    <2>1. UNCHANGED <<rop, need, vars>>
      BY <1>4 DEF Peek
    <2> QED BY <1>1, <1>3, <2>1 DEF Hands, ReaderHands, Reading, vars, queueVars
  <1>5. CASE ~(n <= Len(win))
    <2>1. need' = n /\ rop' = "peek" /\ CallPop(Reader)
      BY <1>5 DEF Peek, RawRead
    <2>2. pc'[Reader] = "pop" /\ got'[Reader] = NoItem
      BY <1>2, <2>1 DEF CallPop, Goto
    <2>3. n \in 0..MaxPut /\ Len(win) < n
      BY <1>2, <1>5
    <2> QED BY <1>1, <1>3, <2>1, <2>2, <2>3 DEF Hands, ReaderHands, Reading
  <1> QED BY <1>1, <1>4, <1>5

LEMMA ReaderForwards ==
  ASSUME PipeQueue, Coupled, Hands, Forward
  PROVE  ReaderHands'
  <1>1. /\ Reader \in Tasks /\ pc \in [Tasks -> PCs] /\ got \in [Tasks -> Cells]
    BY PipeTasks DEF Coupled, Settled, Hands, QueueHands
  <1>2. /\ win = <<>> /\ rop' = "forward" /\ UNCHANGED <<win, ix, need, part, taken>>
        /\ pc'[Reader] = "pop" /\ got'[Reader] = NoItem
    BY <1>1 DEF Forward, RawRead, CallPop, Goto
  <1> QED BY <1>2 DEF Hands, ReaderHands, Reading

(* A call that fails keeps the window, and only a getn(n) drops bytes.     *)
LEMMA ReaderGivesUp ==
  ASSUME ReaderHands, NEW lost, GivesUp(lost), rop' \in {"idle", "eof"},
         pc'[Reader] = "out", got'[Reader] = NoItem
  PROVE  /\ ReaderHands' /\ win' = win
         /\ harm \subseteq harm' /\ harm' \subseteq harm \cup lost \cup {"dropped"}
         /\ harm' = {} => harm = {} /\ lost = {} /\ taken' = taken
         /\ "dropped" \in harm' \ harm => rop = "get" \/ "dropped" \in lost
  <1>1. /\ need' = 0 /\ part' = 0 /\ UNCHANGED <<win, ix>>
        /\ \/ taken' = taken /\ harm' = harm \cup lost
           \/ /\ rop = "get"
              /\ taken' = SubSeq(taken, 1, Len(taken) - part)
              /\ harm' = harm \cup lost \cup {"dropped"}
    BY DEF GivesUp
  <1>2. taken \in Seq(Nat) /\ Len(taken) \in Nat /\ part \in 0..Len(taken) /\ MaxPut \in Nat
    BY LenProperties, PipeAssumption DEF ReaderHands
  <1>3. SubSeq(taken, 1, Len(taken) - part) \in Seq(Nat)
    <2>1. Len(taken) - part \in 0..Len(taken)
      BY <1>2
    <2> QED BY <1>2, <2>1, CutInTwo
  <1>4. taken' \in Seq(Nat) /\ Len(taken') \in Nat
    BY <1>1, <1>2, <1>3, LenProperties
  <1>5. 0 \in 0..Len(taken') /\ 0 \in 0..MaxPut
    BY <1>2, <1>4
  <1>6. ReaderHands'
    BY <1>1, <1>4, <1>5 DEF ReaderHands, Reading
  <1>7. /\ harm \subseteq harm' /\ harm' \subseteq harm \cup lost \cup {"dropped"}
        /\ harm' = {} => harm = {} /\ lost = {} /\ taken' = taken
        /\ "dropped" \in harm' \ harm => rop = "get" \/ "dropped" \in lost
    BY <1>1
  <1> QED BY <1>1, <1>6, <1>7

(* A chunk that fits is put into the buffer, and the call takes its part.  *)
LEMMA ReaderFills ==
  ASSUME PipeQueue, Coupled, Hands, Reading, NEW chunk \in Seq(Nat), chunk # <<>>,
         Len(chunk) <= Room, Filled(chunk), got'[Reader] = NoItem, pc[Reader] = "out"
  PROVE  ReaderHands' /\ taken' \o win' = taken \o chunk /\ rop' # "eof"
  <1> DEFINE k == Given(chunk)
  <1>1. /\ need \in 0..MaxPut /\ taken \in Seq(Nat) /\ ix \in Nat /\ ix <= BufSize
        /\ part \in 0..Len(taken) /\ (rop = "get" => ix = 0)
        /\ rop \in {"get", "read", "peek", "forward"}
    <2>1. ix \in Nat /\ Len(win) \in Nat /\ ix + Len(win) <= BufSize /\ BufSize \in Nat
      BY LenProperties, PipeAssumption DEF Hands, ReaderHands
    <2> QED BY <2>1 DEF Hands, ReaderHands, Reading
  <1>2. /\ Reader \in Tasks /\ pc \in [Tasks -> PCs] /\ Len(chunk) \in Nat /\ Len(chunk) # 0
        /\ Len(taken) \in Nat /\ BufSize \in Nat /\ MaxPut \in Nat /\ need \in Nat
    BY <1>1, PipeTasks, PipeAssumption, LenProperties, EmptySeq DEF Coupled, Settled
  <1>3. /\ k \in 0..Len(chunk)
        /\ rop = "get" => k = IF need < Len(chunk) THEN need ELSE Len(chunk)
        /\ rop = "read" => k = Len(chunk)
        /\ rop \in {"peek", "forward"} => k = 0
    BY <1>1, <1>2 DEF Given, SmallerOf
  <1>4. Give(k, chunk)
    BY DEF Filled
  <1> HIDE DEF k
  <1>5. /\ taken' \in Seq(Nat) /\ win' \in Seq(Nat) /\ Len(win') = Len(chunk) - k
        /\ taken' \o win' = taken \o chunk /\ Len(taken') = Len(taken) + k
    BY <1>1, <1>3, <1>4, GiveType
  <1>6. rop # "read" => Len(chunk) <= BufSize - ix
    BY DEF Room
  <1>7. CASE ReadsOn(chunk)
    <2>1. /\ need' = need - k /\ part' = part + k /\ Goto(Reader, "pop") /\ rop' = rop
          /\ ix' = IF rop = "get" THEN 0 ELSE ix
      BY <1>7 DEF Filled, k
    <2>2. rop \in {"get", "peek"} /\ Len(chunk) < need
      BY <1>7 DEF ReadsOn
    <2>3. pc'[Reader] = "pop"
      BY <1>2, <2>1 DEF Goto
    <2>4. need' \in 0..MaxPut /\ part' \in 0..Len(taken')
      BY <1>1, <1>2, <1>3, <1>5, <2>1, <2>2
    <2>5. CASE rop = "get"
      <3>1. Len(win') = 0 /\ ix' = 0 /\ k = Len(chunk)
        BY <1>2, <1>3, <1>5, <2>1, <2>2, <2>5
      <3>2. win' = <<>> /\ 0 + Len(win') <= BufSize
        BY <1>2, <1>5, <3>1, EmptySeq
      <3> QED BY <1>5, <2>1, <2>3, <2>4, <2>5, <3>1, <3>2 DEF ReaderHands, Reading
    <2>6. CASE rop = "peek"
      <3>1. k = 0 /\ need' = need /\ Len(win') = Len(chunk) /\ ix' = ix
        BY <1>1, <1>2, <1>3, <1>5, <2>1, <2>6
      <3>2. ix' + Len(win') <= BufSize /\ Len(win') < need'
        BY <1>1, <1>2, <1>6, <2>2, <2>6, <3>1
      <3> QED BY <1>1, <1>5, <2>1, <2>3, <2>4, <2>6, <3>1, <3>2 DEF ReaderHands, Reading
    <2> QED BY <2>2, <2>5, <2>6
  <1>8. CASE ~ReadsOn(chunk)
    <2>1. /\ need' = 0 /\ part' = 0 /\ rop' = "idle" /\ pc' = pc
          /\ ix' = IF rop = "get" THEN ix + k ELSE ix
      BY <1>8 DEF Filled, k
    <2>2. ix' \in Nat /\ ix' + Len(win') <= BufSize
      BY <1>1, <1>2, <1>3, <1>5, <1>6, <2>1
    <2>3. 0 \in 0..MaxPut /\ 0 \in 0..Len(taken')
      BY <1>2, <1>3, <1>5
    <2> QED BY <1>5, <2>1, <2>2, <2>3 DEF ReaderHands, Reading
  <1> QED BY <1>7, <1>8

LEMMA ReaderPops ==
  ASSUME PipeQueue, Coupled, Hands, Popped
  PROVE  /\ ReaderHands'
         /\ harm \subseteq harm' /\ harm' \subseteq harm \cup {"cut", "overwritten", "dropped"}
         /\ harm' = {} => harm = {} /\ taken' \o win' = (taken \o win) \o got[Reader]
         /\ harm' = {} => (got[Reader] = End <=> rop' = "eof")
         /\ harm' = {} /\ rop' = "eof" => taken' \o win' = taken \o win
         /\ "cut" \in harm' \ harm => rop \in {"read", "peek", "forward"} \/ Len(got[Reader]) > BufSize
         /\ "overwritten" \in harm' \ harm => rop = "peek" /\ Len(win) < need
         /\ "dropped" \in harm' \ harm => rop = "get" /\ rop' = "eof"
  <1> DEFINE n == SmallerOf(Room, Len(got[Reader]))
             chunk == SubSeq(got[Reader], 1, n)
  <1>1. /\ Reading /\ pc[Reader] = "out" /\ got[Reader] # NoItem
        /\ need \in 0..MaxPut /\ taken \in Seq(Nat) /\ win \in Seq(Nat) /\ ix \in Nat
        /\ rop = "get" => ix = 0
        /\ rop # "peek" => win = <<>>
        /\ rop = "peek" => Len(win) < need
    BY DEF Popped, Hands, ReaderHands, Reading
  <1>2. /\ Reader \in Tasks /\ pc \in [Tasks -> PCs] /\ got \in [Tasks -> Cells]
        /\ got[Reader] \in Chunks
    BY <1>1, PipeTasks, ItemsAre DEF Coupled, Settled, Hands, QueueHands
  <1>3. /\ got[Reader] \in Seq(Nat) /\ Len(got[Reader]) \in Nat
        /\ BufSize \in Nat \ {0} /\ MaxPut \in Nat /\ need \in Nat
    BY <1>1, <1>2, ChunkIs, LenProperties, PipeAssumption
  <1>4. ix <= BufSize
    <2>1. ix + Len(win) <= BufSize /\ Len(win) \in Nat
      BY <1>1, LenProperties DEF Hands, ReaderHands
    <2> QED BY <1>1, <1>3, <2>1
  <1>5. n \in 0..Len(got[Reader]) /\ n <= Room /\ (n # Len(got[Reader]) => n = Room)
        /\ n \in Nat /\ Room \in Nat
    BY <1>1, <1>3, <1>4 DEF SmallerOf, Room
  <1>6. chunk \in Seq(Nat) /\ Len(chunk) = n
    BY <1>3, <1>5, CutInTwo
  <1>7. chunk # got[Reader] => rop \in {"read", "peek", "forward"} \/ Len(got[Reader]) > BufSize
    <2> SUFFICES ASSUME chunk # got[Reader], rop = "get" PROVE Len(got[Reader]) > BufSize
      BY <1>1 DEF Reading
    <2>1. Room = BufSize
      BY <1>1, <1>3 DEF Room
    <2>2. n # Len(got[Reader])
      BY <1>3, SubSeqFull
    <2> QED BY <1>3, <1>5, <2>1, <2>2
  <1> HIDE DEF chunk, n
  <1>8. /\ got' = [got EXCEPT ![Reader] = NoItem]
        /\ \/ chunk = <<>> /\ GivesUp(CutFrom(chunk)) /\ rop' = "eof" /\ pc' = pc
           \/ chunk # <<>> /\ Filled(chunk) /\ harm' = harm \cup CutFrom(chunk) \cup OverWindow
    BY PoppedCases DEF chunk, n
  <1>9. got'[Reader] = NoItem
    BY <1>2, <1>8
  <1>10. CASE chunk = <<>>
    <2>1. GivesUp(CutFrom(chunk)) /\ rop' = "eof" /\ pc'[Reader] = "out"
      BY <1>1, <1>8, <1>10
    <2>2. /\ ReaderHands' /\ win' = win
          /\ harm \subseteq harm' /\ harm' \subseteq harm \cup CutFrom(chunk) \cup {"dropped"}
          /\ harm' = {} => harm = {} /\ CutFrom(chunk) = {} /\ taken' = taken
          /\ "dropped" \in harm' \ harm => rop = "get" \/ "dropped" \in CutFrom(chunk)
      BY <1>9, <2>1, ReaderGivesUp DEF Hands
    <2>3. /\ CutFrom(chunk) \subseteq {"cut"}
          /\ CutFrom(chunk) = {} <=> chunk = got[Reader]
      BY DEF CutFrom
    <2>4. taken \o win \in Seq(Nat)
      BY <1>1, ConcatProperties
    <2>5. (taken \o win) \o <<>> = taken \o win
      BY <2>4, ConcatEmptySeq
    <2>6. harm' = {} => got[Reader] = <<>>
      BY <1>10, <2>2, <2>3
    <2>7. harm' = {} => harm = {} /\ taken' \o win' = (taken \o win) \o got[Reader]
      BY <2>2, <2>5, <2>6
    <2> QED BY <1>7, <2>1, <2>2, <2>3, <2>6, <2>7 DEF End
  <1>11. CASE chunk # <<>>
    <2>1. Filled(chunk) /\ harm' = harm \cup CutFrom(chunk) \cup OverWindow
      BY <1>8, <1>11
    <2>2. ReaderHands' /\ taken' \o win' = taken \o chunk /\ rop' # "eof"
      BY <1>1, <1>5, <1>6, <1>9, <1>11, <2>1, ReaderFills
    <2>3. /\ CutFrom(chunk) \subseteq {"cut"} /\ OverWindow \subseteq {"overwritten"}
          /\ CutFrom(chunk) = {} <=> chunk = got[Reader]
          /\ OverWindow = {} <=> (rop = "peek" => win = <<>>)
      BY DEF CutFrom, OverWindow
    <2>4. harm' = {} => harm = {} /\ chunk = got[Reader] /\ win = <<>>
      BY <1>1, <2>1, <2>3
    <2>5. taken \o <<>> = taken
      BY <1>1, ConcatEmptySeq
    <2>6. harm' = {} => harm = {} /\ taken' \o win' = (taken \o win) \o got[Reader]
      BY <2>2, <2>4, <2>5
    <2>7. harm' = {} => got[Reader] # End
      BY <1>11, <2>4 DEF End
    <2>8. "overwritten" \in harm' \ harm => rop = "peek"
      BY <2>1, <2>3
    <2> QED BY <1>1, <1>7, <2>1, <2>2, <2>3, <2>6, <2>7, <2>8
  <1> QED BY <1>10, <1>11

(* The reader's pop and the writer's push, between the hands and the ring. *)
LEMMA HandsTake ==
  ASSUME PipeQueue, Coupled, Hands, Takes, UNCHANGED readerVars
  PROVE  /\ QueueHands' /\ ReaderHands'
         /\ got[Reader] = NoItem /\ RingContents(ring) # <<>>
         /\ ~Strayed(ring') => ~Strayed(ring) /\ got'[Reader] = Head(RingContents(ring))
         /\ RingContents(ring') = Tail(RingContents(ring))
         /\ Reading
  <1>1. /\ ring \in Rings(MaxSize) /\ MaxSize \in Nat
        /\ RingContents(ring) \in Seq(Items \cup {Lost})
        /\ ~Strayed(ring) => RingContents(ring) \in Seq(Items)
        /\ arg \in [Tasks -> Cells] /\ got \in [Tasks -> Cells] /\ Reader \in Tasks
    BY QueueAssumption, PipeTasks DEF Hands, QueueHands
  <1>2. RingContents(ring) # <<>> /\ ~RingEmpty(ring)
    BY <1>1, EmptyAndFull DEF Takes
  <1>3. /\ ring' \in Rings(MaxSize)
        /\ RingFronts(ring) =
             IF Head(RingContents(ring)) = Lost THEN Junk ELSE {Head(RingContents(ring))}
        /\ RingContents(ring') = Tail(RingContents(ring))
        /\ ~Strayed(ring') => ~Strayed(ring)
    BY <1>1, <1>2, PopTakesFirst DEF Takes
  <1>4. /\ Head(RingContents(ring)) \in Items \cup {Lost}
        /\ Tail(RingContents(ring)) \in Seq(Items \cup {Lost})
    BY <1>1, <1>2, HeadTailProperties
  <1>5. ~Strayed(ring) =>
          Head(RingContents(ring)) \in Items /\ Tail(RingContents(ring)) \in Seq(Items)
    BY <1>1, <1>2, HeadTailProperties
  <1>6. PICK v \in RingFronts(ring) : got' = [got EXCEPT ![Reader] = v]
    BY DEF Takes
  <1>7. v \in Items /\ (~Strayed(ring) => v = Head(RingContents(ring)))
    BY <1>3, <1>4, <1>5, <1>6, RingAssumption
  <1>8. got' \in [Tasks -> Cells] /\ got'[Reader] = v /\ v # NoItem
    BY <1>1, <1>6, <1>7, RingAssumption DEF Cells
  <1>9. QueueHands'
    BY <1>1, <1>3, <1>4, <1>5, <1>8 DEF Takes, QueueHands
  <1>10. Reading /\ got[Reader] = NoItem
    BY DEF Hands, ReaderHands, Takes, Reading
  <1>11. ReaderHands'
    BY <1>8, <1>10 DEF Hands, ReaderHands, Takes, readerVars, Reading
  <1> QED BY <1>2, <1>3, <1>7, <1>8, <1>9, <1>10, <1>11

LEMMA RingTakes ==
  ASSUME PipeQueue, QueueHands, NEW v \in Chunks, ~RingFull(ring), ring' = RingPush(ring, v)
  PROVE  /\ ring' \in Rings(MaxSize) /\ RingContents(ring') \in Seq(Items \cup {Lost})
         /\ ~Strayed(ring') =>
              /\ ~Strayed(ring) /\ RingContents(ring') \in Seq(Items)
              /\ RingContents(ring') = Append(RingContents(ring), v)
  <1>1. /\ ring \in Rings(MaxSize) /\ MaxSize \in Nat
        /\ RingContents(ring) \in Seq(Items \cup {Lost})
        /\ ~Strayed(ring) => RingContents(ring) \in Seq(Items)
        /\ v \in Items
    BY QueueAssumption DEF QueueHands, PipeQueue
  <1>2. /\ ring' \in Rings(MaxSize)
        /\ RingContents(ring') = Append(RingContents(ring), Kept(ring, v))
        /\ ~Strayed(ring') => ~Strayed(ring) /\ Kept(ring, v) = v
    BY <1>1, PushAppends
  <1>3. Kept(ring, v) \in Items \cup {Lost}
    BY <1>1 DEF Kept
  <1>4. RingContents(ring') \in Seq(Items \cup {Lost})
    BY <1>1, <1>2, <1>3, AppendProperties
  <1>5. ~Strayed(ring') => RingContents(ring') \in Seq(Items)
    BY <1>1, <1>2, AppendProperties
  <1> QED BY <1>2, <1>4, <1>5

LEMMA HandsStore ==
  ASSUME PipeQueue, Coupled, Hands, Stores, UNCHANGED writerVars,
         harm' = harm, rop' = rop
  PROVE  /\ QueueHands' /\ WriterHands'
         /\ arg[Writer] \in Chunks /\ arg'[Writer] = NoItem /\ Writing
         /\ ~Strayed(ring') =>
              ~Strayed(ring) /\ RingContents(ring') = Append(RingContents(ring), arg[Writer])
  <1>1. arg[Writer] # NoItem /\ Writing
    BY DEF Hands, WriterHands, Stores
  <1>2. /\ arg \in [Tasks -> Cells] /\ got \in [Tasks -> Cells] /\ Writer \in Tasks
        /\ arg[Writer] \in Chunks
    BY <1>1, ItemsAre, PipeTasks DEF Hands, QueueHands
  <1>3. /\ ring' \in Rings(MaxSize) /\ RingContents(ring') \in Seq(Items \cup {Lost})
        /\ ~Strayed(ring') =>
             /\ ~Strayed(ring) /\ RingContents(ring') \in Seq(Items)
             /\ RingContents(ring') = Append(RingContents(ring), arg[Writer])
    BY <1>2, RingTakes DEF Hands, Stores
  <1>4. arg'[Writer] = NoItem /\ arg' \in [Tasks -> Cells]
    BY <1>2 DEF Stores, Cells
  <1>5. QueueHands'
    BY <1>2, <1>3, <1>4 DEF Stores, QueueHands
  <1>6. WriterHands'
    BY <1>1, <1>4 DEF Hands, WriterHands, Stores, writerVars, Writing, Held, EndsAt
  <1> QED BY <1>1, <1>2, <1>3, <1>4, <1>5, <1>6

-----------------------------------------------------------------------------
(* The writer's steps.                                                     *)
LEMMA HeldFacts ==
  ASSUME PipeQueue, Hands
  PROVE  /\ Held \in Seq(Nat) /\ Held \in Chunks /\ Len(Held) \in 0..BufSize
         /\ Space = BufSize - Len(Held) /\ Space \in 0..BufSize
         /\ rest \in Seq(Nat) /\ sent \in 0..MaxBytes /\ BufSize \in Nat \ {0}
         /\ Len(Held) < BufSize => EndsAt(Held, sent)
  <1>1. /\ out \in Chunks \cup {NoBuffer} /\ Len(Held) <= BufSize /\ sent \in 0..MaxBytes
        /\ rest \in Seq(Nat) /\ (Held # <<>> /\ Len(Held) < BufSize => EndsAt(Held, sent))
    BY DEF Hands, WriterHands
  <1>2. BufSize \in Nat \ {0}
    BY PipeAssumption
  <1>3. Held \in Chunks
    BY <1>1, EndIsChunk DEF Held, End
  <1>4. Held \in Seq(Nat) /\ Len(Held) \in Nat
    BY <1>3, ChunkIs, LenProperties
  <1>5. Space = BufSize - Len(Held)
    <2>1. CASE out = NoBuffer
      BY <1>2, <2>1, EmptySeq DEF Space, Held
    <2>2. CASE out # NoBuffer
      BY <2>2 DEF Space, Held
    <2> QED BY <2>1, <2>2
  <1>6. Len(Held) < BufSize => EndsAt(Held, sent)
    BY <1>1, EndsAtNone
  <1> QED BY <1>1, <1>2, <1>3, <1>4, <1>5, <1>6

(* What is lined up behind the ring: a chunk write() pushes past the       *)
(* buffer, the buffer, unless it is in the ring already, and the rest.     *)
LEMMA BehindIs ==
  /\ wop \notin {"put", "flush", "write"} => Behind = <<>> \o (Held \o rest)
  /\ wop \in {"put", "flush"} /\ arg[Writer] = NoItem => Behind = <<>> \o (<<>> \o rest)
  /\ wop \in {"put", "flush"} /\ arg[Writer] # NoItem => Behind = <<>> \o (Held \o rest)
  /\ wop = "write" /\ arg[Writer] = NoItem => Behind = <<>> \o (Held \o rest)
  /\ wop = "write" /\ arg[Writer] # NoItem => Behind = arg[Writer] \o (Held \o rest)
  BY DEF Behind, Unflushed, Stored, InHand

LEMMA BehindNext ==
  /\ wop' \notin {"put", "flush", "write"} => Behind' = <<>> \o (Held' \o rest')
  /\ wop' \in {"put", "flush"} /\ arg'[Writer] = NoItem => Behind' = <<>> \o (<<>> \o rest')
  /\ wop' \in {"put", "flush"} /\ arg'[Writer] # NoItem => Behind' = <<>> \o (Held' \o rest')
  /\ wop' = "write" /\ arg'[Writer] = NoItem => Behind' = <<>> \o (Held' \o rest')
  /\ wop' = "write" /\ arg'[Writer] # NoItem => Behind' = arg'[Writer] \o (Held' \o rest')
  BY DEF Behind, Unflushed, Stored, InHand

LEMMA NothingBefore ==
  ASSUME NEW s \in Seq(Nat), NEW t \in Seq(Nat)
  PROVE  s \o t \in Seq(Nat) /\ <<>> \o (s \o t) = s \o t
  BY ConcatProperties, ConcatEmptySeq

LEMMA NothingAtAll ==
  ASSUME NEW s \in Seq(Nat)
  PROVE  /\ <<>> \o s = s /\ s \o <<>> = s
         /\ <<>> \o (<<>> \o s) = s /\ <<>> \o (s \o <<>>) = s
  BY ConcatEmptySeq

(* A push the writer starts: the chunk is in its hands.                    *)
LEMMA CallsPush ==
  ASSUME PipeQueue, Coupled, QueueHands, NEW v \in Chunks, CallPush(Writer, v)
  PROVE  /\ pc'[Writer] = "push" /\ arg'[Writer] = v /\ v # NoItem
         /\ QueueHands' /\ ring' = ring
  <1>1. /\ Writer \in Tasks /\ pc \in [Tasks -> PCs] /\ arg \in [Tasks -> Cells]
        /\ v \in Items
    BY PipeTasks DEF Coupled, Settled, QueueHands, PipeQueue
  <1>2. pc'[Writer] = "push" /\ arg'[Writer] = v /\ arg' \in [Tasks -> Cells]
        /\ UNCHANGED <<ring, got>>
    BY <1>1 DEF CallPush, Goto, Cells
  <1> QED BY <1>1, <1>2, RingAssumption DEF QueueHands

LEMMA QueueRests ==
  ASSUME QueueHands, UNCHANGED <<ring, arg, got>>
  PROVE  QueueHands' /\ ring' = ring
  BY DEF QueueHands

(* put(): the bytes that fit into the buffer, and a push of the full one.  *)
LEMMA WriterPuts ==
  ASSUME PipeQueue, Coupled, Hands, NEW n \in 1..MaxPut, Put(n)
  PROVE  /\ QueueHands' /\ WriterHands' /\ ring' = ring
         /\ sent + n <= MaxBytes /\ sent' = sent + n
         /\ rop # "closed" => Behind' = Behind \o Bytes(sent + 1, sent + n)
  <1> DEFINE s == Bytes(sent + 1, sent + n)
  <1>1. /\ wop = "idle" /\ pc[Writer] = "out" /\ arg[Writer] = NoItem /\ sent' = sent + n
        /\ harm' = harm /\ rop' = rop /\ (rop # "closed" => rest = <<>>)
        /\ QueueHands /\ sent + n <= MaxBytes /\ Store(s)
    BY DEF Put, WriterRuns, Hands, WriterHands, readerVars
  <1>2. /\ Held \in Seq(Nat) /\ Held \in Chunks /\ Len(Held) \in Nat /\ Len(Held) <= BufSize
        /\ Space = BufSize - Len(Held) /\ Space \in Nat
        /\ rest \in Seq(Nat) /\ sent \in 0..MaxBytes /\ BufSize \in Nat \ {0}
        /\ (Len(Held) < BufSize => EndsAt(Held, sent))
    BY HeldFacts, PipeAssumption
  <1>3. n \in Nat /\ 1 <= n /\ MaxBytes \in Nat
    BY PipeAssumption
  <1>4. /\ sent + n \in 0..MaxBytes /\ sent + n \in sent..MaxBytes
        /\ Run(s, sent + 1, sent + n) /\ EndsAt(s, sent + n)
        /\ s \in Chunks /\ s \in Seq(Nat) /\ Len(s) = n
    BY <1>1, <1>2, <1>3, NextBytes
  <1>5. /\ Writer \in Tasks /\ pc \in [Tasks -> PCs] /\ arg \in [Tasks -> Cells]
        /\ NoItem \notin Chunks /\ NoBuffer \notin Chunks
    BY PipeTasks, ItemsAre DEF Coupled, Settled, Hands, QueueHands
  <1>6. rop # "closed" => Behind = Held
    <2> SUFFICES ASSUME rop # "closed" PROVE Behind = Held
      OBVIOUS
    <2>1. Behind = <<>> \o (Held \o <<>>)
      BY <1>1, BehindIs
    <2> QED BY <1>2, <2>1, NothingAtAll
  <1> HIDE DEF s
  <1>7. CASE n <= Space
    <2>1. wop' = "idle" /\ out' = Held \o s /\ rest' = <<>> /\ UNCHANGED vars
      BY <1>1, <1>4, <1>7 DEF Store
    <2>2. EndsAt(Held, sent)
      BY <1>2, <1>3, <1>7
    <2>3. EndsAt(Held \o s, sent + n)
      BY <1>2, <1>4, <2>2, EndsAtPut
    <2>4. out' \in Chunks /\ out' # NoBuffer /\ out' \in Seq(Nat)
      BY <1>4, <1>5, <2>1, <2>3, EndsAtType
    <2>5. Len(out') = Len(Held) + n
      BY <1>2, <1>4, <2>1, ConcatProperties
    <2>6. Len(out') <= BufSize
      BY <1>2, <1>3, <1>7, <2>5
    <2>7. QueueHands' /\ ring' = ring /\ pc' = pc /\ arg' = arg
      BY <1>1, <2>1, QueueRests DEF vars, queueVars
    <2>8. Held' = out'
      BY <2>4 DEF Held
    <2>9. EndsAt(Held, sent)'
      BY <1>1, <2>1, <2>3, <2>8 DEF EndsAt
    <2>10. WriterHands'
      BY <1>1, <1>4, <2>1, <2>4, <2>6, <2>7, <2>8, <2>9, EmptySeq DEF WriterHands, Writing
    <2>11. rop # "closed" => Behind' = Behind \o s
      <3>1. Behind' = <<>> \o (out' \o <<>>)
        BY <2>1, <2>8, BehindNext
      <3>2. Behind' = out'
        BY <2>4, <3>1, NothingAtAll
      <3> QED BY <1>6, <2>1, <3>2
    <2> QED BY <1>1, <2>7, <2>10, <2>11 DEF s
  <1>8. CASE ~(n <= Space)
    <2> DEFINE s1 == SubSeq(s, 1, Space)
               s2 == SubSeq(s, Space + 1, Len(s))
               e == sent + Space
    <2>1. out' = Held \o s1 /\ rest' = s2 /\ RawWrite("put", out')
      BY <1>1, <1>4, <1>8 DEF Store
    <2>2. Space \in 0..Len(s)
      BY <1>2, <1>3, <1>4, <1>8
    <2>3. s1 \in Seq(Nat) /\ s2 \in Seq(Nat) /\ Len(s1) = Space /\ s1 \o s2 = s
      BY <1>4, <2>2, CutInTwo
    <2>4. EndsAt(s2, sent + n)
      BY <1>4, <2>2, EndsAtCut
    <2> HIDE DEF s1, s2
    <2>5. e \in Nat /\ e + 1 = (sent + 1) + Len(s1) /\ e \in sent..MaxBytes
      <3>1. Space \in 0..n
        <4>1. Len(s) = n
          BY <1>4
        <4> QED BY <2>2, <4>1
      <3>2. sent \in Nat /\ n \in Nat /\ MaxBytes \in Nat /\ sent + n <= MaxBytes
        <4>1. sent \in Nat /\ sent + n <= MaxBytes
          BY <1>1, <1>2, <1>3
        <4> QED BY <1>3, <4>1
      <3> QED BY <2>3, <3>1, <3>2
    <2> HIDE DEF e
    <2>6. Run(s1, sent + 1, e)
      <3>1. Run(s1 \o s2, sent + 1, sent + n)
        BY <1>4, <2>3
      <3>2. sent + 1 \in Nat /\ sent + n \in Nat /\ 1 <= sent + 1 /\ sent + 1 <= sent + n + 1
        BY <1>2, <1>3
      <3> QED BY <2>3, <2>5, <3>1, <3>2, RunSplit
    <2>7. out' \in Chunks
      <3>1. CASE Len(Held) < BufSize
        <4>1. EndsAt(Held \o s1, e)
          BY <1>2, <2>5, <2>6, <3>1, EndsAtPut
        <4>2. e \in 0..MaxBytes
          BY <1>2, <1>3, <2>5
        <4> QED BY <2>1, <4>1, <4>2, EndsAtType
      <3>2. CASE ~(Len(Held) < BufSize)
        <4>1. Len(s1) = 0
          BY <1>2, <2>3, <3>2
        <4>2. s1 = <<>>
          BY <2>3, <4>1, EmptySeq
        <4>3. Held \o s1 = Held
          BY <1>2, <4>2, ConcatEmptySeq
        <4> QED BY <1>2, <2>1, <4>3
      <3> QED BY <3>1, <3>2
    <2>8. Len(out') = BufSize
      <3>1. Len(out') = Len(Held) + Len(s1)
        BY <1>2, <2>1, <2>3, ConcatProperties
      <3> QED BY <1>2, <2>3, <3>1
    <2>9. out' # NoBuffer /\ Held' = out' /\ out' \in Seq(Nat) /\ rest' \in Seq(Nat)
      BY <1>5, <2>1, <2>3, <2>7, ChunkIs DEF Held
    <2>10. out' # End
      BY <1>2, <2>8, EndIsChunk
    <2>11. EndsAt(rest, sent)'
      BY <1>1, <2>1, <2>4 DEF EndsAt
    <2>12. CASE rop = "closed"
      <3>1. wop' = "idle" /\ UNCHANGED vars
        BY <2>1, <2>12 DEF RawWrite
      <3>2. QueueHands' /\ ring' = ring /\ pc' = pc /\ arg' = arg
        BY <1>1, <3>1, QueueRests DEF vars, queueVars
      <3>3. WriterHands'
        BY <1>1, <1>2, <1>4, <2>7, <2>8, <2>9, <2>12, <3>1, <3>2 DEF WriterHands, Writing
      <3> QED BY <1>1, <2>12, <3>2, <3>3
    <2>13. CASE rop # "closed"
      <3>1. wop' = "put" /\ CallPush(Writer, out')
        BY <2>1, <2>13 DEF RawWrite
      <3>2. /\ pc'[Writer] = "push" /\ arg'[Writer] = out' /\ out' # NoItem
            /\ QueueHands' /\ ring' = ring
        BY <1>1, <2>7, <3>1, CallsPush
      <3>3. WriterHands'
        BY <1>1, <1>2, <1>4, <2>7, <2>8, <2>9, <2>10, <2>11, <3>1, <3>2
           DEF WriterHands, Writing
      <3>4. Behind' = out' \o s2
        <4>1. Behind' = <<>> \o (out' \o s2)
          BY <2>1, <2>9, <3>1, <3>2, BehindNext
        <4> QED BY <2>3, <2>9, <4>1, NothingBefore
      <3>5. (Held \o s1) \o s2 = Held \o (s1 \o s2)
        BY <1>2, <2>3, Regroup
      <3>6. Behind' = Behind \o s
        BY <1>6, <2>1, <2>3, <2>13, <3>4, <3>5
      <3> QED BY <1>1, <3>2, <3>3, <3>6 DEF s
    <2> QED BY <2>12, <2>13
  <1> QED BY <1>7, <1>8

LEMMA WriterFlushes ==
  ASSUME PipeQueue, Coupled, Hands, Flush
  PROVE  /\ QueueHands' /\ WriterHands' /\ ring' = ring
         /\ Behind' = Behind
  <1>1. /\ wop = "idle" /\ pc[Writer] = "out" /\ arg[Writer] = NoItem
        /\ harm' = harm /\ rop' = rop /\ sent' = sent /\ rest' = rest
        /\ (rest # <<>> => rop = "closed") /\ QueueHands /\ out' = Held
        /\ (Held # <<>> /\ Len(Held) < BufSize => EndsAt(Held, sent))
    BY DEF Flush, WriterRuns, Hands, WriterHands, readerVars
  <1>2. /\ Held \in Seq(Nat) /\ Held \in Chunks /\ Len(Held) <= BufSize
        /\ rest \in Seq(Nat) /\ sent \in 0..MaxBytes
    BY HeldFacts, PipeAssumption
  <1>3. Held' = Held
    BY <1>1, <1>2, ItemsAre, PipeTasks DEF Held, Hands
  <1>4. EndsAt(Held, sent)' <=> EndsAt(Held, sent)
    BY <1>1, <1>3 DEF EndsAt
  <1>5. CASE wop' = "idle" /\ UNCHANGED vars
    <2>1. QueueHands' /\ ring' = ring /\ pc' = pc /\ arg' = arg
      BY <1>1, <1>5, QueueRests DEF vars, queueVars
    <2>2. WriterHands'
      BY <1>1, <1>2, <1>3, <1>4, <1>5, <2>1 DEF WriterHands, Writing
    <2>3. Behind' = Behind
      BY <1>1, <1>3, <1>5, BehindIs, BehindNext
    <2> QED BY <2>1, <2>2, <2>3
  <1>6. CASE Held # <<>> /\ rop # "closed"
    <2>1. wop' = "flush" /\ CallPush(Writer, Held) /\ out = Held /\ rest = <<>>
      BY <1>1, <1>6 DEF Flush, RawWrite, Held
    <2>2. /\ pc'[Writer] = "push" /\ arg'[Writer] = Held /\ Held # NoItem
          /\ QueueHands' /\ ring' = ring
      BY <1>1, <1>2, <2>1, CallsPush
    <2>3. WriterHands'
      BY <1>1, <1>2, <1>3, <1>4, <1>6, <2>1, <2>2 DEF WriterHands, Writing, End
    <2>4. Behind' = Behind
      BY <1>1, <1>3, <2>1, <2>2, BehindIs, BehindNext
    <2> QED BY <2>2, <2>3, <2>4
  <1> QED BY <1>1, <1>5, <1>6 DEF Flush, RawWrite

(* write(): it goes past a buffer that holds bytes only when that is full. *)
LEMMA WriterWrites ==
  ASSUME PipeQueue, Coupled, Hands, NEW n \in 1..MaxPut, Write(n)
  PROVE  /\ QueueHands' /\ WriterHands' /\ ring' = ring
         /\ sent + n <= MaxBytes /\ sent' = sent + n
         /\ harm \subseteq harm' /\ harm' \subseteq harm \cup {"overtaken"}
         /\ harm' # harm => Space = 0
         /\ harm' = {} =>
              harm = {} /\ Behind' = Behind \o Bytes(sent + 1, sent + n)
  <1> DEFINE s == Bytes(sent + 1, sent + n)
  <1>1. /\ wop = "idle" /\ pc[Writer] = "out" /\ arg[Writer] = NoItem
        /\ rop' = rop /\ sent' = sent + n /\ rest' = rest /\ out' = out
        /\ rop # "closed" /\ rest = <<>> /\ QueueHands
        /\ sent + n <= MaxBytes /\ (out = NoBuffer \/ Space = 0)
        /\ wop' = "write" /\ CallPush(Writer, s)
    BY DEF Write, WriterRuns, Hands, WriterHands, readerVars, RawWrite
  <1>2. /\ Held \in Seq(Nat) /\ Len(Held) \in Nat /\ Len(Held) <= BufSize
        /\ Space = BufSize - Len(Held) /\ out \in Chunks \cup {NoBuffer}
        /\ rest \in Seq(Nat) /\ sent \in 0..MaxBytes /\ BufSize \in Nat \ {0}
    BY HeldFacts, PipeAssumption DEF Hands, WriterHands
  <1>3. n \in Nat /\ 1 <= n
    BY PipeAssumption
  <1>4. /\ sent + n \in 0..MaxBytes /\ EndsAt(s, sent + n)
        /\ s \in Chunks /\ s \in Seq(Nat) /\ Len(s) = n
    BY <1>1, <1>2, <1>3, NextBytes
  <1> HIDE DEF s
  <1>5. Held' = Held /\ (Held # <<>> => Len(Held) = BufSize /\ Space = 0)
    BY <1>1, <1>2 DEF Held
  <1>6. /\ pc'[Writer] = "push" /\ arg'[Writer] = s /\ s # NoItem
        /\ QueueHands' /\ ring' = ring
    BY <1>1, <1>4, CallsPush
  <1>7. /\ Held = <<>> => harm' = harm
        /\ Held # <<>> => harm' = harm \cup {"overtaken"}
    BY DEF Write
  <1>8. EndsAt(arg[Writer], sent)'
    BY <1>1, <1>4, <1>6 DEF EndsAt
  <1>9. s # End
    BY <1>3, <1>4, EndIsChunk
  <1>10. WriterHands'
    <2>1. sent' \in 0..MaxBytes /\ rest' = <<>> /\ rest' \in Seq(Nat)
      BY <1>1, <1>2, <1>4
    <2>2. Held' # <<>> => ~(Len(Held') < BufSize) /\ Len(Held') = BufSize /\ harm' # {}
      <3>1. Held # <<>> => harm' # {}
        BY <1>7
      <3> QED BY <1>2, <1>5, <3>1
    <2> QED BY <1>1, <1>2, <1>5, <1>6, <1>8, <1>9, <2>1, <2>2 DEF WriterHands, Writing
  <1>11. ASSUME harm' = {} PROVE harm = {} /\ Behind' = Behind \o s
    <2>1. Held = <<>> /\ harm = {}
      BY <1>7, <1>11
    <2>2. Behind = <<>> \o (<<>> \o <<>>)
      BY <1>1, <2>1, BehindIs
    <2>3. Behind' = s \o (<<>> \o <<>>)
      BY <1>1, <1>5, <1>6, <2>1, BehindNext
    <2>4. <<>> \o (<<>> \o <<>>) = <<>> /\ <<>> \o <<>> = <<>> /\ s \o <<>> = s /\ <<>> \o s = s
      BY <1>2, <1>4, <2>1, NothingAtAll
    <2> QED BY <2>1, <2>2, <2>3, <2>4
  <1> QED BY <1>1, <1>5, <1>6, <1>7, <1>10, <1>11 DEF s

LEMMA WriterCloses ==
  ASSUME PipeQueue, Coupled, Hands, Close
  PROVE  /\ QueueHands' /\ WriterHands' /\ ring' = ring
         /\ Behind' = Behind /\ arg'[Writer] = End
  <1>1. /\ wop = "idle" /\ pc[Writer] = "out" /\ arg[Writer] = NoItem
        /\ rop' = rop /\ sent' = sent /\ rest' = rest /\ out' = out /\ harm' = harm
        /\ rop # "closed" /\ rest = <<>> /\ QueueHands
        /\ wop' = "close" /\ CallPush(Writer, End)
    BY DEF Close, WriterRuns, Hands, WriterHands, readerVars, RawWrite
  <1>2. /\ pc'[Writer] = "push" /\ arg'[Writer] = End /\ End # NoItem
        /\ QueueHands' /\ ring' = ring
    BY <1>1, EndIsChunk, CallsPush
  <1>3. WriterHands'
    BY <1>1, <1>2 DEF Hands, WriterHands, Writing, Held, EndsAt
  <1>4. Held' = Held
    BY <1>1 DEF Held
  <1>5. Behind' = Behind
    BY <1>1, <1>4, BehindIs, BehindNext
  <1> QED BY <1>2, <1>3, <1>5

LEMMA WriterGoes ==
  ASSUME PipeQueue, Coupled, Hands, Destroy
  PROVE  /\ QueueHands' /\ WriterHands' /\ Behind' = Behind /\ arg'[Writer] = arg[Writer]
         /\ \/ ring' = ring /\ (wop' = "gone" => wop = "closed")
            \/ /\ wop' = "gone"
               /\ ~Strayed(ring') =>
                    ~Strayed(ring) /\ RingContents(ring') = Append(RingContents(ring), End)
  <1>1. /\ wop \in {"idle", "closed", "unheard"} /\ pc[Writer] = "out" /\ arg[Writer] = NoItem
        /\ rop' = rop /\ sent' = sent /\ rest' = rest /\ out' = out /\ harm' = harm
        /\ QueueHands /\ wop' \in {"gone", "silent"}
    BY DEF Destroy, Hands, WriterHands, readerVars, Writing
  <1>2. Held' = Held
    BY <1>1 DEF Held
  <1>3. Behind' = Behind
    BY <1>1, <1>2, BehindIs, BehindNext
  <1>4. CASE UNCHANGED vars /\ wop' = IF wop = "closed" THEN "gone" ELSE "silent"
    <2>1. QueueHands' /\ ring' = ring /\ pc' = pc /\ arg' = arg
      BY <1>1, <1>4, QueueRests DEF vars, queueVars
    <2>2. WriterHands'
      BY <1>1, <2>1 DEF Hands, WriterHands, Writing, Held, EndsAt
    <2> QED BY <1>3, <1>4, <2>1, <2>2
  <1>5. CASE /\ ~RingFull(ring) /\ ring' = RingPush(ring, End)
             /\ Goto(Writer, IF RingEmpty(ring) THEN "tellEmpty" ELSE "out")
             /\ wop' = "gone" /\ UNCHANGED <<cvVars, arg, got>>
    <2>1. /\ ring' \in Rings(MaxSize) /\ RingContents(ring') \in Seq(Items \cup {Lost})
          /\ ~Strayed(ring') =>
               /\ ~Strayed(ring) /\ RingContents(ring') \in Seq(Items)
               /\ RingContents(ring') = Append(RingContents(ring), End)
      BY <1>1, <1>5, EndIsChunk, RingTakes
    <2>2. QueueHands'
      BY <1>1, <1>5, <2>1 DEF QueueHands
    <2>3. Writer \in Tasks /\ pc \in [Tasks -> PCs]
      BY PipeTasks DEF Coupled, Settled
    <2>4. pc'[Writer] \in {"out", "tellEmpty"}
      BY <1>5, <2>3 DEF Goto
    <2>5. WriterHands'
      BY <1>1, <1>5, <2>4 DEF Hands, WriterHands, Writing, Held, EndsAt
    <2> QED BY <1>3, <1>5, <2>1, <2>2, <2>5
  <1> QED BY <1>4, <1>5 DEF Destroy

(* A push has succeeded: the buffer holds the rest, or is full again.      *)
LEMMA WriterPushed ==
  ASSUME PipeQueue, Coupled, Hands, Pushed
  PROVE  /\ QueueHands' /\ WriterHands' /\ ring' = ring
         /\ rop # "closed" => Behind' = Behind
         /\ wop' = "closed" <=> wop = "close"
         /\ wop' \in {"idle", "put", "closed"} /\ arg[Writer] = NoItem
  <1>1. /\ Writing /\ pc[Writer] = "out" /\ arg[Writer] = NoItem /\ QueueHands
        /\ sent' = sent /\ rop' = rop /\ harm' = harm /\ NoBuffer \notin Chunks
        /\ (wop = "put" => EndsAt(rest, sent))
        /\ (wop # "put" /\ rop # "closed" => rest = <<>>)
    BY PipeTasks, ItemsAre DEF Pushed, Hands, WriterHands, readerVars
  <1>2. /\ Held \in Seq(Nat) /\ BufSize \in Nat \ {0} /\ rest \in Seq(Nat) /\ sent \in 0..MaxBytes
    BY HeldFacts
  <1>3. ASSUME UNCHANGED vars
        PROVE  /\ QueueHands' /\ ring' = ring
               /\ pc' = pc /\ arg' = arg
    BY <1>1, <1>3, QueueRests DEF vars, queueVars
  <1>4. CASE /\ wop = "put" /\ Len(rest) <= BufSize
             /\ wop' = "idle" /\ out' = rest /\ rest' = <<>> /\ UNCHANGED vars
    <2>1. rest \in Chunks
      BY <1>1, <1>2, <1>4, EndsAtType
    <2>2. out' \in Chunks /\ Held' = rest
      BY <1>1, <1>4, <2>1 DEF Held
    <2>3. EndsAt(Held, sent)'
      BY <1>1, <1>4, <2>2 DEF EndsAt
    <2>4. Len(Held') <= BufSize /\ rest' \in Seq(Nat)
      BY <1>4, <2>2, EmptySeq
    <2>5. WriterHands'
      BY <1>1, <1>2, <1>3, <1>4, <2>2, <2>3, <2>4 DEF WriterHands, Writing
    <2>6. Behind' = <<>> \o (rest \o <<>>) /\ Behind = <<>> \o (<<>> \o rest)
      BY <1>1, <1>4, <2>2, BehindIs, BehindNext
    <2>7. Behind' = Behind
      BY <1>2, <2>6, NothingAtAll
    <2> QED BY <1>1, <1>3, <1>4, <2>5, <2>7
  <1>5. CASE /\ wop = "put" /\ ~(Len(rest) <= BufSize)
             /\ out' = SubSeq(rest, 1, BufSize)
             /\ rest' = SubSeq(rest, BufSize + 1, Len(rest))
             /\ \/ rop = "closed" /\ wop' = "idle" /\ UNCHANGED vars
                \/ rop # "closed" /\ wop' = "put" /\ PushAgain(out')
    <2>1. BufSize \in 0..Len(rest)
      BY <1>2, <1>5, LenProperties
    <2>2. /\ out' \in Seq(Nat) /\ rest' \in Seq(Nat) /\ Len(out') = BufSize
          /\ out' \o rest' = rest
      BY <1>2, <1>5, <2>1, CutInTwo
    <2>3. EndsAt(rest', sent) /\ out' \in Chunks
      BY <1>1, <1>2, <1>5, <2>1, EndsAtCut
    <2>4. EndsAt(rest, sent)'
      BY <1>1, <2>3 DEF EndsAt
    <2>5. Held' = out' /\ out' # End /\ out' # NoItem
      BY <1>1, <1>2, <2>2, <2>3, EndIsChunk, ItemsAre, PipeTasks DEF Held
    <2>6. Len(Held') = BufSize /\ ~(Len(Held') < BufSize) /\ Len(Held') <= BufSize
      BY <1>2, <2>2, <2>5
    <2>7. CASE rop = "closed" /\ wop' = "idle" /\ UNCHANGED vars
      <3>1. WriterHands'
        BY <1>1, <1>2, <1>3, <2>2, <2>3, <2>5, <2>6, <2>7 DEF WriterHands, Writing
      <3> QED BY <1>1, <1>3, <1>5, <2>7, <3>1
    <2>8. CASE rop # "closed" /\ wop' = "put" /\ PushAgain(out')
      <3>1. /\ Writer \in Tasks /\ pc \in [Tasks -> PCs] /\ arg \in [Tasks -> Cells]
            /\ out' \in Cells
        BY <2>3, PipeTasks DEF Coupled, Settled, Hands, QueueHands, PipeQueue, Cells
      <3>2. /\ pc'[Writer] = "push" /\ arg'[Writer] = out' /\ arg' \in [Tasks -> Cells]
            /\ UNCHANGED <<ring, got>>
        BY <2>8, <3>1 DEF PushAgain, Goto
      <3>3. QueueHands' /\ ring' = ring
        BY <1>1, <3>2 DEF QueueHands
      <3>4. WriterHands'
        BY <1>1, <1>2, <2>2, <2>3, <2>4, <2>5, <2>6, <2>8, <3>2 DEF WriterHands, Writing
      <3>5. Behind' = <<>> \o (out' \o rest') /\ Behind = <<>> \o (<<>> \o rest)
        BY <1>1, <1>5, <2>5, <2>8, <3>2, BehindIs, BehindNext
      <3>6. Behind' = Behind
        BY <1>2, <2>2, <3>5, NothingAtAll, EmptySeq
      <3> QED BY <1>1, <1>5, <2>8, <3>3, <3>4, <3>6
    <2> QED BY <1>5, <2>7, <2>8
  <1>6. CASE wop = "flush" /\ wop' = "idle" /\ out' = <<>> /\ UNCHANGED <<rest, vars>>
    <2>1. Held' = <<>> /\ Len(<<>>) = 0 /\ <<>> \in Chunks
      BY <1>6, EndIsChunk DEF Held, End
    <2>2. WriterHands'
      BY <1>1, <1>2, <1>3, <1>6, <2>1 DEF Hands, WriterHands, Writing
    <2>3. Behind' = Behind
      BY <1>1, <1>6, <2>1, BehindIs, BehindNext
    <2> QED BY <1>1, <1>3, <1>6, <2>2, <2>3
  <1>7. CASE /\ wop \in {"write", "close"} /\ UNCHANGED <<out, rest, vars>>
             /\ wop' = IF wop = "write" THEN "idle" ELSE "closed"
    <2>1. Held' = Held
      BY <1>7 DEF Held
    <2>2. EndsAt(Held, sent)' <=> EndsAt(Held, sent)
      BY <1>1, <2>1 DEF EndsAt
    <2>3. WriterHands'
      BY <1>1, <1>2, <1>3, <1>7, <2>1, <2>2 DEF Hands, WriterHands, Writing
    <2>4. Behind' = Behind
      BY <1>1, <1>7, <2>1, BehindIs, BehindNext
    <2> QED BY <1>1, <1>3, <1>7, <2>3, <2>4
  <1> QED BY <1>4, <1>5, <1>6, <1>7, PushedCases

(* A push has failed: what was not pushed is not counted as put.           *)
LEMMA WriterFails ==
  ASSUME PipeQueue, Coupled, Hands, PushFails
  PROVE  /\ QueueHands' /\ WriterHands' /\ ring' = ring
         /\ sent' \in Nat
         /\ harm = {} /\ rop # "closed" =>
              \E t \in Seq(Nat) :
                /\ Behind' \in Seq(Nat) /\ Behind = Behind' \o t /\ sent' + Len(t) = sent
  <1>1. /\ WaitFails(Writer) /\ rop' = rop /\ harm' = harm /\ out' = out /\ rest' = <<>>
        /\ wop' = (IF wop = "close" THEN "unheard" ELSE "idle")
        /\ sent' = IF wop = "write" THEN sent - Len(arg[Writer]) ELSE sent - Len(rest)
        /\ QueueHands
    BY DEF PushFails, readerVars, Hands
  <1>2. /\ Writer \in Tasks /\ pc \in [Tasks -> PCs] /\ arg \in [Tasks -> Cells]
        /\ pc[Writer] = "pushwait"
    <2>1. Placed(Writer) /\ Writer # Reader
      BY PipeTasks DEF Coupled, Settled
    <2> QED BY <1>1, <2>1, PipeTasks
          DEF Coupled, Settled, Hands, QueueHands, WaitFails, Waiting, Placed, InPlace, Places
  <1>3. arg[Writer] # NoItem /\ Writing
    BY <1>2 DEF Hands, WriterHands
  <1>4. /\ pc'[Writer] = "out" /\ arg'[Writer] = NoItem /\ arg' \in [Tasks -> Cells]
        /\ ring' = ring /\ got' = got
    BY <1>1, <1>2 DEF WaitFails, Goto, Cells
  <1>5. QueueHands' /\ ring' = ring
    BY <1>1, <1>4 DEF QueueHands
  <1>6. /\ Held \in Seq(Nat) /\ Len(Held) \in Nat /\ Len(Held) <= BufSize /\ BufSize \in Nat
        /\ rest \in Seq(Nat) /\ sent \in 0..MaxBytes /\ MaxBytes \in Nat
    BY HeldFacts, PipeAssumption
  <1>7. Held' = Held
    BY <1>1 DEF Held
  <1>8. CASE wop = "write"
    <2>1. EndsAt(arg[Writer], sent) /\ rest = <<>> /\ (Held = <<>> \/ Len(Held) = BufSize)
      BY <1>3, <1>8 DEF Hands, WriterHands
    <2>2. arg[Writer] \in Seq(Nat) /\ Len(arg[Writer]) \in 0..sent
      BY <1>6, <2>1, EndsAtType
    <2>3. sent' = sent - Len(arg[Writer]) /\ sent' \in Nat /\ sent' \in 0..MaxBytes
      BY <1>1, <1>6, <1>8, <2>2
    <2>4. ~(Held' # <<>> /\ Len(Held') < BufSize)
      BY <1>6, <1>7, <2>1
    <2>5. WriterHands'
      BY <1>1, <1>4, <1>6, <1>7, <1>8, <2>3, <2>4, EmptySeq DEF Hands, WriterHands, Writing
    <2>6. ASSUME harm = {}
          PROVE  /\ Behind' \in Seq(Nat) /\ Behind = Behind' \o arg[Writer]
                 /\ sent' + Len(arg[Writer]) = sent
      <3>1. Held = <<>>
        BY <1>8, <2>6 DEF Hands, WriterHands
      <3>2. Behind = arg[Writer] \o (<<>> \o <<>>)
        BY <1>3, <1>8, <2>1, <3>1, BehindIs
      <3>3. Behind' = <<>> \o (<<>> \o <<>>)
        BY <1>1, <1>7, <1>8, <3>1, BehindNext
      <3>4. /\ <<>> \in Seq(Nat) /\ <<>> \o <<>> = <<>> /\ arg[Writer] \o <<>> = arg[Writer]
            /\ <<>> \o arg[Writer] = arg[Writer]
        BY <2>2, NothingAtAll, EmptySeq
      <3> QED BY <1>6, <2>2, <2>3, <3>2, <3>3, <3>4
    <2> QED BY <1>5, <2>2, <2>3, <2>5, <2>6
  <1>9. CASE wop \in {"put", "flush", "close"}
    <2>1. /\ wop = "put" => EndsAt(rest, sent) /\ Len(Held) = BufSize
          /\ wop # "put" => rest = <<>>
      BY <1>9 DEF Hands, WriterHands
    <2>2. Len(rest) \in 0..sent
      <3>1. CASE wop = "put"
        BY <1>6, <2>1, <3>1, EndsAtType
      <3>2. CASE wop # "put"
        BY <1>6, <2>1, <3>2, EmptySeq
      <3> QED BY <3>1, <3>2
    <2>3. sent' = sent - Len(rest) /\ sent' \in Nat /\ sent' \in 0..MaxBytes
      BY <1>1, <1>6, <1>9, <2>2
    <2>4. Held' # <<>> /\ Len(Held') < BufSize => EndsAt(Held', sent')
      <3>1. CASE wop = "put"
        BY <1>6, <1>7, <2>1, <3>1
      <3>2. CASE wop # "put"
        <4>1. sent' = sent
          BY <1>6, <2>1, <2>3, <3>2, EmptySeq
        <4> QED BY <1>7, <4>1 DEF Hands, WriterHands
      <3> QED BY <3>1, <3>2
    <2>5. (Held # <<>> /\ Len(Held) < BufSize => EndsAt(Held, sent))'
      BY <2>4 DEF EndsAt
    <2>6. WriterHands'
      BY <1>1, <1>4, <1>6, <1>7, <1>9, <2>3, <2>5, EmptySeq DEF Hands, WriterHands, Writing
    <2>7. Behind = <<>> \o (Held \o rest) /\ Behind' = <<>> \o (Held \o <<>>)
      BY <1>1, <1>3, <1>7, <1>9, BehindIs, BehindNext
    <2>8. Behind = Held \o rest /\ Behind' = Held
      BY <1>6, <2>7, NothingBefore, NothingAtAll
    <2>9. Behind' \in Seq(Nat) /\ Behind = Behind' \o rest /\ sent' + Len(rest) = sent
      BY <1>6, <2>2, <2>3, <2>8
    <2> QED BY <1>5, <1>6, <2>3, <2>6, <2>9
  <1> QED BY <1>3, <1>8, <1>9 DEF Writing

(* Who acts leaves the other's stream alone.                               *)
LEMMA WriterActs ==
  ASSUME PipeQueue, Coupled,
         \/ \E n \in 1..MaxPut : Put(n) \/ Write(n)
         \/ Flush \/ Close \/ Destroy \/ Pushed \/ PushFails
  PROVE  UNCHANGED readerVars /\ got' = got /\ pc'[Reader] = pc[Reader]
  <1>1. Reader \in Tasks /\ Reader # Writer /\ pc \in [Tasks -> PCs]
    BY PipeTasks DEF Coupled, Settled
  <1>2. UNCHANGED vars => got' = got /\ pc'[Reader] = pc[Reader]
    BY DEF vars, queueVars
  <1>3. ASSUME NEW v, CallPush(Writer, v) \/ PushAgain(v)
        PROVE  got' = got /\ pc'[Reader] = pc[Reader]
    BY <1>1, <1>3 DEF CallPush, PushAgain, Goto
  <1>4. ASSUME NEW w, NEW v, RawWrite(w, v)
        PROVE  got' = got /\ pc'[Reader] = pc[Reader]
    BY <1>2, <1>3, <1>4 DEF RawWrite
  <1>5. ASSUME NEW n \in 1..MaxPut, Put(n) \/ Write(n)
        PROVE  UNCHANGED readerVars /\ got' = got /\ pc'[Reader] = pc[Reader]
    BY <1>2, <1>4, <1>5 DEF Put, Write, Store
  <1>6. CASE Flush \/ Close
    BY <1>2, <1>4, <1>6 DEF Flush, Close
  <1>7. CASE Destroy
    BY <1>1, <1>2, <1>7 DEF Destroy, Goto
  <1>8. CASE Pushed
    <2>1. UNCHANGED vars \/ PushAgain(out')
      BY <1>8, PushedCases
    <2>2. UNCHANGED readerVars
      BY <1>8 DEF Pushed
    <2> QED BY <1>2, <1>3, <2>1, <2>2
  <1>9. CASE PushFails
    BY <1>1, <1>9 DEF PushFails, WaitFails, Goto
  <1> QED BY <1>5, <1>6, <1>7, <1>8, <1>9

LEMMA ReaderActs ==
  ASSUME PipeQueue, Coupled, Hands,
         \/ \E n \in 1..MaxPut : Get(n) \/ ReadSpan(n) \/ Peek(n)
         \/ Forward \/ CloseReader \/ Popped \/ PopFails
  PROVE  /\ UNCHANGED writerVars /\ ring' = ring /\ arg'[Writer] = arg[Writer]
         /\ pc'[Writer] = pc[Writer] /\ QueueHands'
         /\ rop # "closed" /\ (harm' = harm \/ Popped \/ PopFails)
  <1>1. /\ Reader \in Tasks /\ Writer \in Tasks /\ Reader # Writer
        /\ pc \in [Tasks -> PCs] /\ arg \in [Tasks -> Cells] /\ got \in [Tasks -> Cells]
        /\ QueueHands
    BY PipeTasks DEF Coupled, Settled, Hands, QueueHands
  <1>2. UNCHANGED vars => ring' = ring /\ arg' = arg /\ pc' = pc /\ got' = got
    BY DEF vars, queueVars
  <1>3. CallPop(Reader) =>
          ring' = ring /\ arg' = arg /\ pc'[Writer] = pc[Writer] /\ got' \in [Tasks -> Cells]
    BY <1>1 DEF CallPop, Goto, Cells
  <1>4. ASSUME NEW n \in 1..MaxPut, Get(n) \/ ReadSpan(n) \/ Peek(n)
        PROVE  /\ UNCHANGED writerVars /\ ring' = ring /\ arg' = arg
               /\ pc'[Writer] = pc[Writer] /\ got' \in [Tasks -> Cells]
               /\ rop # "closed" /\ harm' = harm
    BY <1>1, <1>2, <1>3, <1>4 DEF Get, ReadSpan, Peek, RawRead, ReaderRuns
  <1>5. Forward \/ CloseReader =>
               /\ UNCHANGED writerVars /\ ring' = ring /\ arg' = arg
               /\ pc'[Writer] = pc[Writer] /\ got' \in [Tasks -> Cells]
               /\ rop # "closed" /\ harm' = harm
    BY <1>1, <1>2, <1>3 DEF Forward, RawRead, ReaderRuns, CloseReader
  <1>6. Popped =>
               /\ UNCHANGED writerVars /\ ring' = ring /\ arg' = arg
               /\ pc'[Writer] = pc[Writer] /\ got' \in [Tasks -> Cells] /\ rop # "closed"
    <2> SUFFICES ASSUME Popped
                 PROVE  /\ UNCHANGED writerVars /\ ring' = ring /\ arg' = arg
                        /\ pc'[Writer] = pc[Writer] /\ got' \in [Tasks -> Cells] /\ rop # "closed"
      OBVIOUS
    <2>1. /\ UNCHANGED writerVars /\ ring' = ring /\ arg' = arg /\ rop # "closed"
          /\ pc' = pc \/ Goto(Reader, "pop")
      BY PoppedMoves DEF Reading
    <2>2. got' = [got EXCEPT ![Reader] = NoItem]
      BY DEF Popped
    <2>3. pc'[Writer] = pc[Writer]
      BY <1>1, <2>1 DEF Goto
    <2> QED BY <1>1, <2>1, <2>2, <2>3 DEF Cells
  <1>7. ASSUME ring' = ring, arg' \in [Tasks -> Cells], got' \in [Tasks -> Cells]
        PROVE  QueueHands'
    BY <1>1, <1>7 DEF QueueHands
  <1>8. CASE PopFails
    <2>1. /\ UNCHANGED writerVars /\ ring' = ring /\ got' = got
          /\ arg' = [arg EXCEPT ![Reader] = NoItem] /\ pc' = [pc EXCEPT ![Reader] = "out"]
          /\ Waiting(Reader)
      BY <1>8 DEF PopFails, WaitFails, Goto
    <2>2. arg' \in [Tasks -> Cells]
      BY <1>1, <2>1 DEF Cells
    <2>3. rop # "closed"
      BY <2>1 DEF Hands, ReaderHands, Reading, Waiting
    <2>4. pc'[Writer] = pc[Writer] /\ arg'[Writer] = arg[Writer]
      BY <1>1, <2>1
    <2> QED BY <1>1, <1>7, <1>8, <2>1, <2>2, <2>3, <2>4
  <1>9. CASE \E n \in 1..MaxPut : Get(n) \/ ReadSpan(n) \/ Peek(n)
    BY <1>1, <1>4, <1>7, <1>9
  <1>10. CASE Forward \/ CloseReader \/ Popped
    BY <1>1, <1>5, <1>6, <1>7, <1>10
  <1> QED BY <1>8, <1>9, <1>10

LEMMA FrontIs ==
  /\ got[Reader] = NoItem => Front = (taken \o win) \o <<>>
  /\ got[Reader] # NoItem => Front = (taken \o win) \o got[Reader]
  BY DEF Front, InHand

LEMMA FrontNext ==
  /\ got'[Reader] = NoItem => Front' = (taken' \o win') \o <<>>
  /\ got'[Reader] # NoItem => Front' = (taken' \o win') \o got'[Reader]
  BY DEF Front, InHand

(* What the pipe still owes, as long as nothing has harmed it and the      *)
(* reader has not gone.                                                    *)
Orderly == Unharmed /\ rop # "closed" => InOrder(Front, RingContents(ring), Behind, sent)

(* Nothing that the pipe consists of has changed.                          *)
LEMMA SameOrder ==
  ASSUME Orderly, Front' = Front, Behind' = Behind, ring' = ring,
         sent' = sent, harm' = {} => harm = {}, rop = "closed" => rop' = "closed"
  PROVE  Orderly'
  <1> SUFFICES ASSUME Unharmed', rop' # "closed"
               PROVE  InOrder(Front', RingContents(ring'), Behind', sent')
    BY DEF Orderly, InOrder
  <1>1. Unharmed
    BY DEF Unharmed
  <1> QED BY <1>1 DEF Orderly

LEMMA SameFront ==
  ASSUME UNCHANGED readerVars, got'[Reader] = got[Reader]
  PROVE  Front' = Front
  BY DEF Front, readerVars

LEMMA SameBehind ==
  ASSUME UNCHANGED writerVars, arg'[Writer] = arg[Writer]
  PROVE  Behind' = Behind
  BY DEF Behind, Unflushed, Stored, Held, writerVars

(* The writer's steps.                                                     *)
LEMMA WriterStep ==
  ASSUME PipeQueue, Coupled, Hands,
         \/ \E n \in 1..MaxPut : Put(n) \/ Write(n)
         \/ Flush \/ Close \/ Destroy \/ Pushed \/ PushFails
  PROVE  Hands' /\ (Orderly => Orderly')
  <1>1. UNCHANGED readerVars /\ got' = got /\ pc'[Reader] = pc[Reader]
    BY WriterActs
  <1>2. ReaderHands'
    BY <1>1, ReaderRests DEF Hands
  <1>3. Front' = Front /\ rop' = rop
    BY <1>1, SameFront DEF readerVars
  <1>4. sent \in 0..MaxBytes
    BY HeldFacts
  <1>5. ASSUME NEW n \in 1..MaxPut, Put(n) \/ Write(n)
        PROVE  Hands' /\ (Orderly => Orderly')
    <2>1. /\ QueueHands' /\ WriterHands' /\ ring' = ring
          /\ sent + n <= MaxBytes /\ sent' = sent + n
          /\ harm' = {} /\ rop # "closed" =>
               harm = {} /\ Behind' = Behind \o Bytes(sent + 1, sent + n)
      <3>1. Put(n) => harm' = harm
        BY DEF Put
      <3> QED BY <1>5, <3>1, WriterPuts, WriterWrites
    <2>2. ASSUME Orderly, Unharmed', rop' # "closed"
          PROVE  InOrder(Front', RingContents(ring'), Behind', sent')
      <3>1. /\ InOrder(Front, RingContents(ring), Behind, sent)
            /\ Behind' = Behind \o Bytes(sent + 1, sent + n)
        <4>1. harm' = {} /\ ~Strayed(ring)
          BY <2>1, <2>2 DEF Unharmed
        <4>2. Unharmed
          BY <1>3, <2>1, <2>2, <4>1 DEF Unharmed
        <4> QED BY <1>3, <2>1, <2>2, <4>1, <4>2 DEF Orderly
      <3>2. n \in Nat
        BY PipeAssumption
      <3>3. sent + n \in sent..MaxBytes /\ Run(Bytes(sent + 1, sent + n), sent + 1, sent + n)
        BY <1>4, <2>1, <3>2, NextBytes
      <3>4. InOrder(Front, RingContents(ring), Behind \o Bytes(sent + 1, sent + n), sent + n)
        BY <1>4, <3>1, <3>3, OrderPut
      <3> QED BY <1>3, <2>1, <3>1, <3>4
    <2>3. Orderly => Orderly'
      BY <2>2 DEF Orderly, InOrder
    <2> QED BY <1>2, <2>1, <2>3 DEF Hands
  <1>6. CASE Flush
    <2>1. harm' = harm /\ sent' = sent
      BY <1>6 DEF Flush
    <2> QED BY <1>2, <1>3, <1>6, <2>1, WriterFlushes, SameOrder DEF Hands
  <1>7. CASE Close
    <2>1. harm' = harm /\ sent' = sent
      BY <1>7 DEF Close
    <2> QED BY <1>2, <1>3, <1>7, <2>1, WriterCloses, SameOrder DEF Hands
  <1>8. CASE Destroy
    <2>1. harm' = harm /\ sent' = sent
      BY <1>8 DEF Destroy
    <2>2. /\ QueueHands' /\ WriterHands' /\ Behind' = Behind
          /\ \/ ring' = ring
             \/ ~Strayed(ring') =>
                  ~Strayed(ring) /\ RingContents(ring') = Append(RingContents(ring), End)
      BY <1>8, WriterGoes
    <2>3. CASE ring' = ring
      BY <1>2, <1>3, <2>1, <2>2, <2>3, SameOrder DEF Hands
    <2>4. CASE ~Strayed(ring') =>
                 ~Strayed(ring) /\ RingContents(ring') = Append(RingContents(ring), End)
      <3>1. ASSUME Orderly, Unharmed', rop' # "closed"
            PROVE  InOrder(Front', RingContents(ring'), Behind', sent')
        <4>1. /\ InOrder(Front, RingContents(ring), Behind, sent) /\ ~Strayed(ring)
              /\ RingContents(ring') = Append(RingContents(ring), End)
          <5>1. /\ Unharmed /\ RingContents(ring') = Append(RingContents(ring), End)
            BY <2>1, <2>4, <3>1 DEF Unharmed
          <5> QED BY <1>3, <3>1, <5>1 DEF Orderly, Unharmed
        <4>2. Behind \in Seq(Nat) /\ End \o Behind = Behind
          <5>1. wop \notin {"put", "flush", "write"}
            BY <1>8 DEF Destroy
          <5>2. Behind = <<>> \o (Held \o rest)
            BY <5>1, BehindIs
          <5>3. Held \in Seq(Nat) /\ rest \in Seq(Nat)
            BY HeldFacts
          <5>4. Behind \in Seq(Nat)
            BY <5>2, <5>3, NothingBefore
          <5> QED BY <5>4, NothingAtAll DEF End
        <4>3. /\ End \in Seq(Nat) /\ End \in Cells /\ RingContents(ring) \in Seq(Cells \cup {Lost})
          <5>1. RingContents(ring) \in Seq(Items) /\ Items \subseteq Cells /\ End \in Items
            BY <4>1, EndIsChunk DEF Hands, QueueHands, PipeQueue, Cells
          <5> QED BY <5>1, SeqMonotonic, EmptySeq DEF End
        <4>4. InOrder(Front, RingContents(ring), End \o Behind, sent)
          BY <4>1, <4>2
        <4>5. InOrder(Front, Append(RingContents(ring), End), Behind, sent)
          BY <1>4, <4>2, <4>3, <4>4, OrderAdd
        <4> QED BY <1>3, <2>1, <2>2, <4>1, <4>5
      <3>2. Orderly => Orderly'
        BY <3>1 DEF Orderly, InOrder
      <3> QED BY <1>2, <2>2, <3>2 DEF Hands
    <2> QED BY <2>2, <2>3, <2>4
  <1>9. CASE Pushed
    <2>1. /\ QueueHands' /\ WriterHands' /\ ring' = ring
          /\ rop # "closed" => Behind' = Behind
      BY <1>9, WriterPushed
    <2>2. harm' = harm /\ sent' = sent
      BY <1>9 DEF Pushed
    <2>3. CASE rop # "closed"
      BY <1>2, <1>3, <2>1, <2>2, <2>3, SameOrder DEF Hands
    <2>4. CASE rop = "closed"
      BY <1>2, <1>3, <2>1, <2>4 DEF Hands, Orderly
    <2> QED BY <2>3, <2>4
  <1>10. CASE PushFails
    <2>1. /\ QueueHands' /\ WriterHands' /\ ring' = ring
          /\ sent' \in Nat
          /\ harm = {} /\ rop # "closed" =>
               \E t \in Seq(Nat) :
                 /\ Behind' \in Seq(Nat) /\ Behind = Behind' \o t /\ sent' + Len(t) = sent
      BY <1>10, WriterFails
    <2>2. harm' = harm
      BY <1>10 DEF PushFails
    <2>3. ASSUME Orderly, Unharmed', rop' # "closed"
          PROVE  InOrder(Front', RingContents(ring'), Behind', sent')
      <3>1. PICK t \in Seq(Nat) :
              /\ Behind' \in Seq(Nat) /\ Behind = Behind' \o t /\ sent' + Len(t) = sent
        BY <1>3, <2>1, <2>2, <2>3 DEF Unharmed
      <3>2. InOrder(Front, RingContents(ring), Behind' \o t, sent)
        BY <1>3, <2>1, <2>2, <2>3, <3>1 DEF Orderly, Unharmed
      <3>3. Len(RingContents(ring)) \in Nat
        BY LenProperties DEF Hands, QueueHands
      <3>4. InOrder(Front, RingContents(ring), Behind', sent')
        BY <1>4, <2>1, <3>1, <3>2, <3>3, OrderDrop
      <3> QED BY <1>3, <2>1, <3>4
    <2>4. Orderly => Orderly'
      BY <2>3 DEF Orderly, InOrder
    <2> QED BY <1>2, <2>1, <2>4 DEF Hands
  <1> QED BY <1>5, <1>6, <1>7, <1>8, <1>9, <1>10

(* The reader's.                                                           *)
LEMMA ReaderStep ==
  ASSUME PipeQueue, Coupled, Hands,
         \/ \E n \in 1..MaxPut : Get(n) \/ ReadSpan(n) \/ Peek(n)
         \/ Forward \/ CloseReader \/ Popped \/ PopFails
  PROVE  Hands' /\ (Orderly => Orderly')
  <1>1. /\ UNCHANGED writerVars /\ ring' = ring /\ arg'[Writer] = arg[Writer]
        /\ pc'[Writer] = pc[Writer] /\ QueueHands'
        /\ rop # "closed" /\ (harm' = harm \/ Popped \/ PopFails)
    BY ReaderActs
  <1>2. harm' = {} => harm = {}
    <2>1. PopFails => harm \subseteq harm'
      BY DEF PopFails, GivesUp
    <2> QED BY <1>1, <2>1, ReaderPops
  <1>3. WriterHands'
    BY <1>1, <1>2, WriterRests DEF Hands
  <1>4. Behind' = Behind /\ sent' = sent
    BY <1>1, SameBehind DEF writerVars
  <1>5. ASSUME Front' = Front, ReaderHands'
        PROVE  Hands' /\ (Orderly => Orderly')
    BY <1>1, <1>2, <1>3, <1>4, <1>5, SameOrder DEF Hands
  <1>6. /\ Reader \in Tasks /\ got \in [Tasks -> Cells] /\ pc \in [Tasks -> PCs]
        /\ win \in Seq(Nat) /\ taken \in Seq(Nat)
    BY PipeTasks DEF Coupled, Settled, Hands, QueueHands, ReaderHands
  <1>7. ASSUME NEW n \in 1..MaxPut, Get(n) \/ ReadSpan(n) \/ Peek(n)
        PROVE  Hands' /\ (Orderly => Orderly')
    <2>1. ReaderHands' /\ taken' \o win' = taken \o win
      BY <1>7, ReaderGets, ReaderPeeks
    <2>2. got[Reader] = NoItem
      BY <1>7 DEF Get, ReadSpan, Peek, ReaderRuns, Hands, ReaderHands, Reading
    <2>3. got' = got \/ CallPop(Reader)
      BY <1>7 DEF Get, ReadSpan, Peek, RawRead, vars, queueVars
    <2>4. got'[Reader] = NoItem
      BY <1>6, <2>2, <2>3 DEF CallPop
    <2>5. Front' = Front
      BY <2>1, <2>2, <2>4, FrontIs, FrontNext
    <2> QED BY <1>5, <2>1, <2>5
  <1>8. CASE Forward
    <2>1. got[Reader] = NoItem
      BY <1>8 DEF Forward, ReaderRuns, Hands, ReaderHands, Reading
    <2>2. got'[Reader] = NoItem /\ taken' = taken /\ win' = win
      BY <1>6, <1>8 DEF Forward, RawRead, CallPop
    <2>3. Front' = Front
      BY <2>1, <2>2, FrontIs, FrontNext
    <2> QED BY <1>5, <1>8, <2>3, ReaderForwards
  <1>9. CASE CloseReader
    <2>1. rop' = "closed" /\ UNCHANGED <<vars, win, ix, need, part, taken, harm>> /\ ~Reading
      BY <1>9 DEF CloseReader, Reading
    <2>2. ReaderHands'
      BY <2>1 DEF Hands, ReaderHands, Reading, vars, queueVars
    <2> QED BY <1>1, <1>3, <2>1, <2>2 DEF Hands, Orderly
  <1>10. CASE Popped
    <2>1. /\ ReaderHands'
          /\ harm' = {} => harm = {} /\ taken' \o win' = (taken \o win) \o got[Reader]
      BY <1>10, ReaderPops
    <2>2. /\ got[Reader] # NoItem /\ got'[Reader] = NoItem
      BY <1>6, <1>10 DEF Popped, Hands, ReaderHands, Reading
    <2>3. (taken \o win) \o got[Reader] \in Seq(Nat)
      <3>1. got[Reader] \in Seq(Nat)
        BY <1>6, <2>2, ItemsAre, ChunkIs DEF Hands
      <3> QED BY <1>6, <3>1, ConcatProperties
    <2>4. ASSUME harm' = {} PROVE Front' = Front
      <3>1. /\ Front = (taken \o win) \o got[Reader]
            /\ Front' = ((taken \o win) \o got[Reader]) \o <<>>
        BY <2>1, <2>2, <2>4, FrontIs, FrontNext
      <3> QED BY <2>3, <3>1, NothingAtAll
    <2>5. CASE harm' = {}
      BY <1>5, <2>1, <2>4, <2>5
    <2>6. CASE harm' # {}
      BY <1>1, <1>3, <2>1, <2>6 DEF Hands, Orderly, Unharmed
    <2> QED BY <2>5, <2>6
  <1>11. CASE PopFails
    <2>1. /\ Waiting(Reader) /\ got' = got /\ GivesUp({}) /\ rop' = "idle" /\ pc'[Reader] = "out"
      BY <1>6, <1>11 DEF PopFails, WaitFails, Goto
    <2>2. got[Reader] = NoItem /\ got'[Reader] = NoItem
      BY <2>1 DEF Hands, ReaderHands, Waiting
    <2>3. ReaderHands' /\ win' = win /\ (harm' = {} => taken' = taken)
      BY <2>1, <2>2, ReaderGivesUp DEF Hands
    <2>4. harm' = {} => Front' = Front
      BY <2>2, <2>3, FrontIs, FrontNext
    <2>5. CASE harm' = {}
      BY <1>5, <2>3, <2>4, <2>5
    <2>6. CASE harm' # {}
      BY <1>1, <1>3, <2>3, <2>6 DEF Hands, Orderly, Unharmed
    <2> QED BY <2>5, <2>6
  <1> QED BY <1>7, <1>8, <1>9, <1>10, <1>11

(* The queue's, and those of the kernel and of whoever cancels.            *)
LEMMA QueueStep ==
  ASSUME PipeQueue, Coupled, Hands, UNCHANGED <<writerVars, readerVars, harm>>,
         \/ \E t \in Tasks : Progress(t) \/ Cancel(t)
         \/ \E c \in Contexts : Submit(c)
         \/ UNCHANGED vars
  PROVE  Hands' /\ (Orderly => Orderly')
  <1>1. /\ Reader \in Two /\ Writer \in Two /\ Other(Reader) = Writer /\ Other(Writer) = Reader
        /\ Reader # Writer /\ sent' = sent /\ rop' = rop
    BY PipeTasks DEF Two, writerVars, readerVars
  <1>2. ASSUME UNCHANGED <<ring, arg, got>>, ReaderHands', WriterHands'
        PROVE  Hands' /\ (Orderly => Orderly')
    <2>1. Front' = Front /\ Behind' = Behind
      BY <1>2, SameFront, SameBehind
    <2>2. QueueHands' /\ ring' = ring
      BY <1>2, QueueRests DEF Hands
    <2> QED BY <1>1, <1>2, <2>1, <2>2, SameOrder DEF Hands
  <1>3. ASSUME NEW t \in Tasks, Progress(t)
        PROVE  Hands' /\ (Orderly => Orderly')
    <2>1. /\ t \in Two /\ pc'[Other(t)] = pc[Other(t)]
          /\ Stays(t) \/ (t = Reader /\ Takes) \/ (t = Writer /\ Stores)
      BY <1>3, QueueMoves
    <2>2. Placed(Reader) /\ Placed(Writer)
      BY PipeTasks DEF Coupled, Settled
    <2>3. CASE Stays(t)
      <3>1. UNCHANGED <<ring, arg, got>>
        BY <2>3 DEF Stays
      <3>2. CASE t = Reader
        <4>1. pc[Reader] \in {"out", "pop", "popwait", "tellFull"} /\ pc'[Writer] = pc[Writer]
          BY <1>1, <2>1, <2>2, <3>2 DEF Placed, InPlace, Places
        <4>2. \/ pc'[Reader] = pc[Reader]
              \/ {pc[Reader], pc'[Reader]} \subseteq {"pop", "popwait"}
              \/ pc[Reader] = "tellFull" /\ pc'[Reader] = "out"
          BY <2>3, <3>2, <4>1 DEF Stays, Telling
        <4> QED BY <1>1, <1>2, <3>1, <4>1, <4>2, ReaderRests, WriterRests DEF Hands
      <3>3. CASE t = Writer
        <4>1. pc[Writer] \in {"out", "push", "pushwait", "tellEmpty"} /\ pc'[Reader] = pc[Reader]
          BY <1>1, <2>1, <2>2, <3>3 DEF Placed, InPlace, Places
        <4>2. \/ pc'[Writer] = pc[Writer]
              \/ {pc[Writer], pc'[Writer]} \subseteq {"push", "pushwait"}
              \/ {pc[Writer], pc'[Writer]} \subseteq {"tellEmpty", "out"}
          BY <2>3, <3>3, <4>1 DEF Stays, Telling
        <4> QED BY <1>1, <1>2, <3>1, <4>1, <4>2, ReaderRests, WriterRests DEF Hands
      <3> QED BY <2>1, <3>2, <3>3 DEF Two
    <2>4. CASE t = Reader /\ Takes
      <3>1. /\ QueueHands' /\ ReaderHands'
            /\ got[Reader] = NoItem /\ RingContents(ring) # <<>>
            /\ ~Strayed(ring') => ~Strayed(ring) /\ got'[Reader] = Head(RingContents(ring))
            /\ RingContents(ring') = Tail(RingContents(ring))
        BY <2>4, HandsTake
      <3>2. pc'[Writer] = pc[Writer] /\ arg' = arg
        BY <1>1, <2>1, <2>4 DEF Takes
      <3>3. WriterHands' /\ Behind' = Behind
        BY <1>1, <3>2, WriterRests, SameBehind DEF Hands
      <3>4. ASSUME Orderly, Unharmed', rop' # "closed"
            PROVE  InOrder(Front', RingContents(ring'), Behind', sent')
        <4>1. /\ InOrder(Front, RingContents(ring), Behind, sent) /\ ~Strayed(ring)
              /\ got'[Reader] = Head(RingContents(ring))
          BY <1>1, <3>1, <3>4 DEF Orderly, Unharmed
        <4>2. RingContents(ring) \in Seq(Items) /\ Items \subseteq Cells
          BY <4>1 DEF Hands, QueueHands, Cells
        <4>3. /\ RingContents(ring) \in Seq(Cells \cup {Lost}) /\ Head(RingContents(ring)) \in Items
              /\ sent \in 0..MaxBytes
          BY <3>1, <4>2, SeqMonotonic, HeadTailProperties, HeldFacts
        <4>4. InOrder(Front \o Head(RingContents(ring)), Tail(RingContents(ring)), Behind, sent)
          BY <3>1, <4>1, <4>3, OrderTake
        <4>5. Front' = Front \o Head(RingContents(ring))
          <5>1. taken \in Seq(Nat) /\ win \in Seq(Nat) /\ taken' = taken /\ win' = win
            BY DEF Hands, ReaderHands, readerVars
          <5>2. taken \o win \in Seq(Nat)
            BY <5>1, ConcatProperties
          <5>3. Front = taken \o win
            BY <3>1, <5>2, FrontIs, NothingAtAll
          <5>4. got'[Reader] # NoItem
            BY <4>1, <4>3, RingAssumption
          <5> QED BY <4>1, <5>1, <5>3, <5>4, FrontNext
        <4> QED BY <1>1, <3>1, <3>3, <4>4, <4>5
      <3>5. Orderly => Orderly'
        BY <3>4 DEF Orderly, InOrder
      <3> QED BY <3>1, <3>3, <3>5 DEF Hands
    <2>5. CASE t = Writer /\ Stores
      <3>1. /\ QueueHands' /\ WriterHands'
            /\ arg[Writer] \in Chunks /\ arg'[Writer] = NoItem /\ Writing
            /\ ~Strayed(ring') =>
                 ~Strayed(ring) /\ RingContents(ring') = Append(RingContents(ring), arg[Writer])
        BY <1>1, <2>5, HandsStore
      <3>2. pc'[Reader] = pc[Reader] /\ got' = got
        BY <1>1, <2>1, <2>5 DEF Stores
      <3>3. ReaderHands' /\ Front' = Front
        BY <1>1, <3>2, ReaderRests, SameFront DEF Hands
      <3>4. ASSUME Orderly, Unharmed', rop' # "closed"
            PROVE  InOrder(Front', RingContents(ring'), Behind', sent')
        <4> DEFINE a == arg[Writer]
        <4>1. /\ InOrder(Front, RingContents(ring), Behind, sent) /\ ~Strayed(ring)
              /\ RingContents(ring') = Append(RingContents(ring), a)
          BY <1>1, <3>1, <3>4 DEF Orderly, Unharmed
        <4>2. /\ RingContents(ring) \in Seq(Cells \cup {Lost}) /\ a \in Cells /\ a \in Seq(Nat) /\ a # NoItem
          <5>1. RingContents(ring) \in Seq(Items) /\ Items \subseteq Cells /\ a \in Items
            BY <3>1, <4>1 DEF Hands, QueueHands, PipeQueue, Cells
          <5> QED BY <3>1, <5>1, SeqMonotonic, ChunkIs, RingAssumption
        <4>3. /\ Held \in Seq(Nat) /\ rest \in Seq(Nat) /\ sent \in 0..MaxBytes
              /\ Held' = Held /\ rest' = rest /\ wop' = wop
          BY HeldFacts DEF writerVars, Held
        <4>4. Behind' \in Seq(Nat) /\ Behind = a \o Behind'
          <5>1. CASE wop \in {"put", "flush"}
            <6>1. a = Held
              BY <4>2, <5>1, <3>1, ItemsAre, PipeTasks DEF Hands, WriterHands, Held
            <6>2. Behind = <<>> \o (Held \o rest) /\ Behind' = <<>> \o (<<>> \o rest)
              BY <3>1, <4>2, <4>3, <5>1, BehindIs, BehindNext
            <6>3. Behind = Held \o rest /\ Behind' = rest
              BY <4>3, <6>2, NothingBefore, NothingAtAll
            <6> QED BY <4>3, <6>1, <6>3
          <5>2. CASE wop = "write"
            <6>1. Behind = a \o (Held \o rest) /\ Behind' = <<>> \o (Held \o rest)
              BY <3>1, <4>2, <4>3, <5>2, BehindIs, BehindNext
            <6>2. Behind' = Held \o rest /\ Behind' \in Seq(Nat)
              BY <4>3, <6>1, NothingBefore
            <6> QED BY <6>1, <6>2
          <5>3. CASE wop = "close"
            <6>1. a = <<>>
              BY <4>2, <5>3 DEF Hands, WriterHands, End
            <6>2. Behind = <<>> \o (Held \o rest) /\ Behind' = <<>> \o (Held \o rest)
              BY <4>3, <5>3, BehindIs, BehindNext
            <6>3. Behind' = Held \o rest /\ Behind' \in Seq(Nat) /\ Behind = <<>> \o Behind'
              BY <4>3, <6>2, NothingBefore
            <6> QED BY <6>1, <6>3
          <5> QED BY <3>1, <5>1, <5>2, <5>3 DEF Writing
        <4> HIDE DEF a
        <4>5. InOrder(Front, RingContents(ring), a \o Behind', sent)
          BY <4>1, <4>4
        <4>6. InOrder(Front, Append(RingContents(ring), a), Behind', sent)
          BY <4>2, <4>3, <4>4, <4>5, OrderAdd
        <4> QED BY <1>1, <3>3, <4>1, <4>6
      <3>5. Orderly => Orderly'
        BY <3>4 DEF Orderly, InOrder
      <3> QED BY <3>1, <3>3, <3>5 DEF Hands
    <2> QED BY <2>1, <2>3, <2>4, <2>5
  <1>4. ASSUME UNCHANGED <<ring, pc, arg, got>>
        PROVE  Hands' /\ (Orderly => Orderly')
    BY <1>1, <1>2, <1>4, ReaderRests, WriterRests DEF Hands
  <1>5. ASSUME NEW t \in Tasks, Cancel(t)
        PROVE  UNCHANGED <<ring, pc, arg, got>>
    BY <1>5 DEF Cancel, queueVars
  <1>6. ASSUME NEW c \in Contexts, Submit(c)
        PROVE  UNCHANGED <<ring, pc, arg, got>>
    BY <1>6 DEF Submit, queueVars
  <1> QED BY <1>3, <1>4, <1>5, <1>6 DEF vars, queueVars

LEMMA PipeSteps ==
  ASSUME [PipeNext]_pipeVars
  PROVE  \/ \E n \in 1..MaxPut : Put(n) \/ Write(n)
         \/ Flush \/ Close \/ Destroy \/ Pushed \/ PushFails
         \/ \E n \in 1..MaxPut : Get(n) \/ ReadSpan(n) \/ Peek(n)
         \/ Forward \/ CloseReader \/ Popped \/ PopFails
         \/ /\ UNCHANGED <<writerVars, readerVars, harm>>
            /\ \/ \E t \in Tasks : Progress(t) \/ Cancel(t)
               \/ \E c \in Contexts : Submit(c)
               \/ UNCHANGED vars
  <1>1. CASE UNCHANGED pipeVars
    BY <1>1 DEF pipeVars
  <1>2. CASE PipeStep
    BY <1>2, CallLengths
  <1>3. ASSUME NEW t \in Tasks, Goes(t) \/ Queue(Cancel(t))
        PROVE  UNCHANGED <<writerVars, readerVars, harm>> /\ (Progress(t) \/ Cancel(t))
    BY <1>3 DEF Goes, Queue
  <1>4. ASSUME NEW c \in Contexts, Queue(Submit(c))
        PROVE  UNCHANGED <<writerVars, readerVars, harm>> /\ Submit(c)
    BY <1>4 DEF Queue
  <1> QED BY <1>1, <1>2, <1>3, <1>4 DEF PipeNext

LEMMA HandsInit == PipeQueue /\ PipeInit => Hands /\ Orderly
  <1> SUFFICES ASSUME PipeQueue, PipeInit PROVE Hands /\ Orderly
    OBVIOUS
  <1>1. /\ MaxSize \in Nat /\ arg = [t \in Tasks |-> NoItem] /\ got = [t \in Tasks |-> NoItem]
        /\ pc = [t \in Tasks |-> "out"] /\ Reader \in Tasks /\ Writer \in Tasks
        /\ wop = "idle" /\ out = NoBuffer /\ rest = <<>> /\ sent = 0
        /\ rop = "idle" /\ win = <<>> /\ ix = 0 /\ need = 0
        /\ part = 0 /\ taken = <<>>
    BY QueueAssumption, PipeTasks DEF PipeInit, Init
  <1>2. BufSize \in Nat /\ 0 \in 0..MaxBytes /\ 0 \in 0..MaxPut
    BY PipeAssumption
  <1>3. ring \in Rings(MaxSize) /\ RingContents(ring) = <<>> /\ ~Strayed(ring)
    <2>1. PICK slack \in Slacks : ring = RingOf(MaxSize, slack)
      BY DEF PipeInit, Init
    <2> QED BY <1>1, <2>1, FreshRing, QueueAssumption
  <1>4. QueueHands
    BY <1>1, <1>3, EmptySeq DEF QueueHands, Cells
  <1>5. ReaderHands
    BY <1>1, <1>2, EmptySeq DEF ReaderHands, Reading
  <1>6. Held = <<>> /\ Len(<<>>) = 0 /\ rest \in Seq(Nat)
    BY <1>1, EmptySeq DEF Held
  <1>7. WriterHands
    BY <1>1, <1>2, <1>6 DEF WriterHands, Writing
  <1>8. <<>> \o <<>> = <<>> /\ <<>> \o (<<>> \o <<>>) = <<>>
    BY <1>1, <1>6, NothingAtAll
  <1>9. Front = <<>> /\ Behind = <<>>
    BY <1>1, <1>6, <1>8, FrontIs, BehindIs
  <1>10. Run(<<>>, 1, 0)
    BY RunNone
  <1>11. Run(<<>>, 0 + 1, 0) /\ Between(<<>>, 0, 0) /\ 0 \in 0..0
    BY <1>2, <1>10, BetweenNone
  <1>12. InOrder(<<>>, <<>>, <<>>, 0)
    BY <1>10, <1>11 DEF InOrder
  <1> QED BY <1>1, <1>3, <1>4, <1>5, <1>7, <1>9, <1>12 DEF Hands, Orderly

LEMMA HandsStep ==
  ASSUME PipeQueue, Coupled, Hands, [PipeNext]_pipeVars
  PROVE  Hands' /\ (Orderly => Orderly')
  BY PipeSteps, WriterStep, ReaderStep, QueueStep

(* What each harm comes from.                                              *)
LEMMA HarmStep ==
  ASSUME PipeQueue, Coupled, Hands, [PipeNext]_pipeVars
  PROVE  /\ harm' \subseteq harm \cup {"cut", "overwritten", "dropped", "overtaken"}
         /\ "cut" \in harm' \ harm =>
              rop \in {"read", "peek", "forward"} \/ Len(got[Reader]) > BufSize
         /\ "overwritten" \in harm' \ harm => rop = "peek" /\ Len(win) < need
         /\ "dropped" \in harm' \ harm => rop = "get" /\ rop' \in {"idle", "eof"}
         /\ "overtaken" \in harm' \ harm => Space = 0
  <1>1. CASE harm' = harm
    BY <1>1
  <1>2. CASE Popped
    BY <1>2, ReaderPops
  <1>3. ASSUME NEW n \in 1..MaxPut, Write(n)
        PROVE  harm' \subseteq harm \cup {"overtaken"} /\ (harm' # harm => Space = 0)
    BY <1>3, WriterWrites
  <1>4. CASE \E n \in 1..MaxPut : Write(n)
    BY <1>3, <1>4
  <1>5. CASE PopFails
    <2>1. GivesUp({}) /\ rop' = "idle"
      BY <1>5 DEF PopFails
    <2>2. harm' = harm \/ (rop = "get" /\ harm' = harm \cup {"dropped"})
      BY <2>1 DEF GivesUp
    <2> QED BY <2>1, <2>2
  <1>6. ASSUME NEW n \in 1..MaxPut, Put(n) \/ Get(n) \/ ReadSpan(n) \/ Peek(n) PROVE harm' = harm
    BY <1>6 DEF Put, Get, ReadSpan, Peek
  <1>7. Flush \/ Close \/ Destroy \/ Pushed \/ PushFails \/ Forward \/ CloseReader => harm' = harm
    BY DEF Flush, Close, Destroy, Pushed, PushFails, Forward, CloseReader
  <1> QED BY <1>1, <1>2, <1>4, <1>5, <1>6, <1>7, PipeSteps

(* What holds of a pipe whatever threads its two coroutines run on.        *)
PipeInv ==
  /\ Coupled /\ Hands /\ Orderly
  /\ harm \subseteq {"cut", "overtaken", "overwritten", "dropped"}

LEMMA PipeInductive == ASSUME PipeQueue PROVE PipeSpec => []PipeInv
  <1>1. PipeInit => PipeInv
    BY CoupledInit, HandsInit DEF PipeInv, PipeInit
  <1>2. PipeInv /\ [PipeNext]_pipeVars => PipeInv'
    BY CoupledStep, HandsStep, HarmStep DEF PipeInv
  <1> QED BY <1>1, <1>2, PTL DEF PipeSpec

(* Every byte that is put is in exactly one place, and they are in order   *)
(* from the reader's hands to the writer's buffer, for any buffer, chunk   *)
(* and queue sizes, any lengths of the calls and on any threads, until one *)
(* of the calls HarmIsKnown names does harm or the ring has lost a chunk   *)
(* that it stored behind its array.                                        *)
THEOREM BytesConserved ==
  ASSUME PipeQueue PROVE PipeSpec => []Conserved
  <1>1. PipeInv => Conserved
    BY ConservedIsInOrder DEF PipeInv, Orderly
  <1> QED BY <1>1, PipeInductive, PTL

(* The buffers never hold more than their size, and every counter is in    *)
(* its range.                                                              *)
THEOREM PipeTypeCorrect ==
  ASSUME PipeQueue PROVE PipeSpec => [](TypeOK /\ PipeTypeOK)
  <1>1. PipeInv => TypeOK /\ PipeTypeOK
    <2> SUFFICES ASSUME PipeInv PROVE TypeOK /\ PipeTypeOK
      OBVIOUS
    <2>1. TypeOK
      BY DEF PipeInv, Coupled, Settled, Hands, QueueHands, TypeOK, Cells
    <2>2. Len(Held) \in 0..BufSize
      BY HeldFacts DEF PipeInv
    <2>3. ix + Len(win) \in 0..BufSize
      <3>1. ix \in Nat /\ Len(win) \in Nat /\ ix + Len(win) <= BufSize
        BY LenProperties DEF PipeInv, Hands, ReaderHands
      <3> QED BY <3>1, PipeAssumption
    <2> QED BY <2>1, <2>2, <2>3 DEF PipeTypeOK, PipeInv, Hands, ReaderHands, WriterHands
  <1> QED BY <1>1, PipeInductive, PTL

(* Apart from the ring, bytes are lost only from a chunk longer than the   *)
(* span of read(), the room a peekn or a pipe_forward left, or any buffer; *)
(* under a peekn that finds too little; and with a getn(n) that fails.     *)
(* They are overtaken only by write() on a full buffer.                    *)
THEOREM HarmIsKnown ==
  ASSUME PipeQueue PROVE PipeSpec => HarmKnown
  <1> DEFINE new == harm' \ harm
             Known == /\ "cut" \in new =>
                           rop \in {"read", "peek", "forward"} \/ Len(got[Reader]) > BufSize
                      /\ "overwritten" \in new => rop = "peek" /\ Len(win) < need
                      /\ "dropped" \in new => rop = "get" /\ rop' \in {"idle", "eof"}
                      /\ "overtaken" \in new => Space = 0
  <1>1. PipeInv /\ [PipeNext]_pipeVars => [Known]_pipeVars
    BY HarmStep DEF PipeInv
  <1> QED BY <1>1, PipeInductive, PTL DEF PipeSpec, HarmKnown

-----------------------------------------------------------------------------
(* The end of the stream, with reader and writer on one thread.            *)

(* The end is announced once, and once more when the closed stream is      *)
(* destroyed; nothing comes behind it.                                     *)
LateBy == IF wop = "gone" THEN 1 ELSE 0

EndsLast(q, k) ==
  \A i \in 1..Len(q) : q[i] = End => i + k >= Len(q) /\ \A j \in i..Len(q) : q[j] = End

AllEnds(q) == \A i \in 1..Len(q) : q[i] = End
NoEnd(q) == \A i \in 1..Len(q) : q[i] # End

Announced == wop \in {"closed", "gone"} \/ (wop = "close" /\ arg[Writer] = NoItem)
Found == got[Reader] = End \/ rop = "eof"

Ends ==
  Unharmed =>
    /\ EndsLast(RingContents(ring), LateBy)
    /\ NoEnd(RingContents(ring)) \/ Announced
    /\ Found => /\ wop \in {"closed", "gone"}
                /\ Len(RingContents(ring)) <= LateBy /\ AllEnds(RingContents(ring))

LEMMA EndsLater ==
  ASSUME NEW q, Len(q) \in Nat, NEW k \in Nat, NEW m \in Nat, k <= m, EndsLast(q, k)
  PROVE  EndsLast(q, m)
  BY DEF EndsLast

LEMMA EndsTake ==
  ASSUME NEW q \in Seq(Items), q # <<>>, NEW k \in Nat, EndsLast(q, k)
  PROVE  /\ EndsLast(Tail(q), k)
         /\ NoEnd(q) => NoEnd(Tail(q)) /\ Head(q) # End
         /\ Head(q) = End => Len(Tail(q)) <= k /\ AllEnds(Tail(q))
  <1>1. /\ Len(q) \in Nat /\ 1 \in 1..Len(q) /\ Len(Tail(q)) = Len(q) - 1 /\ Head(q) = q[1]
        /\ \A i \in 1..Len(Tail(q)) : Tail(q)[i] = q[i + 1]
    BY EmptySeq, HeadTailProperties
  <1> DEFINE t == Tail(q)
  <1>2. ASSUME NEW i \in 1..Len(t), t[i] = End, NEW j \in i..Len(t)
        PROVE  i + k >= Len(t) /\ t[j] = End
    <2>1. i + 1 \in 1..Len(q) /\ j + 1 \in i + 1..Len(q) /\ j \in 1..Len(t) /\ q[i + 1] = End
      BY <1>1, <1>2
    <2>2. (i + 1) + k >= Len(q) /\ q[j + 1] = End
      BY <2>1 DEF EndsLast
    <2> QED BY <1>1, <2>1, <2>2
  <1>3. EndsLast(t, k)
    <2>1. ASSUME NEW i \in 1..Len(t), t[i] = End PROVE i + k >= Len(t)
      <3>1. i \in i..Len(t)
        BY <1>1
      <3> QED BY <1>2, <2>1, <3>1
    <2> HIDE DEF t
    <2> QED BY <1>2, <2>1 DEF EndsLast
  <1>4. NoEnd(q) => NoEnd(t) /\ Head(q) # End
    BY <1>1 DEF NoEnd
  <1>5. ASSUME Head(q) = End PROVE Len(t) <= k /\ AllEnds(t)
    <2>1. 1 + k >= Len(q) /\ \A j \in 1..Len(q) : q[j] = End
      BY <1>1, <1>5 DEF EndsLast
    <2>2. ASSUME NEW i \in 1..Len(t) PROVE t[i] = End
      BY <1>1, <2>1
    <2>3. Len(t) <= k
      BY <1>1, <2>1
    <2> HIDE DEF t
    <2> QED BY <2>2, <2>3 DEF AllEnds
  <1> QED BY <1>3, <1>4, <1>5

LEMMA EndsAdd ==
  ASSUME NEW q \in Seq(Items), NEW v \in Items
  PROVE  /\ NoEnd(q) => EndsLast(Append(q, v), 0)
         /\ NoEnd(q) /\ v # End => NoEnd(Append(q, v))
         /\ v = End /\ EndsLast(q, 0) => EndsLast(Append(q, v), 1)
         /\ v = End /\ AllEnds(q) => AllEnds(Append(q, v))
         /\ Len(Append(q, v)) = Len(q) + 1
  <1> DEFINE t == Append(q, v)
  <1>1. /\ Len(q) \in Nat /\ Len(t) = Len(q) + 1 /\ t[Len(q) + 1] = v
        /\ \A i \in 1..Len(q) : t[i] = q[i]
    BY LenProperties, AppendProperties
  <1> HIDE DEF t
  <1>2. \A i \in 1..Len(t) : i \in 1..Len(q) \/ i = Len(q) + 1
    BY <1>1
  <1>3. NoEnd(q) => EndsLast(t, 0)
    <2> SUFFICES ASSUME NoEnd(q), NEW i \in 1..Len(t), t[i] = End
                 PROVE  i + 0 >= Len(t) /\ \A j \in i..Len(t) : t[j] = End
      BY DEF EndsLast
    <2>1. i = Len(q) + 1
      BY <1>1, <1>2 DEF NoEnd
    <2> QED BY <1>1, <2>1
  <1>4. NoEnd(q) /\ v # End => NoEnd(t)
    BY <1>1, <1>2 DEF NoEnd
  <1>5. v = End /\ EndsLast(q, 0) => EndsLast(t, 1)
    <2> SUFFICES ASSUME v = End, EndsLast(q, 0), NEW i \in 1..Len(t), t[i] = End
                 PROVE  i + 1 >= Len(t) /\ \A j \in i..Len(t) : t[j] = End
      BY DEF EndsLast
    <2>1. i + 1 >= Len(t)
      BY <1>1, <1>2 DEF EndsLast
    <2>2. ASSUME NEW j \in i..Len(t) PROVE t[j] = End
      <3>1. j = i \/ j = Len(q) + 1
        BY <1>1, <2>1
      <3> QED BY <1>1, <3>1
    <2> QED BY <2>1, <2>2
  <1>6. v = End /\ AllEnds(q) => AllEnds(t)
    BY <1>1, <1>2 DEF AllEnds
  <1> QED BY <1>1, <1>3, <1>4, <1>5, <1>6 DEF t

(* Steps that do not touch the ring.                                       *)
LEMMA EndsKeep ==
  ASSUME Ends, QueueHands, ring' = ring,
         harm' = {} => harm = {} /\ (Found' => Found),
         Announced => Announced',
         wop \in {"closed", "gone"} => wop' \in {"closed", "gone"},
         wop = "gone" => wop' = "gone"
  PROVE  Ends'
  <1> SUFFICES ASSUME Unharmed'
               PROVE  /\ EndsLast(RingContents(ring), LateBy')
                      /\ NoEnd(RingContents(ring)) \/ Announced'
                      /\ Found' => /\ wop' \in {"closed", "gone"}
                                   /\ Len(RingContents(ring)) <= LateBy'
                                   /\ AllEnds(RingContents(ring))
    BY DEF Ends, EndsLast, NoEnd, AllEnds
  <1>0. Unharmed /\ (Found' => Found)
    BY DEF Unharmed
  <1>1. /\ EndsLast(RingContents(ring), LateBy)
        /\ NoEnd(RingContents(ring)) \/ Announced
        /\ Found => /\ wop \in {"closed", "gone"}
                    /\ Len(RingContents(ring)) <= LateBy /\ AllEnds(RingContents(ring))
    BY <1>0 DEF Ends
  <1>2. LateBy \in Nat /\ LateBy' \in Nat /\ LateBy <= LateBy'
    BY DEF LateBy
  <1>3. Len(RingContents(ring)) \in Nat
    BY LenProperties DEF QueueHands
  <1>4. EndsLast(RingContents(ring), LateBy')
    BY <1>1, <1>2, <1>3, EndsLater
  <1> QED BY <1>0, <1>1, <1>2, <1>3, <1>4

LEMMA EndsInit == PipeQueue /\ PipeInit => Ends
  <1> SUFFICES ASSUME PipeQueue, PipeInit PROVE Ends
    OBVIOUS
  <1>1. MaxSize \in Nat /\ got[Reader] = NoItem /\ rop = "idle"
    BY QueueAssumption, PipeTasks DEF PipeInit, Init
  <1>2. RingContents(ring) = <<>> /\ NoItem # End
    <2>1. PICK slack \in Slacks : ring = RingOf(MaxSize, slack)
      BY DEF PipeInit, Init
    <2> QED BY <1>1, <2>1, FreshRing, QueueAssumption, EndIsChunk, RingAssumption DEF PipeQueue
  <1>3. NoEnd(<<>>) /\ EndsLast(<<>>, LateBy)
    BY DEF NoEnd, EndsLast
  <1> QED BY <1>1, <1>2, <1>3 DEF Ends, Found

(* The writer announces the end once: nothing it does before that is taken *)
(* for it, and afterwards it only goes.                                    *)
LEMMA WriterEnds ==
  ASSUME PipeQueue, Coupled, Hands, Ends,
         \/ \E n \in 1..MaxPut : Put(n) \/ Write(n)
         \/ Flush \/ Close \/ Destroy \/ Pushed \/ PushFails
  PROVE  Ends'
  <1>1. UNCHANGED readerVars /\ got' = got
    BY WriterActs
  <1>2. Found' => Found
    BY <1>1 DEF Found, readerVars
  <1>3. ASSUME ~Announced, ring' = ring, harm' = {} => harm = {}
        PROVE  Ends'
    BY <1>2, <1>3, EndsKeep DEF Announced, Hands
  <1>4. wop = "idle" => ~Announced
    BY DEF Announced
  <1>5. ASSUME NEW n \in 1..MaxPut, Put(n) \/ Write(n)
        PROVE  Ends'
    <2>1. wop = "idle"
      BY <1>5 DEF Put, Write, WriterRuns
    <2>2. ring' = ring /\ (harm' = {} => harm = {})
      <3>1. Put(n) => harm' = harm
        BY DEF Put
      <3> QED BY <1>5, <3>1, WriterPuts, WriterWrites
    <2> QED BY <1>3, <1>4, <2>1, <2>2
  <1>6. CASE Flush \/ Close
    <2>1. wop = "idle" /\ harm' = harm
      BY <1>6 DEF Flush, Close, WriterRuns
    <2>2. ring' = ring
      BY <1>6, WriterFlushes, WriterCloses
    <2> QED BY <1>3, <1>4, <2>1, <2>2
  <1>7. CASE Pushed
    <2>1. /\ ring' = ring /\ Writing /\ harm' = harm
          /\ wop' = "closed" <=> wop = "close"
      BY <1>7, WriterPushed DEF Pushed
    <2>2. wop \notin {"closed", "gone"} /\ (Announced => Announced')
      BY <2>1 DEF Announced, Writing
    <2> QED BY <1>2, <2>1, <2>2, EndsKeep DEF Hands
  <1>8. CASE PushFails
    <2>1. ring' = ring /\ harm' = harm /\ WaitFails(Writer)
      BY <1>8, WriterFails DEF PushFails
    <2>2. Placed(Writer) /\ Writer # Reader
      BY PipeTasks DEF Coupled, Settled
    <2>3. pc[Writer] = "pushwait"
      BY <2>1, <2>2 DEF WaitFails, Waiting, Placed, InPlace, Places
    <2>4. ~Announced
      BY <2>3 DEF Announced, Hands, WriterHands, Writing
    <2> QED BY <1>3, <2>1, <2>4
  <1>9. CASE Destroy
    <2> DEFINE q == RingContents(ring)
    <2>1. /\ wop \in {"idle", "closed", "unheard"} /\ harm' = harm
          /\ \/ ring' = ring /\ (wop' = "gone" => wop = "closed")
             \/ /\ wop' = "gone"
                /\ ~Strayed(ring') => ~Strayed(ring) /\ RingContents(ring') = Append(q, End)
      BY <1>9, WriterGoes DEF Destroy
    <2>2. CASE ring' = ring /\ (wop' = "gone" => wop = "closed")
      <3>1. wop = "closed" => wop' = "gone"
        <4>1. CASE UNCHANGED vars /\ wop' = IF wop = "closed" THEN "gone" ELSE "silent"
          BY <4>1
        <4>2. CASE wop' = "gone"
          BY <4>2
        <4> QED BY <1>9, <4>1, <4>2 DEF Destroy
      <3> QED BY <1>2, <2>1, <2>2, <3>1, EndsKeep DEF Announced, Hands
    <2>3. CASE /\ wop' = "gone"
               /\ ~Strayed(ring') => ~Strayed(ring) /\ RingContents(ring') = Append(q, End)
      <3>1. ASSUME Unharmed'
            PROVE  /\ EndsLast(RingContents(ring'), 1)
                   /\ Found' => /\ Len(RingContents(ring')) <= 1
                                /\ AllEnds(RingContents(ring'))
        <4>1. Unharmed /\ RingContents(ring') = Append(q, End)
          BY <2>1, <2>3, <3>1 DEF Unharmed
        <4>2. q \in Seq(Items) /\ Len(q) \in Nat /\ End \in Items
          BY <4>1, EndIsChunk, LenProperties DEF Unharmed, Hands, QueueHands, PipeQueue
        <4>3. /\ EndsLast(q, 0) /\ (NoEnd(q) \/ wop = "closed")
              /\ Found => wop = "closed" /\ Len(q) <= 0 /\ AllEnds(q)
          BY <2>1, <4>1 DEF Ends, LateBy, Announced
        <4> HIDE DEF q
        <4>4. EndsLast(Append(q, End), 1)
          BY <4>2, <4>3, EndsAdd
        <4>5. Found => Len(Append(q, End)) <= 1 /\ AllEnds(Append(q, End))
          BY <4>2, <4>3, EndsAdd
        <4> QED BY <1>2, <4>1, <4>4, <4>5
      <3> QED BY <2>3, <3>1 DEF Ends, LateBy, Announced, EndsLast, AllEnds
    <2> QED BY <2>1, <2>2, <2>3
  <1> QED BY <1>5, <1>6, <1>7, <1>8, <1>9

LEMMA ReaderEnds ==
  ASSUME PipeQueue, Coupled, Hands, Ends,
         \/ \E n \in 1..MaxPut : Get(n) \/ ReadSpan(n) \/ Peek(n)
         \/ Forward \/ CloseReader \/ Popped \/ PopFails
  PROVE  Ends'
  <1>1. /\ UNCHANGED writerVars /\ ring' = ring /\ arg'[Writer] = arg[Writer]
        /\ harm' = harm \/ Popped \/ PopFails
    BY ReaderActs
  <1>2. harm' = {} => harm = {}
    <2>1. PopFails => harm \subseteq harm'
      BY DEF PopFails, GivesUp
    <2> QED BY <1>1, <2>1, ReaderPops
  <1>3. ASSUME harm' = {} => (Found' => Found) PROVE Ends'
    BY <1>1, <1>2, <1>3, EndsKeep DEF Announced, Hands, writerVars
  <1>4. /\ Reader \in Tasks /\ got \in [Tasks -> Cells] /\ NoItem # End
    BY PipeTasks, EndIsChunk, RingAssumption DEF Hands, QueueHands, PipeQueue
  <1>5. ASSUME NEW n \in 1..MaxPut, Get(n) \/ ReadSpan(n) \/ Peek(n) PROVE Found' => Found
    <2>1. /\ rop' \in {"idle", "get", "read", "peek"}
          /\ got' = got \/ CallPop(Reader)
      BY <1>5 DEF Get, ReadSpan, Peek, ReaderRuns, RawRead, vars, queueVars
    <2>2. CallPop(Reader) => got'[Reader] = NoItem
      BY <1>4 DEF CallPop
    <2> QED BY <1>4, <2>1, <2>2 DEF Found
  <1>6. CASE Forward
    <2>1. rop' = "forward" /\ got'[Reader] = NoItem
      BY <1>4, <1>6 DEF Forward, RawRead, CallPop
    <2> QED BY <1>3, <1>4, <2>1 DEF Found
  <1>7. CASE CloseReader
    <2>1. rop' = "closed" /\ got' = got
      BY <1>7 DEF CloseReader, vars, queueVars
    <2> QED BY <1>3, <2>1 DEF Found
  <1>8. CASE PopFails
    <2>1. rop' = "idle" /\ got' = got
      BY <1>8 DEF PopFails, WaitFails
    <2> QED BY <1>3, <2>1 DEF Found
  <1>9. CASE Popped
    <2>1. got'[Reader] = NoItem
      BY <1>4, <1>9 DEF Popped
    <2>2. harm' = {} /\ rop' = "eof" => got[Reader] = End
      BY <1>9, ReaderPops
    <2> QED BY <1>3, <1>4, <2>1, <2>2 DEF Found
  <1> QED BY <1>3, <1>5, <1>6, <1>7, <1>8, <1>9

(* The reader takes the end only once the push of it has returned: on one  *)
(* thread nobody else runs while the writer is inside it.                  *)
LEMMA QueueEnds ==
  ASSUME PipeQueue, Coupled, Alone, Hands, Ends, UNCHANGED <<writerVars, readerVars, harm>>,
         \/ \E t \in Tasks : Progress(t) \/ Cancel(t)
         \/ \E c \in Contexts : Submit(c)
         \/ UNCHANGED vars
  PROVE  Ends'
  <1> DEFINE q == RingContents(ring)
  <1>1. /\ Reader # Writer /\ Reader \in Tasks /\ Writer \in Tasks /\ harm' = harm
        /\ wop' = wop /\ rop' = rop /\ (~Strayed(ring) => q \in Seq(Items) /\ Len(q) \in Nat)
    BY PipeTasks, LenProperties DEF writerVars, readerVars, Hands, QueueHands
  <1>2. ASSUME UNCHANGED <<ring, arg, got>> PROVE Ends'
    BY <1>1, <1>2, EndsKeep DEF Announced, Found, Hands
  <1>3. ASSUME NEW t \in Tasks, Progress(t) PROVE Ends'
    <2>1. Stays(t) \/ (t = Reader /\ Takes) \/ (t = Writer /\ Stores)
      BY <1>3, QueueMoves
    <2>2. CASE t = Reader /\ Takes
      <3>1. /\ got[Reader] = NoItem /\ q # <<>>
            /\ ~Strayed(ring') => ~Strayed(ring) /\ got'[Reader] = Head(q)
            /\ RingContents(ring') = Tail(q) /\ Reading /\ arg' = arg
        BY <2>2, HandsTake DEF Takes
      <3>2. ~(wop = "close" /\ arg[Writer] = NoItem)
        <4>1. Running(Reader) /\ pc[Writer] \in Places(Writer)
          BY <1>1, <2>2 DEF Takes, Running, Waiting, Coupled, Settled, Placed, InPlace
        <4>2. pc[Writer] \in {"out", "push", "pushwait", "tellEmpty"}
          BY <1>1, <4>1 DEF Places
        <4>3. pc[Writer] # "tellEmpty" /\ ~BackOf(Writer)
          BY <1>1, <4>1, BackIs DEF Alone, Running, Waiting
        <4> QED BY <1>1, <4>2, <4>3 DEF BackOf, Writing, Hands, WriterHands
      <3> SUFFICES ASSUME Unharmed'
                   PROVE  /\ EndsLast(Tail(q), LateBy)
                          /\ NoEnd(Tail(q)) \/ Announced
                          /\ Head(q) = End => /\ wop \in {"closed", "gone"}
                                              /\ Len(Tail(q)) <= LateBy /\ AllEnds(Tail(q))
        <4>1. LateBy' = LateBy /\ Announced' = Announced
              /\ (Unharmed' => (Found' <=> Head(q) = End))
          BY <1>1, <3>1 DEF LateBy, Announced, Found, Reading, Unharmed
        <4> QED BY <1>1, <3>1, <4>1 DEF Ends, EndsLast, NoEnd, AllEnds
      <3>3. /\ Unharmed /\ q \in Seq(Items)
            /\ EndsLast(q, LateBy) /\ (NoEnd(q) \/ Announced) /\ LateBy \in Nat
        <4>1. Unharmed
          BY <1>1, <3>1 DEF Unharmed
        <4> QED BY <1>1, <4>1 DEF Ends, LateBy, Unharmed
      <3> HIDE DEF q
      <3>4. /\ EndsLast(Tail(q), LateBy)
            /\ NoEnd(q) => NoEnd(Tail(q)) /\ Head(q) # End
            /\ Head(q) = End => Len(Tail(q)) <= LateBy /\ AllEnds(Tail(q))
        BY <3>1, <3>3, EndsTake
      <3>5. Announced => wop \in {"closed", "gone"}
        BY <3>2 DEF Announced
      <3> QED BY <3>3, <3>4, <3>5
    <2>3. CASE t = Writer /\ Stores
      <3> DEFINE v == arg[Writer]
      <3>1. /\ v \in Chunks /\ arg'[Writer] = NoItem /\ Writing /\ got' = got
            /\ ~Strayed(ring') => ~Strayed(ring) /\ RingContents(ring') = Append(q, v)
        BY <1>1, <2>3, HandsStore DEF Stores
      <3>2. v \in Items /\ v # NoItem /\ (v = End <=> wop = "close")
        BY <3>1, RingAssumption DEF PipeQueue, Hands, WriterHands
      <3>3. ~Announced /\ (v = End => Announced')
        BY <1>1, <3>1, <3>2 DEF Announced, Writing
      <3> SUFFICES ASSUME Unharmed'
                   PROVE  /\ EndsLast(Append(q, v), 0)
                          /\ v # End => NoEnd(Append(q, v))
                          /\ ~Found
        <4>1. LateBy' = 0 /\ (Found' <=> Found)
          BY <1>1, <3>1 DEF LateBy, Found, Writing
        <4>2. Unharmed' => RingContents(ring') = Append(q, v)
          BY <3>1 DEF Unharmed
        <4> QED BY <1>1, <3>1, <3>3, <4>1, <4>2 DEF Ends, EndsLast, NoEnd
      <3>4. q \in Seq(Items) /\ NoEnd(q) /\ ~Found
        <4>1. Unharmed
          BY <1>1, <3>1 DEF Unharmed
        <4> QED BY <1>1, <3>1, <3>3, <4>1 DEF Ends, Writing, Unharmed
      <3> HIDE DEF q, v
      <3> QED BY <1>1, <3>2, <3>4, EndsAdd
    <2>4. CASE Stays(t)
      BY <1>2, <2>4 DEF Stays
    <2> QED BY <2>1, <2>2, <2>3, <2>4
  <1>4. ASSUME NEW t \in Tasks, Cancel(t) PROVE UNCHANGED <<ring, arg, got>>
    BY <1>4 DEF Cancel, queueVars
  <1>5. ASSUME NEW c \in Contexts, Submit(c) PROVE UNCHANGED <<ring, arg, got>>
    BY <1>5 DEF Submit, queueVars
  <1> QED BY <1>2, <1>3, <1>4, <1>5 DEF vars, queueVars

LEMMA EndsStep ==
  ASSUME PipeQueue, Coupled, Alone, Hands, Ends, [PipeNext]_pipeVars
  PROVE  Ends'
  BY PipeSteps, WriterEnds, ReaderEnds, QueueEnds

(* Chunks that are all the end hold no bytes.                              *)
LEMMA BetweenEnds ==
  ASSUME NEW q, Len(q) \in 0..1, AllEnds(q), NEW c \in 0..MaxBytes, NEW d, Between(q, c, d)
  PROVE  d = c
  <1>1. PICK cut \in [0..Len(q) -> 0..MaxBytes] :
          /\ cut[0] = c /\ cut[Len(q)] = d
          /\ \A i, j \in 0..Len(q) : i <= j => cut[i] <= cut[j]
          /\ \A i \in 1..Len(q) : q[i] = Bytes(cut[i - 1] + 1, cut[i])
    BY DEF Between
  <1>2. CASE Len(q) = 0
    BY <1>1, <1>2
  <1>3. CASE Len(q) = 1
    <2>1. /\ cut[0] \in Nat /\ cut[1] \in Nat /\ cut[0] = c /\ cut[1] = d /\ cut[0] <= cut[1]
      BY <1>1, <1>3, PipeAssumption
    <2>2. q[1] = Bytes(c + 1, d) /\ q[1] = <<>>
      <3>1. 1 \in 1..Len(q) /\ 1 - 1 = 0
        BY <1>3
      <3>2. q[1] = Bytes(cut[1 - 1] + 1, cut[1]) /\ q[1] = End
        BY <1>1, <3>1 DEF AllEnds
      <3> QED BY <2>1, <3>1, <3>2 DEF End
    <2>3. Len(Bytes(c + 1, d)) = d + 1 - (c + 1)
      <3>1. c + 1 \in Nat /\ d \in Nat /\ 1 <= c + 1 /\ c + 1 <= d + 1
        BY <2>1
      <3> QED BY <3>1, BytesType
    <2> QED BY <2>1, <2>2, <2>3
  <1> QED BY <1>2, <1>3

(* The reader finds the end only after the writer has announced it, and    *)
(* then has every byte that was flushed, taken or in its buffer, unless    *)
(* one of the calls HarmIsKnown names or the ring did harm before.         *)
THEOREM EndIsFound ==
  ASSUME PipeQueue, OneThread PROVE PipeSpec => []EndIsEnd
  <1>1. PipeInit => Ends
    BY EndsInit
  <1>2. PipeInv /\ PipeCalm /\ Ends /\ [PipeNext]_pipeVars => Ends'
    BY EndsStep DEF PipeInv, PipeCalm
  <1>3. PipeInv /\ Ends => EndIsEnd
    <2> SUFFICES ASSUME PipeInv, Ends, rop = "eof", Unharmed
                 PROVE  wop \in {"closed", "gone"} /\ (taken \o win) \o Held = Bytes(1, sent)
      BY DEF EndIsEnd, Unharmed
    <2> DEFINE q == RingContents(ring)
               f == taken \o win
    <2>1. /\ wop \in {"closed", "gone"} /\ Len(q) <= LateBy /\ AllEnds(q) /\ Len(q) \in Nat
      BY LenProperties DEF Ends, Found, PipeInv, Hands, QueueHands, Unharmed
    <2>2. Len(q) \in 0..1
      <3>1. LateBy = 0 \/ LateBy = 1
        BY DEF LateBy
      <3>2. ASSUME NEW m \in Nat, NEW k, k = 0 \/ k = 1, m <= k PROVE m \in 0..1
        BY <3>2
      <3> QED BY <2>1, <3>1, <3>2
    <2>3. /\ win \in Seq(Nat) /\ got[Reader] = NoItem /\ taken \in Seq(Nat)
          /\ sent \in 0..MaxBytes /\ rest = <<>> /\ Held \in Seq(Nat)
      BY <2>1, HeldFacts DEF PipeInv, Hands, ReaderHands, WriterHands, Reading
    <2>4. Front = f
      <3>1. f \in Seq(Nat)
        BY <2>3, ConcatProperties
      <3> QED BY <2>3, <3>1, FrontIs, NothingAtAll
    <2>5. Behind = Held
      BY <2>1, <2>3, BehindIs, NothingAtAll
    <2>6. InOrder(f, q, Held, sent)
      BY <2>4, <2>5 DEF PipeInv, Orderly
    <2> HIDE DEF q, f
    <2>7. PICK c \in 0..sent, d \in 0..sent :
            Run(f, 1, c) /\ Between(q, c, d) /\ Run(Held, d + 1, sent)
      BY <2>6 DEF InOrder
    <2>8. c \in 0..MaxBytes /\ c \in Nat /\ sent \in Nat /\ 1 <= c + 1 /\ c <= sent
      BY <2>3, <2>7, PipeAssumption
    <2>9. d = c
      BY <2>1, <2>2, <2>7, <2>8, BetweenEnds
    <2>10. Run(f \o Held, 1, sent)
      BY <2>7, <2>8, <2>9, RunCat
    <2> QED BY <2>1, <2>10 DEF Run, f
  <1> QED BY <1>1, <1>2, <1>3, PipeInductive, PipeCalmInv, PTL DEF PipeSpec
=============================================================================
