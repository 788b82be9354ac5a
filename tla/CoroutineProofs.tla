--------------------------- MODULE CoroutineProofs ---------------------------
(***************************************************************************)
(* What runs on one thread.  WhenAny for every list of branches: unless    *)
(* the source of the caller is cancelled, when_any always returns with a   *)
(* value and leaves nothing behind that refers to its frame.  EventLoop    *)
(* for any coroutines, delays and longest sleep: if the tree of the timers *)
(* keeps what it promises, the loop sleeps past none of them and returns   *)
(* only when nothing is left to wait for.                                  *)
(***************************************************************************)
EXTENDS WhenAny, EventLoop, SequenceTheorems, FiniteSetTheorems, TLAPS

(* The kinds of the branches, and the numbers that are not branches.       *)
LEMMA KindFacts ==
  /\ Len(Kind) \in Nat /\ Len(Kind) > 0
  /\ Branches = 1..Len(Kind)
  /\ Nobody \notin Branches /\ Outer \notin Branches /\ Outer # Nobody
  /\ \A b \in Branches : Kind[b] \in {"io", "timer", "try"}
  <1>1. Len(Kind) \in Nat /\ Branches = 1..Len(Kind)
    BY WhenAnyAssumption DEF Branches
  <1>2. Len(Kind) > 0
    BY WhenAnyAssumption, <1>1 DEF Branches
  <1>3. \A b \in Branches : Kind[b] \in {"io", "timer", "try"}
    BY WhenAnyAssumption, <1>1
  <1> QED BY <1>1, <1>2, <1>3 DEF Nobody, Outer

(* The call begins in the invariant.                                       *)
LEMMA InitInv == Init => IndInv
  <1> SUFFICES ASSUME Init PROVE IndInv
    OBVIOUS
  <1>1. TypeOK
    <2>1. started \in 0..Len(Kind)
      BY KindFacts DEF Init
    <2>2. /\ st \in [Branches -> {"new", "waiting", "winning", "done"}]
          /\ wait \in [Branches -> {"none", "armed", "ok", "canceled"}]
          /\ undo \in [Branches -> {"none", "sent", "acked"}]
      BY DEF Init
    <2>3. /\ listed \in SUBSET {b \in Branches : st[b] = "waiting"}
          /\ canceled \in BOOLEAN
          /\ canceler \in Branches \cup {Nobody, Outer}
          /\ result \in Branches \cup {Nobody}
          /\ outer \in BOOLEAN
      BY DEF Init
    <2> QED BY <2>1, <2>2, <2>3 DEF TypeOK
  <1>2. Standing
    BY KindFacts DEF Init, Standing
  <1>3. Winning
    BY KindFacts DEF Init, Winning
  <1> QED BY <1>1, <1>2, <1>3 DEF IndInv

(* Cancelling the others, by a branch that nobody else is ahead of, keeps  *)
(* the invariant: either it waits for SQEs, or it has its value at once.   *)
LEMMA CancelAllInv ==
  ASSUME IndInv, outer' = outer,
         NEW who \in Branches, NEW mine \in SUBSET {b \in Branches : st[b] = "waiting"},
         ~canceled, who \notin mine, CancelAll(who, mine),
         started' \in 0..Len(Kind),
         \A b \in Branches : b <= started' <=> (st[b] # "new" \/ b = who)
  PROVE  IndInv'
  <1> USE DEF IndInv, TypeOK, Standing, Winning, Nobody
  <1> DEFINE I == Operations(mine)
             Z == Sleepers(mine)
  <1>1. I \subseteq mine /\ Z \subseteq mine
    BY DEF Operations, Sleepers
  <1>2. CASE I = {}
    <2>1. /\ canceled' = TRUE
          /\ st' = [b \in Branches |-> IF b \in Z \cup {who} THEN "done" ELSE st[b]]
          /\ wait' = [b \in Branches |-> IF b \in Z \cup {who} THEN "none" ELSE wait[b]]
          /\ undo' = undo
          /\ listed' = {} /\ canceler' = 0 /\ result' = who
      BY <1>2, KindFacts DEF CancelAll
    <2> HIDE DEF I, Z
    <2>2. TypeOK'
      BY <2>1
    <2>3. Standing'
      BY <2>1, <1>1, KindFacts
    <2>4. Winning'
      BY <2>1, KindFacts
    <2> QED BY <2>2, <2>3, <2>4
  <1>3. CASE I # {}
    <2>1. /\ canceled' = TRUE
          /\ st' = [b \in Branches |->
               IF b \in Z THEN "done" ELSE IF b = who THEN "winning" ELSE st[b]]
          /\ wait' = [b \in Branches |-> IF b \in Z \cup {who} THEN "none" ELSE wait[b]]
          /\ undo' = [b \in Branches |-> IF b \in I THEN "sent" ELSE undo[b]]
          /\ listed' = I /\ canceler' = who /\ result' = result
      BY <1>3, KindFacts DEF CancelAll
    <2>2. I \cap Z = {}
      BY DEF Operations, Sleepers
    <2> HIDE DEF I, Z
    <2>3. TypeOK'
      BY <2>1, <2>2, <1>1
    <2>4. Standing'
      BY <2>1, <1>1, KindFacts
    <2>5. Winning'
      BY <2>1, KindFacts
    <2> QED BY <2>3, <2>4, <2>5
  <1> QED BY <1>2, <1>3

(* A branch that ends keeps the invariant, first or not.                   *)
LEMMA FinishInv ==
  ASSUME IndInv, outer' = outer, NEW b \in Branches, Finish(b), st[b] \in {"new", "waiting"},
         started' \in 0..Len(Kind),
         \A c \in Branches : c <= started' <=> (st[c] # "new" \/ c = b)
  PROVE  IndInv'
  <1>1. CASE canceled
    <2>1. /\ st' = [st EXCEPT ![b] = "done"]
          /\ wait' = [wait EXCEPT ![b] = "none"]
          /\ listed' = listed \ {b}
          /\ UNCHANGED <<undo, canceled, canceler, result>>
      BY <1>1 DEF Finish
    <2> USE DEF IndInv, TypeOK, Standing, Winning, Nobody
    <2>2. TypeOK'
      BY <2>1
    <2>3. Standing'
      BY <2>1
    <2>4. Winning'
      BY <2>1, <1>1
    <2> QED BY <2>2, <2>3, <2>4
  <1>2. CASE ~canceled
    <2>1. CancelAll(b, listed \ {b})
      BY <1>2 DEF Finish
    <2>2. listed \ {b} \in SUBSET {c \in Branches : st[c] = "waiting"}
      BY DEF IndInv, TypeOK
    <2> QED BY <2>1, <2>2, <1>2, CancelAllInv
  <1> QED BY <1>1, <1>2

(* So does the outer source that comes first: nobody has a value then.     *)
LEMMA OuterCancelInv ==
  ASSUME IndInv, ~canceled, CancelAll(Outer, listed), outer' = TRUE, started' = started
  PROVE  IndInv'
  <1> USE DEF IndInv, TypeOK, Standing, Winning, Nobody
  <1> DEFINE I == Operations(listed)
             Z == Sleepers(listed)
  <1>1. I \subseteq listed /\ Z \subseteq listed /\ I \cap Z = {}
    BY DEF Operations, Sleepers
  <1>2. /\ canceled' = TRUE
        /\ st' = [b \in Branches |-> IF b \in Z THEN "done" ELSE st[b]]
        /\ wait' = [b \in Branches |-> IF b \in Z THEN "none" ELSE wait[b]]
        /\ undo' = [b \in Branches |-> IF b \in I THEN "sent" ELSE undo[b]]
        /\ listed' = I /\ canceler' = (IF I = {} THEN 0 ELSE Outer) /\ result' = result
    BY KindFacts DEF CancelAll
  <1> HIDE DEF I, Z
  <1>3. TypeOK'
    BY <1>1, <1>2
  <1>4. Standing'
    BY <1>1, <1>2, KindFacts
  <1>5. Winning'
    BY <1>1, <1>2, KindFacts
  <1> QED BY <1>3, <1>4, <1>5

(* Every step keeps the invariant.                                         *)
LEMMA NextInv ==
  ASSUME IndInv, [Next]_vars
  PROVE  IndInv'
  <1> USE DEF IndInv, TypeOK, Standing, Winning, Nobody
  <1>1. CASE Start
    <2> DEFINE b == started + 1
    <2>1. b \in Branches /\ st[b] = "new" /\ started' = b /\ b \in 0..Len(Kind) /\ outer' = outer
      BY <1>1, KindFacts DEF Start, Started
    <2>2. \A c \in Branches : c <= started' <=> (st[c] # "new" \/ c = b)
      BY <2>1, KindFacts
    <2>3. CASE Kind[b] = "try" /\ Finish(b)
      <3> HIDE DEF b, IndInv
      <3> QED BY <2>1, <2>2, <2>3, FinishInv
    <2>4. CASE ~(Kind[b] = "try" /\ Finish(b))
      <3>1. /\ st' = [st EXCEPT ![b] = "waiting"]
            /\ wait' = [wait EXCEPT ![b] = "armed"]
            /\ listed' = listed \cup {b}
            /\ UNCHANGED <<undo, canceled, canceler, result, outer>>
        BY <1>1, <2>4 DEF Start
      <3> HIDE DEF b
      <3>2. TypeOK'
        BY <2>1, <3>1
      <3>3. Standing'
        BY <2>1, <2>2, <3>1
      <3>4. Winning'
        BY <2>1, <3>1
      <3> QED BY <3>2, <3>3, <3>4
    <2> QED BY <1>1, <2>3, <2>4 DEF Start
  <1>2. CASE CancelReturns
    <2>1. /\ canceler \in Branches \cup {Outer} /\ canceler # Nobody
          /\ undo' = [b \in Branches |-> "none"]
          /\ canceler' = Nobody /\ listed' = {}
          /\ UNCHANGED <<started, wait, canceled, outer>>
      BY <1>2 DEF CancelReturns
    <2>2. CASE canceler \in Branches
      <3>1. st' = [st EXCEPT ![canceler] = "done"] /\ result' = canceler
        BY <1>2, <2>2 DEF CancelReturns
      <3>2. TypeOK'
        BY <2>1, <2>2, <3>1
      <3>3. Standing'
        BY <2>1, <2>2, <3>1, KindFacts
      <3>4. Winning'
        BY <2>1, <2>2, <3>1, KindFacts
      <3> QED BY <3>2, <3>3, <3>4
    <2>3. CASE canceler = Outer
      <3>1. UNCHANGED <<st, result>>
        BY <1>2, <2>3, KindFacts DEF CancelReturns
      <3>2. TypeOK'
        BY <2>1, <3>1
      <3>3. Standing'
        BY <2>1, <2>3, <3>1, KindFacts
      <3>4. Winning'
        BY <2>1, <2>3, <3>1, KindFacts
      <3> QED BY <3>2, <3>3, <3>4
    <2> QED BY <2>1, <2>2, <2>3
  <1>3. CASE OuterCancel
    <2>1. CASE canceled
      BY <1>3, <2>1 DEF OuterCancel
    <2>2. CASE ~canceled
      <3> HIDE DEF IndInv
      <3> QED BY <1>3, <2>2, OuterCancelInv DEF OuterCancel
    <2> QED BY <2>1, <2>2
  <1>4. CASE Over
    BY <1>4 DEF Over, vars
  <1>5. ASSUME NEW b \in Branches, Expire(b) PROVE IndInv'
    <2>1. st[b] = "waiting" /\ Finish(b) /\ started' = started /\ outer' = outer
      BY <1>5 DEF Expire
    <2> HIDE DEF IndInv
    <2>2. \A c \in Branches : c <= started' <=> (st[c] # "new" \/ c = b)
      BY <2>1 DEF IndInv
    <2>3. started' \in 0..Len(Kind)
      BY <2>1 DEF IndInv
    <2> QED BY <2>1, <2>2, <2>3, FinishInv
  <1>6. ASSUME NEW b \in Branches, Answer(b) PROVE IndInv'
    BY <1>6 DEF Answer
  <1>7. ASSUME NEW b \in Branches, KernelCancel(b) PROVE IndInv'
    <2>1. TypeOK'
      BY <1>7 DEF KernelCancel
    <2>2. Standing'
      BY <1>7 DEF KernelCancel
    <2>3. Winning'
      BY <1>7 DEF KernelCancel
    <2> QED BY <2>1, <2>2, <2>3
  <1>8. ASSUME NEW b \in Branches, Resume(b) PROVE IndInv'
    <2>1. st[b] = "waiting" /\ Finish(b) /\ started' = started /\ outer' = outer
      BY <1>8 DEF Resume
    <2> HIDE DEF IndInv
    <2>2. \A c \in Branches : c <= started' <=> (st[c] # "new" \/ c = b)
      BY <2>1 DEF IndInv
    <2>3. started' \in 0..Len(Kind)
      BY <2>1 DEF IndInv
    <2> QED BY <2>1, <2>2, <2>3, FinishInv
  <1>9. CASE UNCHANGED vars
    BY <1>9 DEF vars
  <1> QED BY <1>1, <1>2, <1>3, <1>4, <1>5, <1>6, <1>7, <1>8, <1>9 DEF Next

(* The invariant holds in every call.                                      *)
THEOREM WhenAnyInvariant == Spec => []IndInv
  <1>1. IndInv /\ [Next]_vars => IndInv'
    BY NextInv
  <1> QED BY <1>1, InitInv, PTL DEF Spec

(* when_any never returns without a value, whatever its branches are, in   *)
(* whatever order they end and however their cancellation races with their *)
(* answers, unless the outer source is cancelled.                          *)
THEOREM AlwaysAWinner == Spec => []WinnerReported
  <1>1. IndInv => WinnerReported
    BY KindFacts DEF IndInv, TypeOK, Standing, Winning, WinnerReported, Ended, Nobody
  <1> QED BY <1>1, WhenAnyInvariant, PTL

(* Nor does it leave a timer, an operation, a cancel SQE, a suspended      *)
(* canceller or a callback behind.                                         *)
THEOREM FrameIsFree == Spec => []NothingOutlives
  <1>1. IndInv => NothingOutlives
    BY KindFacts DEF IndInv, TypeOK, Standing, Winning, NothingOutlives, Ended, Nobody
  <1> QED BY <1>1, WhenAnyInvariant, PTL

(* A value is written once, by a branch that found none there: the first   *)
(* cancels the source, and returns from its doCancel before it emplaces.   *)
LEMMA ValueStays ==
  ASSUME IndInv, [Next]_vars, result # Nobody
  PROVE  result' = result
  <1> USE DEF IndInv, TypeOK, Standing, Winning
  <1>1. canceled /\ canceler = Nobody
    OBVIOUS
  <1>2. ASSUME NEW b \in Branches, Finish(b) PROVE result' = result
    BY <1>1, <1>2 DEF Finish
  <1>3. CASE Start
    <2>1. started + 1 \in Branches
      BY <1>3, KindFacts DEF Start, Started
    <2> QED BY <1>2, <1>3, <2>1 DEF Start
  <1>4. ASSUME NEW b \in Branches, Expire(b) \/ Resume(b) PROVE result' = result
    BY <1>2, <1>4 DEF Expire, Resume
  <1>5. ASSUME NEW b \in Branches, Answer(b) \/ KernelCancel(b) PROVE result' = result
    BY <1>5 DEF Answer, KernelCancel
  <1>6. ~CancelReturns
    BY <1>1 DEF CancelReturns
  <1>7. CASE OuterCancel
    BY <1>1, <1>7 DEF OuterCancel
  <1> QED BY <1>3, <1>4, <1>5, <1>6, <1>7 DEF Next, Over, vars

(* There is one winner, from the branch that first finds the source not    *)
(* cancelled to the value when_any returns.                                *)
THEOREM WinnerUnique == Spec => OneWinner
  <1>1. IndInv /\ IndInv' /\ [Next]_vars =>
          [/\ result # Nobody => result' = result
           /\ \A b, c \in Branches : st'[b] = "winning" /\ st'[c] = "winning" => b = c
           /\ (\E b \in Branches : st'[b] = "winning") => result' = Nobody]_vars
    <2> SUFFICES ASSUME IndInv, IndInv', [Next]_vars
                 PROVE  /\ result # Nobody => result' = result
                        /\ \A b, c \in Branches : st'[b] = "winning" /\ st'[c] = "winning" => b = c
                        /\ (\E b \in Branches : st'[b] = "winning") => result' = Nobody
      OBVIOUS
    <2>1. result # Nobody => result' = result
      BY ValueStays
    <2>2. \A b \in Branches : st'[b] = "winning" => canceler' = b
      BY DEF IndInv, Standing
    <2>3. canceler' # Nobody => result' = Nobody
      BY DEF IndInv, Winning
    <2> QED BY <2>1, <2>2, <2>3, KindFacts
  <1> QED BY <1>1, WhenAnyInvariant, PTL DEF Spec, OneWinner

-----------------------------------------------------------------------------
(* The sequences of coroutines: the stack, the ring and the batch.         *)
LEMMA FirstTaken ==
  ASSUME NEW s \in Seq(Tasks), s # <<>>, OnlyOnce(s)
  PROVE  /\ Head(s) \in Tasks /\ Head(s) \in Elements(s)
         /\ Tail(s) \in Seq(Tasks) /\ OnlyOnce(Tail(s))
         /\ Elements(Tail(s)) = Elements(s) \ {Head(s)}
  <1>1. Len(s) \in Nat \ {0} /\ Head(s) = s[1] /\ Head(s) \in Tasks
    OBVIOUS
  <1>2. /\ Tail(s) \in Seq(Tasks) /\ Len(Tail(s)) = Len(s) - 1
        /\ \A i \in 1..Len(s) - 1 : Tail(s)[i] = s[i + 1]
    OBVIOUS
  <1>3. OnlyOnce(Tail(s))
    BY <1>1, <1>2 DEF OnlyOnce
  <1>4. ASSUME NEW t \in Elements(Tail(s)) PROVE t \in Elements(s) /\ t # Head(s)
    <2>1. PICK i \in 1..Len(s) - 1 : t = s[i + 1]
      BY <1>2 DEF Elements
    <2>2. i + 1 \in 1..Len(s) /\ i + 1 # 1 /\ 1 \in 1..Len(s)
      BY <1>1
    <2> QED BY <1>1, <2>1, <2>2 DEF Elements, OnlyOnce
  <1>5. ASSUME NEW t \in Elements(s), t # Head(s) PROVE t \in Elements(Tail(s))
    <2>1. PICK i \in 1..Len(s) : t = s[i]
      BY DEF Elements
    <2>2. i - 1 \in 1..Len(s) - 1 /\ (i - 1) + 1 = i
      BY <1>1, <1>5, <2>1
    <2>3. Tail(s)[i - 1] = t
      BY <1>2, <2>1, <2>2
    <2> QED BY <1>2, <2>2, <2>3 DEF Elements
  <1>6. Head(s) \in Elements(s)
    BY <1>1 DEF Elements
  <1> QED BY <1>1, <1>2, <1>3, <1>4, <1>5, <1>6

LEMMA OneMore ==
  ASSUME NEW s \in Seq(Tasks), NEW t \in Tasks, t \notin Elements(s), OnlyOnce(s)
  PROVE  /\ Append(s, t) \in Seq(Tasks) /\ OnlyOnce(Append(s, t))
         /\ Elements(Append(s, t)) = Elements(s) \cup {t}
         /\ Len(Append(s, t)) = Len(s) + 1
         /\ <<t>> \o s \in Seq(Tasks) /\ OnlyOnce(<<t>> \o s)
         /\ Elements(<<t>> \o s) = Elements(s) \cup {t}
  <1>1. Len(s) \in Nat /\ \A i \in 1..Len(s) : s[i] \in Tasks /\ s[i] # t
    BY DEF Elements
  <1>2. /\ Append(s, t) \in Seq(Tasks) /\ Len(Append(s, t)) = Len(s) + 1
        /\ \A i \in 1..Len(s) : Append(s, t)[i] = s[i]
        /\ Append(s, t)[Len(s) + 1] = t
    OBVIOUS
  <1>3. /\ <<t>> \o s \in Seq(Tasks) /\ Len(<<t>> \o s) = Len(s) + 1
        /\ (<<t>> \o s)[1] = t
        /\ \A i \in 1..Len(s) : (<<t>> \o s)[i + 1] = s[i]
    <2>1. <<t>> \in Seq(Tasks) /\ Len(<<t>>) = 1 /\ <<t>>[1] = t
      OBVIOUS
    <2> HIDE DEF Tasks
    <2> QED BY <1>1, <2>1, ConcatProperties
  <1>4. OnlyOnce(Append(s, t)) /\ Elements(Append(s, t)) = Elements(s) \cup {t}
    <2>1. \A i \in 1..Len(s) + 1 : i \in 1..Len(s) \/ i = Len(s) + 1
      BY <1>1
    <2>2. 1..Len(s) \subseteq 1..Len(s) + 1 /\ Len(s) + 1 \in 1..Len(s) + 1
      BY <1>1
    <2>3. OnlyOnce(Append(s, t))
      BY <1>1, <1>2, <2>1 DEF OnlyOnce
    <2>4. Elements(Append(s, t)) = Elements(s) \cup {t}
      BY <1>1, <1>2, <2>1, <2>2 DEF Elements
    <2> QED BY <2>3, <2>4
  <1>5. OnlyOnce(<<t>> \o s) /\ Elements(<<t>> \o s) = Elements(s) \cup {t}
    <2> DEFINE r == <<t>> \o s
    <2>1. \A i \in 1..Len(s) + 1 : i = 1 \/ (i - 1 \in 1..Len(s) /\ (i - 1) + 1 = i)
      BY <1>1
    <2>2. \A i \in 1..Len(s) : i + 1 \in 1..Len(s) + 1
      BY <1>1
    <2>3. Len(r) = Len(s) + 1 /\ r[1] = t /\ \A i \in 1..Len(s) : r[i + 1] = s[i]
      BY <1>3
    <2> HIDE DEF r
    <2>4. \A i \in 1..Len(s) + 1 : i # 1 => i - 1 \in 1..Len(s) /\ r[i] = s[i - 1] /\ r[i] # t
      BY <1>1, <2>1, <2>3
    <2>5. OnlyOnce(r)
      <3> SUFFICES ASSUME NEW i \in 1..Len(s) + 1, NEW j \in 1..Len(s) + 1, r[i] = r[j]
                   PROVE  i = j
        BY <2>3 DEF OnlyOnce
      <3>1. CASE i = 1 \/ j = 1
        BY <2>3, <2>4, <3>1
      <3>2. CASE i # 1 /\ j # 1
        <4>1. s[i - 1] = s[j - 1] /\ i - 1 \in 1..Len(s) /\ j - 1 \in 1..Len(s)
          BY <2>4, <3>2
        <4>2. i - 1 = j - 1
          BY <4>1 DEF OnlyOnce
        <4> QED BY <1>1, <4>2
      <3> QED BY <3>1, <3>2
    <2>6. Elements(r) = Elements(s) \cup {t}
      <3>1. ASSUME NEW x \in Elements(r) PROVE x \in Elements(s) \cup {t}
        BY <2>3, <2>4 DEF Elements
      <3>2. ASSUME NEW x \in Elements(s) PROVE x \in Elements(r)
        <4>1. PICK i \in 1..Len(s) : x = s[i]
          BY DEF Elements
        <4> QED BY <2>2, <2>3, <4>1 DEF Elements
      <3>3. t \in Elements(r)
        BY <1>1, <2>3 DEF Elements
      <3> QED BY <3>1, <3>2, <3>3
    <2> QED BY <2>5, <2>6 DEF r
  <1> QED BY <1>2, <1>3, <1>4, <1>5

LEMMA Nobodys ==
  /\ <<>> \in Seq(Tasks) /\ Elements(<<>>) = {} /\ OnlyOnce(<<>>) /\ Len(<<>>) = 0
  /\ \A t \in Tasks : /\ <<t>> \in Seq(Tasks) /\ Elements(<<t>>) = {t} /\ OnlyOnce(<<t>>)
  <1>1. <<>> \in Seq(Tasks) /\ Elements(<<>>) = {} /\ OnlyOnce(<<>>) /\ Len(<<>>) = 0
    BY DEF Elements, OnlyOnce
  <1>2. ASSUME NEW t \in Tasks
        PROVE  <<t>> \in Seq(Tasks) /\ Elements(<<t>>) = {t} /\ OnlyOnce(<<t>>)
    BY DEF Elements, OnlyOnce
  <1> QED BY <1>1, <1>2

(* What the tree of the timers answers the loop, as long as it keeps its   *)
(* promise.                                                                *)
LEMMA TreeAnswers ==
  ASSUME TimersKeptUnlessTorn, ~torn
  PROVE  /\ TreeEmpty(timers) => Sleeping = {}
         /\ ~TreeEmpty(timers) => /\ Front(timers) \in Sleeping
                                  /\ \A t \in Sleeping : left[Front(timers)] <= left[t] \/ t = Front(timers)
  <1> DEFINE s == InOrder(timers)
  <1>1. /\ s \in Seq(Tasks) /\ Elements(s) = Sleeping
        /\ \A i, j \in 1..Len(s) : i < j => left[s[i]] <= left[s[j]]
        /\ TreeEmpty(timers) <=> s = <<>>
        /\ s # <<>> => Front(timers) = Head(s)
    BY DEF TimersKeptUnlessTorn, TimersKept, FrontKept
  <1> HIDE DEF s
  <1>2. CASE s = <<>>
    BY <1>1, <1>2, Nobodys
  <1>3. CASE s # <<>>
    <2>1. Head(s) = s[1] /\ Len(s) \in Nat /\ 1 \in 1..Len(s)
      BY <1>1, <1>3
    <2>2. Front(timers) = s[1] /\ s[1] \in Sleeping
      BY <1>1, <1>3, <2>1 DEF Elements
    <2>3. ASSUME NEW t \in Sleeping PROVE left[s[1]] <= left[t] \/ t = s[1]
      <3>1. PICK j \in 1..Len(s) : t = s[j]
        BY <1>1 DEF Elements
      <3>2. j = 1 \/ 1 < j
        BY <2>1, <3>1
      <3> QED BY <1>1, <2>1, <3>1, <3>2
    <2> QED BY <1>1, <1>3, <2>2, <2>3
  <1> QED BY <1>2, <1>3

(* A coroutine that runs is the first on the stack; it waits for nothing.  *)
LEMMA Runner ==
  ASSUME LoopInv, NEW t \in Tasks, Runs(t)
  PROVE  /\ stack # <<>> /\ Head(stack) = t /\ what[t] = "run" /\ loop \in {"timers", "resume"}
         /\ t \notin flight /\ t \notin Elements(cq) /\ t \notin Elements(batch)
  <1>1. stack # <<>> /\ Head(stack) = t /\ stack \in Seq(Tasks)
    BY DEF Runs, LoopInv, LoopTypeOK
  <1>2. t \in Elements(stack)
    BY <1>1, FirstTaken DEF LoopInv, Awaited
  <1> QED BY <1>1, <1>2 DEF LoopInv, LoopTypeOK, Awaited, Resting

(* It suspends, for anything but an operation.                             *)
LEMMA SuspendKeeps ==
  ASSUME LoopInv, NEW t \in Tasks, Runs(t), NEW w \in {"none", "sleep", "forever"}, Suspend(t, w),
         left' \in [Tasks -> Nat], UNCHANGED ioVars
  PROVE  LoopInv'
  <1>1. /\ stack # <<>> /\ Head(stack) = t /\ what[t] = "run" /\ loop \in {"timers", "resume"}
        /\ t \notin flight /\ t \notin Elements(cq) /\ t \notin Elements(batch)
    BY Runner
  <1>2. /\ Tail(stack) \in Seq(Tasks) /\ OnlyOnce(Tail(stack))
        /\ Elements(Tail(stack)) = Elements(stack) \ {t}
    BY <1>1, FirstTaken DEF LoopInv, LoopTypeOK, Awaited
  <1>3. /\ stack' = Tail(stack) /\ what' = [what EXCEPT ![t] = w]
        /\ UNCHANGED <<loop, nap, calls, torn, pending, flight, cq, batch>>
    BY DEF Suspend, ioVars
  <1>4. LoopTypeOK'
    BY <1>2, <1>3 DEF LoopInv, LoopTypeOK
  <1>5. Awaited'
    <2>1. \A u \in Tasks : what'[u] = IF u = t THEN w ELSE what[u]
      BY <1>3 DEF LoopInv, LoopTypeOK
    <2>2. \A u \in Tasks : what'[u] = "run" <=> u \in Elements(stack')
      BY <1>2, <1>3, <2>1 DEF LoopInv, Awaited
    <2>3. \A u \in Tasks : what'[u] = "io" <=> u \in flight \cup Elements(cq) \cup Elements(batch)
      BY <1>1, <2>1 DEF LoopInv, Awaited
    <2> QED BY <1>2, <1>3, <2>2, <2>3 DEF LoopInv, Awaited
  <1>6. Resting' /\ WakesInTime' /\ ReturnsWhenIdle'
    BY <1>1, <1>3 DEF LoopInv, Resting, WakesInTime, ReturnsWhenIdle
  <1> QED BY <1>4, <1>5, <1>6 DEF LoopInv

LEMMA TaskKeeps ==
  ASSUME LoopInv, NEW t \in Tasks, TaskStep(t)
  PROVE  LoopInv'
  <1>1. ASSUME NEW d \in Delays, Sleep(t, d) PROVE LoopInv'
    <2>1. Runs(t) /\ Suspend(t, "sleep") /\ left' = [left EXCEPT ![t] = d] /\ UNCHANGED ioVars
      BY <1>1 DEF Sleep
    <2>2. left' \in [Tasks -> Nat]
      BY <2>1, LoopAssumption DEF LoopInv, LoopTypeOK
    <2> QED BY <2>1, <2>2, SuspendKeeps
  <1>2. ASSUME NEW w \in {"forever", "none"}, Stop(t, w) PROVE LoopInv'
    <2>1. Runs(t) /\ Suspend(t, w) /\ left' = left /\ UNCHANGED ioVars
      BY <1>2 DEF Stop, ioVars
    <2>2. left' \in [Tasks -> Nat]
      BY <2>1 DEF LoopInv, LoopTypeOK
    <2> QED BY <2>1, <2>2, SuspendKeeps
  <1>3. CASE StartIO(t)
    <2>1. /\ Runs(t) /\ stack' = Tail(stack) /\ what' = [what EXCEPT ![t] = "io"]
          /\ pending' = pending + 1 /\ flight' = flight \cup {t}
          /\ UNCHANGED <<loop, nap, calls, torn, timers, left, cq, batch>>
      BY <1>3 DEF StartIO, Suspend
    <2>2. /\ stack # <<>> /\ Head(stack) = t /\ what[t] = "run" /\ loop \in {"timers", "resume"}
          /\ t \notin flight /\ t \notin Elements(cq) /\ t \notin Elements(batch)
      BY <2>1, Runner
    <2>3. /\ Tail(stack) \in Seq(Tasks) /\ OnlyOnce(Tail(stack))
          /\ Elements(Tail(stack)) = Elements(stack) \ {t}
      BY <2>2, FirstTaken DEF LoopInv, LoopTypeOK, Awaited
    <2>4. /\ IsFiniteSet(flight') /\ Cardinality(flight') = Cardinality(flight) + 1
          /\ Cardinality(flight) \in Nat
      BY <2>1, <2>2, FS_AddElement, FS_CardinalityType DEF LoopInv, LoopTypeOK
    <2>5. LoopTypeOK'
      BY <2>1, <2>3, <2>4 DEF LoopInv, LoopTypeOK
    <2>6. Awaited'
      <3>1. \A u \in Tasks : what'[u] = IF u = t THEN "io" ELSE what[u]
        BY <2>1 DEF LoopInv, LoopTypeOK
      <3>2. \A u \in Tasks : what'[u] = "run" <=> u \in Elements(stack')
        BY <2>1, <2>3, <3>1 DEF LoopInv, Awaited
      <3>3. \A u \in Tasks : what'[u] = "io" <=> u \in flight' \cup Elements(cq) \cup Elements(batch)
        BY <2>1, <3>1 DEF LoopInv, Awaited
      <3>4. pending' = Cardinality(flight') + Len(cq)
        <4>1. Len(cq) \in Nat /\ pending = Cardinality(flight) + Len(cq)
          BY DEF LoopInv, LoopTypeOK, Awaited
        <4> QED BY <2>1, <2>4, <4>1
      <3>5. flight' \cap Elements(cq) = {} /\ flight' \cap Elements(batch) = {}
        BY <2>1, <2>2 DEF LoopInv, Awaited
      <3> QED BY <2>1, <2>3, <3>2, <3>3, <3>4, <3>5 DEF LoopInv, Awaited
    <2>7. Resting' /\ WakesInTime' /\ ReturnsWhenIdle'
      BY <2>1, <2>2 DEF LoopInv, Resting, WakesInTime, ReturnsWhenIdle
    <2> QED BY <2>5, <2>6, <2>7 DEF LoopInv
  <1> QED BY <1>1, <1>2, <1>3 DEF TaskStep

(* It starts or cancels another, which runs inside it.                     *)
LEMMA MeddleKeeps ==
  ASSUME LoopInv, NEW t \in Tasks, Meddle(t)
  PROVE  LoopInv'
  <1>1. PICK u \in Tasks : Spawn(t, u) \/ CancelSleep(t, u)
    BY DEF Meddle
  <1>2. /\ Runs(t) /\ calls < MaxCalls /\ calls' = calls + 1
        /\ what[u] \in {"forever", "none", "sleep"}
        /\ stack' = <<u>> \o stack /\ what' = [what EXCEPT ![u] = "run"]
        /\ UNCHANGED <<loop, nap, pending, flight, cq, batch>>
    BY <1>1 DEF Spawn, CancelSleep, Called, ioVars
  <1>3. left' \in [Tasks -> Nat] /\ torn' \in BOOLEAN
    <2>1. left' = left \/ left' = [left EXCEPT ![u] = 0]
      BY <1>1 DEF Spawn, CancelSleep
    <2>2. TwoChildren(timers, u) \in BOOLEAN
      BY DEF TwoChildren
    <2>3. torn' = torn \/ torn' = TwoChildren(timers, u)
      BY <1>1 DEF Spawn, CancelSleep
    <2>4. torn \in BOOLEAN /\ left \in [Tasks -> Nat]
      BY DEF LoopInv, LoopTypeOK
    <2>5. left' \in [Tasks -> Nat]
      BY <2>1, <2>4
    <2>6. torn' \in BOOLEAN
      BY <2>2, <2>3, <2>4
    <2> QED BY <2>5, <2>6
  <1>4. stack # <<>> /\ loop \in {"timers", "resume"}
    BY <1>2, Runner
  <1>5. /\ u \notin Elements(stack) /\ u \notin flight
        /\ u \notin Elements(cq) /\ u \notin Elements(batch)
    BY <1>2 DEF LoopInv, Awaited
  <1>6. /\ stack' \in Seq(Tasks) /\ OnlyOnce(stack')
        /\ Elements(stack') = Elements(stack) \cup {u}
    BY <1>2, <1>5, OneMore DEF LoopInv, LoopTypeOK, Awaited
  <1>7. LoopTypeOK'
    <2>1. calls' \in 0..MaxCalls
      BY <1>2, LoopAssumption DEF LoopInv, LoopTypeOK
    <2> QED BY <1>2, <1>3, <1>6, <2>1 DEF LoopInv, LoopTypeOK
  <1>8. Awaited'
    <2>1. \A v \in Tasks : what'[v] = IF v = u THEN "run" ELSE what[v]
      BY <1>2 DEF LoopInv, LoopTypeOK
    <2>2. \A v \in Tasks : what'[v] = "run" <=> v \in Elements(stack')
      BY <1>6, <2>1 DEF LoopInv, Awaited
    <2>3. \A v \in Tasks : what'[v] = "io" <=> v \in flight \cup Elements(cq) \cup Elements(batch)
      BY <1>5, <2>1 DEF LoopInv, Awaited
    <2> QED BY <1>2, <1>6, <2>2, <2>3 DEF LoopInv, Awaited
  <1>9. Resting' /\ WakesInTime' /\ ReturnsWhenIdle'
    BY <1>2, <1>4 DEF LoopInv, Resting, WakesInTime, ReturnsWhenIdle
  <1> QED BY <1>7, <1>8, <1>9 DEF LoopInv

(* The first timer has expired: it was one of a sleeper, who runs now.     *)
LEMMA RunTimerKeeps ==
  ASSUME LoopInv, TimersKeptUnlessTorn, RunTimer
  PROVE  LoopInv'
  <1> DEFINE t == Front(timers)
  <1>1. /\ ~torn /\ loop = "timers" /\ stack = <<>> /\ ~TreeEmpty(timers)
        /\ stack' = <<t>> /\ calls' = 0 /\ what' = [what EXCEPT ![t] = "run"]
        /\ UNCHANGED <<loop, nap, left, torn, pending, flight, cq, batch>>
    BY DEF RunTimer, At, Expired, ioVars
  <1>2. t \in Tasks /\ what[t] = "sleep"
    BY <1>1, TreeAnswers DEF Sleeping
  <1> HIDE DEF t
  <1>3. LoopTypeOK'
    BY <1>1, <1>2, Nobodys, LoopAssumption DEF LoopInv, LoopTypeOK
  <1>4. Awaited'
    <2>1. \A u \in Tasks : what'[u] = IF u = t THEN "run" ELSE what[u]
      BY <1>1 DEF LoopInv, LoopTypeOK
    <2>2. \A u \in Tasks : what'[u] = "run" <=> u \in Elements(stack')
      BY <1>1, <1>2, <2>1, Nobodys DEF LoopInv, Awaited
    <2>3. \A u \in Tasks : what'[u] = "io" <=> u \in flight \cup Elements(cq) \cup Elements(batch)
      BY <1>2, <2>1 DEF LoopInv, Awaited
    <2>4. OnlyOnce(stack')
      BY <1>1, <1>2, Nobodys
    <2> QED BY <1>1, <2>2, <2>3, <2>4 DEF LoopInv, Awaited
  <1>5. Resting' /\ WakesInTime' /\ ReturnsWhenIdle'
    BY <1>1 DEF LoopInv, Resting, WakesInTime, ReturnsWhenIdle
  <1> QED BY <1>3, <1>4, <1>5 DEF LoopInv

(* The batch goes on, or it is empty.                                      *)
LEMMA ResumeKeeps ==
  ASSUME LoopInv, ResumeNext
  PROVE  LoopInv'
  <1>1. /\ loop = "resume" /\ stack = <<>> /\ UNCHANGED <<nap, left, torn, pending, flight, cq>>
    BY DEF ResumeNext, At
  <1>2. CASE batch = <<>>
    <2>1. loop' = "timers" /\ UNCHANGED <<calls, stack, what, batch>>
      BY <1>2 DEF ResumeNext
    <2>2. LoopTypeOK' /\ Awaited'
      BY <1>1, <2>1 DEF LoopInv, LoopTypeOK, Awaited
    <2>3. Resting' /\ WakesInTime' /\ ReturnsWhenIdle'
      BY <1>1, <1>2, <2>1 DEF Resting, WakesInTime, ReturnsWhenIdle
    <2> QED BY <2>2, <2>3 DEF LoopInv
  <1>3. CASE batch # <<>>
    <2> DEFINE t == Head(batch)
    <2>1. /\ stack' = <<t>> /\ calls' = 0 /\ what' = [what EXCEPT ![t] = "run"]
          /\ batch' = Tail(batch) /\ loop' = loop
      BY <1>3 DEF ResumeNext
    <2>2. /\ t \in Tasks /\ t \in Elements(batch)
          /\ batch' \in Seq(Tasks) /\ OnlyOnce(batch')
          /\ Elements(batch') = Elements(batch) \ {t}
      BY <1>3, <2>1, FirstTaken DEF LoopInv, LoopTypeOK, Awaited
    <2> HIDE DEF t
    <2>3. LoopTypeOK'
      BY <1>1, <2>1, <2>2, Nobodys, LoopAssumption DEF LoopInv, LoopTypeOK
    <2>4. Awaited'
      <3>1. \A u \in Tasks : what'[u] = IF u = t THEN "run" ELSE what[u]
        BY <2>1 DEF LoopInv, LoopTypeOK
      <3>2. Elements(stack) = {} /\ OnlyOnce(stack') /\ Elements(stack') = {t}
        BY <1>1, <2>1, <2>2, Nobodys
      <3>3. \A u \in Tasks : what'[u] = "run" <=> u \in Elements(stack')
        BY <3>1, <3>2 DEF LoopInv, Awaited
      <3>4. t \notin flight /\ t \notin Elements(cq)
        BY <2>2 DEF LoopInv, Awaited
      <3>5. \A u \in Tasks : what'[u] = "io" <=> u \in flight \cup Elements(cq) \cup Elements(batch')
        BY <2>2, <3>1, <3>4 DEF LoopInv, Awaited
      <3>6. flight \cap Elements(batch') = {} /\ Elements(cq) \cap Elements(batch') = {}
        BY <2>2 DEF LoopInv, Awaited
      <3> QED BY <1>1, <2>2, <3>2, <3>3, <3>5, <3>6 DEF LoopInv, Awaited
    <2>5. Resting' /\ WakesInTime' /\ ReturnsWhenIdle'
      BY <1>1, <2>1 DEF LoopInv, Resting, WakesInTime, ReturnsWhenIdle
    <2> QED BY <2>3, <2>4, <2>5 DEF LoopInv
  <1> QED BY <1>2, <1>3

(* The wait is no longer than what remains of the first sleep, and so of   *)
(* every sleep.                                                            *)
LEMMA WaitKeeps ==
  ASSUME LoopInv, TimersKeptUnlessTorn, Wait
  PROVE  LoopInv'
  <1>1. /\ ~torn /\ loop = "timers" /\ stack = <<>> /\ loop' = "wait" /\ nap' = Duration
        /\ UNCHANGED <<calls, stack, what, left, pending, flight, cq, batch, torn>>
    BY DEF Wait, At, ioVars
  <1>2. nap' \in 0..MaxSleep /\ \A t \in Sleeping : nap' <= left[t]
    <2>1. left \in [Tasks -> Nat] /\ MaxSleep \in Nat /\ Sleeping \subseteq Tasks
      BY LoopAssumption DEF LoopInv, LoopTypeOK, Sleeping
    <2>2. CASE TreeEmpty(timers)
      <3>1. Duration = MaxSleep /\ Sleeping = {}
        BY <1>1, <2>2, TreeAnswers DEF Duration
      <3> QED BY <1>1, <2>1, <3>1
    <2>3. CASE ~TreeEmpty(timers)
      <3> DEFINE f == Front(timers)
      <3>1. /\ f \in Sleeping /\ \A t \in Sleeping : left[f] <= left[t] \/ t = f
            /\ Duration = IF left[f] > MaxSleep THEN MaxSleep ELSE left[f]
        BY <1>1, <2>3, TreeAnswers DEF Duration
      <3> HIDE DEF f
      <3>2. left[f] \in Nat /\ \A t \in Sleeping : left[t] \in Nat /\ left[f] <= left[t]
        BY <2>1, <3>1
      <3> QED BY <1>1, <2>1, <3>1, <3>2
    <2> QED BY <2>2, <2>3
  <1>3. LoopTypeOK' /\ Awaited'
    BY <1>1, <1>2 DEF LoopInv, LoopTypeOK, Awaited
  <1>4. Resting' /\ ReturnsWhenIdle'
    BY <1>1 DEF LoopInv, Resting, ReturnsWhenIdle
  <1>5. WakesInTime'
    BY <1>1, <1>2 DEF WakesInTime, Sleeping
  <1> QED BY <1>3, <1>4, <1>5 DEF LoopInv

(* run() returns: nothing is pending, so no operation is in flight or in   *)
(* the ring; the batch and the stack are empty, and so is the tree.        *)
LEMMA ReturnKeeps ==
  ASSUME LoopInv, TimersKeptUnlessTorn, Return
  PROVE  LoopInv'
  <1>1. /\ ~torn /\ loop = "timers" /\ stack = <<>> /\ loop' = "over"
        /\ TreeEmpty(timers) /\ pending = 0
        /\ UNCHANGED <<nap, calls, stack, what, left, pending, flight, cq, batch, torn>>
    BY DEF Return, At, Idle, ioVars
  <1>2. LoopTypeOK' /\ Awaited'
    BY <1>1 DEF LoopInv, LoopTypeOK, Awaited
  <1>3. Resting' /\ WakesInTime'
    BY <1>1 DEF LoopInv, Resting, WakesInTime
  <1>4. \A t \in Tasks : what[t] \in {"none", "forever"}
    <2>1. batch = <<>> /\ Sleeping = {}
      BY <1>1, TreeAnswers DEF LoopInv, Resting
    <2>2. Cardinality(flight) \in Nat /\ Len(cq) \in Nat /\ pending = Cardinality(flight) + Len(cq)
      BY FS_CardinalityType DEF LoopInv, LoopTypeOK, Awaited
    <2>3. Cardinality(flight) = 0 /\ Len(cq) = 0
      BY <1>1, <2>2
    <2>4. flight = {} /\ cq = <<>>
      BY <2>3, FS_EmptySet DEF LoopInv, LoopTypeOK
    <2>5. Elements(stack) = {} /\ Elements(cq) = {} /\ Elements(batch) = {}
      BY <1>1, <2>1, <2>4, Nobodys
    <2>6. \A t \in Tasks : what[t] # "run" /\ what[t] # "io" /\ what[t] # "sleep"
      BY <2>1, <2>4, <2>5 DEF LoopInv, Awaited, Sleeping
    <2> QED BY <2>6 DEF LoopInv, LoopTypeOK
  <1>5. ReturnsWhenIdle'
    BY <1>1, <1>4 DEF ReturnsWhenIdle
  <1> QED BY <1>2, <1>3, <1>5 DEF LoopInv

(* All completions are counted when they are collected.                    *)
LEMMA CollectKeeps ==
  ASSUME LoopInv, Collect
  PROVE  LoopInv'
  <1>1. /\ loop = "wait" /\ stack = <<>> /\ batch' = cq /\ cq' = <<>>
        /\ pending' = pending - Len(cq) /\ loop' = "resume" /\ nap' = 0
        /\ UNCHANGED <<calls, stack, what, left, flight, torn>>
    BY DEF Collect, At
  <1>2. batch = <<>> /\ Elements(batch) = {} /\ Elements(cq') = {} /\ Len(cq') = 0 /\ OnlyOnce(cq')
    BY <1>1, Nobodys DEF LoopInv, Resting
  <1>3. pending' = Cardinality(flight) /\ Cardinality(flight) \in Nat
    <2>1. Cardinality(flight) \in Nat /\ Len(cq) \in Nat /\ pending = Cardinality(flight) + Len(cq)
      BY FS_CardinalityType DEF LoopInv, LoopTypeOK, Awaited
    <2> QED BY <1>1, <2>1
  <1>4. LoopTypeOK'
    BY <1>1, <1>3, Nobodys, LoopAssumption DEF LoopInv, LoopTypeOK
  <1>5. Awaited'
    BY <1>1, <1>2, <1>3 DEF LoopInv, Awaited
  <1>6. Resting' /\ WakesInTime' /\ ReturnsWhenIdle'
    BY <1>1 DEF Resting, WakesInTime, ReturnsWhenIdle
  <1> QED BY <1>4, <1>5, <1>6 DEF LoopInv

(* An operation that completes is counted until then.                      *)
LEMMA CompleteKeeps ==
  ASSUME LoopInv, NEW t \in Tasks, Complete(t)
  PROVE  LoopInv'
  <1>1. /\ loop = "wait" /\ t \in flight /\ flight' = flight \ {t} /\ cq' = Append(cq, t)
        /\ UNCHANGED <<loop, nap, calls, stack, what, left, pending, batch, torn>>
    BY DEF Complete
  <1>2. t \notin Elements(cq) /\ t \notin Elements(batch)
    BY <1>1 DEF LoopInv, Awaited
  <1>3. /\ cq' \in Seq(Tasks) /\ OnlyOnce(cq') /\ Elements(cq') = Elements(cq) \cup {t}
        /\ Len(cq') = Len(cq) + 1
    BY <1>1, <1>2, OneMore DEF LoopInv, LoopTypeOK, Awaited
  <1>4. /\ IsFiniteSet(flight') /\ Cardinality(flight') = Cardinality(flight) - 1
        /\ Cardinality(flight) \in Nat
    BY <1>1, FS_RemoveElement, FS_CardinalityType DEF LoopInv, LoopTypeOK
  <1>5. LoopTypeOK'
    BY <1>1, <1>3, <1>4 DEF LoopInv, LoopTypeOK
  <1>6. Awaited'
    <2>1. pending' = Cardinality(flight') + Len(cq')
      <3>1. Len(cq) \in Nat /\ pending = Cardinality(flight) + Len(cq)
        BY DEF LoopInv, LoopTypeOK, Awaited
      <3> QED BY <1>1, <1>3, <1>4, <3>1
    <2>2. flight' \cup Elements(cq') = flight \cup Elements(cq)
      BY <1>1, <1>3
    <2>3. \A u \in Tasks : what'[u] = "io" <=> u \in flight' \cup Elements(cq') \cup Elements(batch')
      BY <1>1, <2>2 DEF LoopInv, Awaited
    <2>4. /\ flight' \cap Elements(cq') = {} /\ flight' \cap Elements(batch') = {}
          /\ Elements(cq') \cap Elements(batch') = {}
      BY <1>1, <1>2, <1>3 DEF LoopInv, Awaited
    <2> QED BY <1>1, <1>3, <2>1, <2>3, <2>4 DEF LoopInv, Awaited
  <1>7. Resting' /\ WakesInTime' /\ ReturnsWhenIdle'
    BY <1>1 DEF LoopInv, Resting, WakesInTime, ReturnsWhenIdle, Sleeping
  <1> QED BY <1>5, <1>6, <1>7 DEF LoopInv

(* Time goes by for the sleepers and the waiting thread alike.             *)
LEMMA TickKeeps ==
  ASSUME LoopInv, Tick
  PROVE  LoopInv'
  <1>1. /\ nap' = Less(nap) /\ left' = [t \in Tasks |-> Less(left[t])]
        /\ UNCHANGED <<loop, calls, stack, what, pending, flight, cq, batch, torn>>
    BY DEF Tick, ioVars
  <1>2. nap \in Nat /\ nap <= MaxSleep /\ MaxSleep \in Nat /\ \A t \in Tasks : left[t] \in Nat
    BY LoopAssumption DEF LoopInv, LoopTypeOK
  <1>3. nap' \in 0..MaxSleep /\ left' \in [Tasks -> Nat]
    BY <1>1, <1>2 DEF Less
  <1>4. LoopTypeOK'
    BY <1>1, <1>3 DEF LoopInv, LoopTypeOK
  <1>5. Awaited' /\ Resting' /\ ReturnsWhenIdle'
    BY <1>1 DEF LoopInv, Awaited, Resting, ReturnsWhenIdle
  <1>6. WakesInTime'
    <2> SUFFICES ASSUME loop = "wait", NEW t \in Tasks, what[t] = "sleep" PROVE nap' <= left'[t]
      BY <1>1 DEF WakesInTime, Sleeping
    <2>1. nap <= left[t]
      BY DEF LoopInv, WakesInTime, Sleeping
    <2> QED BY <1>1, <1>2, <2>1 DEF Less
  <1> QED BY <1>4, <1>5, <1>6 DEF LoopInv

(* The loop begins with the coroutine of co_main.                          *)
LEMMA LoopBegins == LoopInit => LoopInv
  <1> SUFFICES ASSUME LoopInit PROVE LoopInv
    OBVIOUS
  <1>1. /\ loop = "timers" /\ nap = 0 /\ calls = 0 /\ stack = <<Main>>
        /\ what = [t \in Tasks |-> IF t = Main THEN "run" ELSE "none"]
        /\ left = [t \in Tasks |-> 0]
        /\ pending = 0 /\ flight = {} /\ cq = <<>> /\ batch = <<>> /\ torn = FALSE
    BY DEF LoopInit
  <1>2. Main \in Tasks /\ IsFiniteSet(flight) /\ Cardinality(flight) = 0
    BY <1>1, LoopAssumption, FS_EmptySet
  <1>3. /\ stack \in Seq(Tasks) /\ Elements(stack) = {Main} /\ OnlyOnce(stack)
        /\ cq \in Seq(Tasks) /\ Elements(cq) = {} /\ OnlyOnce(cq) /\ Len(cq) = 0
    BY <1>1, <1>2, Nobodys
  <1>4. LoopTypeOK
    <2>1. nap \in 0..MaxSleep /\ calls \in 0..MaxCalls /\ pending \in Nat
      BY <1>1, LoopAssumption
    <2>2. /\ what \in [Tasks -> {"none", "run", "sleep", "io", "forever"}]
          /\ left \in [Tasks -> Nat]
      BY <1>1
    <2>3. loop \in {"timers", "wait", "resume", "over"} /\ torn \in BOOLEAN /\ flight \subseteq Tasks
      BY <1>1
    <2>4. batch \in Seq(Tasks)
      BY <1>1, <1>3
    <2> QED BY <1>2, <1>3, <2>1, <2>2, <2>3, <2>4 DEF LoopTypeOK
  <1>5. Awaited
    BY <1>1, <1>2, <1>3 DEF Awaited
  <1>6. Resting /\ WakesInTime /\ ReturnsWhenIdle
    BY <1>1 DEF Resting, WakesInTime, ReturnsWhenIdle
  <1> QED BY <1>4, <1>5, <1>6 DEF LoopInv

LEMMA LoopStepKeeps ==
  ASSUME LoopInv, TimersKeptUnlessTorn, [LoopNext]_loopVars
  PROVE  LoopInv'
  <1>1. ASSUME NEW t \in Tasks, TaskStep(t) \/ Meddle(t) \/ Complete(t) PROVE LoopInv'
    BY <1>1, TaskKeeps, MeddleKeeps, CompleteKeeps
  <1>2. CASE RunTimer \/ Return \/ Wait \/ Collect \/ ResumeNext
    BY <1>2, RunTimerKeeps, ReturnKeeps, WaitKeeps, CollectKeeps, ResumeKeeps
  <1>3. CASE Nothing
    <2>1. /\ loop = "wait" /\ stack = <<>> /\ loop' = "timers" /\ nap' = 0
          /\ UNCHANGED <<calls, stack, what, left, pending, flight, cq, batch, torn>>
      BY <1>3 DEF Nothing, At, ioVars
    <2>2. LoopTypeOK' /\ Awaited'
      BY <2>1, LoopAssumption DEF LoopInv, LoopTypeOK, Awaited
    <2>3. Resting' /\ WakesInTime' /\ ReturnsWhenIdle'
      BY <2>1 DEF LoopInv, Resting, WakesInTime, ReturnsWhenIdle
    <2> QED BY <2>2, <2>3 DEF LoopInv
  <1>4. CASE Tick
    BY <1>4, TickKeeps
  <1>5. CASE UNCHANGED loopVars
    <2>1. LoopTypeOK' /\ Awaited'
      BY <1>5 DEF loopVars, LoopInv, LoopTypeOK, Awaited
    <2>2. Resting' /\ WakesInTime' /\ ReturnsWhenIdle'
      BY <1>5 DEF loopVars, LoopInv, Resting, WakesInTime, ReturnsWhenIdle, Sleeping
    <2> QED BY <2>1, <2>2 DEF LoopInv
  <1> QED BY <1>1, <1>2, <1>3, <1>4, <1>5 DEF LoopNext, LoopStep, TimedOut

(* As long as the tree of the timers is in order, every coroutine is where *)
(* the loop looks for it, and every operation that was started is counted. *)
THEOREM LoopInvariant == LoopSpec /\ []TimersKeptUnlessTorn => []LoopInv
  <1>1. LoopInv /\ TimersKeptUnlessTorn /\ [LoopNext]_loopVars => LoopInv'
    BY LoopStepKeeps
  <1> QED BY <1>1, LoopBegins, PTL DEF LoopSpec

(* Then run() returns only when no coroutine sleeps or waits for an        *)
(* operation ...                                                           *)
THEOREM ReturnIsRight == LoopSpec /\ []TimersKeptUnlessTorn => []ReturnsWhenIdle
  <1>1. LoopInv => ReturnsWhenIdle
    BY DEF LoopInv
  <1> QED BY <1>1, LoopInvariant, PTL

(* ... and the thread never waits past the end of a sleep, whatever is     *)
(* inserted, cancelled and completed, for any mMaxSleep.                   *)
THEOREM NoOversleep == LoopSpec /\ []TimersKeptUnlessTorn => []WakesInTime
  <1>1. LoopInv => WakesInTime
    BY DEF LoopInv
  <1> QED BY <1>1, LoopInvariant, PTL
=============================================================================
