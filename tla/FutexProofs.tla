----------------------------- MODULE FutexProofs -----------------------------
(***************************************************************************)
(* Lemmas about the operators of Futex, for whatever is built on it: each  *)
(* keeps the types, for any set of words.                                  *)
(***************************************************************************)
EXTENDS Futex, SequenceTheorems, FiniteSetTheorems, TLAPS

(* The queue of a ring, after Prepare, holds one more SQE at its end.      *)
LEMMA PrepareType ==
  ASSUME NEW Words, FutexTypeOK(Words), NEW c \in Contexts, NEW s \in Sqes, Prepare(c, s)
  PROVE  /\ sq' \in [Contexts -> Seq(Sqes)]
         /\ \A d \in Contexts : Len(sq'[d]) <= SqEntries
  <1>1. sq' \in [Contexts -> Seq(Sqes)]
    BY DEF Prepare, FutexTypeOK
  <1>2. \A d \in Contexts : Len(sq'[d]) <= SqEntries
    BY FutexAssumption DEF Prepare, FutexTypeOK, HasRoom
  <1> QED BY <1>1, <1>2

(* Every SQE the code prepares is one.                                     *)
LEMMA SqeTypes ==
  /\ \A t \in Tasks : WaitSqe(t) \in Sqes /\ CancelSqe(t) \in Sqes
  /\ \A all \in BOOLEAN, mask \in SUBSET Bits : WakeSqe(all, mask) \in Sqes
  BY DEF WaitSqe, CancelSqe, WakeSqe, Sqes

(* Waking any of the sets a wake may choose keeps the operation states.    *)
LEMMA WokenType ==
  ASSUME NEW W \in SUBSET Tasks, op \in [Tasks -> OpStates]
  PROVE  [u \in Tasks |-> IF u \in W THEN "ok" ELSE op[u]] \in [Tasks -> OpStates]
  BY DEF OpStates

(* Whoever one wake chooses is one of the tasks.                           *)
LEMMA WakeSetsType ==
  ASSUME NEW all, NEW mask
  PROVE  \A W \in WakeSets(all, mask) : W \in SUBSET Tasks
  BY DEF WakeSets, Sleepers

(* The kernel keeps the operation states.                                  *)
LEMMA KernelType ==
  ASSUME op \in [Tasks -> OpStates], NEW s \in Sqes, KernelStep(s)
  PROVE  op' \in [Tasks -> OpStates]
  <1>1. CASE s.kind = "wait"
    BY <1>1 DEF KernelStep, Sqes, OpStates
  <1>2. CASE s.kind = "cancel"
    BY <1>2 DEF KernelStep, Sqes, OpStates
  <1>3. CASE s.kind = "wake"
    <2>1. PICK W \in WakeSets(s.all, s.mask) :
            op' = [u \in Tasks |-> IF u \in W THEN "ok" ELSE op[u]]
      BY <1>3 DEF KernelStep
    <2> QED BY <2>1, WakeSetsType, WokenType
  <1> QED BY <1>1, <1>2, <1>3 DEF Sqes

(* A fresh futex has its types.                                            *)
LEMMA FutexInitType ==
  ASSUME NEW Words, NEW initial \in Words, FutexInit(initial)
  PROVE  FutexTypeOK(Words)
  <1> USE DEF FutexInit
  <1>1. sq \in [Contexts -> Seq(Sqes)] /\ \A c \in Contexts : Len(sq[c]) <= SqEntries
    BY FutexAssumption
  <1>2. op \in [Tasks -> OpStates]
    BY DEF OpStates
  <1>3. want \in [Tasks -> [val : Words, mask : SUBSET Bits]]
    BY DEF MatchAny
  <1> QED BY <1>1, <1>2, <1>3 DEF FutexTypeOK

(* The preparation of a wait keeps the types, ...                          *)
LEMMA FutexWaitType ==
  ASSUME NEW Words, FutexTypeOK(Words), NEW t \in Tasks, NEW val \in Words,
         NEW mask \in SUBSET Bits, FutexWait(t, val, mask)
  PROVE  FutexTypeOK(Words)'
  <1>1. Home[t] \in Contexts /\ WaitSqe(t) \in Sqes
    BY FutexAssumption, SqeTypes
  <1>2. /\ sq' \in [Contexts -> Seq(Sqes)]
        /\ \A d \in Contexts : Len(sq'[d]) <= SqEntries
    BY <1>1, PrepareType DEF FutexWait
  <1>3. /\ op' \in [Tasks -> OpStates]
        /\ want' \in [Tasks -> [val : Words, mask : SUBSET Bits]]
        /\ UNCHANGED <<word, canceled>>
    BY DEF FutexWait, OpStates, FutexTypeOK
  <1> QED BY <1>2, <1>3 DEF FutexTypeOK

(* ... so does a wake, in both builds, ...                                 *)
LEMMA FutexNotifyType ==
  ASSUME NEW Words, FutexTypeOK(Words), NEW t \in Tasks, NEW all \in BOOLEAN,
         NEW mask \in SUBSET Bits, FutexNotify(t, all, mask)
  PROVE  FutexTypeOK(Words)'
  <1>1. UNCHANGED <<word, want, canceled>>
    BY DEF FutexNotify
  <1>2. CASE SyncWake
    <2>1. /\ sq' = sq
          /\ \E W \in WakeSets(all, mask) :
               op' = [u \in Tasks |-> IF u \in W THEN "ok" ELSE op[u]]
      BY <1>2 DEF FutexNotify
    <2>2. op' \in [Tasks -> OpStates]
      BY <2>1, WakeSetsType, WokenType DEF FutexTypeOK
    <2> QED BY <1>1, <2>1, <2>2 DEF FutexTypeOK
  <1>3. CASE ~SyncWake
    <2>1. Prepare(Home[t], WakeSqe(all, mask)) /\ op' = op
      BY <1>3 DEF FutexNotify
    <2>2. Home[t] \in Contexts /\ WakeSqe(all, mask) \in Sqes
      BY FutexAssumption, SqeTypes
    <2>3. /\ sq' \in [Contexts -> Seq(Sqes)]
          /\ \A d \in Contexts : Len(sq'[d]) <= SqEntries
      BY <2>1, <2>2, PrepareType
    <2> QED BY <1>1, <2>1, <2>3 DEF FutexTypeOK
  <1> QED BY <1>2, <1>3

(* ... a cancellation, ...                                                 *)
LEMMA FutexCancelType ==
  ASSUME NEW Words, FutexTypeOK(Words), NEW t \in Tasks, FutexCancel(t)
  PROVE  FutexTypeOK(Words)'
  <1>1. Home[t] \in Contexts /\ CancelSqe(t) \in Sqes
    BY FutexAssumption, SqeTypes
  <1>2. /\ sq' \in [Contexts -> Seq(Sqes)]
        /\ \A d \in Contexts : Len(sq'[d]) <= SqEntries
    BY <1>1, PrepareType DEF FutexCancel
  <1>3. canceled' \in [Tasks -> BOOLEAN] /\ UNCHANGED <<word, op, want>>
    BY DEF FutexCancel, FutexTypeOK
  <1> QED BY <1>2, <1>3 DEF FutexTypeOK

(* ... the kernel's treatment of an entry ...                              *)
LEMMA FutexSubmitType ==
  ASSUME NEW Words, FutexTypeOK(Words), NEW c \in Contexts, FutexSubmit(c)
  PROVE  FutexTypeOK(Words)'
  <1> USE DEF FutexTypeOK
  <1>1. /\ sq[c] # <<>> /\ KernelStep(Head(sq[c]))
        /\ sq' = [sq EXCEPT ![c] = Tail(@)]
        /\ UNCHANGED <<word, want, canceled>>
    BY DEF FutexSubmit
  <1>2. /\ Head(sq[c]) \in Sqes /\ Tail(sq[c]) \in Seq(Sqes)
        /\ Len(Tail(sq[c])) <= SqEntries
    BY <1>1, FutexAssumption
  <1>3. op' \in [Tasks -> OpStates]
    BY <1>1, <1>2, KernelType
  <1> QED BY <1>1, <1>2, <1>3

(* ... and the completion.                                                 *)
LEMMA FutexResumeType ==
  ASSUME NEW Words, FutexTypeOK(Words), NEW t \in Tasks, NEW unused \in Words,
         FutexResume(t, unused)
  PROVE  FutexTypeOK(Words)'
  <1>1. op' \in [Tasks -> OpStates] /\ UNCHANGED <<word, sq, canceled>>
    BY DEF FutexResume, OpStates, FutexTypeOK
  <1>2. want' \in [Tasks -> [val : Words, mask : SUBSET Bits]]
    BY DEF FutexResume, MatchAny, FutexTypeOK
  <1> QED BY <1>1, <1>2 DEF FutexTypeOK

-----------------------------------------------------------------------------
(* An SQE that is on some ring and that the kernel has not seen.           *)
Queued(s) == \E c \in Contexts : \E i \in 1..Len(sq[c]) : sq[c][i] = s

(* What a ring holds after Prepare: the old SQEs where they were, and the  *)
(* new one at the end of ring c.                                           *)
LEMMA PrepareElems ==
  ASSUME sq \in [Contexts -> Seq(Sqes)], NEW c \in Contexts, NEW s \in Sqes, Prepare(c, s)
  PROVE  /\ \A d \in Contexts : \A i \in 1..Len(sq'[d]) :
              \/ i \in 1..Len(sq[d]) /\ sq'[d][i] = sq[d][i]
              \/ d = c /\ i = Len(sq[c]) + 1 /\ sq'[d][i] = s
         /\ \A d \in Contexts : \A i \in 1..Len(sq[d]) :
              i \in 1..Len(sq'[d]) /\ sq'[d][i] = sq[d][i]
         /\ sq'[c][Len(sq[c]) + 1] = s /\ Len(sq'[c]) = Len(sq[c]) + 1
  BY DEF Prepare

(* What a ring holds after its first SQE is gone.                          *)
LEMMA SubmitElems ==
  ASSUME sq \in [Contexts -> Seq(Sqes)], NEW c \in Contexts, sq[c] # <<>>,
         sq' = [sq EXCEPT ![c] = Tail(@)]
  PROVE  /\ Head(sq[c]) = sq[c][1] /\ Len(sq[c]) >= 1 /\ sq[c][1] \in Sqes
         /\ \A i \in 1..Len(sq'[c]) : i + 1 \in 1..Len(sq[c]) /\ sq'[c][i] = sq[c][i + 1]
         /\ \A i \in 2..Len(sq[c]) : i - 1 \in 1..Len(sq'[c]) /\ sq'[c][i - 1] = sq[c][i]
         /\ \A d \in Contexts \ {c} : sq'[d] = sq[d]
  OBVIOUS

(* The same, of the SQEs that are queued.                                  *)
LEMMA PrepareQueued ==
  ASSUME sq \in [Contexts -> Seq(Sqes)], NEW c \in Contexts, NEW s \in Sqes, Prepare(c, s)
  PROVE  \A r : Queued(r)' <=> Queued(r) \/ r = s
  <1>1. ASSUME NEW r, Queued(r)' PROVE Queued(r) \/ r = s
    <2>1. PICK d \in Contexts : \E i \in 1..Len(sq'[d]) : sq'[d][i] = r
      BY <1>1 DEF Queued
    <2>2. PICK i \in 1..Len(sq'[d]) : sq'[d][i] = r
      BY <2>1
    <2>3. (i \in 1..Len(sq[d]) /\ sq[d][i] = r) \/ r = s
      BY <2>2, PrepareElems
    <2> QED BY <2>3 DEF Queued
  <1>2. ASSUME NEW r, Queued(r) PROVE Queued(r)'
    BY <1>2, PrepareElems DEF Queued
  <1>3. Queued(s)'
    <2>1. Len(sq[c]) \in Nat
      OBVIOUS
    <2>2. sq'[c][Len(sq[c]) + 1] = s /\ Len(sq[c]) + 1 \in 1..Len(sq'[c])
      BY <2>1, PrepareElems
    <2> QED BY <2>2 DEF Queued
  <1> QED BY <1>1, <1>2, <1>3

LEMMA SubmitQueued ==
  ASSUME sq \in [Contexts -> Seq(Sqes)], NEW c \in Contexts, FutexSubmit(c)
  PROVE  /\ Head(sq[c]) \in Sqes /\ Queued(Head(sq[c]))
         /\ \A r : Queued(r)' => Queued(r)
         /\ \A r : Queued(r) => Queued(r)' \/ r = Head(sq[c])
  <1>1. sq[c] # <<>> /\ sq' = [sq EXCEPT ![c] = Tail(@)]
    BY DEF FutexSubmit
  <1>2. /\ Head(sq[c]) = sq[c][1] /\ Len(sq[c]) >= 1 /\ sq[c][1] \in Sqes
        /\ \A i \in 1..Len(sq'[c]) : i + 1 \in 1..Len(sq[c]) /\ sq'[c][i] = sq[c][i + 1]
        /\ \A i \in 2..Len(sq[c]) : i - 1 \in 1..Len(sq'[c]) /\ sq'[c][i - 1] = sq[c][i]
        /\ \A d \in Contexts \ {c} : sq'[d] = sq[d]
    BY <1>1, SubmitElems
  <1>3. Queued(Head(sq[c]))
    <2>1. 1 \in 1..Len(sq[c])
      BY <1>2
    <2> QED BY <1>2, <2>1 DEF Queued
  <1>4. ASSUME NEW r, Queued(r)' PROVE Queued(r)
    <2>1. PICK d \in Contexts : \E i \in 1..Len(sq'[d]) : sq'[d][i] = r
      BY <1>4 DEF Queued
    <2>2. CASE d = c
      <3>1. PICK i \in 1..Len(sq'[c]) : sq'[c][i] = r
        BY <2>1, <2>2
      <3> QED BY <1>2, <3>1 DEF Queued
    <2>3. CASE d # c
      BY <1>2, <2>1, <2>3 DEF Queued
    <2> QED BY <2>2, <2>3
  <1>5. ASSUME NEW r, Queued(r), r # Head(sq[c]) PROVE Queued(r)'
    <2>1. PICK d \in Contexts : \E i \in 1..Len(sq[d]) : sq[d][i] = r
      BY <1>5 DEF Queued
    <2>2. CASE d = c
      <3>1. PICK i \in 1..Len(sq[c]) : sq[c][i] = r
        BY <2>1, <2>2
      <3>2. i \in 2..Len(sq[c])
        BY <1>2, <1>5, <3>1
      <3> QED BY <1>2, <3>1, <3>2 DEF Queued
    <2>3. CASE d # c
      BY <1>2, <2>1, <2>3 DEF Queued
    <2> QED BY <2>2, <2>3
  <1> QED BY <1>2, <1>3, <1>4, <1>5

(* A wait SQE is determined by its task.                                   *)
LEMMA WaitSqeUnique ==
  ASSUME NEW r \in Sqes, r.kind = "wait"
  PROVE  r.task \in Tasks /\ r = WaitSqe(r.task)
  BY DEF Sqes, WaitSqe

(* What a wake does to the operations: it completes sleepers it matches,   *)
(* one of them at least if there is one, and all of them if it is for all. *)
LEMMA WokenEffect ==
  ASSUME op \in [Tasks -> OpStates], NEW all, NEW mask, NEW W \in WakeSets(all, mask),
         op' = [u \in Tasks |-> IF u \in W THEN "ok" ELSE op[u]]
  PROVE  /\ \A u \in Tasks : op'[u] # op[u] =>
              op[u] = "asleep" /\ op'[u] = "ok" /\ want[u].mask \cap mask # {}
         /\ Sleepers(mask) # {} => \E u \in Sleepers(mask) : op'[u] = "ok"
         /\ all => \A u \in Sleepers(mask) : op'[u] = "ok"
         /\ op' \in [Tasks -> OpStates]
  <1>1. W \subseteq Sleepers(mask)
    BY DEF WakeSets
  <1>2. Sleepers(mask) \subseteq Tasks
        /\ \A u \in Sleepers(mask) : op[u] = "asleep" /\ want[u].mask \cap mask # {}
    BY DEF Sleepers
  <1>3. Sleepers(mask) # {} => \E u \in Sleepers(mask) : u \in W
    BY DEF WakeSets
  <1>4. all => W = Sleepers(mask)
    BY DEF WakeSets
  <1> QED BY <1>1, <1>2, <1>3, <1>4 DEF OpStates

(* What futex_notify does in the two builds: it completes sleepers, or     *)
(* queues its wake.                                                        *)
LEMMA NotifyEffect ==
  ASSUME NEW W, FutexTypeOK(W), NEW t \in Tasks, NEW all \in BOOLEAN,
         NEW mask \in SUBSET Bits, FutexNotify(t, all, mask)
  PROVE  /\ \A u \in Tasks : op'[u] # op[u] => op[u] = "asleep" /\ op'[u] = "ok"
         /\ \A s : Queued(s)' => Queued(s) \/ s = WakeSqe(all, mask)
         /\ \A s : Queued(s) => Queued(s)'
         /\ SyncWake /\ all => \A u \in Sleepers(mask) : op'[u] = "ok"
         /\ SyncWake /\ Sleepers(mask) # {} => \E u \in Sleepers(mask) : op'[u] = "ok"
         /\ ~SyncWake => Queued(WakeSqe(all, mask))'
  <1>1. /\ Home[t] \in Contexts /\ WakeSqe(all, mask) \in Sqes
        /\ sq \in [Contexts -> Seq(Sqes)] /\ op \in [Tasks -> OpStates]
    BY FutexAssumption, SqeTypes DEF FutexTypeOK
  <1>2. CASE SyncWake
    <2>1. sq' = sq
      BY <1>2 DEF FutexNotify
    <2>2. PICK S \in WakeSets(all, mask) :
            op' = [u \in Tasks |-> IF u \in S THEN "ok" ELSE op[u]]
      BY <1>2 DEF FutexNotify
    <2>3. /\ \A u \in Tasks : op'[u] # op[u] => op[u] = "asleep" /\ op'[u] = "ok"
          /\ all => \A u \in Sleepers(mask) : op'[u] = "ok"
          /\ Sleepers(mask) # {} => \E u \in Sleepers(mask) : op'[u] = "ok"
      <3>1. /\ S \subseteq Sleepers(mask) /\ (all => S = Sleepers(mask))
            /\ Sleepers(mask) # {} => S # {}
        BY <2>2 DEF WakeSets
      <3>2. \A u \in Sleepers(mask) : u \in Tasks /\ op[u] = "asleep"
        BY DEF Sleepers
      <3> QED BY <2>2, <3>1, <3>2
    <2>4. \A s : Queued(s)' <=> Queued(s)
      BY <2>1 DEF Queued
    <2> QED BY <1>2, <2>3, <2>4
  <1>3. CASE ~SyncWake
    <2>1. Prepare(Home[t], WakeSqe(all, mask)) /\ op' = op
      BY <1>3 DEF FutexNotify
    <2>2. \A s : Queued(s)' <=> Queued(s) \/ s = WakeSqe(all, mask)
      BY <1>1, <2>1, PrepareQueued
    <2> QED BY <1>3, <2>1, <2>2
  <1> QED BY <1>2, <1>3

-----------------------------------------------------------------------------
(* WaitsOwned: steps that leave the rings and the queued operations alone, *)
LEMMA OwnedKept ==
  ASSUME sq \in [Contexts -> Seq(Sqes)], WaitsOwned,
         sq' = sq, \A u \in Tasks : op[u] = "queued" => op'[u] = "queued"
  PROVE  WaitsOwned'
  <1>1. ASSUME NEW d \in Contexts, NEW i \in 1..Len(sq[d]), sq[d][i].kind = "wait"
        PROVE  sq[d][i].task \in Tasks
    BY <1>1, WaitSqeUnique
  <1> QED BY <1>1 DEF WaitsOwned

(* ... and steps that prepare an SQE which is not a wait keep that, ...    *)
LEMMA OwnedPrepare ==
  ASSUME sq \in [Contexts -> Seq(Sqes)], WaitsOwned, op' = op,
         NEW c \in Contexts, NEW s \in Sqes, Prepare(c, s), s.kind # "wait"
  PROVE  WaitsOwned'
  <1> DEFINE Owns(d, i) == sq[d][i].kind = "wait" =>
                             /\ op[sq[d][i].task] = "queued"
                             /\ Home[sq[d][i].task] = d
                             /\ \A j \in 1..Len(sq[d]) : sq[d][j] = sq[d][i] => i = j
  <1>1. ASSUME NEW d \in Contexts, NEW i \in 1..Len(sq'[d]), sq'[d][i].kind = "wait"
        PROVE  Owns(d, i)'
    <2>1. i \in 1..Len(sq[d]) /\ sq'[d][i] = sq[d][i]
      BY <1>1, PrepareElems
    <2>2. Owns(d, i)
      BY <2>1 DEF WaitsOwned
    <2>3. \A j \in 1..Len(sq'[d]) : sq'[d][j] = sq'[d][i] =>
             j \in 1..Len(sq[d]) /\ sq'[d][j] = sq[d][j]
      BY <1>1, PrepareElems
    <2> QED BY <1>1, <2>1, <2>2, <2>3
  <1> QED BY <1>1 DEF WaitsOwned

(* ... so does a new wait of a task that has none in flight, ...           *)
LEMMA FutexWaitOwned ==
  ASSUME NEW Words, FutexTypeOK(Words), WaitsOwned, NEW t \in Tasks, NEW val, NEW mask,
         FutexWait(t, val, mask)
  PROVE  WaitsOwned'
  <1> DEFINE Owns(d, i) == sq[d][i].kind = "wait" =>
                             /\ op[sq[d][i].task] = "queued"
                             /\ Home[sq[d][i].task] = d
                             /\ \A j \in 1..Len(sq[d]) : sq[d][j] = sq[d][i] => i = j
  <1>1. Home[t] \in Contexts /\ WaitSqe(t) \in Sqes /\ sq \in [Contexts -> Seq(Sqes)]
        /\ op \in [Tasks -> OpStates]
    BY FutexAssumption, SqeTypes DEF FutexTypeOK
  <1>2. Prepare(Home[t], WaitSqe(t)) /\ op[t] = "none" /\ op' = [op EXCEPT ![t] = "queued"]
    BY DEF FutexWait
  <1>3. ASSUME NEW d \in Contexts, NEW i \in 1..Len(sq[d]), sq[d][i].kind = "wait"
        PROVE  sq[d][i].task \in Tasks \ {t} /\ sq[d][i] # WaitSqe(t)
    BY <1>1, <1>2, <1>3, WaitSqeUnique DEF WaitsOwned, WaitSqe
  <1>4. ASSUME NEW d \in Contexts, NEW i \in 1..Len(sq'[d]), sq'[d][i].kind = "wait"
        PROVE  Owns(d, i)'
    <2>1. CASE i \in 1..Len(sq[d]) /\ sq'[d][i] = sq[d][i]
      <3>1. Owns(d, i) /\ sq[d][i] # WaitSqe(t) /\ sq[d][i].task \in Tasks \ {t}
        BY <1>3, <1>4, <2>1 DEF WaitsOwned
      <3>2. \A j \in 1..Len(sq'[d]) : sq'[d][j] = sq'[d][i] =>
               j \in 1..Len(sq[d]) /\ sq'[d][j] = sq[d][j]
        BY <1>1, <1>2, <2>1, <3>1, PrepareElems
      <3> QED BY <1>1, <1>2, <1>4, <2>1, <3>1, <3>2
    <2>2. CASE d = Home[t] /\ i = Len(sq[d]) + 1 /\ sq'[d][i] = WaitSqe(t)
      <3>1. ASSUME NEW j \in 1..Len(sq'[d]), sq'[d][j] = sq'[d][i]
            PROVE  i = j
        <4>1. CASE j \in 1..Len(sq[d]) /\ sq'[d][j] = sq[d][j]
          BY <1>3, <2>2, <3>1, <4>1 DEF WaitSqe
        <4> QED BY <1>1, <1>2, <2>2, <4>1, PrepareElems
      <3>2. WaitSqe(t).task = t /\ op'[t] = "queued" /\ Home[t] = d
        BY <1>1, <1>2, <2>2 DEF WaitSqe
      <3> QED BY <2>2, <3>1, <3>2
    <2>3. \/ i \in 1..Len(sq[d]) /\ sq'[d][i] = sq[d][i]
          \/ d = Home[t] /\ i = Len(sq[Home[t]]) + 1 /\ sq'[d][i] = WaitSqe(t)
      BY <1>1, <1>2, PrepareElems
    <2> QED BY <2>1, <2>2, <2>3
  <1> QED BY <1>4 DEF WaitsOwned

(* ... a wake, in both builds, a cancellation and a completion.            *)
LEMMA FutexNotifyOwned ==
  ASSUME NEW Words, FutexTypeOK(Words), WaitsOwned, NEW t \in Tasks, NEW all \in BOOLEAN,
         NEW mask \in SUBSET Bits, FutexNotify(t, all, mask)
  PROVE  WaitsOwned'
  <1>1. /\ Home[t] \in Contexts /\ WakeSqe(all, mask) \in Sqes
        /\ WakeSqe(all, mask).kind # "wait"
        /\ sq \in [Contexts -> Seq(Sqes)] /\ op \in [Tasks -> OpStates]
    BY FutexAssumption, SqeTypes DEF FutexTypeOK, WakeSqe
  <1>2. CASE SyncWake
    <2>1. PICK W \in WakeSets(all, mask) :
            op' = [u \in Tasks |-> IF u \in W THEN "ok" ELSE op[u]]
      BY <1>2 DEF FutexNotify
    <2>2. \A u \in Tasks : op[u] = "queued" => op'[u] = "queued"
      BY <1>1, <2>1, WokenEffect
    <2>3. sq' = sq
      BY <1>2 DEF FutexNotify
    <2> QED BY <1>1, <2>2, <2>3, OwnedKept
  <1>3. CASE ~SyncWake
    <2>1. Prepare(Home[t], WakeSqe(all, mask)) /\ op' = op
      BY <1>3 DEF FutexNotify
    <2> QED BY <1>1, <2>1, OwnedPrepare
  <1> QED BY <1>2, <1>3

LEMMA FutexCancelOwned ==
  ASSUME NEW Words, FutexTypeOK(Words), WaitsOwned, NEW t \in Tasks, FutexCancel(t)
  PROVE  WaitsOwned'
  <1>1. /\ Home[t] \in Contexts /\ CancelSqe(t) \in Sqes /\ CancelSqe(t).kind # "wait"
        /\ sq \in [Contexts -> Seq(Sqes)]
    BY FutexAssumption, SqeTypes DEF FutexTypeOK, CancelSqe
  <1>2. Prepare(Home[t], CancelSqe(t)) /\ op' = op
    BY DEF FutexCancel
  <1> QED BY <1>1, <1>2, OwnedPrepare

LEMMA FutexResumeOwned ==
  ASSUME NEW Words, FutexTypeOK(Words), WaitsOwned, NEW t \in Tasks, NEW unused,
         FutexResume(t, unused)
  PROVE  WaitsOwned'
  <1>1. sq' = sq /\ \A u \in Tasks : op[u] = "queued" => op'[u] = "queued"
    BY DEF FutexResume, FutexTypeOK
  <1> QED BY <1>1, OwnedKept DEF FutexTypeOK

(* What one SQE does to an operation: a wait falls asleep or finds the     *)
(* word changed, a sleeper is cancelled, or a wake that matches it         *)
(* completes it.  A wake completes what it should.                         *)
LEMMA KernelEffect ==
  ASSUME NEW Words, FutexTypeOK(Words), WaitsOwned, NEW c \in Contexts, FutexSubmit(c)
  PROVE  /\ \A u \in Tasks : op'[u] # op[u] =>
              \/ /\ Head(sq[c]) = WaitSqe(u) /\ op[u] = "queued"
                 /\ op'[u] = IF word = want[u].val THEN "asleep" ELSE "ok"
              \/ op[u] = "asleep" /\ op'[u] = "canceled" /\ Head(sq[c]) = CancelSqe(u)
              \/ /\ op[u] = "asleep" /\ op'[u] = "ok" /\ Head(sq[c]).kind = "wake"
                 /\ want[u].mask \cap Head(sq[c]).mask # {}
         /\ \A u \in Tasks : Head(sq[c]) = WaitSqe(u) =>
              op'[u] = IF word = want[u].val THEN "asleep" ELSE "ok"
         /\ Head(sq[c]).kind = "wake" =>
              /\ Sleepers(Head(sq[c]).mask) # {} =>
                   \E u \in Sleepers(Head(sq[c]).mask) : op'[u] = "ok"
              /\ Head(sq[c]).all => \A u \in Sleepers(Head(sq[c]).mask) : op'[u] = "ok"
         /\ op' \in [Tasks -> OpStates]
  <1> DEFINE s == Head(sq[c])
  <1>1. /\ sq[c] # <<>> /\ KernelStep(s)
        /\ sq \in [Contexts -> Seq(Sqes)] /\ op \in [Tasks -> OpStates]
        /\ sq' = [sq EXCEPT ![c] = Tail(@)]
    BY DEF FutexSubmit, FutexTypeOK
  <1>2. s = sq[c][1] /\ s \in Sqes /\ 1 \in 1..Len(sq[c])
    BY <1>1, SubmitElems
  <1> HIDE DEF s
  <1>3. CASE s.kind = "wait"
    <2>1. s.task \in Tasks /\ s = WaitSqe(s.task) /\ op[s.task] = "queued"
      BY <1>2, <1>3, WaitSqeUnique DEF WaitsOwned
    <2>2. op' = [op EXCEPT ![s.task] = IF word = want[s.task].val THEN "asleep" ELSE "ok"]
      BY <1>1, <1>3 DEF KernelStep
    <2>3. \A u \in Tasks : s = WaitSqe(u) => u = s.task
      BY DEF WaitSqe
    <2> QED BY <1>1, <1>3, <2>1, <2>2, <2>3 DEF OpStates, s
  <1>4. CASE s.kind = "cancel"
    <2>1. s.task \in Tasks /\ s = CancelSqe(s.task)
      BY <1>2, <1>4 DEF Sqes, CancelSqe
    <2>2. op' = [op EXCEPT ![s.task] = IF @ = "asleep" THEN "canceled" ELSE @]
      BY <1>1, <1>4 DEF KernelStep
    <2>3. \A u \in Tasks : s # WaitSqe(u)
      BY <1>4 DEF WaitSqe
    <2> QED BY <1>1, <1>4, <2>1, <2>2, <2>3 DEF OpStates, s
  <1>5. CASE s.kind = "wake"
    <2>1. PICK W \in WakeSets(s.all, s.mask) :
            op' = [u \in Tasks |-> IF u \in W THEN "ok" ELSE op[u]]
      BY <1>1, <1>5 DEF KernelStep
    <2>2. \A u \in Tasks : s # WaitSqe(u)
      BY <1>5 DEF WaitSqe
    <2>3. /\ \A u \in Tasks : op'[u] # op[u] =>
               op[u] = "asleep" /\ op'[u] = "ok" /\ want[u].mask \cap s.mask # {}
          /\ Sleepers(s.mask) # {} => \E u \in Sleepers(s.mask) : op'[u] = "ok"
          /\ s.all => \A u \in Sleepers(s.mask) : op'[u] = "ok"
          /\ op' \in [Tasks -> OpStates]
      BY <1>1, <2>1, WokenEffect
    <2> QED BY <1>5, <2>2, <2>3 DEF s
  <1> QED BY <1>2, <1>3, <1>4, <1>5 DEF Sqes

(* The kernel takes the SQE of a wait it has begun off the ring, and       *)
(* begins no other.                                                        *)
LEMMA FutexSubmitOwned ==
  ASSUME NEW Words, FutexTypeOK(Words), WaitsOwned, NEW c \in Contexts, FutexSubmit(c)
  PROVE  WaitsOwned'
  <1> DEFINE s == sq[c][1]
             Owns(d, i) == sq[d][i].kind = "wait" =>
                             /\ op[sq[d][i].task] = "queued"
                             /\ Home[sq[d][i].task] = d
                             /\ \A j \in 1..Len(sq[d]) : sq[d][j] = sq[d][i] => i = j
  <1>1. /\ sq[c] # <<>> /\ sq' = [sq EXCEPT ![c] = Tail(@)]
        /\ sq \in [Contexts -> Seq(Sqes)]
    BY DEF FutexSubmit, FutexTypeOK
  <1>2. /\ Head(sq[c]) = s /\ Len(sq[c]) >= 1 /\ s \in Sqes
        /\ \A i \in 1..Len(sq'[c]) : i + 1 \in 1..Len(sq[c]) /\ sq'[c][i] = sq[c][i + 1]
        /\ \A d \in Contexts \ {c} : sq'[d] = sq[d]
    BY <1>1, SubmitElems
  <1>3. \A u \in Tasks : (op[u] = "queued" /\ op'[u] # "queued") => s = WaitSqe(u)
    BY <1>2, KernelEffect
  <1>4. ASSUME NEW d \in Contexts, NEW i \in 1..Len(sq'[d]), sq'[d][i].kind = "wait"
        PROVE  Owns(d, i)'
    <2>1. CASE d = c
      <3>1. i + 1 \in 1..Len(sq[c]) /\ sq'[c][i] = sq[c][i + 1] /\ i + 1 # 1
        BY <1>2, <1>4, <2>1
      <3>2. Owns(c, i + 1)
        BY <3>1 DEF WaitsOwned
      <3>3. sq[c][i + 1] # s /\ 1 \in 1..Len(sq[c])
        BY <1>2, <1>4, <2>1, <3>1, <3>2
      <3>4. sq[c][i + 1] \in Sqes /\ sq[c][i + 1].kind = "wait"
        BY <1>1, <1>4, <2>1, <3>1
      <3>5. sq[c][i + 1].task \in Tasks /\ sq[c][i + 1] = WaitSqe(sq[c][i + 1].task)
        BY <3>4, WaitSqeUnique
      <3>6. op'[sq[c][i + 1].task] = "queued" /\ Home[sq[c][i + 1].task] = c
        BY <1>3, <3>2, <3>3, <3>4, <3>5
      <3>7. ASSUME NEW j \in 1..Len(sq'[c]), sq'[c][j] = sq'[c][i]
            PROVE  i = j
        <4>1. j + 1 \in 1..Len(sq[c]) /\ sq'[c][j] = sq[c][j + 1] /\ j \in Nat /\ i \in Nat
          BY <1>1, <1>2, <2>1
        <4>2. i + 1 = j + 1
          BY <3>1, <3>2, <3>4, <3>7, <4>1
        <4> QED BY <4>1, <4>2
      <3> QED BY <2>1, <3>1, <3>6, <3>7
    <2>2. CASE d # c
      <3>1. sq'[d] = sq[d] /\ Owns(d, i)
        BY <1>2, <1>4, <2>2 DEF WaitsOwned
      <3>2. sq[d][i] \in Sqes /\ sq[d][i].task \in Tasks
        BY <1>1, <1>4, <3>1, WaitSqeUnique
      <3>3. s # sq[d][i]
        <4> SUFFICES ASSUME s = sq[d][i] PROVE FALSE
          OBVIOUS
        <4>1. 1 \in 1..Len(sq[c]) /\ s.kind = "wait"
          BY <1>2, <1>4, <3>1
        <4>2. Home[s.task] = c /\ Home[s.task] = d
          BY <1>4, <3>1, <4>1 DEF WaitsOwned
        <4> QED BY <2>2, <4>2
      <3>4. op'[sq[d][i].task] = "queued"
        <4>1. op[sq[d][i].task] = "queued"
          BY <1>4, <3>1
        <4>2. sq[d][i] = WaitSqe(sq[d][i].task)
          BY <1>4, <3>1, <3>2, WaitSqeUnique
        <4> QED BY <1>3, <3>2, <3>3, <4>1, <4>2
      <3> QED BY <1>4, <3>1, <3>4
    <2> QED BY <2>1, <2>2
  <1> QED BY <1>4 DEF WaitsOwned

-----------------------------------------------------------------------------
(* One value for each of finitely many tasks leaves a word of one more     *)
(* than there are tasks that is none of them.                              *)
LEMMA FreshValue ==
  ASSUME IsFiniteSet(Tasks), NEW f
  PROVE  \E w \in 0..Cardinality(Tasks) : \A u \in Tasks : f[u] # w
  <1> DEFINE n == Cardinality(Tasks)
             g == [w \in 0..n |-> CHOOSE u \in Tasks : f[u] = w]
  <1> SUFFICES ASSUME \A w \in 0..n : \E u \in Tasks : f[u] = w
               PROVE  FALSE
    OBVIOUS
  <1>1. n \in Nat
    BY FS_CardinalityType
  <1>2. \A w \in 0..n : g[w] \in Tasks /\ f[g[w]] = w
    OBVIOUS
  <1>3. g \in Injection(0..n, Tasks)
    <2>1. g \in [0..n -> Tasks]
      BY <1>2
    <2>2. \A v, w \in 0..n : g[v] = g[w] => v = w
      BY <1>2
    <2> HIDE DEF g
    <2> QED BY <2>1, <2>2 DEF Injection, IsInjective
  <1>4. Cardinality(0..n) <= n
    BY <1>3, FS_Injection
  <1>5. Cardinality(0..n) = n + 1
    BY <1>1, FS_Interval
  <1> QED BY <1>1, <1>4, <1>5
=============================================================================
