--------------------------- MODULE CvClientsProofs ---------------------------
(***************************************************************************)
(* ConditionVariable for any number of tasks, threads and ring entries and *)
(* for both builds of futex_notify: who waits has its one operation in     *)
(* flight, for the value and mask its wait() was given, and as long as     *)
(* only notify_all() is used with masks that share a bit, nobody sleeps    *)
(* through a notification.                                                 *)
(***************************************************************************)
EXTENDS CvClients, FutexProofs

(* notify_all only, with masks any two of which overlap.                   *)
Broadcast ==
  /\ Alls \subseteq {TRUE}
  /\ \A m, n \in Masks : m \cap n # {}

(* A task that is not inside a wait() finds a value nobody holds: the      *)
(* increment always has its type.                                          *)
LEMMA IncrementedType ==
  ASSUME NEW t \in Tasks, ~Holding(t)
  PROVE  /\ Incremented \in Words /\ Incremented # word
         /\ \A u \in Tasks : Holding(u) => Incremented # old[u]
  <1> DEFINE f == [u \in Tasks |-> IF Holding(u) THEN old[u] ELSE word]
  <1>1. \E w \in 0..Cardinality(Tasks) : \A u \in Tasks : f[u] # w
    BY TasksFinite, FreshValue
  <1>2. PICK w \in Words : \A u \in Tasks : f[u] # w
    BY <1>1 DEF Words
  <1>3. w # word /\ \A u \in Tasks : Holding(u) => w # old[u]
    BY <1>2
  <1> QED BY <1>3 DEF Incremented

(* The words are a set 0 belongs to.                                       *)
LEMMA ZeroWord == 0 \in Words
  BY TasksFinite, FS_CardinalityType DEF Words

-----------------------------------------------------------------------------
(* At the start nothing is in flight.                                      *)
LEMMA InitInd == Init => IndInv
  <1> SUFFICES ASSUME Init PROVE IndInv
    OBVIOUS
  <1>1. FutexTypeOK(Words)
    BY ZeroWord, FutexInitType DEF Init, CvInit
  <1>2. TypeOK
    BY <1>1, ZeroWord DEF Init, CvInit, TypeOK, CvTypeOK, CvStates, NoCall, MatchAny
  <1>3. \A c \in Contexts : 1..Len(sq[c]) = {}
    BY DEF Init, CvInit, FutexInit
  <1>4. \A t \in Tasks : op[t] = "none" /\ cv[t] = "idle"
    BY DEF Init, CvInit, FutexInit
  <1> QED BY <1>2, <1>3, <1>4 DEF IndInv, WaitsOwned, CallsKept

(* The parts of the invariant that speak of the tasks and of the rings.    *)
TasksKept ==
  \A t \in Tasks :
    /\ (op[t] # "none") <=> (cv[t] = "wait")
    /\ op[t] # "none" => want[t] = [val |-> old[t], mask |-> call[t].mask]
    /\ cv[t] # "idle" => call[t].mask \in Masks
    /\ cv[t] = "bumped" => call[t].all \in Alls

WakesKept == \A s : Queued(s) /\ s.kind = "wake" => s.mask \in Masks /\ s.all \in Alls

LEMMA KeptSplit == CallsKept <=> TasksKept /\ WakesKept
  BY DEF CallsKept, TasksKept, WakesKept, Queued

(* A wake for somebody who waits with mask m is queued or about to be.     *)
ComingFor(m) ==
  \/ \E s : Queued(s) /\ s.kind = "wake" /\ s.mask \cap m # {}
  \/ \E u \in Tasks : cv[u] = "bumped" /\ call[u].mask \cap m # {}

LEMMA ComingSplit ==
  ASSUME NEW t \in Tasks
  PROVE  WakeComing(t) <=> ComingFor(want[t].mask)
  <1>1. WakeComing(t) => ComingFor(want[t].mask)
    BY DEF WakeComing, ComingFor, Queued
  <1>2. ComingFor(want[t].mask) => WakeComing(t)
    BY DEF WakeComing, ComingFor, Queued
  <1> QED BY <1>1, <1>2

-----------------------------------------------------------------------------
(* Every step keeps the invariant.                                         *)
LEMMA NextInd == IndInv /\ [Next]_vars => IndInv'
  <1> SUFFICES ASSUME IndInv, [Next]_vars PROVE IndInv'
    OBVIOUS
  <1>a. /\ FutexTypeOK(Words) /\ WaitsOwned /\ TasksKept /\ WakesKept
        /\ cv \in [Tasks -> CvStates] /\ old \in [Tasks -> Words]
        /\ call \in [Tasks -> [mask : SUBSET Bits, all : BOOLEAN]]
    BY KeptSplit DEF IndInv, TypeOK, CvTypeOK
  <1>b. /\ word \in Words /\ sq \in [Contexts -> Seq(Sqes)] /\ op \in [Tasks -> OpStates]
        /\ want \in [Tasks -> [val : Words, mask : SUBSET Bits]]
        /\ canceled \in [Tasks -> BOOLEAN] /\ 0 \in Words
    BY <1>a, ZeroWord DEF FutexTypeOK
  <1>c. ASSUME FutexTypeOK(Words)', WaitsOwned', TasksKept', WakesKept',
               cv' \in [Tasks -> CvStates], old' \in [Tasks -> Words],
               call' \in [Tasks -> [mask : SUBSET Bits, all : BOOLEAN]]
        PROVE  IndInv'
    <2>1. CallsKept'
      BY <1>c DEF CallsKept, TasksKept, WakesKept, Queued
    <2> QED BY <1>c, <2>1 DEF IndInv, TypeOK, CvTypeOK
  <1>d. ASSUME sq' = sq PROVE WakesKept'
    BY <1>a, <1>d DEF WakesKept, Queued
  <1>e. ASSUME NEW c \in Contexts, NEW s \in Sqes, Prepare(c, s), s.kind # "wake"
        PROVE  WakesKept'
    <2>1. \A r : Queued(r)' <=> Queued(r) \/ r = s
      BY <1>b, <1>e, PrepareQueued
    <2> QED BY <1>a, <1>e, <2>1 DEF WakesKept
  <1>f. \A t \in Tasks, mask \in Masks : [mask |-> mask, all |-> TRUE] \in [mask : SUBSET Bits, all : BOOLEAN]
        /\ NoCall \in [mask : SUBSET Bits, all : BOOLEAN]
    BY CvAssumption DEF NoCall, MatchAny
  <1>1. ASSUME NEW t \in Tasks, NEW mask \in Masks, BeginWait(t, mask) PROVE IndInv'
    <2>1. /\ cv[t] = "idle" /\ cv' = [cv EXCEPT ![t] = "prep"]
          /\ old' = [old EXCEPT ![t] = word] /\ canceled' = [canceled EXCEPT ![t] = FALSE]
          /\ call' = [call EXCEPT ![t] = [mask |-> mask, all |-> TRUE]]
          /\ UNCHANGED <<word, sq, op, want>>
      BY <1>1 DEF BeginWait, FreshToken
    <2>2. FutexTypeOK(Words)'
      BY <1>a, <2>1 DEF FutexTypeOK
    <2>3. WaitsOwned'
      BY <1>a, <1>b, <2>1, OwnedKept
    <2>4. TasksKept'
      BY <1>a, <1>b, <2>1 DEF TasksKept
    <2>5. WakesKept'
      BY <2>1, <1>d
    <2>6. cv' \in [Tasks -> CvStates] /\ old' \in [Tasks -> Words]
          /\ call' \in [Tasks -> [mask : SUBSET Bits, all : BOOLEAN]]
      BY <1>a, <1>b, <1>f, <2>1 DEF CvStates
    <2> QED BY <2>2, <2>3, <2>4, <2>5, <2>6, <1>c
  <1>2. ASSUME NEW t \in Tasks, NEW all \in Alls, NEW mask \in Masks, BeginNotify(t, all, mask)
        PROVE  IndInv'
    <2>1. /\ cv[t] = "idle" /\ word' = Incremented /\ cv' = [cv EXCEPT ![t] = "bumped"]
          /\ UNCHANGED <<sq, op, want, canceled, old>>
          /\ call' = [call EXCEPT ![t] = [mask |-> mask, all |-> all]]
      BY <1>2 DEF BeginNotify, CvBump, CvGoto
    <2>2. word' \in Words
      BY <2>1, IncrementedType DEF Holding
    <2>3. FutexTypeOK(Words)'
      BY <1>a, <2>1, <2>2 DEF FutexTypeOK
    <2>4. WaitsOwned'
      BY <1>a, <1>b, <2>1, OwnedKept
    <2>5. TasksKept'
      BY <1>a, <1>b, <2>1 DEF TasksKept
    <2>6. WakesKept'
      BY <2>1, <1>d
    <2>7. cv' \in [Tasks -> CvStates] /\ old' \in [Tasks -> Words]
          /\ call' \in [Tasks -> [mask : SUBSET Bits, all : BOOLEAN]]
      BY <1>a, <2>1, CvAssumption DEF CvStates
    <2> QED BY <2>3, <2>4, <2>5, <2>6, <2>7, <1>c
  <1>3. ASSUME NEW t \in Tasks, CvSleep(t, call[t].mask), UNCHANGED call PROVE IndInv'
    <2>1. /\ cv[t] = "prep" /\ FutexWait(t, old[t], call[t].mask)
          /\ cv' = [cv EXCEPT ![t] = "wait"] /\ UNCHANGED old
      BY <1>3 DEF CvSleep, CvGoto
    <2>2. old[t] \in Words /\ call[t].mask \in SUBSET Bits
          /\ Home[t] \in Contexts /\ WaitSqe(t) \in Sqes /\ WaitSqe(t).kind # "wake"
      BY <1>a, FutexAssumption, SqeTypes DEF WaitSqe
    <2>3. FutexTypeOK(Words)'
      BY <1>a, <2>1, <2>2, FutexWaitType
    <2>4. WaitsOwned'
      BY <1>a, <2>1, FutexWaitOwned
    <2>5. TasksKept'
      BY <1>a, <1>b, <1>3, <2>1 DEF TasksKept, FutexWait
    <2>6. WakesKept'
      BY <2>1, <2>2, <1>e DEF FutexWait
    <2>7. cv' \in [Tasks -> CvStates]
      BY <1>a, <2>1 DEF CvStates
    <2> QED BY <1>a, <1>3, <2>1, <2>3, <2>4, <2>5, <2>6, <2>7, <1>c
  <1>4. ASSUME NEW t \in Tasks, CvAgain(t), UNCHANGED call PROVE IndInv'
    <2>1. cv[t] = "check" /\ cv' = [cv EXCEPT ![t] = "prep"] /\ UNCHANGED <<futexVars, old>>
      BY <1>4 DEF CvAgain, CvGoto
    <2>2. FutexTypeOK(Words)' /\ sq' = sq /\ op' = op /\ want' = want
      BY <1>a, <2>1 DEF FutexTypeOK, futexVars
    <2>3. TasksKept'
      BY <1>a, <1>4, <2>1, <2>2 DEF TasksKept
    <2>4. cv' \in [Tasks -> CvStates]
      BY <1>a, <2>1 DEF CvStates
    <2> QED BY <1>a, <1>b, <1>4, <2>1, <2>2, <2>3, <2>4, <1>c, <1>d, OwnedKept
  <1>5. ASSUME NEW t \in Tasks, CvReturn(t), call' = [call EXCEPT ![t] = NoCall] PROVE IndInv'
    <2>1. /\ cv[t] = "check" /\ cv' = [cv EXCEPT ![t] = "idle"] /\ UNCHANGED futexVars
          /\ old' = [old EXCEPT ![t] = 0]
      BY <1>5 DEF CvReturn, CvGoto
    <2>2. FutexTypeOK(Words)' /\ sq' = sq /\ op' = op /\ want' = want
      BY <1>a, <2>1 DEF FutexTypeOK, futexVars
    <2>3. TasksKept'
      BY <1>a, <1>5, <2>1, <2>2 DEF TasksKept
    <2>4. cv' \in [Tasks -> CvStates] /\ old' \in [Tasks -> Words]
      BY <1>a, <1>b, <2>1 DEF CvStates
    <2>5. call' \in [Tasks -> [mask : SUBSET Bits, all : BOOLEAN]]
      BY <1>a, <1>5 DEF NoCall, MatchAny
    <2>6. WaitsOwned' /\ WakesKept'
      BY <1>a, <1>b, <2>2, <1>d, OwnedKept
    <2> QED BY <2>2, <2>3, <2>4, <2>5, <2>6, <1>c
  <1>6. ASSUME NEW t \in Tasks, CvResume(t), UNCHANGED call PROVE IndInv'
    <2>1. FutexResume(t, 0) /\ cv[t] = "wait" /\ cv' = [cv EXCEPT ![t] = "check"] /\ old' = old
      BY <1>6 DEF CvResume, CvGoto
    <2>2. FutexTypeOK(Words)' /\ WaitsOwned'
      BY <1>a, <1>b, <2>1, FutexResumeType, FutexResumeOwned
    <2>3. TasksKept' /\ sq' = sq
      BY <1>a, <1>b, <1>6, <2>1 DEF TasksKept, FutexResume
    <2>4. cv' \in [Tasks -> CvStates]
      BY <1>a, <2>1 DEF CvStates
    <2> QED BY <1>a, <1>6, <2>1, <2>2, <2>3, <2>4, <1>c, <1>d
  <1>7. ASSUME NEW t \in Tasks, CvCanceled(t), call' = [call EXCEPT ![t] = NoCall] PROVE IndInv'
    <2>1. /\ FutexResume(t, 0) /\ cv[t] = "wait" /\ cv' = [cv EXCEPT ![t] = "idle"]
          /\ old' = [old EXCEPT ![t] = 0]
      BY <1>7 DEF CvCanceled, CvGoto
    <2>2. FutexTypeOK(Words)' /\ WaitsOwned'
      BY <1>a, <1>b, <2>1, FutexResumeType, FutexResumeOwned
    <2>3. TasksKept' /\ sq' = sq
      BY <1>a, <1>b, <1>7, <2>1 DEF TasksKept, FutexResume
    <2>4. cv' \in [Tasks -> CvStates] /\ old' \in [Tasks -> Words]
      BY <1>a, <1>b, <2>1 DEF CvStates
    <2>5. call' \in [Tasks -> [mask : SUBSET Bits, all : BOOLEAN]]
      BY <1>a, <1>7 DEF NoCall, MatchAny
    <2> QED BY <2>2, <2>3, <2>4, <2>5, <1>c, <1>d
  <1>8. ASSUME NEW t \in Tasks, Notify(t) PROVE IndInv'
    <2>1. /\ cv[t] = "bumped" /\ FutexNotify(t, call[t].all, call[t].mask)
          /\ cv' = [cv EXCEPT ![t] = "idle"] /\ old' = old
          /\ call' = [call EXCEPT ![t] = NoCall]
      BY <1>8 DEF Notify, CvNotify, CvGoto
    <2>2. call[t].all \in BOOLEAN /\ call[t].mask \in SUBSET Bits
          /\ call[t].all \in Alls /\ call[t].mask \in Masks
      BY <1>a, <2>1 DEF TasksKept
    <2>3. FutexTypeOK(Words)' /\ WaitsOwned'
      BY <1>a, <2>1, <2>2, FutexNotifyType, FutexNotifyOwned
    <2>4. /\ \A u \in Tasks : op'[u] # op[u] => op[u] = "asleep" /\ op'[u] = "ok"
          /\ \A s : Queued(s)' => Queued(s) \/ s = WakeSqe(call[t].all, call[t].mask)
      BY <1>a, <2>1, <2>2, NotifyEffect
    <2>5. want' = want
      BY <2>1 DEF FutexNotify
    <2>6. TasksKept'
      BY <1>a, <2>1, <2>4, <2>5 DEF TasksKept
    <2>7. WakesKept'
      BY <1>a, <2>2, <2>4 DEF WakesKept, WakeSqe
    <2>8. cv' \in [Tasks -> CvStates]
      BY <1>a, <2>1 DEF CvStates
    <2>9. call' \in [Tasks -> [mask : SUBSET Bits, all : BOOLEAN]]
      BY <1>a, <2>1 DEF NoCall, MatchAny
    <2> QED BY <1>a, <2>1, <2>3, <2>6, <2>7, <2>8, <2>9, <1>c
  <1>9. ASSUME NEW t \in Tasks, Cancel(t) PROVE IndInv'
    <2>1. FutexCancel(t) /\ UNCHANGED <<cv, old, call>>
      BY <1>9 DEF Cancel
    <2>2. FutexTypeOK(Words)' /\ WaitsOwned'
      BY <1>a, <2>1, FutexCancelType, FutexCancelOwned
    <2>3. TasksKept'
      BY <1>a, <2>1 DEF TasksKept, FutexCancel
    <2>4. Home[t] \in Contexts /\ CancelSqe(t) \in Sqes /\ CancelSqe(t).kind # "wake"
      BY FutexAssumption, SqeTypes DEF CancelSqe
    <2>5. WakesKept'
      BY <2>1, <2>4, <1>e DEF FutexCancel
    <2> QED BY <1>a, <2>1, <2>2, <2>3, <2>5, <1>c
  <1>10. ASSUME NEW c \in Contexts, Submit(c) PROVE IndInv'
    <2>1. FutexSubmit(c) /\ UNCHANGED <<cv, old, call>>
      BY <1>10 DEF Submit
    <2>2. FutexTypeOK(Words)' /\ WaitsOwned' /\ want' = want
      BY <1>a, <2>1, FutexSubmitType, FutexSubmitOwned DEF FutexSubmit
    <2>3. \A u \in Tasks : op'[u] # op[u] => op[u] # "none" /\ op'[u] # "none"
      BY <1>a, <2>1, KernelEffect
    <2>4. TasksKept'
      BY <1>a, <2>1, <2>2, <2>3 DEF TasksKept
    <2>5. \A s : Queued(s)' => Queued(s)
      BY <1>b, <2>1, SubmitQueued
    <2>6. WakesKept'
      BY <1>a, <2>5 DEF WakesKept
    <2> QED BY <1>a, <2>1, <2>2, <2>4, <2>6, <1>c
  <1>11. CASE UNCHANGED vars
    <2>1. UNCHANGED <<word, sq, op, want, canceled, cv, old, call>>
      BY <1>11 DEF vars, cvVars, futexVars
    <2>2. FutexTypeOK(Words)'
      BY <1>a, <2>1 DEF FutexTypeOK
    <2>3. TasksKept'
      BY <1>a, <2>1 DEF TasksKept
    <2> QED BY <1>a, <1>b, <2>1, <2>2, <2>3, <1>c, <1>d, OwnedKept
  <1> QED
    BY <1>1, <1>2, <1>3, <1>4, <1>5, <1>6, <1>7, <1>8, <1>9, <1>10, <1>11
       DEF Next, TaskStep, Waiting

(* Whatever the notifications and the masks are: who is suspended has one  *)
(* operation in flight, with the counter it loaded and its own mask, and   *)
(* the wakes in flight are as they were asked for.                         *)
THEOREM CvInvariant == Spec => []IndInv
  <1> QED BY InitInd, NextInd, PTL DEF Spec

(* The types of the condition variable: the counter finds a fresh value.   *)
THEOREM CvTypeCorrect == Spec => []TypeOK
  <1>1. IndInv => TypeOK
    BY DEF IndInv
  <1> QED BY <1>1, CvInvariant, PTL

-----------------------------------------------------------------------------
(* With notify_all and overlapping masks: a wake that is coming for one    *)
(* waiter is coming for every one.                                         *)
LEMMA ThroughStep ==
  ASSUME Broadcast, IndInv, IndInv', NobodySleepsThrough, [Next]_vars
  PROVE  NobodySleepsThrough'
  <1>a. /\ FutexTypeOK(Words) /\ WaitsOwned /\ TasksKept /\ WakesKept
        /\ cv \in [Tasks -> CvStates] /\ old \in [Tasks -> Words]
        /\ call \in [Tasks -> [mask : SUBSET Bits, all : BOOLEAN]]
        /\ sq \in [Contexts -> Seq(Sqes)] /\ op \in [Tasks -> OpStates]
        /\ want \in [Tasks -> [val : Words, mask : SUBSET Bits]]
    BY KeptSplit DEF IndInv, TypeOK, CvTypeOK, FutexTypeOK
  <1>b. TasksKept'
    BY KeptSplit DEF IndInv, CallsKept, TasksKept
  <1>c. \A m, n \in Masks : m \cap n # {}
    BY DEF Broadcast
  <1> SUFFICES ASSUME NEW z \in Tasks, op'[z] = "asleep", word' # old'[z]
               PROVE  ComingFor(want[z].mask)'
    <2>1. NobodySleepsThrough' <=>
            \A t \in Tasks : op'[t] = "asleep" /\ word' # old'[t] => WakeComing(t)'
      BY DEF NobodySleepsThrough
    <2>2. \A t \in Tasks : ComingFor(want[t].mask)' => WakeComing(t)'
      BY DEF WakeComing, ComingFor, Queued
    <2> QED BY <2>1, <2>2
  <1>d. /\ want'[z] = [val |-> old'[z], mask |-> call'[z].mask] /\ call'[z].mask \in Masks
        /\ cv'[z] = "wait"
    BY <1>b DEF TasksKept
  <1>e. op[z] = "asleep" /\ word # old[z] => ComingFor(want[z].mask)
    BY ComingSplit DEF NobodySleepsThrough
  \* What keeps somebody on the way to z.
  <1>f. ASSUME ComingFor(want[z].mask), want'[z] = want[z],
               \A s : Queued(s) => Queued(s)',
               \A u \in Tasks : cv[u] = "bumped" => cv'[u] = "bumped" /\ call'[u] = call[u]
        PROVE  ComingFor(want[z].mask)'
    BY <1>f DEF ComingFor
  <1>g. ASSUME sq' = sq PROVE \A s : Queued(s) => Queued(s)'
    BY <1>g DEF Queued
  <1>h. ASSUME NEW c \in Contexts, NEW s \in Sqes, Prepare(c, s)
        PROVE  \A r : Queued(r) => Queued(r)'
    BY <1>a, <1>h, PrepareQueued
  <1>1. ASSUME NEW t \in Tasks, NEW mask \in Masks, BeginWait(t, mask)
        PROVE  ComingFor(want[z].mask)'
    <2>1. /\ cv[t] = "idle" /\ cv' = [cv EXCEPT ![t] = "prep"]
          /\ old' = [old EXCEPT ![t] = word]
          /\ call' = [call EXCEPT ![t] = [mask |-> mask, all |-> TRUE]]
          /\ UNCHANGED <<word, sq, op, want>>
      BY <1>1 DEF BeginWait
    <2>2. z # t
      BY <1>a, <1>d, <2>1
    <2> QED BY <1>a, <1>e, <1>f, <1>g, <2>1, <2>2
  <1>2. ASSUME NEW t \in Tasks, NEW all \in Alls, NEW mask \in Masks, BeginNotify(t, all, mask)
        PROVE  ComingFor(want[z].mask)'
    <2>1. /\ cv' = [cv EXCEPT ![t] = "bumped"]
          /\ call' = [call EXCEPT ![t] = [mask |-> mask, all |-> all]]
      BY <1>2 DEF BeginNotify, CvBump, CvGoto
    <2>2. cv'[t] = "bumped" /\ call'[t].mask \in Masks
      BY <1>a, <2>1
    <2> QED BY <1>c, <1>d, <2>2 DEF ComingFor
  <1>3. ASSUME NEW t \in Tasks, CvSleep(t, call[t].mask), UNCHANGED call
        PROVE  ComingFor(want[z].mask)'
    <2>1. /\ cv[t] = "prep" /\ cv' = [cv EXCEPT ![t] = "wait"] /\ UNCHANGED <<old, word>>
          /\ op' = [op EXCEPT ![t] = "queued"] /\ Prepare(Home[t], WaitSqe(t))
          /\ want' = [want EXCEPT ![t] = [val |-> old[t], mask |-> call[t].mask]]
      BY <1>3 DEF CvSleep, CvGoto, FutexWait
    <2>2. z # t /\ Home[t] \in Contexts /\ WaitSqe(t) \in Sqes
      BY <1>a, <2>1, FutexAssumption, SqeTypes
    <2> QED BY <1>a, <1>e, <1>f, <1>h, <1>3, <2>1, <2>2
  <1>4. ASSUME NEW t \in Tasks, CvAgain(t), UNCHANGED call PROVE ComingFor(want[z].mask)'
    <2>1. cv[t] = "check" /\ cv' = [cv EXCEPT ![t] = "prep"]
          /\ UNCHANGED <<word, sq, op, want, old>>
      BY <1>4 DEF CvAgain, CvGoto, futexVars
    <2> QED BY <1>a, <1>e, <1>f, <1>g, <1>4, <2>1
  <1>5. ASSUME NEW t \in Tasks, CvReturn(t), call' = [call EXCEPT ![t] = NoCall]
        PROVE  ComingFor(want[z].mask)'
    <2>1. cv[t] = "check" /\ cv' = [cv EXCEPT ![t] = "idle"] /\ old' = [old EXCEPT ![t] = 0]
          /\ UNCHANGED <<word, sq, op, want>>
      BY <1>5 DEF CvReturn, CvGoto, futexVars
    <2>2. z # t
      BY <1>a, <1>d, <2>1
    <2> QED BY <1>a, <1>e, <1>f, <1>g, <1>5, <2>1, <2>2
  <1>6. ASSUME NEW t \in Tasks, CvResume(t), UNCHANGED call PROVE ComingFor(want[z].mask)'
    <2>1. /\ cv[t] = "wait" /\ cv' = [cv EXCEPT ![t] = "check"] /\ UNCHANGED <<word, sq, old>>
          /\ op' = [op EXCEPT ![t] = "none"]
          /\ want' = [want EXCEPT ![t] = [val |-> 0, mask |-> MatchAny]]
      BY <1>6 DEF CvResume, CvGoto, FutexResume
    <2>2. z # t
      BY <1>a, <1>d, <2>1
    <2> QED BY <1>a, <1>e, <1>f, <1>g, <1>6, <2>1, <2>2
  <1>7. ASSUME NEW t \in Tasks, CvCanceled(t), call' = [call EXCEPT ![t] = NoCall]
        PROVE  ComingFor(want[z].mask)'
    <2>1. /\ cv[t] = "wait" /\ cv' = [cv EXCEPT ![t] = "idle"] /\ UNCHANGED <<word, sq>>
          /\ old' = [old EXCEPT ![t] = 0] /\ op' = [op EXCEPT ![t] = "none"]
          /\ want' = [want EXCEPT ![t] = [val |-> 0, mask |-> MatchAny]]
      BY <1>7 DEF CvCanceled, CvGoto, FutexResume
    <2>2. z # t
      BY <1>a, <1>d, <2>1
    <2> QED BY <1>a, <1>e, <1>f, <1>g, <1>7, <2>1, <2>2
  <1>8. ASSUME NEW t \in Tasks, Notify(t) PROVE ComingFor(want[z].mask)'
    <2>1. /\ cv[t] = "bumped" /\ FutexNotify(t, call[t].all, call[t].mask)
          /\ cv' = [cv EXCEPT ![t] = "idle"] /\ old' = old /\ want' = want
          /\ call' = [call EXCEPT ![t] = NoCall]
      BY <1>8 DEF Notify, CvNotify, CvGoto, FutexNotify
    <2>2. call[t].all = TRUE /\ call[t].mask \in Masks /\ call[t].mask \in SUBSET Bits
      BY <1>a, <2>1 DEF TasksKept, Broadcast
    <2>3. PICK m \in Masks : m = call[t].mask
      BY <2>2
    <2>4. /\ \A u \in Tasks : op'[u] # op[u] => op[u] = "asleep" /\ op'[u] = "ok"
          /\ SyncWake => \A u \in Sleepers(m) : op'[u] = "ok"
          /\ ~SyncWake => Queued(WakeSqe(TRUE, m))'
      <3>1. FutexNotify(t, TRUE, m) /\ TRUE \in BOOLEAN /\ m \in SUBSET Bits
        BY <2>1, <2>2, <2>3
      <3> QED BY <1>a, <3>1, NotifyEffect
    <2>5. op[z] = "asleep" /\ want[z].mask \in Masks /\ m \cap want[z].mask # {}
      BY <1>a, <1>c, <1>d, <2>1, <2>2, <2>4
    <2>6. z \in Sleepers(m)
      BY <2>5 DEF Sleepers
    <2>7. /\ Queued(WakeSqe(TRUE, m))' /\ want'[z] = want[z]
          /\ WakeSqe(TRUE, m).kind = "wake" /\ WakeSqe(TRUE, m).mask \cap want[z].mask # {}
      BY <2>1, <2>4, <2>5, <2>6 DEF WakeSqe
    <2> QED BY <2>7 DEF ComingFor
  <1>9. ASSUME NEW t \in Tasks, Cancel(t) PROVE ComingFor(want[z].mask)'
    <2>1. UNCHANGED <<word, op, want, cv, old, call>> /\ Prepare(Home[t], CancelSqe(t))
      BY <1>9 DEF Cancel, FutexCancel
    <2>2. Home[t] \in Contexts /\ CancelSqe(t) \in Sqes
      BY FutexAssumption, SqeTypes
    <2> QED BY <1>a, <1>e, <1>f, <1>h, <2>1, <2>2
  <1>10. ASSUME NEW c \in Contexts, Submit(c) PROVE ComingFor(want[z].mask)'
    <2> DEFINE s == Head(sq[c])
    <2>1. FutexSubmit(c) /\ UNCHANGED <<cv, old, call, word, want>>
      BY <1>10 DEF Submit, FutexSubmit
    <2>2. /\ s \in Sqes /\ Queued(s) /\ \A r : Queued(r) => Queued(r)' \/ r = s
      BY <1>a, <2>1, SubmitQueued
    <2>3. /\ op'[z] # op[z] => s = WaitSqe(z)
          /\ s = WaitSqe(z) => word = want[z].val
          /\ s.kind = "wake" /\ s.all => \A u \in Sleepers(s.mask) : op'[u] = "ok"
      BY <1>a, <2>1, KernelEffect
    <2> HIDE DEF s
    <2>4. want[z].val = old[z] /\ want[z].mask \in Masks
      BY <1>d, <2>1
    <2>5. op[z] = "asleep" /\ word # old[z]
      BY <2>1, <2>3, <2>4
    <2>6. s.kind # "wake"
      <3> SUFFICES ASSUME s.kind = "wake" PROVE FALSE
        OBVIOUS
      <3>1. s.mask \in Masks /\ s.all = TRUE
        BY <1>a, <2>2 DEF WakesKept, Broadcast
      <3>2. z \in Sleepers(s.mask)
        BY <1>c, <2>4, <2>5, <3>1 DEF Sleepers
      <3> QED BY <2>3, <3>1, <3>2
    <2> QED BY <1>e, <2>1, <2>2, <2>5, <2>6 DEF ComingFor
  <1>11. CASE UNCHANGED vars
    <2>1. UNCHANGED <<word, sq, op, want, canceled, cv, old, call>>
      BY <1>11 DEF vars, cvVars, futexVars
    <2> QED BY <1>e, <1>f, <1>g, <2>1
  <1> QED
    BY <1>1, <1>2, <1>3, <1>4, <1>5, <1>6, <1>7, <1>8, <1>9, <1>10, <1>11
       DEF Next, TaskStep, Waiting

(* Nobody sleeps through a notify_all(), on however many threads waits and *)
(* notifications are made, as long as their masks share a bit.             *)
THEOREM NotificationsReach == ASSUME Broadcast PROVE Spec => []NobodySleepsThrough
  <1>1. Init => NobodySleepsThrough
    BY DEF Init, CvInit, FutexInit, NobodySleepsThrough
  <1>2. IndInv /\ IndInv' /\ NobodySleepsThrough /\ [Next]_vars => NobodySleepsThrough'
    BY ThroughStep
  <1> QED BY <1>1, <1>2, CvInvariant, PTL DEF Spec
=============================================================================
