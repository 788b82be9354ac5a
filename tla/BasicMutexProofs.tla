-------------------------- MODULE BasicMutexProofs --------------------------
(***************************************************************************)
(* Proofs about BasicMutex: types, mutual exclusion, ownership of the      *)
(* operation in flight, no lost wake-up, and the refinement of             *)
(* AbstractMutex, for any number of tasks, contexts and queue entries and  *)
(* for both builds of futex_notify.                                        *)
(***************************************************************************)
EXTENDS CallOnce, FutexProofs

(* The initial state has the right types.                                  *)
LEMMA InitType == Init => TypeOK
  <1>1. Init => FutexTypeOK(BOOLEAN)
    BY FutexInitType DEF Init
  <1> QED BY <1>1 DEF Init, TypeOK, PCs

(* Every step keeps the types.                                             *)
LEMMA NextType == TypeOK /\ [Next]_vars => TypeOK'
  <1> SUFFICES ASSUME TypeOK, [Next]_vars PROVE TypeOK'
    OBVIOUS
  <1>a. FutexTypeOK(BOOLEAN) /\ pc \in [Tasks -> PCs]
    BY DEF TypeOK
  <1>b. ASSUME FutexTypeOK(BOOLEAN)', pc' \in [Tasks -> PCs] PROVE TypeOK'
    BY <1>b DEF TypeOK
  <1>1. ASSUME NEW t \in Tasks, TryLock(t) PROVE TypeOK'
    BY <1>1, <1>a DEF TryLock, Goto, PCs, TypeOK, FutexTypeOK
  <1>2. ASSUME NEW t \in Tasks, Call(t) PROVE TypeOK'
    BY <1>2, <1>a DEF Call, Goto, PCs, FreshToken, TypeOK, FutexTypeOK
  <1>3. ASSUME NEW t \in Tasks, Exchange(t) PROVE TypeOK'
    BY <1>3, <1>a DEF Exchange, Goto, PCs, TypeOK, FutexTypeOK
  <1>4. ASSUME NEW t \in Tasks, Sleep(t) PROVE TypeOK'
    <2>1. FutexTypeOK(BOOLEAN)'
      BY <1>4, <1>a, FutexWaitType DEF Sleep, MatchAny
    <2> QED BY <1>4, <1>a, <1>b, <2>1 DEF Sleep, Goto, PCs
  <1>5. ASSUME NEW t \in Tasks, Wakeup(t) PROVE TypeOK'
    <2>1. FutexTypeOK(BOOLEAN)'
      BY <1>5, <1>a, FutexResumeType DEF Wakeup
    <2> QED BY <1>5, <1>a, <1>b, <2>1 DEF Wakeup, Goto, PCs
  <1>6. ASSUME NEW t \in Tasks, Unlock(t) PROVE TypeOK'
    BY <1>6, <1>a DEF Unlock, Goto, PCs, TypeOK, FutexTypeOK
  <1>7. ASSUME NEW t \in Tasks, Notify(t) PROVE TypeOK'
    <2>1. FutexTypeOK(BOOLEAN)'
      BY <1>7, <1>a, FutexNotifyType DEF Notify, MatchAny
    <2> QED BY <1>7, <1>a, <1>b, <2>1 DEF Notify, Goto, PCs
  <1>8. ASSUME NEW t \in Tasks, Cancel(t) PROVE TypeOK'
    <2>1. FutexTypeOK(BOOLEAN)'
      BY <1>8, <1>a, FutexCancelType DEF Cancel
    <2> QED BY <1>8, <1>a, <1>b, <2>1 DEF Cancel
  <1>9. ASSUME NEW c \in Contexts, Submit(c) PROVE TypeOK'
    <2>1. FutexTypeOK(BOOLEAN)'
      BY <1>9, <1>a, FutexSubmitType DEF Submit
    <2> QED BY <1>9, <1>a, <1>b, <2>1 DEF Submit
  <1>10. CASE UNCHANGED vars
    BY <1>10, <1>a DEF vars, futexVars, TypeOK, FutexTypeOK
  <1> QED
    BY <1>1, <1>2, <1>3, <1>4, <1>5, <1>6, <1>7, <1>8, <1>9, <1>10 DEF Next, TaskStep

(* The variables of BasicMutex and of its futex always have their types.   *)
THEOREM TypeCorrect == Spec => []TypeOK
  <1> QED BY InitType, NextType, PTL DEF Spec

-----------------------------------------------------------------------------
(* A step of the mutex either touches one task's program counter and the   *)
(* flag, or only the futex below it.                                       *)
LEMMA MutexStep ==
  ASSUME TypeOK, MutualExclusion, [Next]_vars
  PROVE  MutualExclusion'
  <1> USE DEF TypeOK, FutexTypeOK
  <1>1. ASSUME NEW t \in Tasks, TryLock(t) PROVE MutualExclusion'
    BY <1>1 DEF TryLock, Goto, MutualExclusion
  <1>2. ASSUME NEW t \in Tasks, Call(t) PROVE MutualExclusion'
    BY <1>2 DEF Call, Goto, MutualExclusion
  <1>3. ASSUME NEW t \in Tasks, Exchange(t) PROVE MutualExclusion'
    BY <1>3 DEF Exchange, Goto, MutualExclusion
  <1>4. ASSUME NEW t \in Tasks, Sleep(t) PROVE MutualExclusion'
    BY <1>4 DEF Sleep, FutexWait, Goto, MutualExclusion
  <1>5. ASSUME NEW t \in Tasks, Wakeup(t) PROVE MutualExclusion'
    BY <1>5 DEF Wakeup, FutexResume, Goto, MutualExclusion
  <1>6. ASSUME NEW t \in Tasks, Unlock(t) PROVE MutualExclusion'
    BY <1>6 DEF Unlock, Goto, MutualExclusion
  <1>7. ASSUME NEW t \in Tasks, Notify(t) PROVE MutualExclusion'
    BY <1>7 DEF Notify, FutexNotify, Goto, MutualExclusion
  <1>8. ASSUME NEW t \in Tasks, Cancel(t) PROVE MutualExclusion'
    BY <1>8 DEF Cancel, FutexCancel, MutualExclusion
  <1>9. ASSUME NEW c \in Contexts, Submit(c) PROVE MutualExclusion'
    BY <1>9 DEF Submit, FutexSubmit, MutualExclusion
  <1>10. CASE UNCHANGED vars
    BY <1>10 DEF vars, futexVars, MutualExclusion
  <1> QED
    BY <1>1, <1>2, <1>3, <1>4, <1>5, <1>6, <1>7, <1>8, <1>9, <1>10 DEF Next, TaskStep

(* Never two coroutines hold the mutex, and the flag is set while one      *)
(* does: for every number of tasks, with any pattern of cancellation.      *)
THEOREM MutexSafe == Spec => []MutualExclusion
  <1>1. Init => MutualExclusion
    BY DEF Init, FutexInit, MutualExclusion
  <1>2. TypeOK /\ MutualExclusion /\ [Next]_vars => MutualExclusion'
    BY MutexStep
  <1> QED BY <1>1, <1>2, TypeCorrect, PTL DEF Spec

-----------------------------------------------------------------------------
(* What the kernel does to the operations in flight.                       *)
LEMMA KernelFlight ==
  ASSUME TypeOK, OpOwned, NEW c \in Contexts, Submit(c)
  PROVE  \A u \in Tasks : (op[u] = "none") <=> (op'[u] = "none")
  <1>1. FutexTypeOK(BOOLEAN) /\ WaitsOwned /\ FutexSubmit(c)
    BY DEF TypeOK, OpOwned, Submit
  <1>2. \A u \in Tasks : op'[u] # op[u] => op[u] # "none" /\ op'[u] # "none"
    BY <1>1, KernelEffect
  <1> QED BY <1>2

(* No step leaves a coroutine's operation behind, or starts a second one.  *)
LEMMA OwnedStep ==
  ASSUME TypeOK, OpOwned, [Next]_vars
  PROVE  OpOwned'
  <1> DEFINE Idle == \A t \in Tasks : (op[t] # "none") <=> (pc[t] = "wait")
  <1>1. FutexTypeOK(BOOLEAN) /\ WaitsOwned /\ Idle /\ sq \in [Contexts -> Seq(Sqes)]
        /\ op \in [Tasks -> OpStates] /\ pc \in [Tasks -> PCs]
    BY DEF TypeOK, OpOwned, FutexTypeOK
  <1>2. WaitsOwned' /\ Idle' => OpOwned'
    BY DEF OpOwned
  <1> SUFFICES WaitsOwned' /\ Idle'
    BY <1>2
  <1>a. ASSUME sq' = sq, op' = op PROVE WaitsOwned'
    BY <1>a, <1>1, OwnedKept
  <1>3. ASSUME NEW t \in Tasks, TryLock(t) \/ Call(t) \/ Exchange(t) \/ Unlock(t)
        PROVE  WaitsOwned' /\ Idle'
    <2>1. sq' = sq /\ op' = op
      BY <1>3 DEF TryLock, Call, Exchange, Unlock
    <2>2. Idle'
      BY <1>1, <1>3, <2>1 DEF TryLock, Call, Exchange, Unlock, Goto
    <2> QED BY <2>1, <2>2, <1>a
  <1>4. ASSUME NEW t \in Tasks, Sleep(t) PROVE WaitsOwned' /\ Idle'
    <2>1. FutexWait(t, TRUE, MatchAny) /\ pc' = [pc EXCEPT ![t] = "wait"]
      BY <1>4 DEF Sleep, Goto
    <2>2. Idle'
      BY <1>1, <2>1 DEF FutexWait
    <2> QED BY <1>1, <2>1, <2>2, FutexWaitOwned
  <1>5. ASSUME NEW t \in Tasks, Wakeup(t) PROVE WaitsOwned' /\ Idle'
    <2>1. Idle'
      BY <1>1, <1>5 DEF Wakeup, FutexResume, Goto
    <2> QED BY <1>1, <1>5, <2>1, FutexResumeOwned DEF Wakeup
  <1>6. ASSUME NEW t \in Tasks, Notify(t) PROVE WaitsOwned' /\ Idle'
    <2>1. FutexNotify(t, FALSE, MatchAny) /\ pc[t] = "notify" /\ pc' = [pc EXCEPT ![t] = "out"]
      BY <1>6 DEF Notify, Goto
    <2>2. \A u \in Tasks : (op'[u] = "none") <=> (op[u] = "none")
      <3>1. CASE SyncWake
        <4>1. PICK W \in WakeSets(FALSE, MatchAny) :
                op' = [u \in Tasks |-> IF u \in W THEN "ok" ELSE op[u]]
          BY <2>1, <3>1 DEF FutexNotify
        <4> QED BY <1>1, <4>1, WokenEffect
      <3>2. CASE ~SyncWake
        BY <2>1, <3>2 DEF FutexNotify
      <3> QED BY <3>1, <3>2
    <2>3. Idle'
      BY <1>1, <2>1, <2>2
    <2> QED BY <1>1, <2>1, <2>3, FutexNotifyOwned DEF MatchAny
  <1>7. ASSUME NEW t \in Tasks, Cancel(t) PROVE WaitsOwned' /\ Idle'
    <2>1. FutexCancel(t) /\ pc' = pc
      BY <1>7 DEF Cancel
    <2>2. Idle'
      BY <1>1, <2>1 DEF FutexCancel
    <2> QED BY <1>1, <2>1, <2>2, FutexCancelOwned
  <1>8. ASSUME NEW c \in Contexts, Submit(c) PROVE WaitsOwned' /\ Idle'
    <2>1. FutexSubmit(c) /\ pc' = pc
      BY <1>8 DEF Submit
    <2>2. Idle'
      BY <1>1, <1>8, <2>1, KernelFlight
    <2> QED BY <1>1, <2>1, <2>2, FutexSubmitOwned
  <1>9. CASE UNCHANGED vars
    BY <1>1, <1>9, <1>a DEF vars, futexVars
  <1> QED
    BY <1>3, <1>4, <1>5, <1>6, <1>7, <1>8, <1>9 DEF Next, TaskStep

(* Every wait sleeps on the value TRUE with every bit of its mask set, and *)
(* every wake has every bit of its mask set.                               *)
LEMMA ArgumentsStep ==
  ASSUME TypeOK, OpOwned, OpOwned', Arguments, [Next]_vars
  PROVE  Arguments'
  <1> USE DEF TypeOK, FutexTypeOK
  <1> DEFINE Waits == \A t \in Tasks : op[t] # "none" => want[t] = [val |-> TRUE, mask |-> MatchAny]
             Wakes == \A c \in Contexts : \A i \in 1..Len(sq[c]) :
                        sq[c][i].kind = "wake" => sq[c][i].mask = MatchAny
  <1>a. Arguments <=> Waits /\ Wakes
    BY DEF Arguments
  <1>b. Waits' /\ Wakes' => Arguments'
    BY DEF Arguments
  \* Preparing an SQE that is no wake, or one that matches everybody.
  <1>c. ASSUME NEW c \in Contexts, NEW s \in Sqes, Prepare(c, s),
               s.kind = "wake" => s.mask = MatchAny
        PROVE  Wakes'
    <2>1. ASSUME NEW d \in Contexts, NEW i \in 1..Len(sq'[d]), sq'[d][i].kind = "wake"
          PROVE  sq'[d][i].mask = MatchAny
      <3>1. \/ i \in 1..Len(sq[d]) /\ sq'[d][i] = sq[d][i]
            \/ sq'[d][i] = s
        BY <1>c, PrepareElems
      <3> QED BY <1>a, <1>c, <2>1, <3>1
    <2> QED BY <2>1 DEF MatchAny
  <1>1. ASSUME NEW t \in Tasks, TryLock(t) \/ Call(t) \/ Exchange(t) \/ Unlock(t)
        PROVE  Arguments'
    <2>1. UNCHANGED <<sq, op, want>>
      BY <1>1 DEF TryLock, Call, Exchange, Unlock
    <2> QED BY <2>1 DEF Arguments, MatchAny
  <1>2. ASSUME NEW t \in Tasks, Sleep(t) PROVE Arguments'
    <2>1. /\ Home[t] \in Contexts /\ WaitSqe(t) \in Sqes
          /\ WaitSqe(t).kind = "wait" /\ Prepare(Home[t], WaitSqe(t))
      BY <1>2, FutexAssumption, SqeTypes DEF Sleep, FutexWait, WaitSqe
    <2>2. /\ op' = [op EXCEPT ![t] = "queued"]
          /\ want' = [want EXCEPT ![t] = [val |-> TRUE, mask |-> MatchAny]]
      BY <1>2 DEF Sleep, FutexWait
    <2>3. Wakes'
      BY <2>1, <1>c
    <2>4. Waits'
      BY <2>2, <1>a DEF MatchAny
    <2> QED BY <2>3, <2>4, <1>b
  <1>3. ASSUME NEW t \in Tasks, Wakeup(t) PROVE Arguments'
    BY <1>3 DEF Wakeup, FutexResume, Arguments, MatchAny
  <1>4. ASSUME NEW t \in Tasks, Notify(t) PROVE Arguments'
    <2>1. want' = want
      BY <1>4 DEF Notify, FutexNotify
    <2>2. CASE SyncWake
      <3>1. PICK W \in WakeSets(FALSE, MatchAny) :
              op' = [u \in Tasks |-> IF u \in W THEN "ok" ELSE op[u]] /\ sq' = sq
        BY <1>4, <2>2 DEF Notify, FutexNotify
      <3>2. \A u \in W : u \in Tasks /\ op[u] = "asleep"
        BY DEF WakeSets, Sleepers
      <3> QED BY <2>1, <3>1, <3>2, <1>a, <1>b DEF MatchAny
    <2>3. CASE ~SyncWake
      <3>1. Prepare(Home[t], WakeSqe(FALSE, MatchAny)) /\ op' = op
        BY <1>4, <2>3 DEF Notify, FutexNotify
      <3>2. Home[t] \in Contexts /\ WakeSqe(FALSE, MatchAny) \in Sqes
            /\ WakeSqe(FALSE, MatchAny).mask = MatchAny
        BY FutexAssumption, SqeTypes DEF MatchAny, WakeSqe
      <3>3. Wakes'
        BY <3>1, <3>2, <1>c
      <3>4. Waits'
        BY <2>1, <3>1, <1>a DEF MatchAny
      <3> QED BY <3>3, <3>4, <1>b
    <2> QED BY <2>2, <2>3
  <1>5. ASSUME NEW t \in Tasks, Cancel(t) PROVE Arguments'
    <2>1. /\ Home[t] \in Contexts /\ CancelSqe(t) \in Sqes
          /\ CancelSqe(t).kind = "cancel" /\ Prepare(Home[t], CancelSqe(t))
          /\ UNCHANGED <<op, want>>
      BY <1>5, FutexAssumption, SqeTypes DEF Cancel, FutexCancel, CancelSqe
    <2>2. Wakes'
      BY <2>1, <1>c
    <2>3. Waits'
      BY <2>1, <1>a DEF MatchAny
    <2> QED BY <2>2, <2>3, <1>b
  <1>6. ASSUME NEW c \in Contexts, Submit(c) PROVE Arguments'
    <2>1. sq[c] # <<>> /\ sq' = [sq EXCEPT ![c] = Tail(@)] /\ want' = want
      BY <1>6 DEF Submit, FutexSubmit
    <2>2. Wakes'
      <3>1. /\ \A i \in 1..Len(sq'[c]) : i + 1 \in 1..Len(sq[c]) /\ sq'[c][i] = sq[c][i + 1]
            /\ \A d \in Contexts \ {c} : sq'[d] = sq[d]
        BY <2>1, SubmitElems
      <3>2. ASSUME NEW d \in Contexts, NEW i \in 1..Len(sq'[d]), sq'[d][i].kind = "wake"
            PROVE  sq'[d][i].mask = MatchAny
        <4>1. CASE d = c
          <5>1. i + 1 \in 1..Len(sq[c]) /\ sq[c][i + 1].kind = "wake"
                /\ sq'[d][i] = sq[c][i + 1]
            BY <3>1, <3>2, <4>1
          <5>2. sq[c][i + 1].mask = MatchAny
            BY <5>1, <1>a
          <5> QED BY <5>1, <5>2
        <4>2. CASE d # c
          BY <3>1, <3>2, <4>2, <1>a
        <4> QED BY <4>1, <4>2
      <3> QED BY <3>2 DEF MatchAny
    <2>3. Waits'
      BY <1>6, <2>1, <1>a, KernelFlight DEF MatchAny
    <2> QED BY <2>2, <2>3, <1>b
  <1>7. CASE UNCHANGED vars
    BY <1>7 DEF vars, futexVars, Arguments, MatchAny
  <1> QED
    BY <1>1, <1>2, <1>3, <1>4, <1>5, <1>6, <1>7 DEF Next, TaskStep

(* A wake with MatchAny over waits with MatchAny reaches every sleeper, so *)
(* either nobody sleeps or it wakes somebody.                              *)
LEMMA WakeReaches ==
  ASSUME TypeOK, Arguments, NEW all, NEW W \in WakeSets(all, MatchAny)
  PROVE  \/ \A u \in Tasks : op[u] # "asleep"
         \/ \E u \in Tasks : u \in W
  <1>1. \A u \in Tasks : op[u] = "asleep" => u \in Sleepers(MatchAny)
    BY FutexAssumption DEF Arguments, Sleepers, MatchAny
  <1>2. W = Sleepers(MatchAny) \/ \E u \in Sleepers(MatchAny) : W = {u}
    BY DEF WakeSets
  <1> QED BY <1>1, <1>2 DEF Sleepers

(* A step that frees the mutex, puts a coroutine to sleep or consumes a    *)
(* wake leaves somebody on the way.                                        *)
LEMMA NoLostWakeupStep ==
  ASSUME TypeOK, OpOwned, Arguments, NoLostWakeup, [Next]_vars
  PROVE  NoLostWakeup'
  <1> USE DEF TypeOK, FutexTypeOK
  <1> SUFFICES ASSUME ~word', NEW z \in Tasks, op'[z] = "asleep"
               PROVE  Rescuer'
    BY DEF NoLostWakeup
  \* Preparing an SQE loses no queued wake.
  <1>a. ASSUME NEW c \in Contexts, NEW s \in Sqes, Prepare(c, s), WakeQueued
        PROVE  WakeQueued'
    <2>1. PICK d \in Contexts : \E i \in 1..Len(sq[d]) : sq[d][i].kind = "wake"
      BY <1>a DEF WakeQueued
    <2>2. PICK i \in 1..Len(sq[d]) : sq[d][i].kind = "wake"
      BY <2>1
    <2>3. i \in 1..Len(sq'[d]) /\ sq'[d][i] = sq[d][i]
      BY <1>a, <2>2, PrepareElems
    <2> QED BY <2>2, <2>3 DEF WakeQueued
  <1>1. ASSUME NEW t \in Tasks, TryLock(t) PROVE Rescuer'
    BY <1>1 DEF TryLock
  <1>2. ASSUME NEW t \in Tasks, Call(t) PROVE Rescuer'
    BY <1>2 DEF Call, Goto, Rescuer
  <1>3. ASSUME NEW t \in Tasks, Exchange(t) PROVE Rescuer'
    BY <1>3 DEF Exchange
  <1>4. ASSUME NEW t \in Tasks, Sleep(t) PROVE Rescuer'
    <2>1. /\ Home[t] \in Contexts /\ WaitSqe(t) \in Sqes /\ Prepare(Home[t], WaitSqe(t))
          /\ op[t] = "none" /\ op' = [op EXCEPT ![t] = "queued"] /\ word' = word
          /\ pc[t] = "prep" /\ pc' = [pc EXCEPT ![t] = "wait"]
      BY <1>4, FutexAssumption, SqeTypes DEF Sleep, FutexWait, Goto
    <2>2. Rescuer
      BY <2>1 DEF NoLostWakeup
    <2> QED BY <2>1, <2>2, <1>a DEF Rescuer
  <1>5. ASSUME NEW t \in Tasks, Wakeup(t) PROVE Rescuer'
    <2>1. /\ op[t] \in {"ok", "canceled"} /\ op' = [op EXCEPT ![t] = "none"]
          /\ word' = word /\ sq' = sq /\ pc[t] = "wait"
          /\ pc' = [pc EXCEPT ![t] = IF op[t] = "ok" THEN "lock" ELSE "out"]
      BY <1>5 DEF Wakeup, FutexResume, Goto
    <2>2. Rescuer
      BY <2>1 DEF NoLostWakeup
    <2>3. WakeQueued => WakeQueued'
      BY <2>1 DEF WakeQueued
    <2> QED BY <2>1, <2>2, <2>3 DEF Rescuer
  <1>6. ASSUME NEW t \in Tasks, Unlock(t) PROVE Rescuer'
    BY <1>6 DEF Unlock, Goto, Rescuer
  <1>7. ASSUME NEW t \in Tasks, Notify(t) PROVE Rescuer'
    <2>1. CASE SyncWake
      <3>1. PICK W \in WakeSets(FALSE, MatchAny) :
              op' = [u \in Tasks |-> IF u \in W THEN "ok" ELSE op[u]]
        BY <1>7, <2>1 DEF Notify, FutexNotify
      <3>2. \E u \in Tasks : u \in W
        BY <3>1, WakeReaches
      <3> QED BY <3>1, <3>2 DEF Rescuer
    <2>2. CASE ~SyncWake
      <3>1. Home[t] \in Contexts /\ WakeSqe(FALSE, MatchAny) \in Sqes
            /\ WakeSqe(FALSE, MatchAny).kind = "wake"
        BY FutexAssumption, SqeTypes DEF MatchAny, WakeSqe
      <3>2. Prepare(Home[t], WakeSqe(FALSE, MatchAny))
        BY <1>7, <2>2 DEF Notify, FutexNotify
      <3>3. \E n \in 1..Len(sq'[Home[t]]) : sq'[Home[t]][n].kind = "wake"
        <4>1. /\ sq'[Home[t]][Len(sq[Home[t]]) + 1] = WakeSqe(FALSE, MatchAny)
              /\ Len(sq'[Home[t]]) = Len(sq[Home[t]]) + 1
          BY <3>1, <3>2, PrepareElems
        <4>2. Len(sq[Home[t]]) \in Nat
          BY <3>1
        <4>3. Len(sq[Home[t]]) + 1 \in 1..Len(sq'[Home[t]])
          BY <4>1, <4>2
        <4> QED BY <3>1, <4>1, <4>3
      <3>4. WakeQueued'
        BY <3>1, <3>3 DEF WakeQueued
      <3> QED BY <3>4 DEF Rescuer
    <2> QED BY <2>1, <2>2
  <1>8. ASSUME NEW t \in Tasks, Cancel(t) PROVE Rescuer'
    <2>1. /\ Home[t] \in Contexts /\ CancelSqe(t) \in Sqes /\ Prepare(Home[t], CancelSqe(t))
          /\ UNCHANGED <<word, op, pc>>
      BY <1>8, FutexAssumption, SqeTypes DEF Cancel, FutexCancel
    <2>2. Rescuer
      BY <2>1 DEF NoLostWakeup
    <2> QED BY <2>1, <2>2, <1>a DEF Rescuer
  <1>9. ASSUME NEW c \in Contexts, Submit(c) PROVE Rescuer'
    <2> DEFINE s == sq[c][1]
    <2>1. /\ KernelStep(s) /\ s \in Sqes /\ 1 \in 1..Len(sq[c])
          /\ sq' = [sq EXCEPT ![c] = Tail(@)] /\ UNCHANGED <<word, pc>>
          /\ \A i \in 2..Len(sq[c]) : i - 1 \in 1..Len(sq'[c]) /\ sq'[c][i - 1] = sq[c][i]
          /\ \A d \in Contexts \ {c} : sq'[d] = sq[d]
      BY <1>9, SubmitElems DEF Submit, FutexSubmit
    <2>2. CASE s.kind = "wake"
      <3>1. PICK W \in WakeSets(s.all, MatchAny) :
              op' = [u \in Tasks |-> IF u \in W THEN "ok" ELSE op[u]]
        BY <2>1, <2>2 DEF KernelStep, Arguments
      <3>2. \E u \in Tasks : u \in W
        BY <3>1, WakeReaches
      <3> QED BY <3>1, <3>2 DEF Rescuer
    <2>3. CASE s.kind = "wait"
      <3>1. s.task \in Tasks /\ op[s.task] = "queued"
        BY <2>1, <2>3, WaitSqeUnique DEF OpOwned, WaitsOwned
      <3>2. want[s.task].val = TRUE
        BY <3>1 DEF Arguments
      <3>3. op' = [op EXCEPT ![s.task] = "ok"]
        BY <2>1, <2>3, <3>2 DEF KernelStep
      <3> QED BY <3>1, <3>3 DEF Rescuer
    <2>4. CASE s.kind = "cancel"
      <3>1. op' = [op EXCEPT ![s.task] = IF @ = "asleep" THEN "canceled" ELSE @]
            /\ s.task \in Tasks
        BY <2>1, <2>4 DEF KernelStep, Sqes
      <3>2. op[z] = "asleep" /\ \A u \in Tasks : op[u] = "ok" => op'[u] = "ok"
        BY <3>1
      <3>3. Rescuer
        BY <2>1, <3>2 DEF NoLostWakeup
      <3>4. ASSUME WakeQueued PROVE WakeQueued'
        <4>1. PICK d \in Contexts : \E i \in 1..Len(sq[d]) : sq[d][i].kind = "wake"
          BY <3>4 DEF WakeQueued
        <4>2. CASE d = c
          <5>1. PICK i \in 1..Len(sq[c]) : sq[c][i].kind = "wake"
            BY <4>1, <4>2
          <5>2. i \in 2..Len(sq[c])
            BY <2>4, <5>1
          <5>3. i - 1 \in 1..Len(sq'[c]) /\ sq'[c][i - 1].kind = "wake"
            BY <2>1, <5>1, <5>2
          <5> QED BY <5>3 DEF WakeQueued
        <4>3. CASE d # c
          BY <2>1, <4>1, <4>3 DEF WakeQueued
        <4> QED BY <4>2, <4>3
      <3> QED BY <2>1, <3>2, <3>3, <3>4 DEF Rescuer
    <2> QED BY <2>1, <2>2, <2>3, <2>4 DEF Sqes
  <1>10. CASE UNCHANGED vars
    BY <1>10 DEF vars, futexVars, NoLostWakeup, Rescuer, WakeQueued
  <1> QED
    BY <1>1, <1>2, <1>3, <1>4, <1>5, <1>6, <1>7, <1>8, <1>9, <1>10 DEF Next, TaskStep

(* The inductive invariant holds of a new mutex.                           *)
LEMMA InitInd == Init => IndInv
  <1> SUFFICES ASSUME Init PROVE IndInv
    OBVIOUS
  <1>1. \A t \in Tasks : op[t] = "none" /\ pc[t] = "out"
    BY DEF Init, FutexInit
  <1>2. \A c \in Contexts : 1..Len(sq[c]) = {}
    BY DEF Init, FutexInit
  <1>3. MutualExclusion /\ OpOwned /\ Arguments
    BY <1>1, <1>2 DEF MutualExclusion, OpOwned, WaitsOwned, Arguments
  <1>4. NoLostWakeup
    BY <1>1 DEF NoLostWakeup
  <1> QED BY <1>3, <1>4, InitType DEF IndInv

(* Every step of the mutex keeps it.                                       *)
LEMMA NextInd == IndInv /\ [Next]_vars => IndInv'
  <1> SUFFICES ASSUME IndInv, [Next]_vars PROVE IndInv'
    OBVIOUS
  <1>1. TypeOK /\ MutualExclusion /\ OpOwned /\ Arguments /\ NoLostWakeup
    BY DEF IndInv
  <1>2. TypeOK'
    BY <1>1, NextType
  <1>3. MutualExclusion'
    BY <1>1, MutexStep
  <1>4. OpOwned'
    BY <1>1, OwnedStep
  <1>5. Arguments'
    BY <1>1, <1>4, ArgumentsStep
  <1>6. NoLostWakeup'
    BY <1>1, NoLostWakeupStep
  <1> QED BY <1>2, <1>3, <1>4, <1>5, <1>6 DEF IndInv

(* The inductive invariant: what the wake-up argument needs of the types,  *)
(* of the operations in flight and of their arguments.                     *)
THEOREM Inductive == Spec => []IndInv
  <1> QED BY InitInd, NextInd, PTL DEF Spec

(* A suspended lock() always has its one operation in flight, and nothing  *)
(* queued belongs to a call that has moved on.                             *)
THEOREM OperationsOwned == Spec => []OpOwned
  <1>1. IndInv => OpOwned
    BY DEF IndInv
  <1> QED BY <1>1, Inductive, PTL

(* The mutex is never free with a sleeper and nobody coming to move it.    *)
THEOREM WakeupsKept == Spec => []NoLostWakeup
  <1>1. IndInv => NoLostWakeup
    BY DEF IndInv
  <1> QED BY <1>1, Inductive, PTL

(* Every step of BasicMutex is a step of the abstract mutex or leaves its  *)
(* phases alone.                                                           *)
LEMMA RefinementStep ==
  TypeOK /\ MutualExclusion /\ [Next]_vars => [Abstract!Next]_phaseOf
  <1> SUFFICES ASSUME TypeOK, MutualExclusion, [Next]_vars
               PROVE  [Abstract!Next]_phaseOf
    OBVIOUS
  <1> USE DEF TypeOK, FutexTypeOK, PCs, phaseOf
  <1>1. ASSUME NEW t \in Tasks, TryLock(t) PROVE [Abstract!Next]_phaseOf
    <2>1. CASE word
      BY <1>1, <2>1 DEF TryLock, Goto
    <2>2. CASE ~word
      <3>1. Abstract!TryGrant(t)
        BY <1>1, <2>2 DEF TryLock, Goto, MutualExclusion, Abstract!TryGrant, Abstract!Free
      <3> QED BY <3>1 DEF Abstract!Next
    <2> QED BY <2>1, <2>2
  <1>2. ASSUME NEW t \in Tasks, Call(t) PROVE [Abstract!Next]_phaseOf
    <2>1. Abstract!Request(t)
      BY <1>2 DEF Call, Goto, Abstract!Request
    <2> QED BY <2>1 DEF Abstract!Next
  <1>3. ASSUME NEW t \in Tasks, Exchange(t) PROVE [Abstract!Next]_phaseOf
    <2>1. CASE word
      BY <1>3, <2>1 DEF Exchange, Goto
    <2>2. CASE ~word
      <3>1. Abstract!Grant(t)
        BY <1>3, <2>2 DEF Exchange, Goto, MutualExclusion, Abstract!Grant, Abstract!Free
      <3> QED BY <3>1 DEF Abstract!Next
    <2> QED BY <2>1, <2>2
  <1>4. ASSUME NEW t \in Tasks, Sleep(t) PROVE [Abstract!Next]_phaseOf
    BY <1>4 DEF Sleep, Goto
  <1>5. ASSUME NEW t \in Tasks, Wakeup(t) PROVE [Abstract!Next]_phaseOf
    <2>1. CASE op[t] = "ok"
      BY <1>5, <2>1 DEF Wakeup, Goto
    <2>2. CASE op[t] # "ok"
      <3>1. Abstract!Abandon(t)
        BY <1>5, <2>2 DEF Wakeup, Goto, Abstract!Abandon
      <3> QED BY <3>1 DEF Abstract!Next
    <2> QED BY <2>1, <2>2
  <1>6. ASSUME NEW t \in Tasks, Unlock(t) PROVE [Abstract!Next]_phaseOf
    <2>1. Abstract!Release(t)
      BY <1>6 DEF Unlock, Goto, Abstract!Release
    <2> QED BY <2>1 DEF Abstract!Next
  <1>7. ASSUME NEW t \in Tasks, Notify(t) PROVE [Abstract!Next]_phaseOf
    BY <1>7 DEF Notify, Goto
  <1>8. ASSUME NEW t \in Tasks, Cancel(t) PROVE [Abstract!Next]_phaseOf
    BY <1>8 DEF Cancel
  <1>9. ASSUME NEW c \in Contexts, Submit(c) PROVE [Abstract!Next]_phaseOf
    BY <1>9 DEF Submit
  <1>10. CASE UNCHANGED vars
    BY <1>10 DEF vars
  <1> QED
    BY <1>1, <1>2, <1>3, <1>4, <1>5, <1>6, <1>7, <1>8, <1>9, <1>10 DEF Next, TaskStep

(* The code's mutex implements the promise.                                *)
THEOREM Refinement == Spec => RefinesAbstractMutex
  <1>1. Init => Abstract!Init
    BY DEF Init, FutexInit, Abstract!Init, phaseOf
  <1> QED BY <1>1, RefinementStep, TypeCorrect, MutexSafe, PTL DEF Spec, Abstract!Spec, RefinesAbstractMutex

-----------------------------------------------------------------------------
(* CallOnce: what its steps do to the mutex inside.  All but the retry of  *)
(* a failed lock() are steps of BasicMutex.                                *)
LEMMA OnceStepOfMutex ==
  ASSUME [OnceNext]_allVars
  PROVE  [Next]_vars \/ \E t \in Tasks : Retry(t)
  <1>1. ASSUME NEW t \in Tasks, OnceStep(t) \/ Begin(t) PROVE [Next]_vars \/ Retry(t)
    <2>1. CASE SlowPath(t)
      BY <2>1 DEF SlowPath, Next
    <2>2. CASE Drop(t)
      BY <2>2 DEF Drop, Next, TaskStep
    <2>3. CASE Dropped(t)
      BY <2>3 DEF Dropped, Next, TaskStep
    <2>4. CASE Inside(t)
      BY <2>4 DEF Inside, Next, TaskStep
    <2>5. CASE Begin(t) \/ FastPath(t) \/ Locked(t) \/ SetReady(t) \/ GiveUp(t)
      BY <2>5 DEF Begin, FastPath, Locked, SetReady, GiveUp
    <2> QED BY <1>1, <2>1, <2>2, <2>3, <2>4, <2>5 DEF OnceStep
  <1>2. ASSUME NEW c \in Contexts, OnceSubmit(c) PROVE [Next]_vars
    BY <1>2 DEF OnceSubmit, Next
  <1>3. CASE UNCHANGED allVars
    BY <1>3 DEF allVars
  <1> QED BY <1>1, <1>2, <1>3 DEF OnceNext

(* lock() called again under the same cancel source keeps the mutex's      *)
(* invariant: the caller had no operation in flight.                       *)
LEMMA RetryInd ==
  ASSUME IndInv, NEW t \in Tasks, Retry(t)
  PROVE  IndInv'
  <1>1. /\ pc[t] = "out" /\ pc' = [pc EXCEPT ![t] = "lock"]
        /\ UNCHANGED <<word, sq, op, want, canceled>>
    BY DEF Retry
  <1>2. TypeOK /\ MutualExclusion /\ OpOwned /\ Arguments /\ NoLostWakeup
    BY DEF IndInv
  <1>3. TypeOK'
    BY <1>1, <1>2 DEF TypeOK, FutexTypeOK, PCs
  <1>4. MutualExclusion'
    BY <1>1, <1>2 DEF MutualExclusion, TypeOK
  <1>5. OpOwned'
    BY <1>1, <1>2 DEF OpOwned, WaitsOwned, TypeOK
  <1>6. Arguments'
    BY <1>1, <1>2 DEF Arguments
  <1>7. NoLostWakeup'
    BY <1>1, <1>2 DEF NoLostWakeup, Rescuer, WakeQueued, TypeOK
  <1> QED BY <1>3, <1>4, <1>5, <1>6, <1>7 DEF IndInv

(* Every step of CallOnce keeps where its callers stand in step with where *)
(* they stand in the mutex.                                                *)
LEMMA OnceInvStep == OnceInv /\ [OnceNext]_allVars => OnceInv'
  <1> SUFFICES ASSUME OnceInv, [OnceNext]_allVars PROVE OnceInv'
    OBVIOUS
  <1> DEFINE Own == /\ called \in BOOLEAN
                    /\ once \in [Tasks -> OnceStates]
                    /\ \A t \in Tasks :
                         /\ once[t] \in {"out", "load"} => pc[t] = "out"
                         /\ once[t] \in {"body", "done"} => pc[t] = "in"
                         /\ once[t] = "body" => ~called
  <1>1. IndInv /\ Own
    BY DEF OnceInv
  <1>2. IndInv'
    BY <1>1, OnceStepOfMutex, NextInd, RetryInd
  <1>3. MutualExclusion /\ pc \in [Tasks -> PCs]
    BY <1>1 DEF IndInv, TypeOK
  <1> USE DEF OnceGoto, Goto, OnceStates
  <1>4. ASSUME NEW t \in Tasks, Begin(t) PROVE Own'
    BY <1>1, <1>4 DEF Begin, vars
  <1>5. ASSUME NEW t \in Tasks, FastPath(t) PROVE Own'
    BY <1>1, <1>3, <1>5 DEF FastPath, vars
  <1>6. ASSUME NEW t \in Tasks, SlowPath(t) PROVE Own'
    BY <1>1, <1>3, <1>6 DEF SlowPath, Call
  <1>7. ASSUME NEW t \in Tasks, Retry(t) PROVE Own'
    BY <1>1, <1>3, <1>7 DEF Retry, onceVars
  <1>8. ASSUME NEW t \in Tasks, Locked(t) PROVE Own'
    BY <1>1, <1>3, <1>8 DEF Locked, vars
  <1>9. ASSUME NEW t \in Tasks, SetReady(t) PROVE Own'
    BY <1>1, <1>3, <1>9 DEF SetReady, vars, MutualExclusion
  <1>10. ASSUME NEW t \in Tasks, GiveUp(t) PROVE Own'
    BY <1>1, <1>3, <1>10 DEF GiveUp, vars
  <1>11. ASSUME NEW t \in Tasks, Drop(t) PROVE Own'
    BY <1>1, <1>3, <1>11 DEF Drop, Unlock
  <1>12. ASSUME NEW t \in Tasks, Dropped(t) PROVE Own'
    BY <1>1, <1>3, <1>12 DEF Dropped, Notify
  <1>13. ASSUME NEW t \in Tasks, Inside(t) PROVE Own'
    BY <1>1, <1>3, <1>13 DEF Inside, onceVars, Exchange, Sleep, Wakeup, Cancel
  <1>14. ASSUME NEW c \in Contexts, OnceSubmit(c) PROVE Own'
    BY <1>1, <1>14 DEF OnceSubmit, onceVars, Submit
  <1>15. ASSUME UNCHANGED allVars PROVE Own'
    BY <1>1, <1>15 DEF allVars, onceVars, vars
  <1>16. Own'
    <2> HIDE DEF Own
    <2> QED BY <1>4, <1>5, <1>6, <1>7, <1>8, <1>9, <1>10, <1>11, <1>12, <1>13, <1>14, <1>15
       DEF OnceNext, OnceStep
  <1> QED BY <1>2, <1>16 DEF OnceInv, IndInv

(* The mutex inside CallOnce keeps all that BasicMutex promises, no lost   *)
(* wake-up among it, and CallOnce its own account of who holds the guard.  *)
THEOREM OnceInductive == OnceSpec => []OnceInv
  <1>1. OnceInit => OnceInv
    BY InitInd DEF OnceInit, OnceInv, OnceStates, Init
  <1> QED BY <1>1, OnceInvStep, PTL DEF OnceSpec

(* The work of call_once() is done under the mutex, by one caller at a     *)
(* time and by nobody once mCalled is set.                                 *)
THEOREM WorkDoneOnce == OnceSpec => []DoneOnce
  <1>1. OnceInv => DoneOnce
    BY DEF OnceInv, IndInv, MutualExclusion, DoneOnce
  <1> QED BY <1>1, OnceInductive, PTL

(* Whoever has a guard of call_once() holds the mutex, and nobody who has  *)
(* left call_once() does.                                                  *)
THEOREM GuardsOwn == OnceSpec => []GuardOwnsMutex
  <1>1. OnceInv => GuardOwnsMutex
    BY DEF OnceInv, GuardOwnsMutex
  <1> QED BY <1>1, OnceInductive, PTL

(* Types of CallOnce and of the mutex inside it.                           *)
THEOREM OnceTypeCorrect == OnceSpec => []OnceTypeOK
  <1>1. OnceInv => OnceTypeOK
    BY DEF OnceInv, IndInv, OnceTypeOK
  <1> QED BY <1>1, OnceInductive, PTL

(* The mutex inside CallOnce is an abstract mutex too: a retried lock() is *)
(* a new request.                                                          *)
THEOREM OnceRefinement == OnceSpec => RefinesAbstractMutex
  <1>1. OnceInit => Abstract!Init
    BY DEF OnceInit, Init, FutexInit, Abstract!Init, phaseOf
  <1>2. OnceInv /\ [OnceNext]_allVars => [Abstract!Next]_phaseOf
    <2> SUFFICES ASSUME OnceInv, [OnceNext]_allVars PROVE [Abstract!Next]_phaseOf
      OBVIOUS
    <2>1. TypeOK /\ MutualExclusion
      BY DEF OnceInv, IndInv
    <2>2. CASE [Next]_vars
      BY <2>1, <2>2, RefinementStep
    <2>3. ASSUME NEW t \in Tasks, Retry(t) PROVE [Abstract!Next]_phaseOf
      <3>1. Abstract!Request(t)
        BY <2>1, <2>3 DEF Retry, TypeOK, PCs, phaseOf, Abstract!Request
      <3> QED BY <3>1 DEF Abstract!Next
    <2> QED BY <2>2, <2>3, OnceStepOfMutex
  <1> QED
    BY <1>1, <1>2, OnceInductive, PTL DEF OnceSpec, Abstract!Spec, RefinesAbstractMutex
=============================================================================
