------------------------------ MODULE CvClients ------------------------------
(***************************************************************************)
(* ConditionVariable on its own: tasks that wait(), wait(mask), notify_one *)
(* and notify_all with any mask, on any threads.  A task that is about to  *)
(* notify has chosen whom.                                                 *)
(***************************************************************************)
EXTENDS ConditionVariable

CONSTANTS
  Masks,     \* the masks waits and notifications are given
  Alls       \* {TRUE}: only notify_all, {FALSE}: only notify_one, or both

ASSUME CvAssumption ==
  /\ Masks \subseteq SUBSET Bits
  /\ Alls \subseteq BOOLEAN

VARIABLE call   \* per task: mask of its wait or notification, and all or one

vars == <<cvVars, call>>

Turn(t) == \A u \in Tasks \ {t} : Home[u] = Home[t] => ~CvRunning(u)

NoCall == [mask |-> MatchAny, all |-> TRUE]

Init ==
  /\ CvInit
  /\ call = [t \in Tasks |-> NoCall]

(* wait(mask), under a fresh cancel source.                                *)
BeginWait(t, mask) ==
  /\ Turn(t)
  /\ cv[t] = "idle"
  /\ cv' = [cv EXCEPT ![t] = "prep"]
  /\ old' = [old EXCEPT ![t] = word]
  /\ FreshToken(t)
  /\ call' = [call EXCEPT ![t] = [mask |-> mask, all |-> TRUE]]
  /\ UNCHANGED <<word, sq, op, want>>

BeginNotify(t, all, mask) ==
  /\ Turn(t)
  /\ CvBump(t)
  /\ call' = [call EXCEPT ![t] = [mask |-> mask, all |-> all]]

Waiting(t) ==
  \/ CvSleep(t, call[t].mask) /\ UNCHANGED call
  \/ CvAgain(t) /\ UNCHANGED call
  \/ CvReturn(t) /\ call' = [call EXCEPT ![t] = NoCall]
  \/ Turn(t) /\ CvResume(t) /\ UNCHANGED call
  \/ Turn(t) /\ CvCanceled(t) /\ call' = [call EXCEPT ![t] = NoCall]

\* Mutant: the notification wakes with a mask that lost a bit.
NotifyLosesBit(t) ==
  /\ CvNotify(t, call[t].all, call[t].mask \ {1})
  /\ call' = [call EXCEPT ![t] = NoCall]

Notify(t) ==
  /\ CvNotify(t, call[t].all, call[t].mask)
  /\ call' = [call EXCEPT ![t] = NoCall]

Cancel(t) ==
  /\ Turn(t)
  /\ cv[t] = "wait"
  /\ FutexCancel(t)
  /\ UNCHANGED <<cv, old, call>>

Submit(c) ==
  /\ \/ \A t \in Tasks : Home[t] = c => ~CvRunning(t)
     \/ ~HasRoom(c)
  /\ FutexSubmit(c)
  /\ UNCHANGED <<cv, old, call>>

TaskStep(t) == Waiting(t) \/ Notify(t)

Next ==
  \/ \E t \in Tasks :
       \/ TaskStep(t) \/ Cancel(t)
       \/ \E mask \in Masks :
            BeginWait(t, mask) \/ \E all \in Alls : BeginNotify(t, all, mask)
  \/ \E c \in Contexts : Submit(c)

Spec == Init /\ [][Next]_vars

(* As for the queue: every thread runs its coroutines and its event loop.  *)
FairSpec ==
  /\ Spec
  /\ \A t \in Tasks : SF_vars(TaskStep(t))
  /\ \A c \in Contexts : SF_vars(Submit(c))

-----------------------------------------------------------------------------
(* Types of the condition variable, of its futex and of the calls.         *)
TypeOK ==
  /\ CvTypeOK
  /\ call \in [Tasks -> [mask : SUBSET Bits, all : BOOLEAN]]

(* A wake for t's mask is queued, or somebody is about to queue it.        *)
WakeComing(t) ==
  \/ \E c \in Contexts : \E i \in 1..Len(sq[c]) :
       sq[c][i].kind = "wake" /\ sq[c][i].mask \cap want[t].mask # {}
  \/ \E u \in Tasks : cv[u] = "bumped" /\ call[u].mask \cap want[t].mask # {}

(* With notify_all(): nobody sleeps through a notification.  A sleeper of  *)
(* whom the counter has moved on has a wake coming, on whichever thread    *)
(* the notification was made and however late its wait reached the kernel. *)
(* (Stated for waits and notifications that all share a bit.)              *)
NobodySleepsThrough ==
  \A t \in Tasks : op[t] = "asleep" /\ word # old[t] => WakeComing(t)

(* The inductive invariant of the proofs: what waits and wakes were given, *)
(* in flight and about to be made.                                         *)
CallsKept ==
  /\ \A t \in Tasks : (op[t] # "none") <=> (cv[t] = "wait")
  /\ \A t \in Tasks :
       op[t] # "none" => want[t] = [val |-> old[t], mask |-> call[t].mask]
  /\ \A t \in Tasks :
       /\ cv[t] # "idle" => call[t].mask \in Masks
       /\ cv[t] = "bumped" => call[t].all \in Alls
  /\ \A c \in Contexts : \A i \in 1..Len(sq[c]) :
       sq[c][i].kind = "wake" => sq[c][i].mask \in Masks /\ sq[c][i].all \in Alls

IndInv == TypeOK /\ WaitsOwned /\ CallsKept

(* Every wait() the counter has moved past returns: the loop of wait()     *)
(* ends once its operation has been completed.                             *)
WaitEnds ==
  \A t \in Tasks : (Holding(t) /\ word # old[t]) ~> (cv[t] = "idle")
=============================================================================
