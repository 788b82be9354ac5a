-------------------------- MODULE ConcurrentQueue --------------------------
(***************************************************************************)
(* Queue and ConcurrentQueue (generic/queue.hpp): a RingQueue, a Condition-*)
(* Variable with one mask for poppers and one for pushers and, in Con-     *)
(* currentQueue, a SpinMutex.  A section under the spin lock contains no   *)
(* suspension and is one step here; the lock is dropped BEFORE wait()      *)
(* loads the counter, so on another thread a push may fall between the     *)
(* test and the load.  Queue has no lock: its sections are one step only   *)
(* between coroutines of one thread, and no others may share it.           *)
(*                                                                         *)
(* The two classes differ in when pop() and push() notify: Queue after     *)
(* every success, ConcurrentQueue only when the ring was full or empty.    *)
(* AlwaysNotify tells them apart.                                          *)
(***************************************************************************)
EXTENDS ConditionVariable, RingQueue

CONSTANTS
  MaxSize,       \* the size the queue is built with
  Slacks,        \* whether its allocation may have room behind the array
  AlwaysNotify,  \* TRUE: Queue, FALSE: ConcurrentQueue
  Poppers,       \* tasks that call pop()
  Pushers,       \* tasks that call push()
  Pollers        \* tasks that call try_pop() and try_push()

ASSUME QueueAssumption ==
  /\ MaxSize \in Nat
  /\ Slacks \subseteq BOOLEAN
  /\ AlwaysNotify \in BOOLEAN
  /\ Poppers \cup Pushers \cup Pollers \subseteq Tasks
  /\ Bits = {1, 2}
  /\ AlwaysNotify => \A t, u \in Tasks : Home[t] = Home[u]

VARIABLES
  ring,   \* mQueue
  pc,     \* per task: where it is in pop(), push() or a notify
  arg,    \* per task: the value it pushes
  got     \* per task: the value its last pop returned

queueVars == <<ring, pc, arg, got>>
vars == <<cvVars, queueVars>>

kNonEmptyMask == {1}
kNonFullMask == {2}

PCs == {"out", "pop", "popwait", "push", "pushwait", "tellEmpty", "tellFull"}

Waiting(t) == pc[t] \in {"popwait", "pushwait"}
Running(t) == IF Waiting(t) THEN cv[t] # "wait" ELSE pc[t] # "out"
Turn(t) == \A u \in Tasks \ {t} : Home[u] = Home[t] => ~Running(u)

Init ==
  /\ CvInit
  /\ ring \in {RingOf(MaxSize, slack) : slack \in Slacks}
  /\ pc = [t \in Tasks |-> "out"]
  /\ arg = [t \in Tasks |-> NoItem]
  /\ got = [t \in Tasks |-> NoItem]

Goto(t, l) == pc' = [pc EXCEPT ![t] = l]

(* A coroutine calls pop() or push(v), under a fresh cancel source.        *)
CallPop(t) ==
  /\ t \in Poppers
  /\ Turn(t) /\ pc[t] = "out"
  /\ Goto(t, "pop")
  /\ got' = [got EXCEPT ![t] = NoItem]
  /\ FreshToken(t)
  /\ UNCHANGED <<word, sq, op, want, cv, old, ring, arg>>

CallPush(t, v) ==
  /\ t \in Pushers
  /\ Turn(t) /\ pc[t] = "out"
  /\ Goto(t, "push")
  /\ arg' = [arg EXCEPT ![t] = v]
  /\ FreshToken(t)
  /\ UNCHANGED <<word, sq, op, want, cv, old, ring, got>>

(* pop() under the lock: nothing there, so unlock and wait ...             *)
PopEmpty(t) ==
  /\ pc[t] = "pop"
  /\ RingEmpty(ring)
  /\ Goto(t, "popwait")
  /\ UNCHANGED <<cvVars, ring, arg, got>>

\* Mutant: a popper never says that there is room again.
PopSilently(t) ==
  /\ pc[t] = "pop"
  /\ ~RingEmpty(ring)
  /\ \E v \in RingFronts(ring) : got' = [got EXCEPT ![t] = v]
  /\ ring' = RingPop(ring)
  /\ Goto(t, "out")
  /\ UNCHANGED <<cvVars, arg>>

(* ... or take the oldest value and decide whether to notify a pusher.     *)
PopTake(t) ==
  /\ pc[t] = "pop"
  /\ ~RingEmpty(ring)
  /\ \E v \in RingFronts(ring) : got' = [got EXCEPT ![t] = v]
  /\ ring' = RingPop(ring)
  /\ Goto(t, IF AlwaysNotify \/ RingFull(ring) THEN "tellFull" ELSE "out")
  /\ UNCHANGED <<cvVars, arg>>

(* push() under the lock: no room, so unlock and wait ...                  *)
PushFull(t) ==
  /\ pc[t] = "push"
  /\ RingFull(ring)
  /\ Goto(t, "pushwait")
  /\ UNCHANGED <<cvVars, ring, arg, got>>

\* Mutant: wasEmpty is computed after the value is in.
PushTestsLate(t) ==
  /\ pc[t] = "push"
  /\ ~RingFull(ring)
  /\ ring' = RingPush(ring, arg[t])
  /\ Goto(t, IF RingEmpty(ring') THEN "tellEmpty" ELSE "out")
  /\ arg' = [arg EXCEPT ![t] = NoItem]
  /\ UNCHANGED <<cvVars, got>>

(* ... or store the value and decide whether to notify a popper.           *)
PushStore(t) ==
  /\ pc[t] = "push"
  /\ ~RingFull(ring)
  /\ ring' = RingPush(ring, arg[t])
  /\ Goto(t, IF AlwaysNotify \/ RingEmpty(ring) THEN "tellEmpty" ELSE "out")
  /\ arg' = [arg EXCEPT ![t] = NoItem]
  /\ UNCHANGED <<cvVars, got>>

(* try_pop() and try_push(v), which never wait; a failed one changes       *)
(* nothing.                                                                *)
TryPop(t) ==
  /\ t \in Pollers
  /\ Turn(t) /\ pc[t] = "out"
  /\ ~RingEmpty(ring)
  /\ \E v \in RingFronts(ring) : got' = [got EXCEPT ![t] = v]
  /\ ring' = RingPop(ring)
  /\ Goto(t, IF RingFull(ring) THEN "tellFull" ELSE "out")
  /\ UNCHANGED <<cvVars, arg>>

TryPush(t, v) ==
  /\ t \in Pollers
  /\ Turn(t) /\ pc[t] = "out"
  /\ ~RingFull(ring)
  /\ ring' = RingPush(ring, v)
  /\ Goto(t, IF RingEmpty(ring) THEN "tellEmpty" ELSE "out")
  /\ UNCHANGED <<cvVars, arg, got>>

\* Mutant: pop() and push() wait for the same mask.
WaitMaskSwapped(t) == kNonFullMask

(* mReady.wait(mask) inside pop() and push().                              *)
WaitMask(t) == IF pc[t] = "popwait" THEN kNonEmptyMask ELSE kNonFullMask

WaitOn(t) ==
  /\ Waiting(t)
  /\ \/ CvLoad(t)
     \/ CvSleep(t, WaitMask(t))
     \/ Turn(t) /\ CvResume(t)
     \/ CvAgain(t)
  /\ UNCHANGED queueVars

(* wait() returned: lock again and test again.                             *)
WaitReturns(t) ==
  /\ Waiting(t)
  /\ CvReturn(t)
  /\ Goto(t, IF pc[t] = "popwait" THEN "pop" ELSE "push")
  /\ UNCHANGED <<ring, arg, got>>

(* wait() failed: pop() and push() return its error.                       *)
WaitFails(t) ==
  /\ Waiting(t)
  /\ Turn(t)
  /\ CvCanceled(t)
  /\ Goto(t, "out")
  /\ arg' = [arg EXCEPT ![t] = NoItem]
  /\ UNCHANGED <<ring, got>>

(* mReady.notify_one(mask), after the lock is dropped.                     *)
TellBump(t) ==
  /\ pc[t] \in {"tellEmpty", "tellFull"}
  /\ CvBump(t)
  /\ UNCHANGED queueVars

Tell(t) ==
  /\ pc[t] \in {"tellEmpty", "tellFull"}
  /\ CvNotify(t, FALSE, IF pc[t] = "tellEmpty" THEN kNonEmptyMask ELSE kNonFullMask)
  /\ Goto(t, "out")
  /\ UNCHANGED <<ring, arg, got>>

(* The caller gives up: only a coroutine that is suspended can be.         *)
Cancel(t) ==
  /\ Waiting(t) /\ cv[t] = "wait"
  /\ Turn(t)
  /\ FutexCancel(t)
  /\ UNCHANGED <<cv, old, queueVars>>

Submit(c) ==
  /\ \/ \A t \in Tasks : Home[t] = c => ~Running(t)
     \/ ~HasRoom(c)
  /\ FutexSubmit(c)
  /\ UNCHANGED <<cv, old, queueVars>>

Progress(t) ==
  \/ PopEmpty(t) \/ PopTake(t) \/ PushFull(t) \/ PushStore(t)
  \/ WaitOn(t) \/ WaitReturns(t) \/ TellBump(t) \/ Tell(t)

TaskStep(t) == Progress(t) \/ WaitFails(t)

Next ==
  \/ \E t \in Tasks :
       \/ CallPop(t) \/ TryPop(t) \/ Cancel(t) \/ TaskStep(t)
       \/ \E v \in Items : CallPush(t, v) \/ TryPush(t, v)
  \/ \E c \in Contexts : Submit(c)

Spec == Init /\ [][Next]_vars

(* A thread finishes what a coroutine does between two suspensions, and    *)
(* its event loop submits every SQE and resumes every completion of a      *)
(* batch before it starts another (waitEventsFor), so neither can be put   *)
(* off for ever by coroutines that keep calling: strong fairness, because  *)
(* Turn closes and opens again meanwhile.  Nobody has to call or cancel.   *)
FairSpec ==
  /\ Spec
  /\ \A t \in Tasks : SF_vars(TaskStep(t))
  /\ \A c \in Contexts : SF_vars(Submit(c))

-----------------------------------------------------------------------------
TypeOK ==
  /\ CvTypeOK
  /\ ring \in Rings(MaxSize)
  /\ pc \in [Tasks -> PCs]
  /\ arg \in [Tasks -> Cells]
  /\ got \in [Tasks -> Cells]

(* The queue is a bounded first-in first-out channel: the pops return what *)
(* the pushes stored, once each and in order, never more than MaxSize of   *)
(* them, whatever other tasks do in between.  In place of every            *)
(* (MaxSize + 1)-th value, which the ring stores behind its array, any     *)
(* value may be returned, unless the allocation has room there.            *)
Abstract == INSTANCE AbstractQueue WITH
  content <- RingContents(ring), Capacity <- MaxSize, turn <- ring.wr, room <- ring.slack

RefinesQueue == Abstract!Spec

(* Somebody is on the way to a test of the ring for poppers (w = "popwait")*)
(* or pushers: a wake for them is queued or about to be made, or one of    *)
(* them has been woken and not looked yet.                                 *)
OnTheWay(w, look, tell, mask) ==
  \/ \E c \in Contexts : \E i \in 1..Len(sq[c]) :
       sq[c][i].kind = "wake" /\ sq[c][i].mask = mask
  \/ \E t \in Tasks : pc[t] = tell
  \/ \E t \in Tasks : pc[t] = look \/ (pc[t] = w /\ op[t] = "ok")
  \/ \E t \in Tasks : pc[t] = w /\ cv[t] = "check" /\ word # old[t]

(* No popper sleeps on a queue that holds a value, with nobody on the way  *)
(* to take it.                                                             *)
NoStrandedPopper ==
  (~RingEmpty(ring) /\ \E t \in Tasks : pc[t] = "popwait" /\ op[t] = "asleep")
    => OnTheWay("popwait", "pop", "tellEmpty", kNonEmptyMask)

(* No pusher sleeps on a queue that has room, with nobody on the way to    *)
(* use it.                                                                 *)
NoStrandedPusher ==
  (~RingFull(ring) /\ \E t \in Tasks : pc[t] = "pushwait" /\ op[t] = "asleep")
    => OnTheWay("pushwait", "push", "tellFull", kNonFullMask)

(* A waiting pop() on a queue that holds a value ends: with a value, with  *)
(* the cancellation, or because others have emptied the queue.             *)
PopAnswered ==
  \A t \in Poppers :
    (pc[t] = "popwait" /\ ~RingEmpty(ring)) ~> (pc[t] = "out" \/ RingEmpty(ring))

(* A waiting push() on a queue with room ends likewise.                    *)
PushAnswered ==
  \A t \in Pushers :
    (pc[t] = "pushwait" /\ ~RingFull(ring)) ~> (pc[t] = "out" \/ RingFull(ring))
=============================================================================
