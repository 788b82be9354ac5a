----------------------------- MODULE BasicMutex -----------------------------
(***************************************************************************)
(* BasicMutex and the MutexImpl::Locked guard around it                    *)
(* (generic/mutex.hpp): an atomic flag that lock() exchanges with true and *)
(* waits on with futex_wait, and that unlock() clears before it notifies   *)
(* one waiter.  Each task is a coroutine that takes and drops the mutex    *)
(* for ever; the futex and its io_uring path come from Futex.              *)
(***************************************************************************)
EXTENDS Futex

VARIABLE pc   \* per task: where it is in lock(), its critical section or unlock()

vars == <<futexVars, pc>>

PCs == {"out", "lock", "prep", "wait", "in", "notify"}

(* Where a coroutine runs without suspending: no other coroutine of its    *)
(* thread makes a step.                                                    *)
Running(t) == pc[t] \in {"lock", "prep", "notify"}
Turn(t) == \A u \in Tasks \ {t} : Home[u] = Home[t] => ~Running(u)

Init ==
  /\ FutexInit(FALSE)
  /\ pc = [t \in Tasks |-> "out"]

Goto(t, l) == pc' = [pc EXCEPT ![t] = l]

(* try_lock(): one exchange, no wait.                                      *)
TryLock(t) ==
  /\ Turn(t)
  /\ pc[t] = "out"
  /\ word' = TRUE
  /\ Goto(t, IF word THEN "out" ELSE "in")
  /\ UNCHANGED <<sq, op, want, canceled>>

(* lock() is called, under a cancel source of its own.                     *)
Call(t) ==
  /\ Turn(t)
  /\ pc[t] = "out"
  /\ Goto(t, "lock")
  /\ FreshToken(t)
  /\ UNCHANGED <<word, sq, op, want>>

(* The exchange at the head of lock()'s loop.                              *)
Exchange(t) ==
  /\ pc[t] = "lock"
  /\ word' = TRUE
  /\ Goto(t, IF word THEN "prep" ELSE "in")
  /\ UNCHANGED <<sq, op, want, canceled>>

(* futex_wait(&mFutex, old): old is the true the exchange returned.        *)
Sleep(t) ==
  /\ pc[t] = "prep"
  /\ FutexWait(t, TRUE, MatchAny)
  /\ Goto(t, "wait")

\* Mutant: a woken coroutine takes the wake-up for ownership.
WakeupOwns(t) ==
  /\ Turn(t)
  /\ pc[t] = "wait"
  /\ FutexResume(t, FALSE)
  /\ Goto(t, IF op[t] = "ok" THEN "in" ELSE "out")

\* Mutant: a cancelled call gives up whatever the wait returned, and so
\* swallows a wake-up that beat the cancellation.
WakeupSwallows(t) ==
  /\ Turn(t)
  /\ pc[t] = "wait"
  /\ FutexResume(t, FALSE)
  /\ Goto(t, IF op[t] = "ok" /\ ~canceled[t] THEN "lock" ELSE "out")

(* futex_wait returned: round the loop, or out of lock() with the error.   *)
Wakeup(t) ==
  /\ Turn(t)
  /\ pc[t] = "wait"
  /\ FutexResume(t, FALSE)
  /\ Goto(t, IF op[t] = "ok" THEN "lock" ELSE "out")

\* Mutant: unlock() forgets to notify.
UnlockSilently(t) ==
  /\ Turn(t)
  /\ pc[t] = "in"
  /\ word' = FALSE
  /\ Goto(t, "out")
  /\ UNCHANGED <<sq, op, want, canceled>>

(* unlock(), from Locked::unlock or ~Locked: the store ...                 *)
Unlock(t) ==
  /\ Turn(t)
  /\ pc[t] = "in"
  /\ word' = FALSE
  /\ Goto(t, "notify")
  /\ UNCHANGED <<sq, op, want, canceled>>

(* ... and the notification.                                               *)
Notify(t) ==
  /\ pc[t] = "notify"
  /\ FutexNotify(t, FALSE, MatchAny)
  /\ Goto(t, "out")

\* Mutant: a cancelled call returns at once, its operation still in flight.
CancelLeaves(t) ==
  /\ Turn(t)
  /\ pc[t] = "wait"
  /\ FutexCancel(t)
  /\ Goto(t, "out")

(* The caller of lock() gives up (co_timeout, when_any ...).               *)
Cancel(t) ==
  /\ Turn(t)
  /\ pc[t] = "wait"
  /\ FutexCancel(t)
  /\ UNCHANGED pc

(* The thread of c is back in its event loop, or stuck in getSqe.          *)
Submit(c) ==
  /\ \/ \A t \in Tasks : Home[t] = c => ~Running(t)
     \/ ~HasRoom(c)
  /\ FutexSubmit(c)
  /\ UNCHANGED pc

TaskStep(t) == Exchange(t) \/ Sleep(t) \/ Wakeup(t) \/ Unlock(t) \/ Notify(t)

Next ==
  \/ \E t \in Tasks : TryLock(t) \/ Call(t) \/ TaskStep(t) \/ Cancel(t)
  \/ \E c \in Contexts : Submit(c)

Spec == Init /\ [][Next]_vars

(* A thread keeps running its coroutines and its event loop, and a guard   *)
(* is destroyed some time; nobody has to lock, to try or to cancel.        *)
Fairness ==
  /\ \A t \in Tasks : WF_vars(TaskStep(t))
  /\ \A c \in Contexts : WF_vars(Submit(c))

FairSpec == Spec /\ Fairness

-----------------------------------------------------------------------------
(* Types of every variable of the mutex and of the futex below it.         *)
TypeOK ==
  /\ FutexTypeOK(BOOLEAN)
  /\ pc \in [Tasks -> PCs]

(* At most one coroutine is between lock()/try_lock() and unlock(), and    *)
(* while one is, the flag of the mutex is set.                             *)
MutualExclusion ==
  \A t \in Tasks : pc[t] = "in" => word /\ \A u \in Tasks \ {t} : pc[u] # "in"

(* A coroutine suspended in futex_wait has exactly one operation in        *)
(* flight, wherever wakes, cancels and the submission queue stand, and a   *)
(* queued wait SQE belongs to it: the UringOp in the coroutine frame is    *)
(* never referenced after the frame has moved on.                          *)
OpOwned ==
  /\ \A t \in Tasks : (op[t] # "none") <=> (pc[t] = "wait")
  /\ WaitsOwned

(* Somebody will make the sleepers of a free mutex move: a wake on its way *)
(* to the kernel, a woken coroutine that has not run yet, a coroutine      *)
(* about to exchange the flag, or one that cleared it and is about to      *)
(* notify.                                                                 *)
Rescuer ==
  \/ WakeQueued
  \/ \E t \in Tasks : op[t] = "ok"
  \/ \E t \in Tasks : pc[t] \in {"lock", "notify"}

(* No wake-up is lost: the mutex is never free with a coroutine asleep and *)
(* nobody on the way to take it or to wake the sleeper, although waits     *)
(* reach the kernel late, wakes are queued behind them, and a cancelled    *)
(* waiter may be the one a wake was meant for.                             *)
NoLostWakeup ==
  (~word /\ \E t \in Tasks : op[t] = "asleep") => Rescuer

(* What the waits and the wakes in flight were given.                      *)
Arguments ==
  /\ \A t \in Tasks : op[t] # "none" => want[t] = [val |-> TRUE, mask |-> MatchAny]
  /\ \A c \in Contexts : \A i \in 1..Len(sq[c]) :
       sq[c][i].kind = "wake" => sq[c][i].mask = MatchAny

(* The inductive invariant of the proofs.                                  *)
IndInv ==
  TypeOK /\ MutualExclusion /\ OpOwned /\ Arguments /\ NoLostWakeup

(* A free mutex somebody sleeps on is taken again or loses its sleepers.   *)
HandOff ==
  (~word /\ \E t \in Tasks : op[t] = "asleep")
    ~> (word \/ \A t \in Tasks : op[t] # "asleep")

(* The abstract mutex: who is out, trying and in.                          *)
phaseOf == [t \in Tasks |->
  CASE pc[t] \in {"lock", "prep", "wait"} -> "trying"
    [] pc[t] = "in" -> "in"
    [] OTHER -> "out"]

Abstract == INSTANCE AbstractMutex WITH phase <- phaseOf

(* BasicMutex implements the abstract mutex.                               *)
RefinesAbstractMutex == Abstract!Spec

=============================================================================
