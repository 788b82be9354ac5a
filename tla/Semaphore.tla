------------------------------ MODULE Semaphore ------------------------------
(***************************************************************************)
(* Semaphore (generic/semaphore.hpp): a counter acquire() waits on while   *)
(* it is 0 and release() while it is at its maximum.                       *)
(*                                                                         *)
(* The loop around the compare-exchange runs WHILE it succeeds: after a    *)
(* success the same exchange is tried again and its failure, because the   *)
(* counter has moved, ends the loop.  On one thread nothing comes between  *)
(* the two and exactly one is taken; a first exchange that fails, by       *)
(* another thread or spuriously, takes nothing and ends the loop as well.  *)
(***************************************************************************)
EXTENDS Futex

CONSTANTS
  MaxCount,
  InitialCount,
  Spurious      \* TRUE: compare_exchange_weak may fail on an equal value

ASSUME SemaphoreAssumption ==
  /\ MaxCount \in Nat \ {0}
  /\ InitialCount \in 0..MaxCount
  /\ Spurious \in BOOLEAN
  /\ Bits = {1, 2}

VARIABLES
  pc,      \* per task: where it is in acquire() or release()
  dir,     \* per task: the call, "acquire" or "release"
  count    \* per task: the local count

vars == <<futexVars, pc, dir, count>>

kAcquireMask == {1}
kReleaseMask == {2}

PCs == {"out", "test", "prep", "wait", "load", "cas", "again", "notify"}

Running(t) == pc[t] \notin {"out", "wait"}
Turn(t) == \A u \in Tasks \ {t} : Home[u] = Home[t] => ~Running(u)

Init ==
  /\ FutexInit(InitialCount)
  /\ pc = [t \in Tasks |-> "out"]
  /\ dir = [t \in Tasks |-> "acquire"]
  /\ count = [t \in Tasks |-> 0]

Goto(t, l) == pc' = [pc EXCEPT ![t] = l]

(* The value a call waits on, the mask it waits with, the mask of those    *)
(* its success may wake, and the counter it wants.                         *)
Blocked(t) == IF dir[t] = "acquire" THEN 0 ELSE MaxCount
OwnMask(t) == IF dir[t] = "acquire" THEN kAcquireMask ELSE kReleaseMask
PeerMask(t) == IF dir[t] = "acquire" THEN kReleaseMask ELSE kAcquireMask
Wanted(t) == IF dir[t] = "acquire" THEN count[t] - 1 ELSE count[t] + 1

(* acquire() or release() starts with a load.                              *)
Call(t, d) ==
  /\ Turn(t)
  /\ pc[t] = "out"
  /\ dir' = [dir EXCEPT ![t] = d]
  /\ count' = [count EXCEPT ![t] = word]
  /\ Goto(t, "test")
  /\ FreshToken(t)
  /\ UNCHANGED <<word, sq, op, want>>

\* Mutant: the loop does not wait for the counter to leave its bound.
TestNever(t) ==
  /\ pc[t] = "test"
  /\ Goto(t, "cas")
  /\ UNCHANGED <<futexVars, dir, count>>

(* The inner loop's condition.                                             *)
Test(t) ==
  /\ pc[t] = "test"
  /\ Goto(t, IF count[t] = Blocked(t) THEN "prep" ELSE "cas")
  /\ UNCHANGED <<futexVars, dir, count>>

\* Mutant: a release waits for, and is woken with, the acquirers.
SleepOneMask(t) ==
  /\ pc[t] = "prep"
  /\ FutexWait(t, count[t], kReleaseMask)
  /\ Goto(t, "wait")
  /\ UNCHANGED <<dir, count>>

Sleep(t) ==
  /\ pc[t] = "prep"
  /\ FutexWait(t, count[t], OwnMask(t))
  /\ Goto(t, "wait")
  /\ UNCHANGED <<dir, count>>

(* futex_wait returned: load again, or out with the error.                 *)
Wakeup(t) ==
  /\ Turn(t)
  /\ pc[t] = "wait"
  /\ FutexResume(t, InitialCount)
  /\ IF op[t] = "ok"
       THEN Goto(t, "load") /\ count' = count
       ELSE Goto(t, "out") /\ count' = [count EXCEPT ![t] = 0]
  /\ UNCHANGED dir

\* Mutant: after a wake-up the counter is taken for available.
ReloadTrusting(t) ==
  /\ pc[t] = "load"
  /\ count' = [count EXCEPT ![t] = IF dir[t] = "acquire" THEN 1 ELSE word]
  /\ Goto(t, "test")
  /\ UNCHANGED <<futexVars, dir>>

Reload(t) ==
  /\ pc[t] = "load"
  /\ count' = [count EXCEPT ![t] = word]
  /\ Goto(t, "test")
  /\ UNCHANGED <<futexVars, dir>>

(* compare_exchange_weak: a success goes round the loop with the same      *)
(* count, which passes the inner test; a failure loads the counter.        *)
Exchange(t) ==
  /\ pc[t] \in {"cas", "again"}
  /\ \/ /\ word = count[t]
        /\ word' = Wanted(t)
        /\ Goto(t, "again")
        /\ count' = count
     \/ /\ word # count[t] \/ Spurious
        /\ word' = word
        /\ Goto(t, "notify")
        /\ count' = [count EXCEPT ![t] = 0]
  /\ UNCHANGED <<sq, op, want, canceled, dir>>

Notify(t) ==
  /\ pc[t] = "notify"
  /\ FutexNotify(t, FALSE, PeerMask(t))
  /\ Goto(t, "out")
  /\ UNCHANGED <<dir, count>>

Cancel(t) ==
  /\ Turn(t)
  /\ pc[t] = "wait"
  /\ FutexCancel(t)
  /\ UNCHANGED <<pc, dir, count>>

Submit(c) ==
  /\ \/ \A t \in Tasks : Home[t] = c => ~Running(t)
     \/ ~HasRoom(c)
  /\ FutexSubmit(c)
  /\ UNCHANGED <<pc, dir, count>>

TaskStep(t) ==
  Test(t) \/ Sleep(t) \/ Wakeup(t) \/ Reload(t) \/ Exchange(t) \/ Notify(t)

Next ==
  \/ \E t \in Tasks :
       TaskStep(t) \/ Cancel(t) \/ \E d \in {"acquire", "release"} : Call(t, d)
  \/ \E c \in Contexts : Submit(c)

Spec == Init /\ [][Next]_vars

(* As for the queue: a thread runs each of its coroutines and its event    *)
(* loop again and again (IOContext::run).                                  *)
FairSpec ==
  /\ Spec
  /\ \A t \in Tasks : SF_vars(TaskStep(t))
  /\ \A c \in Contexts : SF_vars(Submit(c))

-----------------------------------------------------------------------------
(* The counter stays between 0 and its maximum on any number of threads,   *)
(* although the loop may take none or several; and the types of the rest.  *)
TypeOK ==
  /\ FutexTypeOK(0..MaxCount)
  /\ pc \in [Tasks -> PCs]
  /\ dir \in [Tasks -> {"acquire", "release"}]
  /\ count \in [Tasks -> 0..MaxCount]

phaseOf == [t \in Tasks |->
  CASE pc[t] = "out" -> "out"
    [] pc[t] \in {"again", "notify"} -> "done"
    [] OTHER -> IF dir[t] = "acquire" THEN "acquiring" ELSE "releasing"]

Abstract == INSTANCE AbstractSemaphore WITH count <- word, phase <- phaseOf

(* A successful acquire() took exactly one and a successful release() gave *)
(* exactly one, whatever waited, was woken or cancelled in between.        *)
RefinesSemaphore == Abstract!Spec

(* A call of the given direction is about to look at the counter, or a     *)
(* wake for it is queued or about to be.                                   *)
OnTheWay(d) ==
  \/ \E c \in Contexts : \E i \in 1..Len(sq[c]) :
       sq[c][i].kind = "wake"
         /\ sq[c][i].mask = IF d = "acquire" THEN kAcquireMask ELSE kReleaseMask
  \/ \E t \in Tasks : pc[t] \in {"again", "notify"} /\ dir[t] # d
  \/ \E t \in Tasks :
       dir[t] = d /\ (pc[t] \in {"load", "test", "cas"} \/ (pc[t] = "wait" /\ op[t] = "ok"))

(* No call sleeps while the counter would let it pass and nobody is on the *)
(* way to use it or to wake it.                                            *)
NoStrandedCall ==
  \A t \in Tasks :
    (pc[t] = "wait" /\ op[t] = "asleep" /\ word # want[t].val) => OnTheWay(dir[t])

(* A waiting acquire() does not wait for ever while the counter stays      *)
(* positive, nor a release() while it stays below the maximum.             *)
CallAnswered ==
  \A t \in Tasks :
    (pc[t] = "wait" /\ word # Blocked(t)) ~> (pc[t] # "wait" \/ word = Blocked(t))
=============================================================================
