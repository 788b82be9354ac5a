------------------------- MODULE ConditionVariable -------------------------
(***************************************************************************)
(* ConditionVariable (generic/condition_variable.hpp): a counter that      *)
(* wait() loads and sleeps on until it has changed, and that a notify      *)
(* increments before it wakes the futex.  Queue, ConcurrentQueue and the   *)
(* HTTP connection pool wait through it.                                   *)
(*                                                                         *)
(* The 32-bit counter is only compared for equality with values waiters    *)
(* have loaded, so an increment is modelled as a value no waiter holds.    *)
(* This is exact as long as no waiter sleeps through 2^32 notifications.   *)
(***************************************************************************)
EXTENDS Futex

ASSUME TasksFinite == IsFiniteSet(Tasks)

VARIABLES
  cv,   \* per task: where it is inside wait() or a notify
  old   \* per task: the counter wait() loaded

cvVars == <<futexVars, cv, old>>

Words == 0..Cardinality(Tasks)

CvStates == {"idle", "prep", "wait", "check", "bumped"}

CvInit ==
  /\ FutexInit(0)
  /\ cv = [t \in Tasks |-> "idle"]
  /\ old = [t \in Tasks |-> 0]

CvGoto(t, l) == cv' = [cv EXCEPT ![t] = l]

(* Inside wait() or a notify, and not suspended.                           *)
CvRunning(t) == cv[t] \in {"prep", "check", "bumped"}

Holding(t) == cv[t] \in {"prep", "wait", "check"}

Incremented ==
  CHOOSE w \in Words : w # word /\ \A t \in Tasks : Holding(t) => w # old[t]

(* wait(): the load ...                                                    *)
CvLoad(t) ==
  /\ cv[t] = "idle"
  /\ old' = [old EXCEPT ![t] = word]
  /\ CvGoto(t, "prep")
  /\ UNCHANGED futexVars

(* ... futex_wait(&mFutex, old, mask) ...                                  *)
CvSleep(t, mask) ==
  /\ cv[t] = "prep"
  /\ FutexWait(t, old[t], mask)
  /\ CvGoto(t, "wait")
  /\ UNCHANGED old

(* ... the error of a cancelled wait leaves wait() ...                     *)
CvCanceled(t) ==
  /\ cv[t] = "wait"
  /\ op[t] = "canceled"
  /\ FutexResume(t, 0)
  /\ CvGoto(t, "idle")
  /\ old' = [old EXCEPT ![t] = 0]

(* ... otherwise the coroutine goes on ...                                 *)
CvResume(t) ==
  /\ cv[t] = "wait"
  /\ op[t] = "ok"
  /\ FutexResume(t, 0)
  /\ CvGoto(t, "check")
  /\ UNCHANGED old

(* ... to sleep again if the counter is the one it loaded,                 *)
CvAgain(t) ==
  /\ cv[t] = "check"
  /\ word = old[t]
  /\ CvGoto(t, "prep")
  /\ UNCHANGED <<futexVars, old>>

(* or to return.                                                           *)
CvReturn(t) ==
  /\ cv[t] = "check"
  /\ word # old[t]
  /\ CvGoto(t, "idle")
  /\ old' = [old EXCEPT ![t] = 0]
  /\ UNCHANGED futexVars

(* notify_one(mask), notify_all(mask): the fetch_add ...                   *)
CvBump(t) ==
  /\ cv[t] = "idle"
  /\ word' = Incremented
  /\ CvGoto(t, "bumped")
  /\ UNCHANGED <<sq, op, want, canceled, old>>

(* ... and the futex_notify.                                               *)
CvNotify(t, all, mask) ==
  /\ cv[t] = "bumped"
  /\ FutexNotify(t, all, mask)
  /\ CvGoto(t, "idle")
  /\ UNCHANGED old

CvTypeOK ==
  /\ FutexTypeOK(Words)
  /\ cv \in [Tasks -> CvStates]
  /\ old \in [Tasks -> Words]
=============================================================================
