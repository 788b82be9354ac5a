------------------------------ MODULE CallOnce ------------------------------
(***************************************************************************)
(* CallOnce (generic/mutex.hpp): call_once() hands a guard to one caller   *)
(* at a time until one of them calls set_ready(); net/http_client.hpp      *)
(* initialises its TLS trust anchors under it.  The mutex inside is        *)
(* BasicMutex, whose steps are taken here together with CallOnce's own.    *)
(***************************************************************************)
EXTENDS BasicMutex

VARIABLES
  called,    \* mCalled
  once       \* per task: where it is in call_once() or under its guard

onceVars == <<called, once>>
allVars == <<vars, onceVars>>

OnceStates == {"out", "load", "lock", "body", "ready", "done"}

OnceRunning(t) == Running(t) \/ once[t] = "load" \/ once[t] = "ready"
OnceTurn(t) == \A u \in Tasks \ {t} : Home[u] = Home[t] => ~OnceRunning(u)

OnceInit ==
  /\ Init
  /\ called = FALSE
  /\ once = [t \in Tasks |-> "out"]

OnceGoto(t, l) == once' = [once EXCEPT ![t] = l]

(* call_once() is called ...                                               *)
Begin(t) ==
  /\ OnceTurn(t)
  /\ once[t] = "out"
  /\ OnceGoto(t, "load")
  /\ UNCHANGED <<vars, called>>

(* ... returns at once if the work is done, or locks.                      *)
FastPath(t) ==
  /\ once[t] = "load"
  /\ called
  /\ OnceGoto(t, "out")
  /\ UNCHANGED <<vars, called>>

SlowPath(t) ==
  /\ once[t] = "load"
  /\ ~called
  /\ Call(t)
  /\ OnceGoto(t, "lock")
  /\ UNCHANGED called

(* lock() failed: the loop calls it again.                                 *)
Retry(t) ==
  /\ OnceTurn(t)
  /\ once[t] = "lock" /\ pc[t] = "out"
  /\ pc' = [pc EXCEPT ![t] = "lock"]
  /\ UNCHANGED <<word, sq, op, want, canceled, onceVars>>

\* Mutant: mCalled is not looked at again under the lock.
LockedUnchecked(t) ==
  /\ OnceTurn(t)
  /\ once[t] = "lock" /\ pc[t] = "in"
  /\ OnceGoto(t, "body")
  /\ UNCHANGED <<vars, called>>

\* Mutant: a failed lock() is taken for a successful one.
LockedAnyway(t) ==
  /\ OnceTurn(t)
  /\ once[t] = "lock" /\ pc[t] \in {"in", "out"}
  /\ OnceGoto(t, IF called THEN "done" ELSE "body")
  /\ UNCHANGED <<vars, called>>

(* lock() succeeded: mCalled is loaded again; when somebody else has done  *)
(* the work meanwhile the guard is dropped and an empty one is returned.   *)
Locked(t) ==
  /\ OnceTurn(t)
  /\ once[t] = "lock" /\ pc[t] = "in"
  /\ OnceGoto(t, IF called THEN "done" ELSE "body")
  /\ UNCHANGED <<vars, called>>

(* The caller's work under the guard ends: with set_ready() ...            *)
SetReady(t) ==
  /\ OnceTurn(t)
  /\ once[t] = "body"
  /\ called' = TRUE
  /\ OnceGoto(t, "done")
  /\ UNCHANGED vars

(* ... or with an error, which leaves the work to the next caller.         *)
GiveUp(t) ==
  /\ OnceTurn(t)
  /\ once[t] = "body"
  /\ OnceGoto(t, "done")
  /\ UNCHANGED <<vars, called>>

\* Mutant: the guard of a caller that lost the race is not destroyed.
DropReadyOnly(t) ==
  /\ once[t] = "done"
  /\ IF called THEN UNCHANGED vars ELSE Unlock(t)
  /\ OnceGoto(t, IF called THEN "out" ELSE "ready")
  /\ UNCHANGED called

(* The guard is destroyed: the mutex is unlocked.                          *)
Drop(t) ==
  /\ once[t] = "done"
  /\ Unlock(t)
  /\ OnceGoto(t, "ready")
  /\ UNCHANGED called

Dropped(t) ==
  /\ once[t] = "ready"
  /\ Notify(t)
  /\ OnceGoto(t, "out")
  /\ UNCHANGED called

(* What the mutex does on its own inside lock().                           *)
Inside(t) ==
  /\ once[t] = "lock"
  /\ \/ Exchange(t) \/ Sleep(t)
     \/ OnceTurn(t) /\ (Wakeup(t) \/ Cancel(t))
  /\ UNCHANGED onceVars

OnceSubmit(c) ==
  /\ \/ \A t \in Tasks : Home[t] = c => ~OnceRunning(t)
     \/ ~HasRoom(c)
  /\ Submit(c)
  /\ UNCHANGED onceVars

OnceStep(t) ==
  \/ FastPath(t) \/ SlowPath(t) \/ Retry(t) \/ Locked(t)
  \/ SetReady(t) \/ GiveUp(t) \/ Drop(t) \/ Dropped(t) \/ Inside(t)

OnceNext ==
  \/ \E t \in Tasks : Begin(t) \/ OnceStep(t)
  \/ \E c \in Contexts : OnceSubmit(c)

OnceSpec == OnceInit /\ [][OnceNext]_allVars

(* Every thread keeps running; the caller may fail as often as it likes.   *)
OnceFairSpec ==
  /\ OnceSpec
  /\ \A t \in Tasks : SF_allVars(OnceStep(t))
  /\ \A c \in Contexts : SF_allVars(OnceSubmit(c))

-----------------------------------------------------------------------------
(* Types of CallOnce and of the mutex inside it.                           *)
OnceTypeOK ==
  /\ TypeOK
  /\ called \in BOOLEAN
  /\ once \in [Tasks -> OnceStates]

(* Nobody works under a guard after the work is done, nor two at a time,   *)
(* although callers see mCalled false long before they get the mutex.      *)
DoneOnce ==
  \A t \in Tasks : once[t] = "body" => ~called /\ \A u \in Tasks \ {t} : once[u] # "body"

(* A guard exists exactly while its caller holds the mutex, and a failed   *)
(* lock() leads to no guard and is retried.                                *)
GuardOwnsMutex ==
  \A t \in Tasks :
    /\ once[t] \in {"body", "done"} => pc[t] = "in"
    /\ pc[t] # "out" => once[t] \notin {"out", "load"}

(* The inductive invariant of the proofs: CallOnce's own part of it beside *)
(* the mutex's.                                                            *)
OnceInv ==
  /\ IndInv
  /\ called \in BOOLEAN
  /\ once \in [Tasks -> OnceStates]
  /\ \A t \in Tasks :
       /\ once[t] \in {"out", "load"} => pc[t] = "out"
       /\ once[t] \in {"body", "done"} => pc[t] = "in"
       /\ once[t] = "body" => ~called

(* Once the work is done every call_once() returns, also the ones that     *)
(* were queued on the mutex or had their lock() cancelled.                 *)
AllReturn ==
  \A t \in Tasks : (called /\ once[t] # "out") ~> (once[t] = "out")
=============================================================================
