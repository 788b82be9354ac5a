------------------------------- MODULE Futex -------------------------------
(***************************************************************************)
(* One futex word of co_async and the way a wait on it, a wake of it and   *)
(* the cancellation of a wait travel through io_uring (platform/futex.hpp, *)
(* platform/platform_io.hpp).                                              *)
(*                                                                         *)
(* futex_wait and, in the default build, futex_notify only PREPARE an SQE  *)
(* on the ring of the calling thread; the kernel sees it when that thread  *)
(* reaches waitEventsFor, or when getSqe finds the submission queue full.  *)
(* The kernel compares the futex word when it processes the SQE, not when  *)
(* the SQE is prepared.  A completion is noticed by a later waitEventsFor, *)
(* which resumes the coroutine.                                            *)
(*                                                                         *)
(* The module holds the state and the operators; BasicMutex, Condition-    *)
(* Variable, Semaphore ... extend it and add the program counters.         *)
(***************************************************************************)
EXTENDS Naturals, Sequences, FiniteSets

CONSTANTS
  Tasks,      \* coroutines that use the futex word
  Contexts,   \* IOContexts, one thread and one ring each
  Home,       \* the context a coroutine runs on, a function on Tasks
  SqEntries,  \* submission queue entries of a ring
  SyncWake,   \* TRUE: built with CO_ASYNC_INVALFIX, futex_notify is a system call
  Bits        \* the mask bits in use; a mask is a set of bits

ASSUME FutexAssumption ==
  /\ Home \in [Tasks -> Contexts]
  /\ SqEntries \in Nat \ {0}
  /\ SyncWake \in BOOLEAN
  /\ Bits # {}

VARIABLES
  word,       \* the std::atomic the futex is built on
  sq,         \* per context: SQEs prepared and not yet seen by the kernel
  op,         \* per task: the state of its futex_wait UringOp
  want,       \* per task: value and mask its last futex_wait was given
  canceled    \* per task: mCanceled of the cancel source its call runs under

futexVars == <<word, sq, op, want, canceled>>

MatchAny == Bits

WaitSqe(t) == [kind |-> "wait", task |-> t]
CancelSqe(t) == [kind |-> "cancel", task |-> t]
WakeSqe(all, mask) == [kind |-> "wake", all |-> all, mask |-> mask]

Sqes ==      [kind : {"wait", "cancel"}, task : Tasks]
        \cup [kind : {"wake"}, all : BOOLEAN, mask : SUBSET Bits]

(* "none": no wait in flight.  "queued": prepared.  "asleep": enqueued in  *)
(* the kernel.  "ok": completed with 0 or EAGAIN, which futex_wait turns   *)
(* into success.  "canceled": completed with ECANCELED.                    *)
OpStates == {"none", "queued", "asleep", "ok", "canceled"}

FutexInit(initial) ==
  /\ word = initial
  /\ sq = [c \in Contexts |-> <<>>]
  /\ op = [t \in Tasks |-> "none"]
  /\ want = [t \in Tasks |-> [val |-> initial, mask |-> MatchAny]]
  /\ canceled = [t \in Tasks |-> FALSE]

Sleepers(mask) == {t \in Tasks : op[t] = "asleep" /\ want[t].mask \cap mask # {}}

(* The sets of coroutines one wake may choose: every matching sleeper, or  *)
(* one of them.                                                            *)
WakeSets(all, mask) ==
  LET S == Sleepers(mask) IN
  IF all \/ S = {} THEN {S} ELSE {{t} : t \in S}

\* Mutant: the full test of the submission queue is off by one.
HasRoomOffByOne(c) == Len(sq[c]) <= SqEntries

HasRoom(c) == Len(sq[c]) < SqEntries

Prepare(c, sqe) ==
  /\ HasRoom(c)
  /\ sq' = [sq EXCEPT ![c] = Append(@, sqe)]

(* futex_wait(&word, val, mask) up to the suspension in UringOp::Awaiter.  *)
FutexWait(t, val, mask) ==
  /\ op[t] = "none"
  /\ Prepare(Home[t], WaitSqe(t))
  /\ op' = [op EXCEPT ![t] = "queued"]
  /\ want' = [want EXCEPT ![t] = [val |-> val, mask |-> mask]]
  /\ UNCHANGED <<word, canceled>>

(* futex_notify: a detached SQE, or the system call at once.               *)
FutexNotify(t, all, mask) ==
  /\ IF SyncWake
       THEN /\ \E W \in WakeSets(all, mask) :
                 op' = [u \in Tasks |-> IF u \in W THEN "ok" ELSE op[u]]
            /\ sq' = sq
       ELSE /\ Prepare(Home[t], WakeSqe(all, mask))
            /\ op' = op
  /\ UNCHANGED <<word, want, canceled>>

(* CancelSourceImpl::doCancel of the source t's call runs under, called by *)
(* another coroutine of t's thread: only the first call does anything, and *)
(* the CancelCallback that cancelGuard registered prepares a cancel SQE.   *)
FutexCancel(t) ==
  /\ ~canceled[t]
  /\ op[t] # "none"
  /\ Prepare(Home[t], CancelSqe(t))
  /\ canceled' = [canceled EXCEPT ![t] = TRUE]
  /\ UNCHANGED <<word, op, want>>

(* The kernel's treatment of one SQE.                                      *)
KernelStep(sqe) ==
  CASE sqe.kind = "wait" ->
         op' = [op EXCEPT ![sqe.task] = IF word = want[sqe.task].val THEN "asleep" ELSE "ok"]
    [] sqe.kind = "cancel" ->
         op' = [op EXCEPT ![sqe.task] = IF @ = "asleep" THEN "canceled" ELSE @]
    [] sqe.kind = "wake" ->
         \E W \in WakeSets(sqe.all, sqe.mask) :
           op' = [u \in Tasks |-> IF u \in W THEN "ok" ELSE op[u]]

(* The next SQE of a ring reaches the kernel: the submission half of       *)
(* waitEventsFor, or getSqe's io_uring_submit when the ring is full.       *)
FutexSubmit(c) ==
  /\ sq[c] # <<>>
  /\ KernelStep(Head(sq[c]))
  /\ sq' = [sq EXCEPT ![c] = Tail(@)]
  /\ UNCHANGED <<word, want, canceled>>

(* The completion half of waitEventsFor: the coroutine is resumed with the *)
(* result, the UringOp and its arguments are gone (unused is the value     *)
(* want[t].val keeps meanwhile).                                           *)
FutexResume(t, unused) ==
  /\ op[t] \in {"ok", "canceled"}
  /\ op' = [op EXCEPT ![t] = "none"]
  /\ want' = [want EXCEPT ![t] = [val |-> unused, mask |-> MatchAny]]
  /\ UNCHANGED <<word, sq, canceled>>

(* A new call runs under a fresh cancel source.                            *)
FreshToken(t) == canceled' = [canceled EXCEPT ![t] = FALSE]

FutexTypeOK(Words) ==
  /\ word \in Words
  /\ sq \in [Contexts -> Seq(Sqes)]
  /\ op \in [Tasks -> OpStates]
  /\ want \in [Tasks -> [val : Words, mask : SUBSET Bits]]
  /\ canceled \in [Tasks -> BOOLEAN]
  /\ \A c \in Contexts : Len(sq[c]) <= SqEntries

(* A wake is on its way to the kernel.                                     *)
WakeQueued == \E c \in Contexts : \E i \in 1..Len(sq[c]) : sq[c][i].kind = "wake"

(* Every wait SQE on a ring is on the ring of its task's thread, once, and *)
(* is that of the operation its task is suspended in.                      *)
WaitsOwned ==
  \A c \in Contexts : \A i \in 1..Len(sq[c]) :
    sq[c][i].kind = "wait" =>
      /\ op[sq[c][i].task] = "queued"
      /\ Home[sq[c][i].task] = c
      /\ \A j \in 1..Len(sq[c]) : sq[c][j] = sq[c][i] => i = j
=============================================================================
