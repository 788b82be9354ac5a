------------------------------- MODULE WhenAny -------------------------------
(***************************************************************************)
(* One call of when_any(tasks...), and so of co_timeout, which is          *)
(* when_any(task, co_sleep(timeout)) (generic/when_any.hpp), with the      *)
(* cancel source it makes (generic/cancel.hpp), the when_all it waits in   *)
(* (awaiter/when_all.hpp), the timers (generic/timeout.hpp, generic_io)    *)
(* and the cancellation of io_uring operations (UringOp::cancelGuard).     *)
(*                                                                         *)
(* Everything runs on one thread: what a coroutine does between two        *)
(* suspensions, and whatever it resumes meanwhile, is one step.  A branch  *)
(* that waits for a timer is cancelled inside the canceller's step: its    *)
(* callback takes the timer out of the tree and resumes the sleeper.  A    *)
(* branch that waits for io_uring is cancelled by an SQE, whose completion *)
(* the canceller awaits and which may find the operation answered.         *)
(***************************************************************************)
EXTENDS Naturals, Sequences, FiniteSets

(* What a branch waits for, in the order of the arguments: an io_uring     *)
(* operation, a timer, or an operation only if it has to ("try": a pop()   *)
(* from a queue that may hold a value, a read from a buffer).              *)
CONSTANT Kind

ASSUME WhenAnyAssumption == Kind \in Seq({"io", "timer", "try"}) /\ Len(Kind) > 0

Branches == DOMAIN Kind
Nobody == 0
Outer == Len(Kind) + 1

VARIABLES
  started,    \* how many branches when_all has resumed for the first time
  st,         \* per branch: where the lambda around the task is
  wait,       \* per branch: its io_uring operation or timer
  undo,       \* per branch: the cancel SQE for its operation
  listed,     \* branches whose CancelCallback is on mCancellers
  canceled,   \* mCanceled
  canceler,   \* who is suspended in doCancel
  result,     \* the branch whose value was emplaced
  outer       \* mCanceled of the source this one is registered with

vars == <<started, st, wait, undo, listed, canceled, canceler, result, outer>>

Init ==
  /\ started = 0
  /\ st = [b \in Branches |-> "new"]
  /\ wait = [b \in Branches |-> "none"]
  /\ undo = [b \in Branches |-> "none"]
  /\ listed = {}
  /\ canceled = FALSE
  /\ canceler = Nobody
  /\ result = Nobody
  /\ outer = FALSE

Started == started = Len(Kind)

(* when_all's count is zero: when_any returns.                             *)
Ended == Started /\ \A b \in Branches : st[b] = "done"

Sleepers(S) == {b \in S : Kind[b] = "timer"}
Operations(S) == {b \in S : Kind[b] # "timer"}

\* Mutant: only the io_uring operations are cancelled, the timers run on.
CancelAllButTimers(who, mine) ==
  LET I == Operations(mine) IN
  /\ canceled' = TRUE
  /\ st' = [b \in Branches |->
       IF b = who THEN IF I = {} THEN "done" ELSE "winning" ELSE st[b]]
  /\ wait' = [b \in Branches |-> IF b = who THEN "none" ELSE wait[b]]
  /\ undo' = [b \in Branches |-> IF b \in I THEN "sent" ELSE undo[b]]
  /\ listed' = IF I = {} THEN {} ELSE mine
  /\ canceler' = IF I = {} THEN Nobody ELSE who
  /\ result' = IF I = {} /\ who \in Branches THEN who ELSE result

(* doCancel of the source, the first time, by branch who or the outer      *)
(* source, with the cancellers mine on the list: the sleepers are resumed, *)
(* find the source cancelled and end; an SQE goes to every operation.      *)
(* With no operation to wait for, who goes on at once and emplaces.        *)
CancelAll(who, mine) ==
  LET Z == Sleepers(mine)
      I == Operations(mine)
  IN
  /\ canceled' = TRUE
  /\ st' = [b \in Branches |->
       IF b \in Z THEN "done"
       ELSE IF b = who THEN IF I = {} THEN "done" ELSE "winning" ELSE st[b]]
  /\ wait' = [b \in Branches |-> IF b \in Z \cup {who} THEN "none" ELSE wait[b]]
  /\ undo' = [b \in Branches |-> IF b \in I THEN "sent" ELSE undo[b]]
  /\ listed' = IF I = {} THEN {} ELSE I
  /\ canceler' = IF I = {} THEN Nobody ELSE who
  /\ result' = IF I = {} /\ who \in Branches THEN who ELSE result

\* Mutant: a branch does not look whether the source is cancelled.
FinishAnyway(b) == CancelAll(b, listed \ {b})

(* The task of branch b returned: its canceller is gone; a branch that     *)
(* finds the source cancelled ends, the first one cancels the others.      *)
Finish(b) ==
  IF canceled
    THEN /\ st' = [st EXCEPT ![b] = "done"]
         /\ wait' = [wait EXCEPT ![b] = "none"]
         /\ listed' = listed \ {b}
         /\ UNCHANGED <<undo, canceled, canceler, result>>
    ELSE CancelAll(b, listed \ {b})

(* when_all resumes the next branch: it runs to its first suspension, or   *)
(* to its end.  A canceller put on the list of a cancelled source is never *)
(* called.                                                                 *)
Start ==
  /\ ~Started
  /\ started' = started + 1
  /\ outer' = outer
  /\ LET b == started + 1 IN
     \/ Kind[b] = "try" /\ Finish(b)
     \/ /\ st' = [st EXCEPT ![b] = "waiting"]
        /\ wait' = [wait EXCEPT ![b] = "armed"]
        /\ listed' = listed \cup {b}
        /\ UNCHANGED <<undo, canceled, canceler, result>>

(* runDuration finds the timer expired and resumes the sleeper.            *)
Expire(b) ==
  /\ Started
  /\ Kind[b] = "timer" /\ wait[b] = "armed"
  /\ Finish(b)
  /\ UNCHANGED <<started, outer>>

(* The kernel completes the operation ...                                  *)
Answer(b) ==
  /\ Started
  /\ Kind[b] # "timer" /\ wait[b] = "armed"
  /\ wait' = [wait EXCEPT ![b] = "ok"]
  /\ UNCHANGED <<started, st, undo, listed, canceled, canceler, result, outer>>

(* ... or treats the cancel SQE, too late or in time ...                   *)
KernelCancel(b) ==
  /\ Started
  /\ undo[b] = "sent"
  /\ undo' = [undo EXCEPT ![b] = "acked"]
  /\ wait' = [wait EXCEPT ![b] = IF @ = "armed" THEN "canceled" ELSE @]
  /\ UNCHANGED <<started, st, listed, canceled, canceler, result, outer>>

(* ... and waitEventsFor resumes the branch with its result.               *)
Resume(b) ==
  /\ Started
  /\ wait[b] \in {"ok", "canceled"}
  /\ Finish(b)
  /\ UNCHANGED <<started, outer>>

\* Mutant: the canceller does not wait for the completions of its SQEs.
CancelReturnsEarly ==
  /\ canceler # Nobody /\ Started
  /\ undo' = [b \in Branches |-> IF undo[b] = "acked" THEN "none" ELSE undo[b]]
  /\ canceler' = Nobody
  /\ listed' = {}
  /\ IF canceler \in Branches
       THEN st' = [st EXCEPT ![canceler] = "done"] /\ result' = canceler
       ELSE UNCHANGED <<st, result>>
  /\ UNCHANGED <<started, wait, canceled, outer>>

\* Mutant: the value is emplaced before the cancellation, or not at all.
CancelReturnsEmpty ==
  /\ canceler # Nobody /\ Started
  /\ \A b \in Branches : undo[b] # "sent"
  /\ undo' = [b \in Branches |-> "none"]
  /\ canceler' = Nobody
  /\ listed' = {}
  /\ st' = [b \in Branches |-> IF b = canceler THEN "done" ELSE st[b]]
  /\ UNCHANGED <<started, wait, canceled, result, outer>>

(* The completion of the last cancel SQE resumes doCancel: the list is     *)
(* cleared, and a branch that was cancelling emplaces its value and ends.  *)
CancelReturns ==
  /\ canceler # Nobody /\ Started
  /\ \A b \in Branches : undo[b] # "sent"
  /\ undo' = [b \in Branches |-> "none"]
  /\ canceler' = Nobody
  /\ listed' = {}
  /\ IF canceler \in Branches
       THEN st' = [st EXCEPT ![canceler] = "done"] /\ result' = canceler
       ELSE UNCHANGED <<st, result>>
  /\ UNCHANGED <<started, wait, canceled, outer>>

(* The source this one is registered with is cancelled: doCancel does      *)
(* nothing for a source that is cancelled already.                         *)
OuterCancel ==
  /\ Started /\ ~Ended /\ ~outer
  /\ outer' = TRUE
  /\ IF canceled
       THEN UNCHANGED <<st, wait, undo, listed, canceled, canceler, result>>
       ELSE CancelAll(Outer, listed)
  /\ UNCHANGED started

(* The caller goes on.                                                     *)
Over == Ended /\ UNCHANGED vars

Next ==
  \/ Start \/ CancelReturns \/ OuterCancel \/ Over
  \/ \E b \in Branches : Expire(b) \/ Answer(b) \/ KernelCancel(b) \/ Resume(b)

Spec == Init /\ [][Next]_vars

(* The event loop runs and the kernel treats the cancel SQEs.  Nothing is  *)
(* assumed of the timers and of the operations: they may never end by      *)
(* themselves.                                                             *)
FairSpec ==
  /\ Spec
  /\ WF_vars(Start) /\ WF_vars(CancelReturns)
  /\ \A b \in Branches : WF_vars(KernelCancel(b)) /\ WF_vars(Resume(b))

-----------------------------------------------------------------------------
(* Types; and the list only holds callbacks of branches that are suspended *)
(* in the guarded operation.                                               *)
TypeOK ==
  /\ started \in 0..Len(Kind)
  /\ st \in [Branches -> {"new", "waiting", "winning", "done"}]
  /\ wait \in [Branches -> {"none", "armed", "ok", "canceled"}]
  /\ undo \in [Branches -> {"none", "sent", "acked"}]
  /\ listed \in SUBSET {b \in Branches : st[b] = "waiting"}
  /\ canceled \in BOOLEAN
  /\ canceler \in Branches \cup {Nobody, Outer}
  /\ result \in Branches \cup {Nobody}
  /\ outer \in BOOLEAN

(* Unless the enclosing call is cancelled, when_any returns with the value *)
(* of a branch.                                                            *)
WinnerReported == Ended /\ ~outer => result # Nobody

(* when_any always returns with a value or an error: result.value() never  *)
(* finds it empty, also when the enclosing call is cancelled.              *)
ValuePresent == Ended => result # Nobody

(* When when_any returns, and the enclosing call is not cancelled, nothing *)
(* refers to its frame any more: no branch has an operation or a timer, no *)
(* cancel SQE names one, nobody is suspended in the doCancel of its        *)
(* source, and the list is empty.                                          *)
NothingOutlives ==
  Ended /\ ~outer =>
    /\ \A b \in Branches : wait[b] = "none" /\ undo[b] = "none"
    /\ canceler = Nobody
    /\ listed = {}

(* There is one winner: while a branch is cancelling the others nobody     *)
(* else is, no value is there yet, and a value once there stays.           *)
OneWinner ==
  [][/\ result # Nobody => result' = result
     /\ \A b, c \in Branches : st'[b] = "winning" /\ st'[c] = "winning" => b = c
     /\ (\E b \in Branches : st'[b] = "winning") => result' = Nobody]_vars

(* The inductive invariant of the proofs.  Who stands where ...            *)
Standing ==
  /\ \A b \in Branches : b <= started <=> st[b] # "new"
  /\ \A b \in Branches : st[b] = "winning" <=> canceler = b
  /\ \A b \in Branches : st[b] # "waiting" => wait[b] = "none"
  /\ canceler = Outer => outer

(* ... and what the source knows: before it is cancelled no branch has     *)
(* ended, while somebody cancels there is no value, afterwards there is,   *)
(* unless it was the outer source.                                         *)
Winning ==
  /\ ~canceled => /\ \A b \in Branches : st[b] # "done" /\ undo[b] = "none"
                  /\ result = Nobody /\ canceler = Nobody
  /\ canceler # Nobody => result = Nobody
  /\ canceler = Nobody => \A b \in Branches : undo[b] = "none"
  /\ canceled /\ canceler = Nobody => result # Nobody \/ outer

IndInv == TypeOK /\ Standing /\ Winning

(* Every branch that waits when the source is cancelled ends, though its   *)
(* operation or its timer may never do so by itself: it was registered     *)
(* before.  (One that when_all resumes only afterwards is not reached: the *)
(* call then waits for its operation or its timer.)                        *)
WonEnds ==
  \A b \in Branches :
    [](st[b] = "waiting" /\ ~canceled => [](canceled => <>(st[b] = "done")))
=============================================================================
