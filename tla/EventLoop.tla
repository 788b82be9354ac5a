----------------------------- MODULE EventLoop -----------------------------
(***************************************************************************)
(* The loop of one thread: IOContext::run (generic/io_context.cpp),        *)
(* GenericIOContext::runDuration (generic/generic_io.cpp) and              *)
(* PlatformIOContext::waitEventsFor (platform/platform_io.cpp), with the   *)
(* coroutines it runs.  A coroutine that is resumed runs until it          *)
(* suspends; one that starts or cancels another has it run inside itself,  *)
(* so those that run form a stack.                                         *)
(*                                                                         *)
(* Time is counted down: left[t] is what remains of the sleep of t, 0 when *)
(* it has expired.  An expired timer stays in front of all later ones, so  *)
(* nothing is lost by not counting further.                                *)
(***************************************************************************)
EXTENDS RbTree, FiniteSets

CONSTANTS
  Main,      \* the coroutine co_main starts
  Delays,    \* the durations given to co_sleep
  MaxSleep,  \* mMaxSleep
  MaxCalls   \* bound: coroutines started or cancelled in one resumption

Tasks == Nodes

ASSUME LoopAssumption ==
  /\ Main \in Tasks
  /\ Delays \subseteq Nat
  /\ MaxSleep \in Nat \ {0}
  /\ MaxCalls \in Nat

VARIABLES
  loop,      \* where the loop is
  nap,       \* what remains of the timeout waitEventsFor was given
  calls,     \* those started or cancelled since the loop resumed one
  stack,     \* the coroutines that run, the innermost first
  what,      \* per coroutine: what it does, or waits for
  timers,    \* mTimers
  left,      \* per coroutine: the time to mExpires
  pending,   \* mNumSqesPending
  flight,    \* the operations prepared and not completed
  cq,        \* the completions of the ring
  batch,     \* the local `tasks` of waitEventsFor
  torn       \* an erase took the branch for two children

loopVars == <<loop, nap, calls, stack, what, timers, left, pending, flight, cq, batch, torn>>

ioVars == <<pending, flight, cq, batch>>

LoopInit ==
  /\ loop = "timers" /\ nap = 0
  /\ calls = 0
  /\ stack = <<Main>>
  /\ what = [t \in Tasks |-> IF t = Main THEN "run" ELSE "none"]
  /\ timers = NoTree
  /\ left = [t \in Tasks |-> 0]
  /\ pending = 0 /\ flight = {} /\ cq = <<>> /\ batch = <<>>
  /\ torn = FALSE

-----------------------------------------------------------------------------
(* The coroutines.  After an erase has left rbParent pointing to a node    *)
(* that is gone the behaviour of the tree is undefined and the model stops.*)
Runs(t) == ~torn /\ stack # <<>> /\ Head(stack) = t

Suspend(t, w) ==
  /\ stack' = Tail(stack)
  /\ what' = [what EXCEPT ![t] = w]
  /\ UNCHANGED <<loop, nap, calls, torn>>

(* co_sleep: TimerNode::Awaiter::await_suspend inserts the timer.          *)
Sleep(t, d) ==
  /\ Runs(t)
  /\ Suspend(t, "sleep")
  /\ left' = [left EXCEPT ![t] = d]
  /\ timers' = Insert(timers, t, left')
  /\ UNCHANGED ioVars

(* co_await UringOp(): getSqe counts the entry.                            *)
StartIO(t) ==
  /\ Runs(t)
  /\ pending' = pending + 1
  /\ flight' = flight \cup {t}
  /\ Suspend(t, "io")
  /\ UNCHANGED <<timers, left, cq, batch>>

(* co_forever, which nothing but a cancellation ends, or the end of the    *)
(* coroutine.                                                              *)
Stop(t, w) ==
  /\ Runs(t)
  /\ w \in {"forever", "none"}
  /\ Suspend(t, w)
  /\ UNCHANGED <<timers, left, ioVars>>

Called == calls < MaxCalls /\ calls' = calls + 1

(* co_spawn of a coroutine, or the canceller of co_forever.                *)
Spawn(t, u) ==
  /\ Runs(t)
  /\ Called
  /\ what[u] \in {"forever", "none"}
  /\ stack' = <<u>> \o stack
  /\ what' = [what EXCEPT ![u] = "run"]
  /\ UNCHANGED <<loop, nap, timers, left, ioVars, torn>>

(* The canceller of co_sleep: TimerNode::doCancel, and resume.             *)
CancelSleep(t, u) ==
  /\ Runs(t)
  /\ Called
  /\ what[u] = "sleep"
  /\ timers' = Erase(timers, u)
  /\ torn' = TwoChildren(timers, u)
  /\ stack' = <<u>> \o stack
  /\ what' = [what EXCEPT ![u] = "run"]
  /\ left' = [left EXCEPT ![u] = 0]
  /\ UNCHANGED <<loop, nap, ioVars>>

TaskStep(t) ==
  \/ \E d \in Delays : Sleep(t, d)
  \/ StartIO(t)
  \/ \E w \in {"forever", "none"} : Stop(t, w)

Meddle(t) == \E u \in Tasks : Spawn(t, u) \/ CancelSleep(t, u)

-----------------------------------------------------------------------------
(* The loop.                                                               *)
At(l) == ~torn /\ loop = l /\ stack = <<>>

Expired == ~TreeEmpty(timers) /\ left[Front(timers)] = 0

(* runDuration: the first timer has expired; take it out and resume.       *)
RunTimer ==
  /\ At("timers")
  /\ Expired
  /\ stack' = <<Front(timers)>> /\ calls' = 0
  /\ timers' = Erase(timers, Front(timers))
  /\ what' = [what EXCEPT ![Front(timers)] = "run"]
  /\ UNCHANGED <<loop, nap, left, ioVars, torn>>

\* Mutant: the loop does not ask for pending events.
IdleWithEvents == TreeEmpty(timers)

\* Mutant: only pending events keep the loop going.
IdleWithTimers == pending = 0

(* runDuration returned no duration and nothing is pending.                *)
Idle == TreeEmpty(timers) /\ pending = 0

(* runOnce() returns false, and run() ends.                                *)
Return ==
  /\ At("timers")
  /\ Idle
  /\ loop' = "over"
  /\ UNCHANGED <<nap, calls, stack, what, timers, left, ioVars, torn>>

\* Mutant: the wait is as long as mMaxSleep whatever the timers say.
DurationMax == MaxSleep

(* The time runOnce waits for: that of the next timer, at most mMaxSleep.  *)
Duration ==
  IF TreeEmpty(timers) \/ left[Front(timers)] > MaxSleep THEN MaxSleep
  ELSE left[Front(timers)]

(* waitEventsFor: what is prepared is submitted, and the thread waits.     *)
Wait ==
  /\ At("timers")
  /\ ~Expired /\ ~Idle
  /\ loop' = "wait"
  /\ nap' = Duration
  /\ UNCHANGED <<calls, stack, what, timers, left, ioVars, torn>>

(* io_uring_submit_and_wait_timeout: there are completions.  All of them   *)
(* are collected and counted before the first coroutine is resumed.        *)
Collect ==
  /\ At("wait")
  /\ cq # <<>>
  /\ batch' = cq /\ cq' = <<>>
  /\ pending' = pending - Len(cq)
  /\ loop' = "resume" /\ nap' = 0
  /\ UNCHANGED <<calls, stack, what, timers, left, flight, torn>>

(* The time is over (ETIME), or a signal came (EINTR).                     *)
Nothing ==
  /\ At("wait")
  /\ cq = <<>>
  /\ loop' = "timers" /\ nap' = 0
  /\ UNCHANGED <<calls, stack, what, timers, left, ioVars, torn>>

TimedOut == nap = 0 /\ Nothing

ResumeNext ==
  /\ At("resume")
  /\ IF batch = <<>>
       THEN loop' = "timers" /\ UNCHANGED <<calls, stack, what, batch>>
       ELSE /\ stack' = <<Head(batch)>> /\ calls' = 0
            /\ what' = [what EXCEPT ![Head(batch)] = "run"]
            /\ batch' = Tail(batch)
            /\ UNCHANGED loop
  /\ UNCHANGED <<nap, timers, left, pending, flight, cq, torn>>

(* The kernel completes an operation, once it has been submitted.          *)
Complete(t) ==
  /\ ~torn /\ loop = "wait"
  /\ t \in flight
  /\ flight' = flight \ {t}
  /\ cq' = Append(cq, t)
  /\ UNCHANGED <<loop, nap, calls, stack, what, timers, left, pending, batch, torn>>

Less(n) == IF n = 0 THEN 0 ELSE n - 1

Tick ==
  /\ ~torn
  /\ nap' = Less(nap)
  /\ left' = [t \in Tasks |-> Less(left[t])]
  /\ UNCHANGED <<loop, calls, stack, what, timers, ioVars, torn>>

LoopStep == RunTimer \/ Return \/ Wait \/ Collect \/ TimedOut \/ ResumeNext

LoopNext ==
  \/ \E t \in Tasks : TaskStep(t) \/ Meddle(t) \/ Complete(t)
  \/ LoopStep \/ Nothing \/ Tick

LoopSpec == LoopInit /\ [][LoopNext]_loopVars

(* The thread runs, time passes, and a coroutine that runs suspends in the *)
(* end.                                                                    *)
LoopFairSpec ==
  /\ LoopSpec
  /\ WF_loopVars(LoopStep) /\ WF_loopVars(Tick)
  /\ WF_stack(~torn /\ stack # <<>> /\ stack' = Tail(stack))

-----------------------------------------------------------------------------
Elements(s) == {s[i] : i \in 1..Len(s)}

Sleeping == {t \in Tasks : what[t] = "sleep"}

LoopTypeOK ==
  /\ loop \in {"timers", "wait", "resume", "over"}
  /\ nap \in 0..MaxSleep
  /\ calls \in 0..MaxCalls
  /\ stack \in Seq(Tasks)
  /\ what \in [Tasks -> {"none", "run", "sleep", "io", "forever"}]
  /\ left \in [Tasks -> Nat]
  /\ pending \in Nat
  /\ flight \subseteq Tasks /\ IsFiniteSet(flight)
  /\ cq \in Seq(Tasks) /\ batch \in Seq(Tasks)
  /\ torn \in BOOLEAN

(* run() returns only when no coroutine sleeps or waits for an operation.  *)
ReturnsWhenIdle ==
  loop = "over" => \A t \in Tasks : what[t] \in {"none", "forever"}

(* The tree holds exactly the coroutines that sleep, each once, in the     *)
(* order in which they expire.                                             *)
TimersKept ==
  LET s == InOrder(timers)
  IN /\ s \in Seq(Tasks)
     /\ Elements(s) = Sleeping /\ Len(s) = Cardinality(Sleeping)
     /\ \A i, j \in 1..Len(s) : i < j => left[s[i]] <= left[s[j]]

(* What the loop asks the tree for: whether it is empty, and its front.    *)
FrontKept ==
  LET s == InOrder(timers)
  IN /\ TreeEmpty(timers) <=> s = <<>>
     /\ s # <<>> => Front(timers) = Head(s)

(* So it is, and so the tree answers the loop, unless a timer with two     *)
(* children has been erased.                                               *)
TimersKeptUnlessTorn == torn \/ (timers \in Trees /\ TimersKept /\ FrontKept)

(* The loop does not sleep past a timer.                                   *)
WakesInTime == loop = "wait" => \A t \in Sleeping : nap <= left[t]

(* The inductive invariant of the proofs.  A coroutine that runs is on the *)
(* stack, and one that waits for an operation is in one place, once: the   *)
(* kernel, the ring or the batch.  What is not in the batch is counted.    *)
OnlyOnce(s) == \A i, j \in 1..Len(s) : s[i] = s[j] => i = j

Awaited ==
  /\ OnlyOnce(stack) /\ OnlyOnce(cq) /\ OnlyOnce(batch)
  /\ flight \cap Elements(cq) = {} /\ flight \cap Elements(batch) = {}
  /\ Elements(cq) \cap Elements(batch) = {}
  /\ \A t \in Tasks : what[t] = "run" <=> t \in Elements(stack)
  /\ \A t \in Tasks : what[t] = "io" <=> t \in flight \cup Elements(cq) \cup Elements(batch)
  /\ pending = Cardinality(flight) + Len(cq)

(* While the thread waits nobody runs, and the batch is empty but where it *)
(* is worked on.                                                           *)
Resting ==
  /\ loop \in {"wait", "over"} => stack = <<>>
  /\ loop # "resume" => batch = <<>>

LoopInv == LoopTypeOK /\ Awaited /\ Resting /\ WakesInTime /\ ReturnsWhenIdle

(* Two sleepers never change places: what is inserted, erased and rotated  *)
(* around them leaves the earlier one in front, and of two that expire     *)
(* together the one that came first.                                       *)
InTurn ==
  [][~torn' =>
       LET s == InOrder(timers)
           now == InOrder(timers')
           Before(q, t, u) == \E i, j \in 1..Len(q) : i < j /\ q[i] = t /\ q[j] = u
           stays == Elements(s) \cap Elements(now)
       IN /\ \A i, j \in 1..Len(s) :
               i < j /\ {s[i], s[j]} \subseteq stays => Before(now, s[i], s[j])
          /\ \A t \in stays, u \in Elements(now) \ stays :
               left'[t] = left'[u] => Before(now, t, u)]_timers

(* Every sleep ends, by its time or by a cancellation.                     *)
SleepEnds == \A t \in Tasks : what[t] = "sleep" ~> (what[t] # "sleep" \/ torn)

(* When there is nothing left that could resume a coroutine, run returns.  *)
RunReturns ==
  (stack = <<>> /\ \A t \in Tasks : what[t] \in {"none", "forever"}) ~> loop = "over"
=============================================================================
