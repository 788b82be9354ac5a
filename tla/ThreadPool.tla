----------------------------- MODULE ThreadPool -----------------------------
(***************************************************************************)
(* ThreadPool (generic/thread_pool.hpp, generic/thread_pool.cpp): run()    *)
(* gives a job to a free thread, or to a new one, and waits with           *)
(* futex_wait for the flag the thread sets when the job is done.           *)
(*                                                                         *)
(* Clients are coroutines on threads of their own; threads are those of    *)
(* the pool.  mFreeMutex, mWorkingMutex and mThreadsMutex each protect one *)
(* list for one operation, so an operation on a list is one step; the      *)
(* mutex of a thread is held across steps, in the states of Holds.         *)
(***************************************************************************)
EXTENDS Naturals, Sequences, FiniteSets

CONSTANTS
  Clients,    \* coroutines that call run()
  Threads,    \* bounds the threads the pool may create
  Destroys    \* TRUE: the pool is destroyed some time

CONSTANTS Gone, NoThread, NoClient

ASSUME PoolAssumption ==
  /\ Gone \notin Clients /\ NoClient \notin Clients /\ Gone # NoClient
  /\ NoThread \notin Threads
  /\ Destroys \in BOOLEAN

VARIABLES
  free,      \* mFreeThreads
  working,   \* mWorkingThreads
  created,   \* mThreads, in the order of creation
  task,      \* per thread: mTask, named by its client
  wpc,       \* per thread: where startMain is
  job,       \* per thread: the task it moved out of mTask
  stop,      \* per thread: stop requested
  pc,        \* per client: where it is in rawRun
  target,    \* per client: the thread submitJob picked
  ready,     \* per client: the flag of its run
  canceled,  \* per client: its cancel source is cancelled
  dpc,       \* what ~ThreadPool does
  dying      \* the thread ~ThreadPool is at, an index of created

threadVars == <<task, wpc, job, stop>>
clientVars == <<pc, target, ready, canceled>>
destructorVars == <<dpc, dying>>
vars == <<free, working, created, threadVars, clientVars, destructorVars>>

ThreadPCs == {"none", "check", "block", "blocked", "func", "ready", "notify", "lock", "push", "exit"}
ClientPCs == {"out", "pick", "assign", "record", "load", "queued", "asleep", "ok"}

Init ==
  /\ free = <<>> /\ working = <<>> /\ created = <<>>
  /\ task = [w \in Threads |-> NoClient]
  /\ wpc = [w \in Threads |-> "none"]
  /\ job = [w \in Threads |-> NoClient]
  /\ stop = [w \in Threads |-> FALSE]
  /\ pc = [c \in Clients |-> "out"]
  /\ target = [c \in Clients |-> NoThread]
  /\ ready = [c \in Clients |-> FALSE]
  /\ canceled = [c \in Clients |-> FALSE]
  /\ dpc = "alive" /\ dying = 1

(* The thread holds its mMutex: between a predicate found false and the    *)
(* wait of the condition variable, and from the end of a job to the next   *)
(* predicate.                                                              *)
Holds(w) == wpc[w] \in {"block", "push"}

(* mCV.notify_one(): only a thread that already waits notices.             *)
Notified(f, w) == [f EXCEPT ![w] = IF @ = "blocked" THEN "check" ELSE @]

GotoClient(c, l) == pc' = [pc EXCEPT ![c] = l]
GotoThread(w, l) == wpc' = [wpc EXCEPT ![w] = l]

-----------------------------------------------------------------------------
(* run() begins: a new flag, a new cancel source.                          *)
Run(c) ==
  /\ dpc = "alive"
  /\ pc[c] = "out"
  /\ GotoClient(c, "pick")
  /\ ready' = [ready EXCEPT ![c] = FALSE]
  /\ canceled' = [canceled EXCEPT ![c] = FALSE]
  /\ UNCHANGED <<free, working, created, threadVars, target, destructorVars>>

(* submitJob: no free thread, so a new one is created ...                  *)
NewThread(c) ==
  /\ pc[c] = "pick"
  /\ free = <<>>
  /\ \E w \in Threads :
       /\ wpc[w] = "none"
       /\ created' = Append(created, w)
       /\ target' = [target EXCEPT ![c] = w]
       /\ GotoThread(w, "check")
  /\ GotoClient(c, "assign")
  /\ UNCHANGED <<free, working, task, job, stop, ready, canceled, destructorVars>>

\* Mutant: the thread is used but stays on the list of free threads.
FreeThreadStays(c) ==
  /\ pc[c] = "pick"
  /\ free # <<>>
  /\ target' = [target EXCEPT ![c] = Head(free)]
  /\ GotoClient(c, "assign")
  /\ UNCHANGED <<free, working, created, threadVars, ready, canceled, destructorVars>>

(* ... or the first free thread is taken ...                               *)
FreeThread(c) ==
  /\ pc[c] = "pick"
  /\ free # <<>>
  /\ target' = [target EXCEPT ![c] = Head(free)]
  /\ free' = Tail(free)
  /\ GotoClient(c, "assign")
  /\ UNCHANGED <<working, created, threadVars, ready, canceled, destructorVars>>

(* ... workOn: under the mutex of the thread ...                           *)
WorkOn(c) ==
  /\ pc[c] = "assign"
  /\ ~Holds(target[c])
  /\ task' = [task EXCEPT ![target[c]] = c]
  /\ wpc' = Notified(wpc, target[c])
  /\ GotoClient(c, "record")
  /\ UNCHANGED <<free, working, created, job, stop, target, ready, canceled, destructorVars>>

(* ... and only then the thread is put on the list of working threads.     *)
Record(c) ==
  /\ pc[c] = "record"
  /\ working' = Append(working, target[c])
  /\ target' = [target EXCEPT ![c] = NoThread]
  /\ GotoClient(c, "load")
  /\ UNCHANGED <<free, created, threadVars, ready, canceled, destructorVars>>

(* The loop on the flag: rawRun returns, and the flag of this run is       *)
(* nobody's any more, or prepares a wait ...                               *)
Return(c) ==
  /\ pc[c] = "load"
  /\ ready[c]
  /\ job' = [w \in Threads |-> IF job[w] = c THEN Gone ELSE job[w]]
  /\ GotoClient(c, "out")
  /\ UNCHANGED <<free, working, created, task, wpc, stop, target, ready, canceled, destructorVars>>

PrepareWait(c) ==
  /\ pc[c] = "load"
  /\ ~ready[c]
  /\ GotoClient(c, "queued")
  /\ UNCHANGED <<free, working, created, threadVars, target, ready, canceled, destructorVars>>

\* Mutant: the kernel does not compare the flag with the expected value.
KernelSleeps(c) ==
  /\ pc[c] = "queued"
  /\ GotoClient(c, "asleep")
  /\ UNCHANGED <<free, working, created, threadVars, target, ready, canceled, destructorVars>>

(* ... which the kernel treats when the client's thread submits it ...     *)
KernelWait(c) ==
  /\ pc[c] = "queued"
  /\ GotoClient(c, IF ready[c] THEN "ok" ELSE "asleep")
  /\ UNCHANGED <<free, working, created, threadVars, target, ready, canceled, destructorVars>>

\* Mutant: a cancelled wait ends the run although the job goes on.
CancelEndsRun(c) ==
  /\ pc[c] = "asleep"
  /\ ~canceled[c]
  /\ canceled' = [canceled EXCEPT ![c] = TRUE]
  /\ GotoClient(c, "out")
  /\ UNCHANGED <<free, working, created, threadVars, target, ready, destructorVars>>

(* ... and which a cancellation ends, once: the error is ignored, and the  *)
(* canceller of the next wait is never called.                             *)
Cancel(c) ==
  /\ pc[c] = "asleep"
  /\ ~canceled[c]
  /\ canceled' = [canceled EXCEPT ![c] = TRUE]
  /\ GotoClient(c, "ok")
  /\ UNCHANGED <<free, working, created, threadVars, target, ready, destructorVars>>

Resumed(c) ==
  /\ pc[c] = "ok"
  /\ GotoClient(c, "load")
  /\ UNCHANGED <<free, working, created, threadVars, target, ready, canceled, destructorVars>>

-----------------------------------------------------------------------------
(* startMain: the loop's condition and the predicate of the wait.  A stop  *)
(* request ends the thread, a task is moved out of mTask, and otherwise    *)
(* the thread goes to sleep, with its mutex until it sleeps.               *)
Check(w) ==
  /\ wpc[w] = "check"
  /\ IF stop[w] THEN GotoThread(w, "exit") /\ UNCHANGED <<task, job>>
     ELSE IF task[w] # NoClient
       THEN /\ job' = [job EXCEPT ![w] = task[w]]
            /\ task' = [task EXCEPT ![w] = NoClient]
            /\ GotoThread(w, "func")
       ELSE GotoThread(w, "block") /\ UNCHANGED <<task, job>>
  /\ UNCHANGED <<free, working, created, stop, clientVars, destructorVars>>

Block(w) ==
  /\ wpc[w] = "block"
  /\ GotoThread(w, "blocked")
  /\ UNCHANGED <<free, working, created, task, job, stop, clientVars, destructorVars>>

(* The user's function runs and its result, or its exception, is stored in *)
(* the coroutine frame of the client.                                      *)
Func(w) ==
  /\ wpc[w] = "func"
  /\ GotoThread(w, "ready")
  /\ UNCHANGED <<free, working, created, task, job, stop, clientVars, destructorVars>>

StoreReady(w) ==
  /\ wpc[w] = "ready"
  /\ ready' = [ready EXCEPT ![job[w]] = TRUE]
  /\ GotoThread(w, "notify")
  /\ UNCHANGED <<free, working, created, task, job, stop, pc, target, canceled, destructorVars>>

(* futex_notify_sync on the flag of the run; the job is destroyed.         *)
NotifyReady(w) ==
  /\ wpc[w] = "notify"
  /\ IF job[w] # Gone /\ pc[job[w]] = "asleep"
       THEN GotoClient(job[w], "ok") ELSE pc' = pc
  /\ job' = [job EXCEPT ![w] = NoClient]
  /\ GotoThread(w, "lock")
  /\ UNCHANGED <<free, working, created, task, stop, target, ready, canceled, destructorVars>>

(* Under its mutex the thread clears mTask, leaves the working list ...    *)
Finished(w) ==
  /\ wpc[w] = "lock"
  /\ task' = [task EXCEPT ![w] = NoClient]
  /\ working' = SelectSeq(working, LAMBDA v : v # w)
  /\ GotoThread(w, "push")
  /\ UNCHANGED <<free, created, job, stop, clientVars, destructorVars>>

(* ... joins the free list and drops the mutex.                            *)
PushFree(w) ==
  /\ wpc[w] = "push"
  /\ free' = Append(free, w)
  /\ GotoThread(w, "check")
  /\ UNCHANGED <<working, created, task, job, stop, clientVars, destructorVars>>

-----------------------------------------------------------------------------
(* ~ThreadPool, when no run() is going on: ~Thread for one thread after    *)
(* the other, without the thread's mutex: request_stop ...                 *)
Destroy ==
  /\ Destroys
  /\ dpc = "alive"
  /\ \A c \in Clients : pc[c] = "out"
  /\ dpc' = "stop"
  /\ UNCHANGED <<free, working, created, threadVars, clientVars, dying>>

RequestStop ==
  /\ dpc = "stop"
  /\ IF dying > Len(created) THEN dpc' = "dead" /\ stop' = stop
     ELSE dpc' = "notify" /\ stop' = [stop EXCEPT ![created[dying]] = TRUE]
  /\ UNCHANGED <<free, working, created, task, wpc, job, clientVars, dying>>

(* ... notify_one ...                                                      *)
NotifyStop ==
  /\ dpc = "notify"
  /\ wpc' = Notified(wpc, created[dying])
  /\ dpc' = "join"
  /\ UNCHANGED <<free, working, created, task, job, stop, clientVars, dying>>

(* ... and join.                                                           *)
Join ==
  /\ dpc = "join"
  /\ wpc[created[dying]] = "exit"
  /\ dpc' = "stop"
  /\ dying' = dying + 1
  /\ UNCHANGED <<free, working, created, threadVars, clientVars>>

ClientStep(c) ==
  \/ NewThread(c) \/ FreeThread(c) \/ WorkOn(c) \/ Record(c)
  \/ Return(c) \/ PrepareWait(c) \/ KernelWait(c) \/ Resumed(c)

ThreadStep(w) ==
  \/ Check(w) \/ Block(w) \/ Func(w) \/ StoreReady(w) \/ NotifyReady(w)
  \/ Finished(w) \/ PushFree(w)

DestructorStep == RequestStop \/ NotifyStop \/ Join

Next ==
  \/ \E c \in Clients : Run(c) \/ Cancel(c) \/ ClientStep(c)
  \/ \E w \in Threads : ThreadStep(w)
  \/ Destroy \/ DestructorStep

Spec == Init /\ [][Next]_vars

(* Every thread of the program is scheduled, a mutex is granted some time, *)
(* and the jobs end.  Nobody has to run, to cancel or to destroy.          *)
FairSpec ==
  /\ Spec
  /\ \A c \in Clients : SF_vars(ClientStep(c))
  /\ \A w \in Threads : WF_vars(ThreadStep(w))
  /\ WF_vars(DestructorStep)

-----------------------------------------------------------------------------
TypeOK ==
  /\ free \in Seq(Threads) /\ working \in Seq(Threads) /\ created \in Seq(Threads)
  /\ task \in [Threads -> Clients \cup {NoClient}]
  /\ wpc \in [Threads -> ThreadPCs]
  /\ job \in [Threads -> Clients \cup {Gone, NoClient}]
  /\ stop \in [Threads -> BOOLEAN]
  /\ pc \in [Clients -> ClientPCs]
  /\ target \in [Clients -> Threads \cup {NoThread}]
  /\ ready \in [Clients -> BOOLEAN]
  /\ canceled \in [Clients -> BOOLEAN]
  /\ dpc \in {"alive", "stop", "notify", "join", "dead"}
  /\ dying \in 1..(Len(created) + 1)

Assigned(w) == \E c \in Clients : pc[c] = "assign" /\ target[c] = w

(* A thread is on the list of free threads at most once, and then it has   *)
(* no job, nobody is about to give it one, and it is not working.          *)
FreeIsIdle ==
  \A i \in 1..Len(free) :
    /\ task[free[i]] = NoClient
    /\ wpc[free[i]] \in {"check", "block", "blocked", "exit"}
    /\ ~Assigned(free[i])
    /\ \A j \in 1..Len(free) : free[i] = free[j] => i = j

(* A job is never lost or overwritten: from workOn until the flag is set   *)
(* exactly one thread has the job of a client, in mTask or moved out of    *)
(* it, and a thread that is given a job has none.                          *)
OneThreadPerJob ==
  /\ \A c \in Clients :
       pc[c] \in {"record", "load", "queued", "asleep", "ok"} /\ ~ready[c] =>
         Cardinality({w \in Threads : task[w] = c}
                \cup {w \in Threads : job[w] = c /\ wpc[w] \in {"func", "ready"}}) = 1
  /\ \A w \in Threads : Assigned(w) => task[w] = NoClient /\ job[w] = NoClient

(* A job writes its result and its exception into the coroutine frame of   *)
(* rawRun only while that call of rawRun is waiting, also when the caller  *)
(* was cancelled.                                                          *)
ResultHasOwner ==
  \A w \in Threads : wpc[w] \in {"func", "ready"} =>
    job[w] \in Clients /\ ~ready[job[w]] /\ pc[job[w]] \notin {"out", "pick", "assign"}

(* Every run() ends once its job has been given to a thread.               *)
RunsEnd == \A c \in Clients : (pc[c] = "record") ~> (pc[c] = "out")

(* working_threads_count() is MT-safe: when no job is being submitted or   *)
(* executed, no thread is counted as working.                              *)
Quiet ==
  /\ \A c \in Clients : pc[c] = "out"
  /\ \A w \in Threads : wpc[w] \in {"none", "check", "block", "blocked"}
WorkingCount == Quiet => working = <<>>

(* ~ThreadPool returns: every thread notices the stop request.             *)
DestructorReturns == (dpc = "stop") ~> (dpc = "dead")
=============================================================================
