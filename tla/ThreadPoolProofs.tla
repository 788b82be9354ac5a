-------------------------- MODULE ThreadPoolProofs --------------------------
(***************************************************************************)
(* The theorems about ThreadPool, for any number of clients and threads.   *)
(*                                                                         *)
(* The invariant follows a job from the client that picks a thread for it  *)
(* to the thread that has executed it: at each place it says what else may *)
(* hold the thread or the job, which is nothing.                           *)
(***************************************************************************)
EXTENDS ThreadPool, FiniteSetTheorems, TLAPS

Types ==
  /\ free \in Seq(Threads)
  /\ task \in [Threads -> Clients \cup {NoClient}]
  /\ wpc \in [Threads -> ThreadPCs]
  /\ job \in [Threads -> Clients \cup {Gone, NoClient}]
  /\ stop \in [Threads -> BOOLEAN]
  /\ pc \in [Clients -> ClientPCs]
  /\ target \in [Clients -> Threads \cup {NoThread}]
  /\ ready \in [Clients -> BOOLEAN]

(* While a client is in run() the pool is not destroyed, and a thread ends *)
(* only when it is.                                                        *)
AliveInRun ==
  /\ \A c \in Clients : pc[c] # "out" => dpc = "alive"
  /\ \A w \in Threads : stop[w] => dpc # "alive"
  /\ \A w \in Threads : wpc[w] = "exit" => stop[w]

(* A free thread is on the list once, has no job, and is given to nobody.  *)
FreeRight ==
  /\ \A i, j \in 1..Len(free) : free[i] = free[j] => i = j
  /\ \A i \in 1..Len(free) :
       /\ task[free[i]] = NoClient /\ job[free[i]] = NoClient
       /\ wpc[free[i]] \in {"check", "block", "blocked", "exit"}
       /\ \A c \in Clients : pc[c] = "assign" => target[c] # free[i]

(* A thread a client has picked has no job and waits for one.              *)
AssignRight ==
  /\ \A c \in Clients : pc[c] = "assign" =>
       /\ target[c] \in Threads
       /\ task[target[c]] = NoClient /\ job[target[c]] = NoClient
       /\ wpc[target[c]] \in {"check", "block", "blocked"}
  /\ \A c, d \in Clients :
       pc[c] = "assign" /\ pc[d] = "assign" /\ target[c] = target[d] => c = d

InRun(c) == pc[c] \in {"record", "load", "queued", "asleep", "ok"}

(* A client begins with a flag that is not set.                            *)
FlagFresh == \A c \in Clients : pc[c] \in {"pick", "assign"} => ~ready[c]

(* A task a thread has not taken yet wakes it and is waited for.           *)
TaskRight ==
  \A w \in Threads : task[w] # NoClient =>
    wpc[w] = "check" /\ InRun(task[w]) /\ ~ready[task[w]]

(* So is a job that is executed; when its flag is set the client may go.   *)
JobRight ==
  \A w \in Threads :
    /\ job[w] # NoClient <=> wpc[w] \in {"func", "ready", "notify"}
    /\ job[w] \in Clients => InRun(job[w])
    /\ wpc[w] \in {"func", "ready"} => job[w] \in Clients /\ ~ready[job[w]]

Carries(w, c) == task[w] = c \/ (job[w] = c /\ wpc[w] \in {"func", "ready"})

OneCarrier ==
  \A c \in Clients :
    /\ \A v, w \in Threads : Carries(v, c) /\ Carries(w, c) => v = w
    /\ InRun(c) /\ ~ready[c] => \E w \in Threads : Carries(w, c)

IndInv ==
  /\ Types /\ AliveInRun /\ FreeRight /\ AssignRight
  /\ FlagFresh /\ TaskRight /\ JobRight /\ OneCarrier

USE PoolAssumption DEF ClientPCs, ThreadPCs

(* Waking a thread that waits moves it to its predicate and nothing else.  *)
LEMMA NotifiedIs ==
  ASSUME NEW f \in [Threads -> ThreadPCs], NEW w
  PROVE  /\ Notified(f, w) \in [Threads -> ThreadPCs]
         /\ \A v \in Threads :
              Notified(f, w)[v] = IF v = w /\ f[v] = "blocked" THEN "check" ELSE f[v]
<1>1. CASE w \in Threads BY <1>1 DEF Notified
<1>2. CASE w \notin Threads BY <1>2 DEF Notified
<1> QED BY <1>1, <1>2

(* run() gives the job a flag that is not set.                         *)
LEMMA RunKeeps ==
  ASSUME IndInv, NEW c \in Clients, Run(c)
  PROVE  IndInv'
<1> USE DEF IndInv, Run, GotoClient, threadVars, destructorVars
<1>1. Types' BY DEF Types
<1>2. AliveInRun' BY DEF AliveInRun
<1>3. FreeRight' BY DEF FreeRight
<1>4. AssignRight' BY DEF AssignRight
<1>5. FlagFresh' BY DEF FlagFresh, Types
<1>6. TaskRight' BY DEF TaskRight, InRun
<1>7. JobRight' BY DEF JobRight, InRun
<1>8. OneCarrier' BY DEF OneCarrier, Carries, InRun
<1> QED BY <1>1, <1>2, <1>3, <1>4, <1>5, <1>6, <1>7, <1>8

(* A new thread has no job, so the client that picks it is its only one.   *)
LEMMA NewThreadKeeps ==
  ASSUME IndInv, NEW c \in Clients, NewThread(c)
  PROVE  IndInv'
<1> USE DEF IndInv, NewThread, GotoClient, GotoThread, destructorVars
<1>1. Types' BY DEF Types
<1>2. AliveInRun' BY DEF AliveInRun
<1>3. FreeRight' BY DEF FreeRight
<1>4. AssignRight'
  <2>1. PICK w \in Threads :
          /\ wpc[w] = "none" /\ pc[c] = "pick"
          /\ target' = [target EXCEPT ![c] = w] /\ pc' = [pc EXCEPT ![c] = "assign"]
          /\ wpc' = [wpc EXCEPT ![w] = "check"] /\ task' = task /\ job' = job
    OBVIOUS
  <2>2. task[w] = NoClient /\ job[w] = NoClient
    BY <2>1 DEF Types, TaskRight, JobRight
  <2>3. \A d \in Clients : pc[d] = "assign" => target[d] \in Threads /\ target[d] # w
    BY <2>1 DEF AssignRight
  <2>4. /\ \A d \in Clients : d # c => pc'[d] = pc[d] /\ target'[d] = target[d]
        /\ target'[c] = w /\ wpc'[w] = "check"
        /\ \A v \in Threads : v # w => wpc'[v] = wpc[v]
    BY <2>1 DEF Types
  <2> HIDE DEF NewThread
  <2> QED BY <2>1, <2>2, <2>3, <2>4 DEF AssignRight
<1>5. FlagFresh' BY DEF FlagFresh
<1>6. TaskRight' BY DEF TaskRight, InRun
<1>7. JobRight' BY DEF JobRight, InRun
<1>8. OneCarrier' BY DEF OneCarrier, Carries, InRun
<1> QED BY <1>1, <1>2, <1>3, <1>4, <1>5, <1>6, <1>7, <1>8

(* A thread taken from the free list has no job and one client.            *)
LEMMA FreeThreadKeeps ==
  ASSUME IndInv, NEW c \in Clients, FreeThread(c)
  PROVE  IndInv'
<1> USE DEF IndInv, FreeThread, GotoClient, threadVars, destructorVars
<1>1. Types' BY DEF Types
<1>2. AliveInRun' BY DEF AliveInRun
<1>3. FreeRight' BY DEF FreeRight, Types
<1>4. AssignRight' BY DEF AssignRight, Types, FreeRight, AliveInRun
<1>5. FlagFresh' BY DEF FlagFresh
<1>6. TaskRight' BY DEF TaskRight, InRun
<1>7. JobRight' BY DEF JobRight, InRun
<1>8. OneCarrier' BY DEF OneCarrier, Carries, InRun
<1> QED BY <1>1, <1>2, <1>3, <1>4, <1>5, <1>6, <1>7, <1>8

(* workOn: the thread was idle, so the job overwrites none.                *)
LEMMA WorkOnKeeps ==
  ASSUME IndInv, NEW c \in Clients, WorkOn(c)
  PROVE  IndInv'
<1> USE DEF IndInv, WorkOn, GotoClient, Notified, Holds, destructorVars
<1>1. Types' BY DEF Types, AssignRight
<1>2. AliveInRun' BY DEF AliveInRun
<1>3. FreeRight' BY DEF FreeRight
<1>4. AssignRight' BY DEF AssignRight, Types
<1>5. FlagFresh' BY DEF FlagFresh
<1>6. TaskRight' BY DEF TaskRight, InRun, Types, FlagFresh, AssignRight
<1>7. JobRight' BY DEF JobRight, InRun
<1>8. OneCarrier'
  BY DEF OneCarrier, Carries, InRun, Types, TaskRight, JobRight, FlagFresh, AssignRight
<1> QED BY <1>1, <1>2, <1>3, <1>4, <1>5, <1>6, <1>7, <1>8

LEMMA RecordKeeps ==
  ASSUME IndInv, NEW c \in Clients, Record(c)
  PROVE  IndInv'
<1> USE DEF IndInv, Record, GotoClient, threadVars, destructorVars
<1>1. Types' BY DEF Types
<1>2. AliveInRun' BY DEF AliveInRun
<1>3. FreeRight' BY DEF FreeRight
<1>4. AssignRight' BY DEF AssignRight
<1>5. FlagFresh' BY DEF FlagFresh
<1>6. TaskRight' BY DEF TaskRight, InRun
<1>7. JobRight' BY DEF JobRight, InRun
<1>8. OneCarrier' BY DEF OneCarrier, Carries, InRun
<1> QED BY <1>1, <1>2, <1>3, <1>4, <1>5, <1>6, <1>7, <1>8

(* rawRun returns when its flag is set: the thread only notifies.          *)
LEMMA ReturnKeeps ==
  ASSUME IndInv, NEW c \in Clients, Return(c)
  PROVE  IndInv'
<1> USE DEF IndInv, Return, GotoClient, destructorVars
<1>1. Types' BY DEF Types
<1>2. AliveInRun' BY DEF AliveInRun
<1>3. FreeRight' BY DEF FreeRight, Types
<1>4. AssignRight' BY DEF AssignRight
<1>5. FlagFresh' BY DEF FlagFresh
<1>6. TaskRight' BY DEF TaskRight, InRun
<1>7. JobRight' BY DEF JobRight, InRun
<1>8. OneCarrier' BY DEF OneCarrier, Carries, InRun
<1> QED BY <1>1, <1>2, <1>3, <1>4, <1>5, <1>6, <1>7, <1>8

LEMMA PrepareWaitKeeps ==
  ASSUME IndInv, NEW c \in Clients, PrepareWait(c)
  PROVE  IndInv'
<1> USE DEF IndInv, PrepareWait, GotoClient, threadVars, destructorVars
<1>1. Types' BY DEF Types
<1>2. AliveInRun' BY DEF AliveInRun
<1>3. FreeRight' BY DEF FreeRight
<1>4. AssignRight' BY DEF AssignRight
<1>5. FlagFresh' BY DEF FlagFresh
<1>6. TaskRight' BY DEF TaskRight, InRun
<1>7. JobRight' BY DEF JobRight, InRun
<1>8. OneCarrier' BY DEF OneCarrier, Carries, InRun
<1> QED BY <1>1, <1>2, <1>3, <1>4, <1>5, <1>6, <1>7, <1>8

LEMMA KernelWaitKeeps ==
  ASSUME IndInv, NEW c \in Clients, KernelWait(c)
  PROVE  IndInv'
<1> USE DEF IndInv, KernelWait, GotoClient, threadVars, destructorVars
<1>1. Types' BY DEF Types
<1>2. AliveInRun' BY DEF AliveInRun
<1>3. FreeRight' BY DEF FreeRight
<1>4. AssignRight' BY DEF AssignRight
<1>5. FlagFresh' BY DEF FlagFresh
<1>6. TaskRight' BY DEF TaskRight, InRun
<1>7. JobRight' BY DEF JobRight, InRun
<1>8. OneCarrier' BY DEF OneCarrier, Carries, InRun
<1> QED BY <1>1, <1>2, <1>3, <1>4, <1>5, <1>6, <1>7, <1>8

LEMMA ResumedKeeps ==
  ASSUME IndInv, NEW c \in Clients, Resumed(c)
  PROVE  IndInv'
<1> USE DEF IndInv, Resumed, GotoClient, threadVars, destructorVars
<1>1. Types' BY DEF Types
<1>2. AliveInRun' BY DEF AliveInRun
<1>3. FreeRight' BY DEF FreeRight
<1>4. AssignRight' BY DEF AssignRight
<1>5. FlagFresh' BY DEF FlagFresh
<1>6. TaskRight' BY DEF TaskRight, InRun
<1>7. JobRight' BY DEF JobRight, InRun
<1>8. OneCarrier' BY DEF OneCarrier, Carries, InRun
<1> QED BY <1>1, <1>2, <1>3, <1>4, <1>5, <1>6, <1>7, <1>8

(* A cancelled wait leaves the client in its loop.                         *)
LEMMA CancelKeeps ==
  ASSUME IndInv, NEW c \in Clients, Cancel(c)
  PROVE  IndInv'
<1> USE DEF IndInv, Cancel, GotoClient, threadVars, destructorVars
<1>1. Types' BY DEF Types
<1>2. AliveInRun' BY DEF AliveInRun
<1>3. FreeRight' BY DEF FreeRight
<1>4. AssignRight' BY DEF AssignRight
<1>5. FlagFresh' BY DEF FlagFresh
<1>6. TaskRight' BY DEF TaskRight, InRun
<1>7. JobRight' BY DEF JobRight, InRun
<1>8. OneCarrier' BY DEF OneCarrier, Carries, InRun
<1> QED BY <1>1, <1>2, <1>3, <1>4, <1>5, <1>6, <1>7, <1>8

-----------------------------------------------------------------------------
(* The thread moves the task out of mTask; no stop is requested yet.       *)
LEMMA CheckKeeps ==
  ASSUME IndInv, NEW w \in Threads, Check(w)
  PROVE  IndInv'
<1> USE DEF IndInv, Check, GotoThread, clientVars, destructorVars
<1>1. Types' BY DEF Types
<1>2. AliveInRun' BY DEF AliveInRun, Types
<1>3. FreeRight' BY DEF FreeRight, Types
<1>4. AssignRight' BY DEF AssignRight, Types, AliveInRun
<1>5. FlagFresh' BY DEF FlagFresh
<1>6. TaskRight'
  <2> SUFFICES ASSUME NEW v \in Threads, task'[v] # NoClient
               PROVE  wpc'[v] = "check" /\ InRun(task[v]) /\ ~ready[task[v]] /\ task'[v] = task[v]
    BY DEF TaskRight, InRun
  <2>1. task[v] # NoClient /\ task'[v] = task[v] BY DEF Types
  <2>2. wpc[v] = "check" /\ InRun(task[v]) /\ ~ready[task[v]] BY <2>1 DEF TaskRight
  <2>3. v # w
    <3>1. ~stop[w] BY <2>1, <2>2 DEF AliveInRun, InRun, Types
    <3> QED BY <2>1, <3>1 DEF Types
  <2> QED BY <2>1, <2>2, <2>3 DEF Types
<1>7. JobRight' BY DEF JobRight, InRun, Types, TaskRight
<1>8. OneCarrier' BY DEF OneCarrier, Carries, InRun, Types, JobRight
<1> QED BY <1>1, <1>2, <1>3, <1>4, <1>5, <1>6, <1>7, <1>8

LEMMA BlockKeeps ==
  ASSUME IndInv, NEW w \in Threads, Block(w)
  PROVE  IndInv'
<1> USE DEF IndInv, Block, GotoThread, clientVars, destructorVars
<1>1. Types' BY DEF Types
<1>2. AliveInRun' BY DEF AliveInRun
<1>3. FreeRight' BY DEF FreeRight
<1>4. AssignRight' BY DEF AssignRight
<1>5. FlagFresh' BY DEF FlagFresh
<1>6. TaskRight' BY DEF TaskRight, InRun
<1>7. JobRight' BY DEF JobRight, InRun
<1>8. OneCarrier' BY DEF OneCarrier, Carries, InRun
<1> QED BY <1>1, <1>2, <1>3, <1>4, <1>5, <1>6, <1>7, <1>8

LEMMA FuncKeeps ==
  ASSUME IndInv, NEW w \in Threads, Func(w)
  PROVE  IndInv'
<1> USE DEF IndInv, Func, GotoThread, clientVars, destructorVars
<1>1. Types' BY DEF Types
<1>2. AliveInRun' BY DEF AliveInRun
<1>3. FreeRight' BY DEF FreeRight
<1>4. AssignRight' BY DEF AssignRight
<1>5. FlagFresh' BY DEF FlagFresh
<1>6. TaskRight' BY DEF TaskRight, InRun
<1>7. JobRight' BY DEF JobRight, InRun
<1>8. OneCarrier' BY DEF OneCarrier, Carries, InRun
<1> QED BY <1>1, <1>2, <1>3, <1>4, <1>5, <1>6, <1>7, <1>8

(* The flag is that of the only thread with the job.                       *)
LEMMA StoreReadyKeeps ==
  ASSUME IndInv, NEW w \in Threads, StoreReady(w)
  PROVE  IndInv'
<1> USE DEF IndInv, StoreReady, GotoThread, destructorVars
<1>1. Types' BY DEF Types, JobRight
<1>2. AliveInRun' BY DEF AliveInRun
<1>3. FreeRight' BY DEF FreeRight
<1>4. AssignRight' BY DEF AssignRight
<1>5. FlagFresh' BY DEF FlagFresh, Types, JobRight, InRun
<1>6. TaskRight' BY DEF TaskRight, InRun, Types, OneCarrier, Carries
<1>7. JobRight' BY DEF JobRight, InRun, Types, OneCarrier, Carries
<1>8. OneCarrier' BY DEF OneCarrier, Carries, InRun, Types
<1> QED BY <1>1, <1>2, <1>3, <1>4, <1>5, <1>6, <1>7, <1>8

LEMMA NotifyReadyKeeps ==
  ASSUME IndInv, NEW w \in Threads, NotifyReady(w)
  PROVE  IndInv'
<1> USE DEF IndInv, NotifyReady, GotoClient, GotoThread, destructorVars
<1>1. Types' BY DEF Types
<1>2. AliveInRun' BY DEF AliveInRun, Types
<1>3. FreeRight' BY DEF FreeRight, Types
<1>4. AssignRight' BY DEF AssignRight, Types
<1>5. FlagFresh' BY DEF FlagFresh, Types
<1>6. TaskRight' BY DEF TaskRight, InRun, Types
<1>7. JobRight' BY DEF JobRight, InRun, Types
<1>8. OneCarrier' BY DEF OneCarrier, Carries, InRun, Types
<1> QED BY <1>1, <1>2, <1>3, <1>4, <1>5, <1>6, <1>7, <1>8

(* The thread clears mTask, in which there is nothing any more.            *)
LEMMA FinishedKeeps ==
  ASSUME IndInv, NEW w \in Threads, Finished(w)
  PROVE  IndInv'
<1> USE DEF IndInv, Finished, GotoThread, clientVars, destructorVars
<1>1. Types' BY DEF Types
<1>2. AliveInRun' BY DEF AliveInRun
<1>3. FreeRight' BY DEF FreeRight
<1>4. AssignRight' BY DEF AssignRight
<1>5. FlagFresh' BY DEF FlagFresh
<1>6. TaskRight' BY DEF TaskRight, InRun
<1>7. JobRight' BY DEF JobRight, InRun
<1>8. OneCarrier' BY DEF OneCarrier, Carries, InRun, Types, TaskRight
<1> QED BY <1>1, <1>2, <1>3, <1>4, <1>5, <1>6, <1>7, <1>8

(* A thread joins the free list with no job, and was not on it.            *)
LEMMA PushFreeKeeps ==
  ASSUME IndInv, NEW w \in Threads, PushFree(w)
  PROVE  IndInv'
<1> USE DEF IndInv, PushFree, GotoThread, clientVars, destructorVars
<1>1. Types' BY DEF Types
<1>2. AliveInRun' BY DEF AliveInRun
<1>3. FreeRight'
  <2>1. \A i \in 1..Len(free) : free[i] # w BY DEF FreeRight
  <2>2. job[w] = NoClient /\ task[w] = NoClient BY DEF JobRight, TaskRight
  <2>3. \A c \in Clients : pc[c] = "assign" => target[c] # w BY DEF AssignRight
  <2>4. Len(free') = Len(free) + 1 /\ Len(free) \in Nat BY DEF Types
  <2>5. \A i \in 1..Len(free') :
          free'[i] = IF i \in 1..Len(free) THEN free[i] ELSE w
    BY <2>4 DEF Types
  <2>6. \A i \in 1..Len(free') : i \notin 1..Len(free) => i = Len(free) + 1
    BY <2>4
  <2>7. \A v \in Threads : wpc'[v] = IF v = w THEN "check" ELSE wpc[v] BY DEF Types
  <2>8. \A i \in 1..Len(free) : free[i] \in Threads BY DEF Types
  <2>9. \A i, j \in 1..Len(free') : free'[i] = free'[j] => i = j
    BY <2>1, <2>5, <2>6 DEF FreeRight
  <2>10. ASSUME NEW i \in 1..Len(free')
         PROVE  /\ task[free'[i]] = NoClient /\ job[free'[i]] = NoClient
                /\ wpc'[free'[i]] \in {"check", "block", "blocked", "exit"}
                /\ \A c \in Clients : pc[c] = "assign" => target[c] # free'[i]
    <3>1. CASE i \in 1..Len(free)
      BY <2>1, <2>5, <2>7, <2>8, <3>1 DEF FreeRight
    <3>2. CASE i \notin 1..Len(free)
      BY <2>2, <2>3, <2>5, <2>7, <3>2
    <3> QED BY <3>1, <3>2
  <2> QED BY <2>9, <2>10 DEF FreeRight
<1>4. AssignRight' BY DEF AssignRight
<1>5. FlagFresh' BY DEF FlagFresh
<1>6. TaskRight' BY DEF TaskRight, InRun
<1>7. JobRight' BY DEF JobRight, InRun
<1>8. OneCarrier' BY DEF OneCarrier, Carries, InRun
<1> QED BY <1>1, <1>2, <1>3, <1>4, <1>5, <1>6, <1>7, <1>8

-----------------------------------------------------------------------------
LEMMA DestroyKeeps ==
  ASSUME IndInv, Destroy
  PROVE  IndInv'
<1> USE DEF IndInv, Destroy, threadVars, clientVars
<1>1. Types' BY DEF Types
<1>2. AliveInRun' BY DEF AliveInRun
<1>3. FreeRight' BY DEF FreeRight
<1>4. AssignRight' BY DEF AssignRight
<1>5. FlagFresh' BY DEF FlagFresh
<1>6. TaskRight' BY DEF TaskRight, InRun
<1>7. JobRight' BY DEF JobRight, InRun
<1>8. OneCarrier' BY DEF OneCarrier, Carries, InRun
<1> QED BY <1>1, <1>2, <1>3, <1>4, <1>5, <1>6, <1>7, <1>8

LEMMA RequestStopKeeps ==
  ASSUME IndInv, RequestStop
  PROVE  IndInv'
<1> USE DEF IndInv, RequestStop, clientVars
<1>1. Types'
  <2>1. stop' \in [Threads -> BOOLEAN]
    <3>1. CASE dying > Len(created) BY <3>1 DEF Types
    <3>2. CASE ~(dying > Len(created)) BY <3>2 DEF Types
    <3> QED BY <3>1, <3>2
  <2> QED BY <2>1 DEF Types
<1>2. AliveInRun' BY DEF AliveInRun, Types
<1>3. FreeRight' BY DEF FreeRight
<1>4. AssignRight' BY DEF AssignRight
<1>5. FlagFresh' BY DEF FlagFresh
<1>6. TaskRight' BY DEF TaskRight, InRun
<1>7. JobRight' BY DEF JobRight, InRun
<1>8. OneCarrier' BY DEF OneCarrier, Carries, InRun
<1> QED BY <1>1, <1>2, <1>3, <1>4, <1>5, <1>6, <1>7, <1>8

LEMMA NotifyStopKeeps ==
  ASSUME IndInv, NotifyStop
  PROVE  IndInv'
<1> USE DEF IndInv, NotifyStop, Notified, clientVars
<1>1. Types'
  <2>1. wpc' \in [Threads -> ThreadPCs] BY NotifiedIs DEF Types
  <2> QED BY <2>1 DEF Types
<1>2. AliveInRun' BY DEF AliveInRun
<1>3. FreeRight' BY DEF FreeRight
<1>4. AssignRight' BY DEF AssignRight
<1>5. FlagFresh' BY DEF FlagFresh
<1>6. TaskRight' BY DEF TaskRight, InRun
<1>7. JobRight' BY DEF JobRight, InRun
<1>8. OneCarrier' BY DEF OneCarrier, Carries, InRun
<1> QED BY <1>1, <1>2, <1>3, <1>4, <1>5, <1>6, <1>7, <1>8

LEMMA JoinKeeps ==
  ASSUME IndInv, Join
  PROVE  IndInv'
<1> USE DEF IndInv, Join, threadVars, clientVars
<1>1. Types' BY DEF Types
<1>2. AliveInRun' BY DEF AliveInRun
<1>3. FreeRight' BY DEF FreeRight
<1>4. AssignRight' BY DEF AssignRight
<1>5. FlagFresh' BY DEF FlagFresh
<1>6. TaskRight' BY DEF TaskRight, InRun
<1>7. JobRight' BY DEF JobRight, InRun
<1>8. OneCarrier' BY DEF OneCarrier, Carries, InRun
<1> QED BY <1>1, <1>2, <1>3, <1>4, <1>5, <1>6, <1>7, <1>8

-----------------------------------------------------------------------------
LEMMA InitInd == Init => IndInv
<1> SUFFICES ASSUME Init PROVE IndInv OBVIOUS
<1> USE DEF Init
<1>1. Types BY DEF Types
<1>2. AliveInRun BY DEF AliveInRun
<1>3. FreeRight /\ AssignRight
  <2>1. \A c \in Clients : pc[c] # "assign" OBVIOUS
  <2>2. Len(free) = 0 OBVIOUS
  <2> QED BY <2>1, <2>2 DEF FreeRight, AssignRight
<1>4. FlagFresh BY DEF FlagFresh
<1>5. TaskRight BY DEF TaskRight
<1>6. JobRight BY DEF JobRight
<1>7. OneCarrier BY DEF OneCarrier, Carries, InRun
<1> QED BY <1>1, <1>2, <1>3, <1>4, <1>5, <1>6, <1>7 DEF IndInv

LEMMA StutterKeeps == ASSUME IndInv, UNCHANGED vars PROVE IndInv'
BY DEF vars, threadVars, clientVars, destructorVars, IndInv, Types, AliveInRun, FreeRight,
       AssignRight, FlagFresh, TaskRight, JobRight, OneCarrier, InRun, Carries

LEMMA StepInd == IndInv /\ [Next]_vars => IndInv'
<1> SUFFICES ASSUME IndInv, [Next]_vars PROVE IndInv' OBVIOUS
<1>1. ASSUME NEW c \in Clients, Run(c) \/ Cancel(c) \/ ClientStep(c) PROVE IndInv'
  BY <1>1, RunKeeps, CancelKeeps, NewThreadKeeps, FreeThreadKeeps, WorkOnKeeps, RecordKeeps,
     ReturnKeeps, PrepareWaitKeeps, KernelWaitKeeps, ResumedKeeps DEF ClientStep
<1>2. ASSUME NEW w \in Threads, ThreadStep(w) PROVE IndInv'
  BY <1>2, CheckKeeps, BlockKeeps, FuncKeeps, StoreReadyKeeps, NotifyReadyKeeps, FinishedKeeps,
     PushFreeKeeps DEF ThreadStep
<1>3. CASE Destroy BY <1>3, DestroyKeeps
<1>4. CASE DestructorStep
  BY <1>4, RequestStopKeeps, NotifyStopKeeps, JoinKeeps DEF DestructorStep
<1>5. CASE UNCHANGED vars BY <1>5, StutterKeeps
<1> QED BY <1>1, <1>2, <1>3, <1>4, <1>5 DEF Next

LEMMA Inductive == Spec => []IndInv
BY InitInd, StepInd, PTL DEF Spec

-----------------------------------------------------------------------------
(* rawRun, workOn and startMain: a submitted job that has not set its flag *)
(* is with one thread, and no job is given to a thread that has one.       *)
THEOREM OneThread == Spec => []OneThreadPerJob
<1>1. IndInv => OneThreadPerJob
  <2> SUFFICES ASSUME IndInv PROVE OneThreadPerJob OBVIOUS
  <2> DEFINE With(c) == {w \in Threads : task[w] = c}
               \cup {w \in Threads : job[w] = c /\ wpc[w] \in {"func", "ready"}}
  <2>1. ASSUME NEW c \in Clients, InRun(c), ~ready[c] PROVE Cardinality(With(c)) = 1
    <3>1. PICK w \in Threads : Carries(w, c) BY <2>1 DEF IndInv, OneCarrier
    <3>2. \A v \in Threads : Carries(v, c) => v = w BY <3>1 DEF IndInv, OneCarrier
    <3>3. With(c) = {w} BY <3>1, <3>2 DEF Carries
    <3> QED BY <3>3, FS_Singleton
  <2>2. ASSUME NEW w \in Threads, Assigned(w) PROVE task[w] = NoClient /\ job[w] = NoClient
    BY <2>2 DEF Assigned, IndInv, AssignRight
  <2> QED BY <2>1, <2>2 DEF OneThreadPerJob, InRun
<1> QED BY <1>1, Inductive, PTL

(* The job that stores its result in the frame of rawRun: that call has    *)
(* not returned, whether its wait was cancelled or not.                    *)
THEOREM ResultOwned == Spec => []ResultHasOwner
<1>1. IndInv => ResultHasOwner
  BY DEF IndInv, JobRight, InRun, ResultHasOwner
<1> QED BY <1>1, Inductive, PTL

(* submitJob and startMain: what is on the list of free threads is idle.   *)
THEOREM FreeIdle == Spec => []FreeIsIdle
<1>1. IndInv => FreeIsIdle
  BY DEF IndInv, FreeRight, FreeIsIdle, Assigned
<1> QED BY <1>1, Inductive, PTL
=============================================================================
