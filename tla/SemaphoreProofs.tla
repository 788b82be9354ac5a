--------------------------- MODULE SemaphoreProofs ---------------------------
(***************************************************************************)
(* Proofs that the counter of a Semaphore stays within its bounds, for any *)
(* number of tasks and threads and with spurious failures of the exchange  *)
(* (there the loop of acquire() and release() may take none or several; it *)
(* still takes none that is not there), and that a Semaphore whose users   *)
(* share a thread implements the abstract one.                             *)
(***************************************************************************)
EXTENDS Semaphore, FutexProofs

(* An exchange is tried only with a count the inner loop has let pass.     *)
Passed == \A t \in Tasks : pc[t] \in {"cas", "again"} => count[t] # Blocked(t)

(* It holds at the start, with the types, ...                              *)
LEMMA InitBounds == Init => TypeOK /\ Passed
  <1> SUFFICES ASSUME Init PROVE TypeOK /\ Passed
    OBVIOUS
  <1>1. FutexTypeOK(0..MaxCount)
    BY SemaphoreAssumption, FutexInitType DEF Init
  <1> QED BY <1>1, SemaphoreAssumption DEF Init, TypeOK, PCs, Passed

(* What an exchange stores when it succeeds is within the bounds.          *)
LEMMA WantedType ==
  ASSUME TypeOK, Passed, NEW t \in Tasks, pc[t] \in {"cas", "again"}
  PROVE  Wanted(t) \in 0..MaxCount
  <1>1. dir[t] \in {"acquire", "release"} /\ count[t] \in 0..MaxCount
    BY DEF TypeOK
  <1>2. count[t] # Blocked(t)
    BY DEF Passed
  <1> QED BY <1>1, <1>2, SemaphoreAssumption DEF Wanted, Blocked

(* ... and every step keeps both.                                          *)
LEMMA NextBounds == TypeOK /\ Passed /\ [Next]_vars => TypeOK' /\ Passed'
  <1> SUFFICES ASSUME TypeOK, Passed, [Next]_vars PROVE TypeOK' /\ Passed'
    OBVIOUS
  <1>a. /\ FutexTypeOK(0..MaxCount) /\ word \in 0..MaxCount
        /\ pc \in [Tasks -> PCs]
        /\ dir \in [Tasks -> {"acquire", "release"}]
        /\ count \in [Tasks -> 0..MaxCount]
        /\ 0 \in 0..MaxCount /\ InitialCount \in 0..MaxCount
    BY SemaphoreAssumption DEF TypeOK, FutexTypeOK
  <1>b. \A t \in Tasks : OwnMask(t) \in SUBSET Bits /\ PeerMask(t) \in SUBSET Bits
    BY SemaphoreAssumption DEF OwnMask, PeerMask, kAcquireMask, kReleaseMask
  <1>1. ASSUME NEW t \in Tasks, NEW d \in {"acquire", "release"}, Call(t, d)
        PROVE  TypeOK' /\ Passed'
    <2>1. FutexTypeOK(0..MaxCount)'
      BY <1>1, <1>a DEF Call, FreshToken, FutexTypeOK
    <2>2. TypeOK'
      BY <1>1, <1>a, <2>1 DEF Call, Goto, PCs, TypeOK
    <2> QED BY <1>1, <1>a, <2>2 DEF Call, Goto, Passed, Blocked
  <1>2. ASSUME NEW t \in Tasks, Test(t) PROVE TypeOK' /\ Passed'
    <2>1. FutexTypeOK(0..MaxCount)'
      BY <1>2, <1>a DEF Test, futexVars, FutexTypeOK
    <2>2. TypeOK'
      BY <1>2, <1>a, <2>1 DEF Test, Goto, PCs, TypeOK
    <2> QED BY <1>2, <1>a, <2>2 DEF Test, Goto, Passed, Blocked
  <1>3. ASSUME NEW t \in Tasks, Sleep(t) PROVE TypeOK' /\ Passed'
    <2>1. FutexTypeOK(0..MaxCount)'
      BY <1>3, <1>a, <1>b, FutexWaitType DEF Sleep
    <2>2. TypeOK'
      BY <1>3, <1>a, <2>1 DEF Sleep, Goto, PCs, TypeOK
    <2> QED BY <1>3, <1>a, <2>2 DEF Sleep, Goto, Passed, Blocked
  <1>4. ASSUME NEW t \in Tasks, Wakeup(t) PROVE TypeOK' /\ Passed'
    <2>1. FutexTypeOK(0..MaxCount)'
      BY <1>4, <1>a, FutexResumeType DEF Wakeup
    <2>2. TypeOK'
      BY <1>4, <1>a, <2>1 DEF Wakeup, Goto, PCs, TypeOK
    <2> QED BY <1>4, <1>a, <2>2 DEF Wakeup, Goto, Passed, Blocked
  <1>5. ASSUME NEW t \in Tasks, Reload(t) PROVE TypeOK' /\ Passed'
    <2>1. FutexTypeOK(0..MaxCount)'
      BY <1>5, <1>a DEF Reload, futexVars, FutexTypeOK
    <2>2. TypeOK'
      BY <1>5, <1>a, <2>1 DEF Reload, Goto, PCs, TypeOK
    <2> QED BY <1>5, <1>a, <2>2 DEF Reload, Goto, Passed, Blocked
  <1>6. ASSUME NEW t \in Tasks, Exchange(t) PROVE TypeOK' /\ Passed'
    <2>1. word' \in 0..MaxCount
      BY <1>6, <1>a, WantedType DEF Exchange
    <2>2. FutexTypeOK(0..MaxCount)'
      BY <1>6, <1>a, <2>1 DEF Exchange, FutexTypeOK
    <2>3. TypeOK'
      BY <1>6, <1>a, <2>2 DEF Exchange, Goto, PCs, TypeOK
    <2> QED BY <1>6, <1>a, <2>3 DEF Exchange, Goto, Passed, Blocked
  <1>7. ASSUME NEW t \in Tasks, Notify(t) PROVE TypeOK' /\ Passed'
    <2>1. FutexTypeOK(0..MaxCount)'
      BY <1>7, <1>a, <1>b, FutexNotifyType DEF Notify
    <2>2. TypeOK'
      BY <1>7, <1>a, <2>1 DEF Notify, Goto, PCs, TypeOK
    <2> QED BY <1>7, <1>a, <2>2 DEF Notify, Goto, Passed, Blocked
  <1>8. ASSUME NEW t \in Tasks, Cancel(t) PROVE TypeOK' /\ Passed'
    <2>1. FutexTypeOK(0..MaxCount)'
      BY <1>8, <1>a, FutexCancelType DEF Cancel
    <2> QED BY <1>8, <1>a, <2>1 DEF Cancel, TypeOK, Passed, Blocked
  <1>9. ASSUME NEW c \in Contexts, Submit(c) PROVE TypeOK' /\ Passed'
    <2>1. FutexTypeOK(0..MaxCount)'
      BY <1>9, <1>a, FutexSubmitType DEF Submit
    <2> QED BY <1>9, <1>a, <2>1 DEF Submit, TypeOK, Passed, Blocked
  <1>10. CASE UNCHANGED vars
    BY <1>10, <1>a DEF vars, futexVars, TypeOK, FutexTypeOK, Passed, Blocked
  <1> QED
    BY <1>1, <1>2, <1>3, <1>4, <1>5, <1>6, <1>7, <1>8, <1>9, <1>10 DEF Next, TaskStep

(* The counter of a Semaphore never leaves 0..MaxCount, and everything     *)
(* else has its type, on any number of threads.                            *)
THEOREM WithinBounds == Spec => []TypeOK
  <1> QED BY InitBounds, NextBounds, PTL DEF Spec
-----------------------------------------------------------------------------
(* The users of the semaphore are coroutines of one thread, and the        *)
(* exchange fails only when the counter is another one.                    *)
OneThread == \A t, u \in Tasks : Home[t] = Home[u]
StrongExchange == ~Spurious

(* Nobody else runs between the load of the counter and the end of the     *)
(* call, so the counter is the one that was loaded until the exchange has  *)
(* succeeded, and not that one when it is tried again.                     *)
Sole == \A t, u \in Tasks : Running(t) /\ Running(u) => t = u

Fresh ==
  \A t \in Tasks :
    /\ pc[t] \in {"test", "cas"} => count[t] = word
    /\ pc[t] = "again" => count[t] # word

ThreadInv == TypeOK /\ Passed /\ Sole /\ Fresh

LEMMA InitThread == Init => ThreadInv
  <1> SUFFICES ASSUME Init PROVE Sole /\ Fresh
    BY InitBounds DEF ThreadInv
  <1> QED BY DEF Init, Sole, Fresh, Running

(* Whoever begins to run runs alone.                                       *)
LEMMA NextSole ==
  ASSUME OneThread, TypeOK, Sole, [Next]_vars
  PROVE  Sole'
  <1>1. pc \in [Tasks -> PCs]
    BY DEF TypeOK
  <1>2. ASSUME NEW t \in Tasks, pc' = [pc EXCEPT ![t] = pc'[t]], Running(t) \/ Turn(t)
        PROVE  Sole'
    <2>1. \A u \in Tasks \ {t} : ~Running(u) /\ pc'[u] = pc[u]
      BY <1>1, <1>2 DEF OneThread, Sole, Turn
    <2> QED BY <2>1 DEF Sole, Running
  <1>3. ASSUME NEW t \in Tasks, NEW d \in {"acquire", "release"}, Call(t, d)
        PROVE  Sole'
    BY <1>1, <1>2, <1>3 DEF Call, Goto
  <1>4. ASSUME NEW t \in Tasks, Wakeup(t) PROVE Sole'
    <2>1. Turn(t) /\ \E l : Goto(t, l)
      BY <1>4 DEF Wakeup
    <2> QED BY <1>1, <1>2, <2>1 DEF Goto
  <1>5. ASSUME NEW t \in Tasks,
               Test(t) \/ Sleep(t) \/ Reload(t) \/ Exchange(t) \/ Notify(t)
        PROVE  Sole'
    <2>1. Running(t) /\ \E l : Goto(t, l)
      BY <1>5 DEF Test, Sleep, Reload, Exchange, Notify, Running
    <2> QED BY <1>1, <1>2, <2>1 DEF Goto
  <1>6. ASSUME pc' = pc PROVE Sole'
    BY <1>6 DEF Sole, Running
  <1>7. ASSUME NEW t \in Tasks, Cancel(t) PROVE Sole'
    BY <1>6, <1>7 DEF Cancel
  <1>8. ASSUME NEW c \in Contexts, Submit(c) PROVE Sole'
    BY <1>6, <1>8 DEF Submit
  <1> QED BY <1>3, <1>4, <1>5, <1>6, <1>7, <1>8 DEF Next, TaskStep, vars

LEMMA NextFresh ==
  ASSUME TypeOK, Passed, Sole, Fresh, [Next]_vars
  PROVE  Fresh'
  <1>1. /\ pc \in [Tasks -> PCs] /\ count \in [Tasks -> 0..MaxCount] /\ word \in 0..MaxCount
        /\ dir \in [Tasks -> {"acquire", "release"}]
    BY DEF TypeOK, FutexTypeOK
  <1>2. ASSUME NEW t \in Tasks, word' = word,
               \A u \in Tasks \ {t} : pc'[u] = pc[u] /\ count'[u] = count[u],
               \/ pc'[t] \notin {"test", "cas", "again"}
               \/ pc'[t] \in {"test", "cas"} /\ count'[t] = word
               \/ pc'[t] = pc[t] /\ count'[t] = count[t]
        PROVE  Fresh'
    BY <1>2 DEF Fresh
  <1>3. ASSUME NEW t \in Tasks, NEW d \in {"acquire", "release"}, Call(t, d)
        PROVE  Fresh'
    BY <1>1, <1>2, <1>3 DEF Call, Goto
  <1>4. ASSUME NEW t \in Tasks, Test(t) PROVE Fresh'
    BY <1>1, <1>2, <1>4 DEF Test, Goto, futexVars, Fresh
  <1>5. ASSUME NEW t \in Tasks, Sleep(t) PROVE Fresh'
    BY <1>1, <1>2, <1>5 DEF Sleep, Goto, FutexWait
  <1>6. ASSUME NEW t \in Tasks, Wakeup(t) PROVE Fresh'
    BY <1>1, <1>2, <1>6 DEF Wakeup, Goto, FutexResume
  <1>7. ASSUME NEW t \in Tasks, Reload(t) PROVE Fresh'
    BY <1>1, <1>2, <1>7 DEF Reload, Goto, futexVars
  <1>8. ASSUME NEW t \in Tasks, Exchange(t) PROVE Fresh'
    <2>1. Running(t) /\ \A u \in Tasks \ {t} : ~Running(u) /\ pc'[u] = pc[u]
      BY <1>1, <1>8 DEF Exchange, Goto, Running, Sole
    <2>2. pc'[t] \in {"test", "cas"} => count'[t] = word'
      BY <1>1, <1>8 DEF Exchange, Goto
    <2>3. pc'[t] = "again" => count'[t] # word'
      BY <1>1, <1>8 DEF Exchange, Goto, Wanted
    <2> QED BY <2>1, <2>2, <2>3 DEF Fresh, Running
  <1>9. ASSUME NEW t \in Tasks, Notify(t) PROVE Fresh'
    BY <1>1, <1>2, <1>9 DEF Notify, Goto, FutexNotify
  <1>10. ASSUME UNCHANGED <<word, pc, count>> PROVE Fresh'
    BY <1>10 DEF Fresh
  <1>11. ASSUME NEW t \in Tasks, Cancel(t) PROVE Fresh'
    BY <1>10, <1>11 DEF Cancel, FutexCancel
  <1>12. ASSUME NEW c \in Contexts, Submit(c) PROVE Fresh'
    BY <1>10, <1>12 DEF Submit, FutexSubmit
  <1> QED
    BY <1>3, <1>4, <1>5, <1>6, <1>7, <1>8, <1>9, <1>10, <1>11, <1>12
       DEF Next, TaskStep, vars, futexVars

(* The steps of the calls, as the abstract semaphore sees them.            *)
LEMMA StepRefines ==
  ASSUME StrongExchange, ThreadInv, [Next]_vars
  PROVE  [Abstract!Next]_<<word, phaseOf>>
  <1> DEFINE Phase(l, d) == CASE l = "out" -> "out"
                              [] l \in {"again", "notify"} -> "done"
                              [] OTHER -> IF d = "acquire" THEN "acquiring" ELSE "releasing"
  <1>1. /\ pc \in [Tasks -> PCs] /\ count \in [Tasks -> 0..MaxCount] /\ word \in 0..MaxCount
        /\ dir \in [Tasks -> {"acquire", "release"}]
    BY DEF ThreadInv, TypeOK, FutexTypeOK
  <1>2. /\ phaseOf = [t \in Tasks |-> Phase(pc[t], dir[t])]
        /\ phaseOf' = [t \in Tasks |-> Phase(pc'[t], dir'[t])]
    BY DEF phaseOf
  <1>3. ASSUME NEW t \in Tasks, \A u \in Tasks \ {t} : pc'[u] = pc[u] /\ dir'[u] = dir[u]
        PROVE  /\ phaseOf[t] = Phase(pc[t], dir[t]) /\ phaseOf'[t] = Phase(pc'[t], dir'[t])
               /\ phaseOf' = [phaseOf EXCEPT ![t] = Phase(pc'[t], dir'[t])]
    BY <1>2, <1>3
  <1>4. ASSUME NEW t \in Tasks, \A u \in Tasks \ {t} : pc'[u] = pc[u] /\ dir'[u] = dir[u],
               phaseOf'[t] = phaseOf[t], word' = word
        PROVE  UNCHANGED <<word, phaseOf>>
    BY <1>2, <1>4
  <1> HIDE DEF Phase
  <1>5. ASSUME NEW t \in Tasks, NEW d \in {"acquire", "release"}, Call(t, d)
        PROVE  Abstract!Begin(t)
    <2>1. /\ pc[t] = "out" /\ pc'[t] = "test" /\ dir'[t] = d /\ word' = word
          /\ \A u \in Tasks \ {t} : pc'[u] = pc[u] /\ dir'[u] = dir[u]
      BY <1>1, <1>5 DEF Call, Goto
    <2>2. phaseOf[t] = "out" /\ Phase("test", d) \in {"acquiring", "releasing"}
      BY <1>3, <2>1 DEF Phase
    <2> QED BY <1>3, <2>1, <2>2 DEF Abstract!Begin, Abstract!Move
  <1>6. ASSUME NEW t \in Tasks, Test(t) \/ Sleep(t) \/ Reload(t)
        PROVE  UNCHANGED <<word, phaseOf>>
    <2>1. /\ pc[t] \in {"test", "prep", "load"} /\ pc'[t] \in {"prep", "cas", "wait", "test"}
          /\ dir' = dir /\ word' = word /\ \A u \in Tasks \ {t} : pc'[u] = pc[u]
      BY <1>1, <1>6 DEF Test, Sleep, Reload, Goto, FutexWait, futexVars
    <2>2. phaseOf'[t] = phaseOf[t]
      BY <1>3, <2>1 DEF Phase
    <2> QED BY <1>4, <2>1, <2>2
  <1>7. ASSUME NEW t \in Tasks, Wakeup(t)
        PROVE  Abstract!End(t) \/ UNCHANGED <<word, phaseOf>>
    <2>1. /\ pc[t] = "wait" /\ pc'[t] \in {"load", "out"} /\ dir' = dir /\ word' = word
          /\ \A u \in Tasks \ {t} : pc'[u] = pc[u]
      BY <1>1, <1>7 DEF Wakeup, Goto, FutexResume
    <2>2. CASE pc'[t] = "load"
      <3>1. phaseOf'[t] = phaseOf[t]
        BY <1>3, <2>1, <2>2 DEF Phase
      <3> QED BY <1>4, <2>1, <3>1
    <2>3. CASE pc'[t] = "out"
      <3>1. phaseOf[t] \in {"acquiring", "releasing"} /\ Phase("out", dir'[t]) = "out"
        BY <1>1, <1>3, <2>1 DEF Phase
      <3> QED BY <1>3, <2>1, <2>3, <3>1 DEF Abstract!End, Abstract!Move
    <2> QED BY <2>1, <2>2, <2>3
  <1>8. ASSUME NEW t \in Tasks, Exchange(t)
        PROVE  Abstract!Take(t) \/ Abstract!Give(t) \/ UNCHANGED <<word, phaseOf>>
    <2>1. /\ dir' = dir /\ pc'[t] \in {"again", "notify"}
          /\ \A u \in Tasks \ {t} : pc'[u] = pc[u]
      BY <1>1, <1>8 DEF Exchange, Goto
    <2>2. CASE pc[t] = "cas"
      <3>1. word = count[t] /\ word' = Wanted(t) /\ count[t] # Blocked(t)
        BY <1>8, <2>2 DEF Exchange, ThreadInv, Fresh, Passed, StrongExchange
      <3>2. Phase(pc'[t], dir'[t]) = "done"
        BY <2>1 DEF Phase
      <3>3. CASE dir[t] = "acquire"
        <4>1. phaseOf[t] = "acquiring" /\ word > 0 /\ word' = word - 1
          BY <1>1, <1>3, <2>1, <2>2, <3>1, <3>3 DEF Phase, Wanted, Blocked
        <4> QED BY <1>3, <2>1, <3>2, <4>1 DEF Abstract!Take, Abstract!Move
      <3>4. CASE dir[t] = "release"
        <4>1. phaseOf[t] = "releasing"
          BY <1>3, <2>1, <2>2, <3>4 DEF Phase
        <4>2. word < MaxCount /\ word' = word + 1
          BY <1>1, <3>1, <3>4, SemaphoreAssumption DEF Wanted, Blocked
        <4> QED BY <1>3, <2>1, <3>2, <4>1, <4>2 DEF Abstract!Give, Abstract!Move
      <3> QED BY <1>1, <3>3, <3>4
    <2>3. CASE pc[t] = "again"
      <3>1. word' = word
        BY <1>8, <2>3 DEF Exchange, ThreadInv, Fresh
      <3>2. phaseOf'[t] = phaseOf[t]
        BY <1>3, <2>1, <2>3 DEF Phase
      <3> QED BY <1>4, <2>1, <3>1, <3>2
    <2> QED BY <1>8, <2>2, <2>3 DEF Exchange
  <1>9. ASSUME NEW t \in Tasks, Notify(t)
        PROVE  Abstract!End(t)
    <2>1. /\ pc[t] = "notify" /\ pc'[t] = "out" /\ dir' = dir /\ word' = word
          /\ \A u \in Tasks \ {t} : pc'[u] = pc[u]
      BY <1>1, <1>9 DEF Notify, Goto, FutexNotify
    <2>2. phaseOf[t] = "done" /\ Phase("out", dir'[t]) = "out"
      BY <1>3, <2>1 DEF Phase
    <2> QED BY <1>3, <2>1, <2>2 DEF Abstract!End, Abstract!Move
  <1>10. ASSUME UNCHANGED <<word, pc, dir>> PROVE UNCHANGED <<word, phaseOf>>
    BY <1>10 DEF phaseOf
  <1>11. ASSUME NEW t \in Tasks, Cancel(t) PROVE UNCHANGED <<word, phaseOf>>
    BY <1>10, <1>11 DEF Cancel, FutexCancel
  <1>12. ASSUME NEW c \in Contexts, Submit(c) PROVE UNCHANGED <<word, phaseOf>>
    BY <1>10, <1>12 DEF Submit, FutexSubmit
  <1>13. CASE UNCHANGED vars
    BY <1>10, <1>13 DEF vars, futexVars
  <1> QED
    BY <1>5, <1>6, <1>7, <1>8, <1>9, <1>11, <1>12, <1>13 DEF Next, TaskStep, Abstract!Next

(* A successful acquire() took exactly one and a successful release() gave *)
(* exactly one, whatever waited, was woken or cancelled in between, for    *)
(* any number of coroutines of one thread.                                 *)
THEOREM Refinement ==
  ASSUME OneThread, StrongExchange PROVE Spec => RefinesSemaphore
  <1>1. Init => Abstract!Init
    BY DEF Init, FutexInit, Abstract!Init, phaseOf
  <1>2. ThreadInv /\ [Next]_vars => ThreadInv'
    BY NextBounds, NextSole, NextFresh DEF ThreadInv
  <1>3. ThreadInv /\ [Next]_vars => [Abstract!Next]_<<word, phaseOf>>
    BY StepRefines
  <1> QED BY <1>1, <1>2, <1>3, InitThread, PTL DEF Spec, Abstract!Spec, RefinesSemaphore
=============================================================================
