------------------------------ MODULE HttpPool ------------------------------
(***************************************************************************)
(* HTTPConnectionPool and HTTPConnection (net/http_client.hpp): clients on *)
(* any threads share the entries of one host, send requests over the       *)
(* connection of the entry they hold, and wait on the ConditionVariable    *)
(* mFreeSlot, for 100 ms at most, when all of them are in use.             *)
(*                                                                         *)
(* The body of a streamed answer is read by a coroutine of its own, which  *)
(* request_streamed has detached: nothing keeps the client from making     *)
(* another request, or from giving the entry back, while it still reads.   *)
(* What it then does to a connection that others use (crossed) is followed *)
(* only token by token, and not at all once the connection is freed.       *)
(***************************************************************************)
EXTENDS ConditionVariable, HttpConnection

CONSTANTS
  Slots,        \* mConnPerHost
  MaxRequests,  \* bound: the requests of all clients
  MaxGcs,       \* bound: collections, which are mKeepAlive / 2 apart
  Supported     \* the scheme of the host is one doConnect knows

ASSUME HttpPoolAssumption ==
  /\ Slots \in Nat \ {0}
  /\ MaxRequests \in Nat /\ MaxGcs \in Nat
  /\ Supported \in BOOLEAN
  /\ Ids = 1..MaxRequests

VARIABLES
  entry,  \* per slot: mInuse, mValid, the connection, the requests whose
          \* body a detached coroutine reads, and whether one of these has
          \* ever had a second user beside it or lost its connection
  pc,     \* per client: where it is
  at,     \* per client: the slot it looks at or holds
  asked,  \* the number of requests so far
  gcs,    \* the number of garbage collections so far
  mine    \* per client: the request it makes

poolVars == <<entry, pc, at, asked, gcs, mine>>
vars == <<cvVars, poolVars>>

Entries == 1..Slots

Unused ==
  [inuse |-> FALSE, valid |-> FALSE, conn |-> No, readers |-> {}, crossed |-> FALSE]

Init ==
  /\ CvInit
  /\ entry = [e \in Entries |-> Unused]
  /\ pc = [t \in Tasks |-> "out"]
  /\ at = [t \in Tasks |-> 1]
  /\ asked = 0
  /\ gcs = 0
  /\ mine = [t \in Tasks |-> 0]

Goto(t, l) == pc' = [pc EXCEPT ![t] = l]
Here(t) == entry[at[t]]
SetHere(t, r) == entry' = [entry EXCEPT ![at[t]] = r]

(* An entry whose detached readers have company from now on, or have had.  *)
Crossing(r) == r.crossed \/ r.readers # {}

(* mHttp is reset, whoever reads from it.                                  *)
Terminated(r) == [r EXCEPT !.conn = No, !.readers = {}, !.crossed = Crossing(r)]

Move(t, i) == at' = [at EXCEPT ![t] = i]

-----------------------------------------------------------------------------
(* connect(): garbageCollect, if it is time, and lookForFreeSlot.          *)
Search(t) ==
  \/ gcs < MaxGcs /\ gcs' = gcs + 1 /\ Goto(t, "gc")
  \/ gcs' = gcs /\ Goto(t, "look")

Connect(t) ==
  /\ pc[t] = "out"
  /\ asked < MaxRequests
  /\ Search(t) /\ Move(t, 1)
  /\ UNCHANGED <<cvVars, entry, asked, mine>>

(* garbageCollect: an entry that is not in use is marked so ...            *)
GcMark(t) ==
  /\ pc[t] = "gc"
  /\ ~Here(t).inuse
  /\ SetHere(t, [Here(t) EXCEPT !.inuse = TRUE])
  /\ Goto(t, "gcIn")
  /\ UNCHANGED <<cvVars, at, asked, gcs, mine>>

(* one that is, is passed by;                                              *)
After(t, l) ==
  IF at[t] < Slots THEN Goto(t, l) /\ Move(t, at[t] + 1)
  ELSE Goto(t, IF l = "gc" THEN "look" ELSE "wait") /\ Move(t, 1)

GcSkip(t) ==
  /\ pc[t] = "gc"
  /\ Here(t).inuse
  /\ After(t, "gc")
  /\ UNCHANGED <<cvVars, entry, asked, gcs, mine>>

(* ... and unmarked, with its connection ended if that is too old.  Nobody *)
(* is notified.                                                            *)
GcUnmark(t) ==
  /\ pc[t] = "gcIn"
  /\ \/ SetHere(t, [Terminated(Here(t)) EXCEPT !.inuse = FALSE, !.valid = FALSE])
     \/ SetHere(t, [Here(t) EXCEPT !.inuse = FALSE])
  /\ After(t, "gc")
  /\ UNCHANGED <<cvVars, asked, gcs, mine>>

\* Mutant: the flag is loaded and not exchanged.
LookLoad(t) ==
  /\ pc[t] = "look"
  /\ IF Here(t).inuse
       THEN After(t, "look") /\ UNCHANGED entry
       ELSE /\ SetHere(t, [Here(t) EXCEPT !.valid = TRUE])
            /\ Goto(t, "held") /\ UNCHANGED at
  /\ UNCHANGED <<cvVars, asked, gcs, mine>>

(* lookForFreeSlot: the first entry that is not in use is taken.  When     *)
(* doConnect refuses the host the error goes to the caller, and the entry  *)
(* stays marked.                                                           *)
Look(t) ==
  /\ pc[t] = "look"
  /\ IF Here(t).inuse
       THEN After(t, "look") /\ UNCHANGED entry
       ELSE /\ SetHere(t, [Here(t) EXCEPT !.inuse = TRUE, !.valid = Supported])
            /\ Goto(t, IF Supported THEN "held" ELSE "out") /\ UNCHANGED at
  /\ UNCHANGED <<cvVars, asked, gcs, mine>>

(* waitForFreeSlot: co_timeout(mFreeSlot.wait(), 100ms), then again.       *)
StartWait(t) ==
  /\ cv[t] = "idle"
  /\ CvGoto(t, "prep")
  /\ old' = [old EXCEPT ![t] = word]
  /\ FreshToken(t)
  /\ UNCHANGED <<word, sq, op, want>>

Wait(t) ==
  /\ pc[t] = "wait"
  /\ \/ StartWait(t) \/ CvSleep(t, MatchAny) \/ CvResume(t) \/ CvAgain(t)
  /\ UNCHANGED poolVars

\* Mutant: there is no timeout.
TimeOutNever(t) == FALSE /\ UNCHANGED vars

TimeOut(t) ==
  /\ pc[t] = "wait" /\ cv[t] = "wait"
  /\ FutexCancel(t)
  /\ UNCHANGED <<cv, old, poolVars>>

WaitOver(t) ==
  /\ pc[t] = "wait"
  /\ CvReturn(t) \/ CvCanceled(t)
  /\ Search(t)
  /\ UNCHANGED <<entry, at, asked, mine>>

(* ~HTTPConnectionPtr: the entry is free, though a detached reader may be  *)
(* at work on it, and one sleeper is told.  (Each client makes a request   *)
(* first, which bounds the number of its searches.)                        *)
Release(t) ==
  /\ pc[t] = "hold" \/ (pc[t] = "held" /\ asked = MaxRequests)
  /\ SetHere(t, [Here(t) EXCEPT !.inuse = FALSE])
  /\ Goto(t, "tell")
  /\ Move(t, 1)
  /\ mine' = [mine EXCEPT ![t] = 0]
  /\ UNCHANGED <<cvVars, asked, gcs>>

Tell(t) ==
  /\ pc[t] = "tell"
  /\ \/ CvBump(t) /\ UNCHANGED pc
     \/ CvNotify(t, FALSE, MatchAny) /\ Goto(t, "out")
  /\ UNCHANGED <<entry, at, asked, gcs, mine>>

-----------------------------------------------------------------------------
(* request and request_streamed: tryWriteRequestAndBody, with a connection *)
(* of its own if there is none.                                            *)
Request(t) ==
  /\ pc[t] \in {"held", "hold"}
  /\ asked < MaxRequests
  /\ asked' = asked + 1
  /\ mine' = [mine EXCEPT ![t] = asked']
  /\ SetHere(t, [Here(t) EXCEPT
       !.conn = WriteRequest(IF @.open THEN @ ELSE Fresh, asked'),
       !.crossed = Crossing(Here(t))])
  /\ \/ Goto(t, "request") \/ Goto(t, "streamed")
  /\ UNCHANGED <<cvVars, at, gcs>>

Asking(t) == pc[t] \in {"request", "streamed"}
Reading(t) == pc[t] = "body"

(* readResponse.  request goes on to readBody; request_streamed detaches a *)
(* reader and returns.                                                     *)
ReadHead(t) ==
  LET next == Next1(Here(t).conn)
      more == next.kind \notin Final(pc[t] = "streamed")
  IN /\ Asking(t)
     /\ Readable(Here(t).conn) /\ next.kind \in Heads
     /\ SetHere(t, [Here(t) EXCEPT
          !.conn = Read(@),
          !.readers = IF more /\ pc[t] = "streamed" THEN @ \cup {mine[t]} ELSE @])
     /\ Goto(t, IF more /\ pc[t] = "request" THEN "body" ELSE "hold")
     /\ UNCHANGED <<cvVars, at, asked, gcs, mine>>

(* readBody.                                                               *)
ReadBody(t) ==
  LET next == Next1(Here(t).conn)
  IN /\ Reading(t)
     /\ Readable(Here(t).conn) /\ next.kind \in Bodies(FALSE)
     /\ SetHere(t, [Here(t) EXCEPT !.conn = Read(@)])
     /\ IF next.kind \in Final(FALSE) THEN Goto(t, "hold") ELSE UNCHANGED pc
     /\ UNCHANGED <<cvVars, at, asked, gcs, mine>>

Dropped(t) == SetHere(t, Terminated(Here(t)))

\* Mutant: the connection of a failed request is kept.
FailKeeps(t) ==
  /\ Asking(t) \/ Reading(t)
  /\ Goto(t, "hold")
  /\ UNCHANGED <<cvVars, entry, at, asked, gcs, mine>>

(* The request fails, by a timeout or a cancellation or because the server *)
(* has closed, and RAIIPointerResetter drops the connection.               *)
Fail(t) ==
  /\ Asking(t) \/ Reading(t)
  /\ Goto(t, "hold")
  /\ Dropped(t)
  /\ UNCHANGED <<cvVars, at, asked, gcs, mine>>

(* It fails because what comes is not the head of an answer.               *)
Misread(t) ==
  /\ Asking(t)
  /\ Readable(Here(t).conn) /\ Next1(Here(t).conn).kind \notin Heads
  /\ Goto(t, "hold")
  /\ Dropped(t)
  /\ UNCHANGED <<cvVars, at, asked, gcs, mine>>

(* readBodyStream in the detached coroutine.  When it has crossed another  *)
(* user it may get hold of anything.                                       *)
StreamRead(e, id) ==
  LET next == Next1(entry[e].conn)
  IN /\ id \in entry[e].readers
     /\ Readable(entry[e].conn) /\ (entry[e].crossed \/ next.kind \in Bodies(TRUE))
     /\ entry' = [entry EXCEPT
          ![e].conn = Read(@),
          ![e].readers = IF next.kind \in Final(TRUE) /\ ~entry[e].crossed THEN @ \ {id} ELSE @]
     /\ UNCHANGED <<cvVars, pc, at, asked, gcs, mine>>

(* It fails: the pipe ends, and the connection stays with what is left of  *)
(* the body.                                                               *)
StreamFails(e, id) ==
  /\ id \in entry[e].readers
  /\ entry' = [entry EXCEPT ![e].readers = @ \ {id}]
  /\ UNCHANGED <<cvVars, pc, at, asked, gcs, mine>>

(* The server's end of a connection.                                       *)
Serve(e) ==
  /\ \E c \in ServerSteps(entry[e].conn) : entry' = [entry EXCEPT ![e].conn = c]
  /\ UNCHANGED <<cvVars, pc, at, asked, gcs, mine>>

-----------------------------------------------------------------------------
(* A thread goes back to its event loop when its coroutine is suspended.   *)
Running(t) ==
  \/ pc[t] \in {"gc", "gcIn", "look", "tell"}
  \/ pc[t] = "wait" /\ cv[t] # "wait"

Submit(c) ==
  /\ \/ \A t \in Tasks : Home[t] = c => ~Running(t)
     \/ ~HasRoom(c)
  /\ FutexSubmit(c)
  /\ UNCHANGED <<cv, old, poolVars>>

Searching(t) == GcMark(t) \/ GcSkip(t) \/ GcUnmark(t) \/ Look(t) \/ Wait(t) \/ WaitOver(t)

Using(t) == ReadHead(t) \/ ReadBody(t) \/ Fail(t) \/ Misread(t)

Next ==
  \/ \E t \in Tasks :
       Connect(t) \/ Searching(t) \/ TimeOut(t) \/ Request(t) \/ Using(t) \/ Release(t) \/ Tell(t)
  \/ \E e \in Entries :
       Serve(e) \/ \E id \in Ids : StreamRead(e, id) \/ StreamFails(e, id)
  \/ \E c \in Contexts : Submit(c)

Spec == Init /\ [][Next]_vars

(* The threads run; a request ends, by its timeout if nothing else; the    *)
(* timer of 100 ms expires; and a client that has made its requests lets   *)
(* the entry go.                                                           *)
FairSpec ==
  /\ Spec
  /\ \A t \in Tasks :
       /\ WF_vars(Searching(t)) /\ WF_vars(TimeOut(t))
       /\ WF_vars(Using(t) \/ Request(t)) /\ WF_vars(Release(t)) /\ WF_vars(Tell(t))
  /\ \A c \in Contexts : WF_vars(Submit(c))

-----------------------------------------------------------------------------
Tokens == [kind : {"bare", "head", "piece", "last", "zero", "crlf"}, id : Ids]

TypeOK ==
  /\ CvTypeOK
  /\ \A e \in Entries :
       /\ entry[e].inuse \in BOOLEAN /\ entry[e].valid \in BOOLEAN
       /\ entry[e].conn.open => entry[e].valid
       /\ entry[e].conn.up \in Seq(Ids)
       /\ entry[e].conn.down \in Seq(Tokens) /\ entry[e].conn.todo \in Seq(Tokens)
       /\ entry[e].readers \subseteq Ids /\ entry[e].crossed \in BOOLEAN
  /\ pc \in [Tasks -> {"out", "gc", "gcIn", "look", "wait", "held", "hold", "request",
                       "streamed", "body", "tell"}]
  /\ at \in [Tasks -> Entries]
  /\ asked \in 0..MaxRequests /\ gcs \in 0..MaxGcs
  /\ mine \in [Tasks -> 0..asked]

Holds(t, e) ==
  at[t] = e /\ pc[t] \in {"gcIn", "held", "hold", "request", "streamed", "body"}

(* An entry is held by one client or garbage collection at a time, and is  *)
(* marked while it is; no slot is lost, which stays marked though nobody   *)
(* holds it, if doConnect knows the scheme.  A detached reader holds       *)
(* nothing.                                                                *)
EntryOwned ==
  \A e \in Entries :
    /\ \A t, u \in Tasks : Holds(t, e) /\ Holds(u, e) => t = u
    /\ (\E t \in Tasks : Holds(t, e)) => entry[e].inuse
    /\ Supported /\ entry[e].inuse => \E t \in Tasks : Holds(t, e)

(* What a client or a detached reader is given is of the answer to its     *)
(* request, whoever used the connection before and however that ended,     *)
(* unless a detached reader was still at work when the next user came.     *)
AnswerMatches ==
  [][/\ \A t \in Tasks :
          (ReadHead(t) \/ ReadBody(t)) /\ ~Here(t).crossed => Next1(Here(t).conn).id = mine[t]
     /\ \A e \in Entries : \A id \in entry[e].readers :
          StreamRead(e, id) /\ ~entry[e].crossed => Next1(entry[e].conn).id = id]_vars

(* A connection that stays open between two requests has no answer to come.*)
NoAnswerDue ==
  \A e \in Entries :
    entry[e].conn.open /\ AnswerDue(entry[e].conn) =>
      \E t \in Tasks : at[t] = e /\ (Asking(t) \/ Reading(t))

(* The timeout has cancelled wait() when a wake for an earlier counter had *)
(* completed its operation: wait() sleeps again, under a source that is    *)
(* cancelled already and so cancels nothing any more.                      *)
Deaf(t) == canceled[t] /\ cv[t] = "prep"

(* A search ends with an entry, although a notification may be missed,     *)
(* unless the wait has become deaf to its timeout.                         *)
ConnectReturns ==
  \A t \in Tasks :
    pc[t] \in {"gc", "look"} ~> (pc[t] = "held" \/ Deaf(t))

(* Every answer is read to its end before the next one.                    *)
NeverMisread == [][\A t \in Tasks : ~Misread(t)]_vars
=============================================================================
