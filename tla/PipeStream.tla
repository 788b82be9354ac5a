----------------------------- MODULE PipeStream -----------------------------
(***************************************************************************)
(* pipe_stream (iostream/pipe_stream.cpp): a BorrowedStream to write into  *)
(* and one to read from (iostream/stream_base.hpp), with a ConcurrentQueue *)
(* of chunks between them.  One coroutine writes and one reads.            *)
(*                                                                         *)
(* The k-th byte that is put into the writer's stream is the number k, so  *)
(* a chunk is a sequence of numbers and the empty one announces the end.   *)
(* harm holds the ways in which the streams have lost or reordered bytes,  *)
(* other than the ring's (Strayed).                                        *)
(***************************************************************************)
EXTENDS ConcurrentQueue

CONSTANTS
  Reader, Writer,
  BufSize,    \* kStreamBufferSize
  MaxPut,     \* bound: the longest span a coroutine puts or gets at once
  Lengths,    \* bound: how many bytes each call is made for
  MaxBytes,   \* bound: the bytes put into the pipe
  NoBuffer    \* an mOutBuffer that has not been allocated

ASSUME PipeAssumption ==
  /\ BufSize \in Nat \ {0}
  /\ MaxPut \in Nat /\ MaxBytes \in Nat \ {0}
  /\ Lengths \in [{"put", "write", "get", "read", "peek"} -> SUBSET (1..MaxPut)]

VARIABLES
  wop,    \* what the writer does
  out,    \* mOutBuffer up to mOutIndex
  rest,   \* what putspan has still to store
  sent,   \* number of the last byte put
  rop,    \* what the reader does
  win,    \* mInBuffer from mInIndex to mInEnd
  ix,     \* mInIndex
  inbuf,  \* mInBuffer is allocated
  need,   \* the bytes a call of the reader has still to get
  part,   \* the bytes it has got
  taken,  \* the bytes the reader has taken out
  harm

writerVars == <<wop, out, rest, sent>>
readerVars == <<rop, win, ix, inbuf, need, part, taken>>
pipeVars == <<vars, writerVars, readerVars, harm>>

End == <<>>
SmallerOf(i, j) == IF i < j THEN i ELSE j
Bytes(from, to) == [i \in 1..(to - from + 1) |-> from + i - 1]
Chunks == {Bytes(i, j) : i \in 1..MaxBytes, j \in 0..MaxBytes}

(* The queue between the two streams: one reader pops chunks and one       *)
(* writer pushes them.                                                     *)
PipeQueue ==
  /\ Reader \in Tasks /\ Writer \in Tasks /\ Reader # Writer
  /\ Poppers = {Reader} /\ Pushers = {Writer} /\ Pollers = {}
  /\ Items = Chunks /\ NoBuffer \notin Chunks

PipeInit ==
  /\ Init
  /\ wop = "idle" /\ out = NoBuffer /\ rest = <<>> /\ sent = 0
  /\ rop = "idle" /\ win = <<>> /\ ix = 0 /\ inbuf = FALSE
  /\ need = 0 /\ part = 0 /\ taken = <<>>
  /\ harm = {}

Reading == rop \in {"get", "read", "peek", "forward"}
Writing == wop \in {"put", "flush", "write", "close"}

(* The queue has answered and the coroutine goes on before anything else.  *)
Back == (Reading /\ pc[Reader] = "out") \/ (Writing /\ pc[Writer] = "out")

-----------------------------------------------------------------------------
(* The writer.                                                             *)
WriterRuns ==
  /\ wop = "idle" /\ ~Back
  /\ Turn(Writer) /\ pc[Writer] = "out"

Space == IF out = NoBuffer THEN BufSize ELSE BufSize - Len(out)
Held == IF out = NoBuffer THEN <<>> ELSE out

(* The next push of the same putspan, under the same token.                *)
PushAgain(chunk) ==
  /\ Goto(Writer, "push")
  /\ arg' = [arg EXCEPT ![Writer] = chunk]
  /\ UNCHANGED <<cvVars, ring, got>>

(* OPipeStream::raw_write, which fails once the reader has closed.         *)
RawWrite(w, chunk) ==
  IF rop = "closed"
  THEN wop' = "idle" /\ UNCHANGED vars
  ELSE wop' = w /\ CallPush(Writer, chunk)

(* putspan stores s, and flushes whenever it does not fit.                 *)
Store(s) ==
  IF Len(s) <= Space
  THEN /\ wop' = "idle" /\ out' = Held \o s /\ rest' = <<>>
       /\ UNCHANGED vars
  ELSE /\ out' = Held \o SubSeq(s, 1, Space)
       /\ rest' = SubSeq(s, Space + 1, Len(s))
       /\ RawWrite("put", out')

Put(n) ==
  /\ WriterRuns
  /\ sent + n <= MaxBytes
  /\ Store(Bytes(sent + 1, sent + n))
  /\ sent' = sent + n
  /\ UNCHANGED <<readerVars, harm>>

\* Mutant: an empty buffer is written too.
FlushEmpty ==
  /\ WriterRuns
  /\ IF out = NoBuffer THEN UNCHANGED <<wop, vars>> ELSE RawWrite("flush", out)
  /\ out' = Held
  /\ UNCHANGED <<rest, sent, readerVars, harm>>

(* flush(): the first one only allocates the buffer.                       *)
Flush ==
  /\ WriterRuns
  /\ IF Held = <<>> THEN UNCHANGED <<wop, vars>> ELSE RawWrite("flush", out)
  /\ out' = Held
  /\ UNCHANGED <<rest, sent, readerVars, harm>>

(* write(): a buffer that is full or not allocated is passed by, into      *)
(* another one it puts nothing, since the room is taken from mInBuffer.    *)
Write(n) ==
  /\ WriterRuns
  /\ sent + n <= MaxBytes
  /\ out = NoBuffer \/ Space = 0
  /\ rop # "closed"
  /\ RawWrite("write", Bytes(sent + 1, sent + n))
  /\ sent' = sent + n
  /\ harm' = IF Held = <<>> THEN harm ELSE harm \cup {"overtaken"}
  /\ UNCHANGED <<out, rest, readerVars>>

(* raw_close announces the end.                                            *)
Close ==
  /\ WriterRuns
  /\ rop # "closed"
  /\ RawWrite("close", End)
  /\ UNCHANGED <<out, rest, sent, readerVars, harm>>

(* ~OPipeStream announces it too, if there is room.                        *)
Destroy ==
  /\ wop \in {"idle", "closed", "unheard"} /\ ~Back
  /\ Turn(Writer) /\ pc[Writer] = "out"
  /\ IF RingFull(ring) \/ rop = "closed"
       THEN UNCHANGED vars /\ wop' = IF wop = "closed" THEN "gone" ELSE "silent"
       ELSE /\ ring' = RingPush(ring, End)
            /\ Goto(Writer, IF RingEmpty(ring) THEN "tellEmpty" ELSE "out")
            /\ wop' = "gone"
            /\ UNCHANGED <<cvVars, arg, got>>
  /\ UNCHANGED <<out, rest, sent, readerVars, harm>>

(* push() has succeeded.                                                   *)
Pushed ==
  /\ Writing /\ pc[Writer] = "out"
  /\ CASE wop = "put" ->
            IF Len(rest) <= BufSize
            THEN wop' = "idle" /\ out' = rest /\ rest' = <<>> /\ UNCHANGED vars
            ELSE /\ out' = SubSeq(rest, 1, BufSize)
                 /\ rest' = SubSeq(rest, BufSize + 1, Len(rest))
                 /\ wop' = IF rop = "closed" THEN "idle" ELSE "put"
                 /\ IF rop = "closed" THEN UNCHANGED vars ELSE PushAgain(out')
       [] wop = "flush" -> wop' = "idle" /\ out' = <<>> /\ UNCHANGED <<rest, vars>>
       [] wop = "write" -> wop' = "idle" /\ UNCHANGED <<out, rest, vars>>
       [] wop = "close" -> wop' = "closed" /\ UNCHANGED <<out, rest, vars>>
  /\ UNCHANGED <<sent, readerVars, harm>>

(* push() has failed: what the buffer holds stays there, and the end is    *)
(* not announced.                                                          *)
PushFails ==
  /\ WaitFails(Writer) /\ ~Back
  /\ wop' = IF wop = "close" THEN "unheard" ELSE "idle"
  /\ rest' = <<>>
  /\ sent' = IF wop = "write" THEN sent - Len(arg[Writer]) ELSE sent - Len(rest)
  /\ UNCHANGED <<out, readerVars, harm>>

-----------------------------------------------------------------------------
(* The reader.                                                             *)
ReaderRuns ==
  /\ rop = "idle" /\ ~Back
  /\ Turn(Reader) /\ pc[Reader] = "out"

RawRead(r) == rop' = r /\ CallPop(Reader)

\* Mutant: what is given stays in the window.
GiveKeeps(n, w) ==
  /\ taken' = taken \o SubSeq(w, 1, n)
  /\ win' = w

(* n bytes of the window are given to the caller.                          *)
Give(n, w) ==
  /\ taken' = taken \o SubSeq(w, 1, n)
  /\ win' = SubSeq(w, n + 1, Len(w))

\* Mutant: getn fills the buffer behind what it has used.
GetBehind(n) ==
  /\ ReaderRuns
  /\ Give(SmallerOf(n, Len(win)), win)
  /\ IF n <= Len(win)
       THEN ix' = ix + n /\ UNCHANGED <<rop, inbuf, need, part, vars>>
       ELSE /\ ix' = ix + Len(win) /\ inbuf' = TRUE
            /\ need' = n - Len(win) /\ part' = Len(win)
            /\ RawRead("get")
  /\ UNCHANGED <<writerVars, harm>>

(* getn(n) and getn(s, n): from the window, or with what comes next.       *)
Get(n) ==
  /\ ReaderRuns
  /\ Give(SmallerOf(n, Len(win)), win)
  /\ IF n <= Len(win)
       THEN ix' = ix + n /\ UNCHANGED <<rop, inbuf, need, part, vars>>
       ELSE /\ ix' = 0 /\ inbuf' = TRUE
            /\ need' = n - Len(win) /\ part' = Len(win)
            /\ RawRead("get")
  /\ UNCHANGED <<writerVars, harm>>

(* read(span) of n bytes: what the window has, or else straight from the   *)
(* queue, past the buffer.                                                 *)
ReadSpan(n) ==
  /\ ReaderRuns
  /\ Give(SmallerOf(n, Len(win)), win)
  /\ ix' = ix + SmallerOf(n, Len(win))
  /\ IF win # <<>> THEN UNCHANGED <<rop, need, vars>> ELSE need' = n /\ RawRead("read")
  /\ UNCHANGED <<inbuf, part, writerVars, harm>>

(* peekn(n) moves the window to the front of the buffer if n would not fit *)
(* behind mInIndex; without a buffer, or a large enough one, it fails.     *)
Peek(n) ==
  /\ ReaderRuns
  /\ inbuf /\ n <= BufSize
  /\ ix' = IF BufSize - ix < n THEN 0 ELSE ix
  /\ IF n <= Len(win) THEN UNCHANGED <<rop, need, vars>> ELSE need' = n /\ RawRead("peek")
  /\ UNCHANGED <<win, inbuf, part, taken, writerVars, harm>>

(* pipe_forward: fillbuf() behind the bytes it has forwarded.              *)
Forward ==
  /\ ReaderRuns
  /\ win = <<>>
  /\ RawRead("forward")
  /\ inbuf' = TRUE
  /\ UNCHANGED <<win, ix, need, part, taken, writerVars, harm>>

\* Mutant: fillbuf reads as much as the buffer holds, wherever it starts.
RoomWhole == BufSize

(* What raw_read may fill: the span of read(), or for fillbuf what is      *)
(* behind mInIndex.                                                        *)
Room == IF rop = "read" THEN need ELSE BufSize - ix

(* The bytes of a chunk that the call takes out, and whether it reads on.  *)
Given(chunk) ==
  IF rop = "get" THEN SmallerOf(need, Len(chunk)) ELSE IF rop = "read" THEN Len(chunk) ELSE 0
ReadsOn(chunk) == rop \in {"get", "peek"} /\ Len(chunk) < need

(* raw_read has returned a chunk: fillbuf puts it at mInIndex, over what   *)
(* peekn has found there.                                                  *)
Filled(chunk) ==
  /\ Give(Given(chunk), chunk)
  /\ ix' = IF rop # "get" THEN ix ELSE IF ReadsOn(chunk) THEN 0 ELSE ix + Given(chunk)
  /\ IF ReadsOn(chunk)
       THEN /\ need' = need - Given(chunk) /\ part' = part + Given(chunk)
            /\ Goto(Reader, "pop") /\ UNCHANGED rop
       ELSE need' = 0 /\ part' = 0 /\ rop' = "idle" /\ UNCHANGED pc

(* The call fails.  What getn(s, n) has got stays in s, what getn(n) has   *)
(* got is gone with its String.                                            *)
GivesUp(lost) ==
  /\ need' = 0 /\ part' = 0
  /\ \/ taken' = taken /\ harm' = harm \cup lost
     \/ /\ rop = "get" /\ part > 0
        /\ taken' = SubSeq(taken, 1, Len(taken) - part)
        /\ harm' = harm \cup lost \cup {"dropped"}
  /\ UNCHANGED <<win, ix>>

(* pop() has returned a chunk, and raw_read cuts it to its room.  Nothing  *)
(* read is taken for the end of the stream.                                *)
Popped ==
  LET chunk == SubSeq(got[Reader], 1, SmallerOf(Room, Len(got[Reader])))
      cut == IF chunk = got[Reader] THEN {} ELSE {"cut"}
      over == IF rop = "peek" /\ win # <<>> THEN {"overwritten"} ELSE {}
  IN /\ Reading /\ pc[Reader] = "out"
     /\ got' = [got EXCEPT ![Reader] = NoItem]
     /\ IF chunk = <<>>
          THEN GivesUp(cut) /\ rop' = "eof" /\ UNCHANGED pc
          ELSE Filled(chunk) /\ harm' = harm \cup cut \cup over
     /\ UNCHANGED <<inbuf, ring, arg, cvVars, writerVars>>

PopFails ==
  /\ WaitFails(Reader) /\ ~Back
  /\ GivesUp({}) /\ rop' = "idle"
  /\ UNCHANGED <<inbuf, writerVars>>

(* raw_close: the queue goes, unless a writer that waits in it holds it.   *)
CloseReader ==
  /\ rop \in {"idle", "eof"} /\ ~Back
  /\ Turn(Reader) /\ pc[Reader] = "out"
  /\ rop' = "closed"
  /\ UNCHANGED <<vars, writerVars, win, ix, inbuf, need, part, taken, harm>>

-----------------------------------------------------------------------------
Queue(A) == A /\ ~Back /\ UNCHANGED <<writerVars, readerVars, harm>>

Goes(t) == Queue(Progress(t))

PipeStep ==
  \/ \E n \in Lengths.put : Put(n)
  \/ \E n \in Lengths.write : Write(n)
  \/ \E n \in Lengths.get : Get(n)
  \/ \E n \in Lengths.read : ReadSpan(n)
  \/ \E n \in Lengths.peek : Peek(n)
  \/ Flush \/ Close \/ Destroy \/ Forward \/ CloseReader
  \/ Pushed \/ PushFails \/ Popped \/ PopFails

PipeNext ==
  \/ PipeStep
  \/ \E t \in Tasks : Goes(t) \/ Queue(Cancel(t))
  \/ \E c \in Contexts : Queue(Submit(c))

PipeSpec == PipeInit /\ [][PipeNext]_pipeVars

(* The fairness of ConcurrentQueue; an answer of the queue is acted upon.  *)
PipeFairSpec ==
  /\ PipeSpec
  /\ WF_pipeVars(Pushed \/ Popped)
  /\ SF_pipeVars(PushFails) /\ SF_pipeVars(PopFails)
  /\ \A t \in Tasks : SF_pipeVars(Goes(t))
  /\ \A c \in Contexts : SF_pipeVars(Queue(Submit(c)))

-----------------------------------------------------------------------------
PipeTypeOK ==
  /\ TypeOK
  /\ wop \in {"idle", "put", "flush", "write", "close", "closed", "unheard", "gone", "silent"}
  /\ rop \in {"idle", "get", "read", "peek", "forward", "eof", "closed"}
  /\ Len(Held) \in 0..BufSize
  /\ sent \in 0..MaxBytes
  /\ ix + Len(win) \in 0..BufSize
  /\ need \in 0..MaxPut
  /\ part \in 0..Len(taken)
  /\ harm \subseteq {"cut", "overtaken", "overwritten", "dropped"}

(* What a push that has stored its chunk leaves in mOutBuffer is in the    *)
(* pipe already.                                                           *)
Stored == wop \in {"put", "flush"} /\ arg[Writer] = NoItem
Unflushed == (IF Stored THEN <<>> ELSE Held) \o rest
InHand(v) == IF v = NoItem THEN <<>> ELSE v

(* What the reader has taken out of the queue, and what the writer has     *)
(* still to push into it.                                                  *)
Front == taken \o win \o InHand(got[Reader])
Behind == (IF wop = "write" THEN InHand(arg[Writer]) ELSE <<>>) \o Unflushed

(* The chunks, one after the other, are the bytes from c + 1 to d.         *)
Between(chunks, c, d) ==
  \E cut \in [0..Len(chunks) -> 0..MaxBytes] :
    /\ cut[0] = c /\ cut[Len(chunks)] = d
    /\ \A i, j \in 0..Len(chunks) : i <= j => cut[i] <= cut[j]
    /\ \A i \in 1..Len(chunks) : chunks[i] = Bytes(cut[i - 1] + 1, cut[i])

(* Every byte that is put is in exactly one place, and they are in order   *)
(* from the reader's hands to the writer's buffer, however reads and       *)
(* writes are cut up and whichever of them are cancelled, until one of the *)
(* calls that HarmKnown names does harm or the ring has stored a chunk     *)
(* behind an array that has no room there.                                 *)
Conserved ==
  harm = {} /\ ~Strayed(ring) /\ rop # "closed" =>
    \E c, d \in 0..sent :
      /\ Front = Bytes(1, c)
      /\ Between(RingContents(ring), c, d)
      /\ Behind = Bytes(d + 1, sent)

(* Apart from the ring, bytes are lost only from a chunk that is longer    *)
(* than the span of read() or than the room a peekn or a pipe_forward left *)
(* in the buffer, or that no buffer could hold; under a peekn that finds   *)
(* too little; and with a getn(n) that fails.  They are overtaken only by  *)
(* write() on a full buffer.                                               *)
HarmKnown ==
  [][LET new == harm' \ harm
     IN /\ "cut" \in new => rop \in {"read", "peek", "forward"} \/ Len(got[Reader]) > BufSize
        /\ "overwritten" \in new => rop = "peek" /\ Len(win) < need
        /\ "dropped" \in new => rop = "get" /\ rop' \in {"idle", "eof"}
        /\ "overtaken" \in new => Space = 0]_pipeVars

(* The reader finds the end only after the writer has announced it, and    *)
(* then has all that was flushed, taken or in its buffer, unless there was *)
(* harm before.                                                            *)
EndIsEnd ==
  rop = "eof" /\ harm = {} /\ ~Strayed(ring) =>
    wop \in {"closed", "gone"} /\ taken \o win \o Held = Bytes(1, sent)

(* Once the end is announced the reader does not wait, unless the ring has *)
(* lost what announces it.                                                 *)
EndSeen ==
  (wop \in {"closed", "gone"} /\ ~Strayed(ring) /\ pc[Reader] = "popwait")
    ~> pc[Reader] # "popwait"
=============================================================================
