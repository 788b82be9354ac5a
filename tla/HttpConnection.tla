--------------------------- MODULE HttpConnection ---------------------------
(***************************************************************************)
(* One HTTP/1.1 connection (net/http_protocol.cpp): what the two ends have *)
(* written and not read, as tokens.  A request is one token, since its     *)
(* body has a length and goes out with the head; an answer is a head and   *)
(* its body, of a length or chunked.  Each token carries the request it    *)
(* belongs to.  A "bare" head has no body, "last" is the last piece of one *)
(* with a length, "zero" the line of the empty chunk and "crlf" the one    *)
(* after it.                                                               *)
(***************************************************************************)
EXTENDS Naturals, Sequences

CONSTANTS
  Ids,     \* requests
  Framings \* bound: how answers are framed, and the number of their pieces

ASSUME FramingsAssumption == Framings \subseteq {"length", "chunked"} \X Nat

Token(k, id) == [kind |-> k, id |-> id]

(* writeResponse, then writeChunkedString or writeChunked.                 *)
Answer(id, framing, n) ==
  <<Token(IF framing = "length" /\ n = 0 THEN "bare" ELSE "head", id)>>
    \o [i \in 1..n |-> Token(IF framing = "length" /\ i = n THEN "last" ELSE "piece", id)]
    \o (IF framing = "chunked" THEN <<Token("zero", id), Token("crlf", id)>> ELSE <<>>)

Answers(id) == {Answer(id, f[1], f[2]) : f \in Framings}

(* The server's end: "ready" reads a request, "handle" answers it (todo is *)
(* what it has still to write), "gone" has closed.  No is no connection.   *)
No == [open |-> FALSE, up |-> <<>>, down |-> <<>>, server |-> "gone", todo |-> <<>>]

(* createConnection.                                                       *)
Fresh == [No EXCEPT !.open = TRUE, !.server = "ready"]

(* writeRequest and writeBody.                                             *)
WriteRequest(c, id) == [c EXCEPT !.up = Append(@, id)]

(* The steps of HTTPServer::doHandleConnection: readRequestHeader, and the *)
(* handler's response, which reads the body before; then, one flush after  *)
(* the other, the answer; or an error or a timeout, which ends it.         *)
ServerReads(c) ==
  IF c.open /\ c.server = "ready" /\ c.up # <<>>
  THEN {[c EXCEPT !.up = Tail(@), !.server = "handle", !.todo = a] : a \in Answers(Head(c.up))}
  ELSE {}

ServerWrites(c) ==
  IF c.server = "handle"
  THEN {[c EXCEPT !.down = Append(@, Head(c.todo)), !.todo = Tail(@),
                  !.server = IF Len(c.todo) = 1 THEN "ready" ELSE "handle"]}
  ELSE {}

ServerEnds(c) ==
  IF c.open /\ c.server # "gone" THEN {[c EXCEPT !.server = "gone", !.todo = <<>>]} ELSE {}

ServerSteps(c) == ServerReads(c) \cup ServerWrites(c) \cup ServerEnds(c)

(* The client's end.                                                       *)
Readable(c) == c.down # <<>>
Next1(c) == Head(c.down)
Read(c) == [c EXCEPT !.down = Tail(@)]

Heads == {"bare", "head"}

(* What ends an answer for its reader: readChunkedString goes to the line  *)
(* of the empty chunk, readChunked to the one after it.                    *)
Final(streamed) == {"bare", "last", IF streamed THEN "crlf" ELSE "zero"}

(* What a reader of a body takes next.                                     *)
Bodies(streamed) == {"piece", "zero"} \cup (Final(streamed) \ {"bare"})

(* An answer is still to come: its head has not been read.                 *)
AnswerDue(c) ==
  c.up # <<>> \/ \E q \in {c.down, c.todo} : \E i \in 1..Len(q) : q[i].kind \in Heads
=============================================================================
