--------------------------- MODULE HttpPoolProofs ---------------------------
(***************************************************************************)
(* The theorems about HttpPool, for any number of clients, threads, slots, *)
(* requests and pieces of a body.                                          *)
(*                                                                         *)
(* Three invariants carry them.  Ownership: an entry has one holder, and   *)
(* is marked in use while it has.  The connection: what is under way on it *)
(* is right for the state of the client that holds it, which is one of     *)
(* five phases (Quiet, Sent, Waiting, Begun, Ending).  The readers: while  *)
(* the detached reader of a body has had no company, the connection is in  *)
(* the last phase of its answer, and nobody makes a request on it.         *)
(***************************************************************************)
EXTENDS HttpPool, TLAPS

Servers == {"ready", "handle", "gone"}

Conns == [open : BOOLEAN, up : Seq(Ids), down : Seq(Tokens), server : Servers, todo : Seq(Tokens)]

EntrySet ==
  [inuse : BOOLEAN, valid : BOOLEAN, conn : Conns, readers : SUBSET Ids, crossed : BOOLEAN]

Places == {"out", "gc", "gcIn", "look", "wait", "held", "hold", "request",
           "streamed", "body", "tell"}

PoolTypeOK ==
  /\ entry \in [Entries -> EntrySet]
  /\ pc \in [Tasks -> Places]
  /\ at \in [Tasks -> Entries]
  /\ asked \in 0..MaxRequests
  /\ mine \in [Tasks -> 0..MaxRequests]

-----------------------------------------------------------------------------
(* The phases of a connection.                                             *)
NoHeads(q) == \A i \in 1..Len(q) : q[i].kind \notin Heads
OnlyOf(q, m) == \A i \in 1..Len(q) : q[i].id = m

Quiet(c) == c.up = <<>> /\ NoHeads(c.down) /\ NoHeads(c.todo)

Sent(c, m) == c.up = <<m>> /\ NoHeads(c.down) /\ NoHeads(c.todo)

Waiting(c, m) ==
  /\ c.up = <<>> /\ NoHeads(c.down)
  /\ OnlyOf(c.todo, m) /\ \A i \in 2..Len(c.todo) : c.todo[i].kind \notin Heads

Begun(c, m) ==
  /\ c.up = <<>> /\ OnlyOf(c.todo, m) /\ NoHeads(c.todo)
  /\ \E k \in 1..Len(c.down) :
       \A i \in 1..Len(c.down) :
         /\ i # k => c.down[i].kind \notin Heads
         /\ i >= k => c.down[i].id = m

Ending(c, m) == Quiet(c) /\ OnlyOf(c.down, m) /\ OnlyOf(c.todo, m)

Asked(c, m) == Sent(c, m) \/ Waiting(c, m) \/ Begun(c, m)

(* ... unless a detached reader has swallowed the head.                    *)
Due(c, m) == Asked(c, m) \/ Quiet(c)

ServerLive(c) == c.server = "handle" => c.todo # <<>>

LEMMA TokenTyped ==
  ASSUME NEW k \in {"bare", "head", "piece", "last", "zero", "crlf"}, NEW id \in Ids
  PROVE  Token(k, id) \in Tokens /\ Token(k, id).kind = k /\ Token(k, id).id = id
BY DEF Token, Tokens

(* An answer begins with its head, has no other, and is about one request. *)
LEMMA AnswerShape ==
  ASSUME NEW id \in Ids, NEW f \in {"length", "chunked"}, NEW n \in Nat
  PROVE  /\ Answer(id, f, n) \in Seq(Tokens)
         /\ Answer(id, f, n) # <<>>
         /\ OnlyOf(Answer(id, f, n), id)
         /\ \A i \in 2..Len(Answer(id, f, n)) : Answer(id, f, n)[i].kind \notin Heads
<1> DEFINE head == Token(IF f = "length" /\ n = 0 THEN "bare" ELSE "head", id)
           piece(i) == Token(IF f = "length" /\ i = n THEN "last" ELSE "piece", id)
           body == [i \in 1..n |-> piece(i)]
           end == IF f = "chunked" THEN <<Token("zero", id), Token("crlf", id)>> ELSE <<>>
<1>1. head \in Tokens /\ head.id = id
  BY TokenTyped
<1>2. \A i \in 1..n : piece(i) \in Tokens /\ piece(i).id = id /\ piece(i).kind \notin Heads
  BY TokenTyped DEF Heads
<1>3. body \in Seq(Tokens) /\ Len(body) = n /\ \A i \in 1..n : body[i] = piece(i)
  <2> HIDE DEF piece
  <2> QED BY <1>2
<1>4. /\ end \in Seq(Tokens)
      /\ \A i \in 1..Len(end) : end[i].id = id /\ end[i].kind \notin Heads
  <2>1. /\ Token("zero", id) \in Tokens /\ Token("crlf", id) \in Tokens
        /\ Token("zero", id).id = id /\ Token("crlf", id).id = id
        /\ Token("zero", id).kind \notin Heads /\ Token("crlf", id).kind \notin Heads
    BY TokenTyped DEF Heads
  <2> HIDE DEF Token
  <2> QED BY <2>1
<1>5. /\ body \o end \in Seq(Tokens)
      /\ Len(body \o end) = Len(body) + Len(end)
      /\ \A i \in 1..Len(body \o end) : (body \o end)[i].id = id /\ (body \o end)[i].kind \notin Heads
  <2>1. \A i \in 1..Len(body) : body[i].id = id /\ body[i].kind \notin Heads
    BY <1>2, <1>3
  <2>2. body \in Seq(Tokens) /\ end \in Seq(Tokens)
    BY <1>3, <1>4
  <2> HIDE DEF body, end
  <2>3. \A i \in 1..Len(body \o end) :
          (body \o end)[i] = IF i <= Len(body) THEN body[i] ELSE end[i - Len(body)]
    BY <2>2
  <2> QED BY <2>1, <2>3, <1>3, <1>4
<1>6. Answer(id, f, n) = <<head>> \o (body \o end)
  <2>1. Answer(id, f, n) = (<<head>> \o body) \o end
    BY DEF Answer
  <2> HIDE DEF head, body, end
  <2> QED BY <2>1, <1>1, <1>3, <1>4
<1> DEFINE rest == body \o end
<1> HIDE DEF head, rest
<1>7. /\ <<head>> \o rest \in Seq(Tokens)
      /\ Len(<<head>> \o rest) = 1 + Len(rest)
      /\ (<<head>> \o rest)[1] = head
      /\ \A i \in 2..Len(<<head>> \o rest) : i - 1 \in 1..Len(rest) /\ (<<head>> \o rest)[i] = rest[i - 1]
  BY <1>1, <1>5 DEF rest
<1>8. \A i \in 1..Len(rest) : rest[i].id = id /\ rest[i].kind \notin Heads
  BY <1>5 DEF rest
<1> DEFINE whole == <<head>> \o rest
<1>9. Answer(id, f, n) = whole
  BY <1>6 DEF rest
<1> HIDE DEF whole
<1>10. whole \in Seq(Tokens) /\ Len(whole) = 1 + Len(rest) /\ Len(rest) \in Nat
  BY <1>5, <1>7 DEF whole, rest
<1>11. whole[1].id = id
  BY <1>1, <1>7 DEF whole
<1>12. \A i \in 2..Len(whole) : whole[i].id = id /\ whole[i].kind \notin Heads
  BY <1>7, <1>8 DEF whole
<1>13. OnlyOf(whole, id)
  BY <1>10, <1>11, <1>12 DEF OnlyOf
<1> QED BY <1>9, <1>10, <1>12, <1>13

LEMMA AnswersShape ==
  ASSUME NEW id \in Ids, NEW q \in Answers(id)
  PROVE  /\ q \in Seq(Tokens) /\ q # <<>> /\ OnlyOf(q, id)
         /\ \A i \in 2..Len(q) : q[i].kind \notin Heads
<1>1. PICK f \in Framings : q = Answer(id, f[1], f[2])
  BY DEF Answers
<1>2. f[1] \in {"length", "chunked"} /\ f[2] \in Nat
  BY FramingsAssumption
<1> QED BY <1>1, <1>2, AnswerShape

-----------------------------------------------------------------------------
(* The end of a sequence, and one more token at its end.                   *)
LEMMA TailOf ==
  ASSUME NEW S, NEW q \in Seq(S), q # <<>>
  PROVE  /\ Head(q) \in S /\ Head(q) = q[1]
         /\ Tail(q) \in Seq(S) /\ Len(Tail(q)) = Len(q) - 1 /\ Len(q) \in Nat \ {0}
         /\ \A i \in 1..Len(Tail(q)) : i + 1 \in 1..Len(q) /\ Tail(q)[i] = q[i + 1]
OBVIOUS

LEMMA LenEmpty == Len(<<>>) = 0
OBVIOUS

LEMMA AppendOf ==
  ASSUME NEW S, NEW q \in Seq(S), NEW x \in S
  PROVE  /\ Append(q, x) \in Seq(S) /\ Append(q, x) # <<>>
         /\ Len(Append(q, x)) = Len(q) + 1 /\ Len(q) \in Nat
         /\ \A i \in 1..Len(q) : Append(q, x)[i] = q[i]
         /\ Append(q, x)[Len(q) + 1] = x
OBVIOUS

(* What the three steps of a server do to a connection, field by field.    *)
LEMMA ServerCases ==
  ASSUME NEW c \in Conns, ServerLive(c), NEW d \in ServerSteps(c)
  PROVE  /\ d \in Conns /\ ServerLive(d)
         /\ \/ /\ c.up # <<>> /\ d.up = Tail(c.up) /\ d.down = c.down
               /\ d.todo \in Answers(Head(c.up))
            \/ /\ c.todo # <<>> /\ d.up = c.up
               /\ d.down = Append(c.down, Head(c.todo)) /\ d.todo = Tail(c.todo)
            \/ d.up = c.up /\ d.down = c.down /\ d.todo = <<>>
<1> USE DEF Servers
<1>0. /\ c.up \in Seq(Ids) /\ c.down \in Seq(Tokens) /\ c.todo \in Seq(Tokens)
      /\ c.server \in Servers /\ c.open \in BOOLEAN
  BY DEF Conns
<1>1. CASE d \in ServerReads(c)
  <2> DEFINE rest == Tail(c.up)
             read(a) == [c EXCEPT !.up = rest, !.server = "handle", !.todo = a]
  <2>1. c.open /\ c.server = "ready" /\ c.up # <<>>
    <3> SUFFICES ASSUME ~(c.open /\ c.server = "ready" /\ c.up # <<>>) PROVE FALSE
      OBVIOUS
    <3>1. ServerReads(c) = {}
      BY Zenon DEF ServerReads
    <3> QED BY <1>1, <3>1
  <2>2. ServerReads(c) = {read(a) : a \in Answers(Head(c.up))}
    BY <2>1, Zenon DEF ServerReads
  <2>3. PICK answer \in Answers(Head(c.up)) : d = read(answer)
    BY <1>1, <2>2, Zenon
  <2>4. Head(c.up) \in Ids /\ rest \in Seq(Ids)
    BY <1>0, <2>1, TailOf
  <2>5. answer \in Seq(Tokens) /\ answer # <<>>
    BY <2>4, AnswersShape
  <2>6. d = [c EXCEPT !.up = rest, !.server = "handle", !.todo = answer]
    BY <2>3
  <2>8. rest = Tail(c.up)
    OBVIOUS
  <2> HIDE DEF rest, read
  <2>7. d \in Conns /\ d.up = rest /\ d.down = c.down /\ d.todo = answer
    BY <2>4, <2>5, <2>6 DEF Conns
  <2> QED BY <2>1, <2>5, <2>7, <2>8 DEF ServerLive
<1>2. CASE d \in ServerWrites(c)
  <2>1. c.server = "handle" /\ c.todo # <<>>
    BY <1>2 DEF ServerWrites, ServerLive
  <2> DEFINE down == Append(c.down, Head(c.todo))
             rest == Tail(c.todo)
             server == IF Len(c.todo) = 1 THEN "ready" ELSE "handle"
  <2>2. d = [c EXCEPT !.down = down, !.todo = rest, !.server = server]
    <3>1. ServerWrites(c) = {[c EXCEPT !.down = down, !.todo = rest, !.server = server]}
      BY <2>1, Zenon DEF ServerWrites
    <3> QED BY <1>2, <3>1, Zenon
  <2>3. down \in Seq(Tokens) /\ rest \in Seq(Tokens) /\ server \in Servers
    BY <1>0, <2>1, TailOf, AppendOf
  <2>4. server = "handle" => rest # <<>>
    <3>1. Len(rest) = Len(c.todo) - 1 /\ Len(c.todo) \in Nat \ {0}
      BY <1>0, <2>1, TailOf
    <3>2. rest = <<>> => Len(rest) = 0
      BY Zenon, LenEmpty
    <3>3. server = "handle" => Len(c.todo) # 1
      OBVIOUS
    <3> HIDE DEF rest, server
    <3> QED BY <3>1, <3>2, <3>3
  <2>5. down = Append(c.down, Head(c.todo)) /\ rest = Tail(c.todo)
    OBVIOUS
  <2> HIDE DEF down, rest, server
  <2>6. d \in Conns /\ d.up = c.up /\ d.down = down /\ d.todo = rest /\ d.server = server
    BY <2>2, <2>3 DEF Conns
  <2> QED BY <2>1, <2>4, <2>5, <2>6 DEF ServerLive
<1>3. CASE d \in ServerEnds(c)
  <2>1. d = [c EXCEPT !.server = "gone", !.todo = <<>>]
    BY <1>3 DEF ServerEnds
  <2>2. <<>> \in Seq(Tokens)
    OBVIOUS
  <2> DEFINE none == <<>>
  <2>3. d = [c EXCEPT !.server = "gone", !.todo = none] /\ none \in Seq(Tokens)
    BY <2>1
  <2> HIDE DEF none
  <2>4. d \in Conns /\ d.up = c.up /\ d.down = c.down /\ d.todo = none /\ d.server = "gone"
    BY <2>3 DEF Conns
  <2> QED BY <2>4 DEF none, ServerLive
<1> QED BY <1>1, <1>2, <1>3 DEF ServerSteps

(* The quiet phase, and the last phase of an answer, survive the server's  *)
(* steps.                                                                  *)
LEMMA ServerQuiet ==
  ASSUME NEW c \in Conns, ServerLive(c), NEW d \in ServerSteps(c), Quiet(c)
  PROVE  Quiet(d) /\ \A m : Ending(c, m) => Ending(d, m)
<1>0. /\ c.up \in Seq(Ids) /\ c.down \in Seq(Tokens) /\ c.todo \in Seq(Tokens) /\ c.up = <<>>
  BY DEF Conns, Quiet
<1>1. CASE c.todo # <<>> /\ d.up = c.up /\ d.down = Append(c.down, Head(c.todo)) /\ d.todo = Tail(c.todo)
  <2> DEFINE x == Head(c.todo)
  <2>1. /\ x \in Tokens /\ x = c.todo[1] /\ 1 \in 1..Len(c.todo)
        /\ Len(Tail(c.todo)) = Len(c.todo) - 1 /\ Len(c.todo) \in Nat \ {0}
        /\ \A i \in 1..Len(Tail(c.todo)) : i + 1 \in 1..Len(c.todo) /\ Tail(c.todo)[i] = c.todo[i + 1]
    BY <1>0, <1>1, TailOf
  <2> HIDE DEF x
  <2>2. /\ Len(Append(c.down, x)) = Len(c.down) + 1 /\ Len(c.down) \in Nat
        /\ \A i \in 1..Len(c.down) : Append(c.down, x)[i] = c.down[i]
        /\ Append(c.down, x)[Len(c.down) + 1] = x
    BY <1>0, <2>1, AppendOf
  <2>3. \A i \in 1..Len(d.down) : d.down[i] = x \/ (i \in 1..Len(c.down) /\ d.down[i] = c.down[i])
    BY <1>1, <2>2 DEF x
  <2>4. \A i \in 1..Len(d.todo) : i + 1 \in 1..Len(c.todo) /\ d.todo[i] = c.todo[i + 1]
    BY <1>1, <2>1
  <2> QED BY <1>0, <1>1, <2>1, <2>3, <2>4 DEF Quiet, Ending, NoHeads, OnlyOf
<1>2. CASE d.up = c.up /\ d.down = c.down /\ d.todo = <<>>
  BY <1>0, <1>2, LenEmpty DEF Quiet, Ending, NoHeads, OnlyOf
<1> QED BY <1>0, <1>1, <1>2, ServerCases

(* So do the phases of a request whose answer has not begun to be read.    *)
LEMMA ServerAsked ==
  ASSUME NEW c \in Conns, ServerLive(c), NEW d \in ServerSteps(c), NEW m \in Ids, Asked(c, m)
  PROVE  Asked(d, m)
<1>0. c.up \in Seq(Ids) /\ c.down \in Seq(Tokens) /\ c.todo \in Seq(Tokens)
  BY DEF Conns
<1>1. CASE c.up # <<>> /\ d.up = Tail(c.up) /\ d.down = c.down /\ d.todo \in Answers(Head(c.up))
  <2>1. Sent(c, m)
    BY <1>1 DEF Asked, Waiting, Begun
  <2>2. Head(c.up) = m /\ d.up = <<>>
    BY <1>1, <2>1 DEF Sent
  <2>3. OnlyOf(d.todo, m) /\ \A i \in 2..Len(d.todo) : d.todo[i].kind \notin Heads
    <3>1. d.todo \in Answers(m)
      BY <1>1, <2>2
    <3> QED BY <3>1, AnswersShape
  <2> QED BY <1>1, <2>1, <2>2, <2>3 DEF Asked, Sent, Waiting
<1>2. CASE c.todo # <<>> /\ d.up = c.up /\ d.down = Append(c.down, Head(c.todo)) /\ d.todo = Tail(c.todo)
  <2> DEFINE x == Head(c.todo)
             n == Len(c.down)
  <2>1. /\ x \in Tokens /\ x = c.todo[1] /\ 1 \in 1..Len(c.todo)
        /\ Len(Tail(c.todo)) = Len(c.todo) - 1 /\ Len(c.todo) \in Nat \ {0}
        /\ \A i \in 1..Len(Tail(c.todo)) : i + 1 \in 2..Len(c.todo) /\ Tail(c.todo)[i] = c.todo[i + 1]
    BY <1>0, <1>2, TailOf
  <2>2. x = Head(c.todo)
    OBVIOUS
  <2> HIDE DEF x
  <2>3. /\ Len(Append(c.down, x)) = n + 1 /\ n \in Nat
        /\ \A i \in 1..n : Append(c.down, x)[i] = c.down[i]
        /\ Append(c.down, x)[n + 1] = x
    BY <1>0, <2>1, AppendOf
  <2>4. /\ Len(d.down) = n + 1 /\ n \in Nat
        /\ \A i \in 1..n : d.down[i] = c.down[i]
        /\ d.down[n + 1] = x
    BY <1>2, <2>2, <2>3
  <2>5. \A i \in 1..Len(d.todo) : i + 1 \in 2..Len(c.todo) /\ d.todo[i] = c.todo[i + 1]
    BY <1>2, <2>1
  <2>6. 2..Len(c.todo) \subseteq 1..Len(c.todo)
    BY <2>1
  <2>7. CASE Sent(c, m)
    <3>1. NoHeads(d.down)
      <4>1. x.kind \notin Heads
        BY <2>1, <2>7 DEF Sent, NoHeads
      <4>2. \A i \in 1..n : d.down[i].kind \notin Heads
        BY <2>4, <2>7 DEF Sent, NoHeads
      <4>3. \A i \in 1..Len(d.down) : i \in 1..n \/ d.down[i] = x
        BY <2>4
      <4> QED BY <4>1, <4>2, <4>3 DEF NoHeads
    <3>2. NoHeads(d.todo)
      BY <2>5, <2>6, <2>7 DEF Sent, NoHeads
    <3> QED BY <1>2, <2>7, <3>1, <3>2 DEF Asked, Sent
  <2>8. CASE Waiting(c, m)
    <3>1. d.up = <<>> /\ OnlyOf(d.todo, m) /\ NoHeads(d.todo) /\ x.id = m /\ NoHeads(c.down)
      BY <1>2, <2>1, <2>5, <2>6, <2>8 DEF Waiting, OnlyOf, NoHeads
    <3>2. CASE x.kind \in Heads
      <4>1. \A i \in 1..Len(d.down) : i # n + 1 => d.down[i].kind \notin Heads
        BY <2>4, <3>1 DEF NoHeads
      <4>2. \A i \in 1..Len(d.down) : i >= n + 1 => d.down[i].id = m
        BY <2>4, <3>1
      <4>3. n + 1 \in 1..Len(d.down)
        BY <2>4
      <4> HIDE DEF n
      <4> QED BY <3>1, <4>1, <4>2, <4>3 DEF Asked, Begun
    <3>3. CASE x.kind \notin Heads
      <4>1. NoHeads(d.down)
        BY <2>4, <3>1, <3>3 DEF NoHeads
      <4>2. \A i \in 2..Len(d.todo) : i \in 1..Len(d.todo)
        BY <1>2, <2>1
      <4> QED BY <3>1, <4>1, <4>2 DEF Asked, Waiting, NoHeads
    <3> QED BY <3>2, <3>3
  <2>9. CASE Begun(c, m)
    <3>1. d.up = <<>> /\ OnlyOf(d.todo, m) /\ NoHeads(d.todo) /\ x.id = m /\ x.kind \notin Heads
      BY <1>2, <2>1, <2>5, <2>6, <2>9 DEF Begun, OnlyOf, NoHeads
    <3>2. PICK k \in 1..n :
            \A i \in 1..n :
              /\ i # k => c.down[i].kind \notin Heads
              /\ i >= k => c.down[i].id = m
      BY <2>9 DEF Begun
    <3>3. \A i \in 1..Len(d.down) :
            /\ i # k => d.down[i].kind \notin Heads
            /\ i >= k => d.down[i].id = m
      <4>1. \A i \in 1..Len(d.down) : i \in 1..n \/ i = n + 1
        BY <2>4
      <4>2. d.down[n + 1].kind \notin Heads /\ d.down[n + 1].id = m
        BY <2>4, <3>1
      <4>3. \A i \in 1..n :
              /\ i # k => d.down[i].kind \notin Heads
              /\ i >= k => d.down[i].id = m
        BY <2>4, <3>2
      <4> QED BY <4>1, <4>2, <4>3
    <3>4. k \in 1..Len(d.down)
      BY <2>4, <3>2
    <3> QED BY <3>1, <3>3, <3>4 DEF Asked, Begun
  <2> QED BY <2>7, <2>8, <2>9 DEF Asked
<1>3. CASE d.up = c.up /\ d.down = c.down /\ d.todo = <<>>
  <2>1. NoHeads(d.todo) /\ OnlyOf(d.todo, m) /\ \A i \in 2..Len(d.todo) : FALSE
    BY <1>3, LenEmpty DEF NoHeads, OnlyOf
  <2>2. Sent(c, m) => Sent(d, m)
    BY <1>3, <2>1 DEF Sent
  <2>3. Waiting(c, m) => Waiting(d, m)
    BY <1>3, <2>1 DEF Waiting
  <2>4. Begun(c, m) => Begun(d, m)
    BY <1>3, <2>1 DEF Begun
  <2> QED BY <2>2, <2>3, <2>4 DEF Asked
<1> QED BY <1>1, <1>2, <1>3, ServerCases

-----------------------------------------------------------------------------
(* Types.                                                                  *)
LEMMA NoTyped == No \in Conns /\ Quiet(No) /\ ServerLive(No)
<1>1. No \in Conns
  BY DEF No, Conns, Servers
<1>2. No.up = <<>> /\ No.down = <<>> /\ No.todo = <<>> /\ No.server = "gone"
  BY DEF No
<1> QED BY <1>1, <1>2, LenEmpty DEF Quiet, NoHeads, ServerLive

LEMMA FreshTyped ==
  /\ Fresh \in Conns /\ ServerLive(Fresh)
  /\ Fresh.up = <<>> /\ Fresh.down = <<>> /\ Fresh.todo = <<>>
<1>1. No.up = <<>> /\ No.down = <<>> /\ No.todo = <<>>
  BY DEF No
<1>2. Fresh \in Conns
  BY NoTyped DEF Fresh, Conns, Servers
<1>3. Fresh.up = No.up /\ Fresh.down = No.down /\ Fresh.todo = No.todo /\ Fresh.server = "ready"
  BY NoTyped DEF Fresh, Conns
<1> QED BY <1>1, <1>2, <1>3 DEF ServerLive

(* The connection with one more request.                                   *)
LEMMA RequestTyped ==
  ASSUME NEW c \in Conns, ServerLive(c), NEW id \in Ids
  PROVE  /\ WriteRequest(c, id) \in Conns /\ ServerLive(WriteRequest(c, id))
         /\ Quiet(c) => Sent(WriteRequest(c, id), id)
<1> DEFINE up == Append(c.up, id)
           d == [c EXCEPT !.up = up]
<1>1. up \in Seq(Ids) /\ (c.up = <<>> => up = <<id>>)
  <2>1. c.up \in Seq(Ids)
    BY DEF Conns
  <2>2. up \in Seq(Ids)
    BY <2>1, AppendOf
  <2>3. Append(<<>>, id) = <<id>>
    OBVIOUS
  <2>4. c.up = <<>> => up = Append(<<>>, id)
    OBVIOUS
  <2> QED BY <2>2, <2>3, <2>4, Zenon
<1>2. WriteRequest(c, id) = d
  BY DEF WriteRequest
<1> HIDE DEF up
<1>3. d \in Conns /\ d.up = up /\ d.down = c.down /\ d.todo = c.todo /\ d.server = c.server
  BY <1>1 DEF Conns
<1> HIDE DEF d
<1> QED BY <1>1, <1>2, <1>3 DEF ServerLive, Quiet, Sent

(* The connection with its next token read.                                *)
LEMMA ReadTyped ==
  ASSUME NEW c \in Conns, ServerLive(c), Readable(c)
  PROVE  /\ Read(c) \in Conns /\ ServerLive(Read(c))
         /\ Next1(c) = c.down[1] /\ 1 \in 1..Len(c.down)
         /\ Read(c).up = c.up /\ Read(c).todo = c.todo
         /\ Len(Read(c).down) = Len(c.down) - 1 /\ Len(c.down) \in Nat
         /\ \A i \in 1..Len(Read(c).down) : i + 1 \in 1..Len(c.down) /\ i + 1 # 1 /\ Read(c).down[i] = c.down[i + 1]
<1> DEFINE rest == Tail(c.down)
           d == [c EXCEPT !.down = rest]
<1>0. c.down \in Seq(Tokens) /\ c.down # <<>>
  BY DEF Conns, Readable
<1>1. /\ rest \in Seq(Tokens) /\ Len(rest) = Len(c.down) - 1 /\ Len(c.down) \in Nat \ {0}
      /\ \A i \in 1..Len(rest) : rest[i] = c.down[i + 1]
      /\ Head(c.down) = c.down[1]
  BY <1>0, TailOf
<1>2. Read(c) = d
  BY DEF Read
<1> HIDE DEF rest
<1>3. d \in Conns /\ d.up = c.up /\ d.down = rest /\ d.todo = c.todo /\ d.server = c.server
  BY <1>1 DEF Conns
<1> HIDE DEF d
<1>4. \A i \in 1..Len(rest) : i + 1 \in 1..Len(c.down) /\ i + 1 # 1 /\ rest[i] = c.down[i + 1]
  BY <1>1
<1>5. 1 \in 1..Len(c.down)
  BY <1>1
<1> QED BY <1>1, <1>2, <1>3, <1>4, <1>5 DEF ServerLive, Next1

(* Reading the head of an answer, or a token behind it, leaves the rest.   *)
LEMMA ReadAsked ==
  ASSUME NEW c \in Conns, ServerLive(c), Readable(c), NEW m \in Ids, Asked(c, m), Next1(c).kind \in Heads
  PROVE  Next1(c).id = m /\ Ending(Read(c), m)
<1>1. Begun(c, m)
  BY ReadTyped DEF Asked, Sent, Waiting, NoHeads
<1>2. /\ \A i \in 1..Len(c.down) : c.down[i].id = m /\ (i # 1 => c.down[i].kind \notin Heads)
  <2>1. PICK k \in 1..Len(c.down) :
          \A i \in 1..Len(c.down) :
            /\ i # k => c.down[i].kind \notin Heads
            /\ i >= k => c.down[i].id = m
    BY <1>1 DEF Begun
  <2>2. k = 1
    BY <2>1, ReadTyped
  <2> QED BY <2>1, <2>2
<1>3. NoHeads(Read(c).down) /\ OnlyOf(Read(c).down, m)
  <2>1. \A i \in 1..Len(Read(c).down) : i + 1 \in 1..Len(c.down) /\ i + 1 # 1 /\ Read(c).down[i] = c.down[i + 1]
    BY ReadTyped
  <2> QED BY <1>2, <2>1 DEF NoHeads, OnlyOf
<1> QED BY <1>1, <1>2, <1>3, ReadTyped DEF Begun, Ending, Quiet

LEMMA ReadEnding ==
  ASSUME NEW c \in Conns, ServerLive(c), Readable(c), NEW m \in Ids, Ending(c, m)
  PROVE  Next1(c).id = m /\ Ending(Read(c), m)
<1>1. /\ Next1(c) = c.down[1] /\ 1 \in 1..Len(c.down)
      /\ Read(c).up = c.up /\ Read(c).todo = c.todo
      /\ \A i \in 1..Len(Read(c).down) : i + 1 \in 1..Len(c.down) /\ Read(c).down[i] = c.down[i + 1]
  BY ReadTyped
<1>2. NoHeads(Read(c).down) /\ OnlyOf(Read(c).down, m)
  BY <1>1 DEF Ending, Quiet, NoHeads, OnlyOf
<1> QED BY <1>1, <1>2 DEF Ending, Quiet, OnlyOf

(* Reading anything from a quiet connection leaves it quiet.               *)
LEMMA ReadQuiet ==
  ASSUME NEW c \in Conns, ServerLive(c), Readable(c), Quiet(c)
  PROVE  Quiet(Read(c)) /\ Next1(c).kind \notin Heads
<1>1. /\ Next1(c) = c.down[1] /\ 1 \in 1..Len(c.down)
      /\ Read(c).up = c.up /\ Read(c).todo = c.todo
      /\ \A i \in 1..Len(Read(c).down) : i + 1 \in 1..Len(c.down) /\ Read(c).down[i] = c.down[i + 1]
  BY ReadTyped
<1>2. NoHeads(Read(c).down) /\ Next1(c).kind \notin Heads
  BY <1>1 DEF Quiet, NoHeads
<1> QED BY <1>1, <1>2 DEF Quiet

(* A detached reader takes whatever is next, be it the head of the answer  *)
(* to the request of another.                                              *)
LEMMA ReadDue ==
  ASSUME NEW c \in Conns, ServerLive(c), Readable(c), NEW m \in Ids, Due(c, m)
  PROVE  Due(Read(c), m)
<1>1. /\ Next1(c) = c.down[1] /\ 1 \in 1..Len(c.down)
      /\ Read(c).up = c.up /\ Read(c).todo = c.todo
      /\ \A i \in 1..Len(Read(c).down) : i + 1 \in 1..Len(c.down) /\ Read(c).down[i] = c.down[i + 1]
  BY ReadTyped
<1>2. NoHeads(c.down) => NoHeads(Read(c).down)
  BY <1>1 DEF NoHeads
<1>3. CASE Quiet(c)
  BY <1>3, ReadQuiet DEF Due
<1>4. CASE Sent(c, m)
  BY <1>1, <1>2, <1>4 DEF Due, Asked, Sent
<1>5. CASE Waiting(c, m)
  BY <1>1, <1>2, <1>5 DEF Due, Asked, Waiting
<1>6. CASE Begun(c, m)
  <2>1. PICK k \in 1..Len(c.down) :
          \A i \in 1..Len(c.down) :
            /\ i # k => c.down[i].kind \notin Heads
            /\ i >= k => c.down[i].id = m
    BY <1>6 DEF Begun
  <2>2. CASE k = 1
    <3>1. NoHeads(Read(c).down)
      BY <2>1, <2>2, ReadTyped DEF NoHeads
    <3> QED BY <1>1, <1>6, <3>1 DEF Due, Quiet, Begun
  <2>3. CASE k # 1
    <3>1. Len(Read(c).down) = Len(c.down) - 1 /\ Len(c.down) \in Nat
      BY ReadTyped
    <3>2. k - 1 \in 1..Len(Read(c).down)
      BY <2>3, <3>1
    <3>3. \A i \in 1..Len(Read(c).down) :
            /\ i # k - 1 => Read(c).down[i].kind \notin Heads
            /\ i >= k - 1 => Read(c).down[i].id = m
      <4>1. \A i \in 1..Len(Read(c).down) :
              /\ i + 1 \in 1..Len(c.down) /\ Read(c).down[i] = c.down[i + 1]
              /\ (i # k - 1 => i + 1 # k) /\ (i >= k - 1 => i + 1 >= k)
        BY <1>1
      <4> QED BY <2>1, <4>1
    <3>4. Begun(Read(c), m)
      BY <1>1, <1>6, <3>2, <3>3 DEF Begun
    <3> QED BY <3>4 DEF Due, Asked
  <2> QED BY <2>2, <2>3
<1> QED BY <1>3, <1>4, <1>5, <1>6 DEF Due, Asked

-----------------------------------------------------------------------------
(* What a step does to the pool, whatever action it is: somebody without   *)
(* an entry moves; takes one; is refused; gives one back; uses the one he  *)
(* holds; a detached reader reads or ends; or the server moves.            *)
HasEntry(t) == pc[t] \in {"gcIn", "held", "hold", "request", "streamed", "body"}

Busy(t) == Asking(t) \/ Reading(t)

Alone(t) ==
  \A u \in Tasks \ {t} : pc'[u] = pc[u] /\ at'[u] = at[u] /\ mine'[u] = mine[u]

Changes(e, r) == r \in EntrySet /\ entry' = [entry EXCEPT ![e] = r]

(* What becomes of the connection of an entry and of its readers: nothing; *)
(* or both are gone.                                                       *)
Kept(r, q) == r.conn = q.conn /\ r.readers = q.readers /\ r.crossed = q.crossed

Gone(r) == r.conn = No /\ r.readers = {}

Moves(t) == Alone(t) /\ entry' = entry /\ ~HasEntry(t) /\ ~HasEntry(t)'

Takes(t) ==
  /\ Alone(t) /\ ~HasEntry(t) /\ HasEntry(t)' /\ ~Busy(t)' /\ at'[t] = at[t]
  /\ ~Here(t).inuse
  /\ \E r \in EntrySet : Changes(at[t], r) /\ r.inuse /\ Kept(r, Here(t))

Refused(t) ==
  /\ Alone(t) /\ ~HasEntry(t) /\ ~HasEntry(t)' /\ ~Supported
  /\ ~Here(t).inuse
  /\ \E r \in EntrySet : Changes(at[t], r) /\ r.inuse /\ Kept(r, Here(t))

Leaves(t) ==
  /\ Alone(t) /\ HasEntry(t) /\ ~Busy(t) /\ ~HasEntry(t)'
  /\ \E r \in EntrySet : Changes(at[t], r) /\ ~r.inuse /\ (Gone(r) \/ Kept(r, Here(t)))

Asks(t, r) ==
  /\ ~Busy(t) /\ Asking(t)' /\ mine'[t] \in Ids
  /\ \E b \in {Here(t).conn, Fresh} : r.conn = WriteRequest(b, mine'[t])
  /\ ~r.crossed => r.readers = {}

Reads(t, r) ==
  /\ Busy(t) /\ mine'[t] = mine[t]
  /\ Readable(Here(t).conn) /\ r.conn = Read(Here(t).conn)
  /\ Asking(t) => Next1(Here(t).conn).kind \in Heads
  /\ r.crossed = Here(t).crossed
  /\ \/ r.readers = Here(t).readers /\ (Reading(t)' \/ ~Busy(t)')
     \/ r.readers = Here(t).readers \cup {mine[t]} /\ ~Busy(t)'

GivesUp(t, r) == ~Busy(t)' /\ Gone(r)

Uses(t) ==
  /\ Alone(t) /\ HasEntry(t) /\ HasEntry(t)' /\ at'[t] = at[t]
  /\ \E r \in EntrySet :
       /\ Changes(at[t], r) /\ r.inuse = Here(t).inuse
       /\ Asks(t, r) \/ Reads(t, r) \/ GivesUp(t, r)

Streams(e) ==
  /\ UNCHANGED <<pc, at, mine>>
  /\ \E r \in EntrySet :
       /\ Changes(e, r) /\ r.inuse = entry[e].inuse /\ r.crossed = entry[e].crossed
       /\ r.readers \subseteq entry[e].readers
       /\ \/ r.conn = entry[e].conn
          \/ Readable(entry[e].conn) /\ r.conn = Read(entry[e].conn)

Served(e) ==
  /\ UNCHANGED <<pc, at, mine>>
  /\ \E r \in EntrySet :
       /\ Changes(e, r) /\ r.inuse = entry[e].inuse
       /\ r.conn \in ServerSteps(entry[e].conn)
       /\ r.readers = entry[e].readers /\ r.crossed = entry[e].crossed

Effect ==
  \/ \E t \in Tasks : Moves(t) \/ Takes(t) \/ Refused(t) \/ Leaves(t) \/ Uses(t)
  \/ \E e \in Entries : Streams(e) \/ Served(e)
  \/ UNCHANGED poolVars

Lives == \A e \in Entries : ServerLive(entry[e].conn)

Named == \A t \in Tasks : Busy(t) => mine[t] \in Ids

LEMMA EntryFields ==
  ASSUME NEW r \in EntrySet
  PROVE  /\ r.inuse \in BOOLEAN /\ r.valid \in BOOLEAN /\ r.conn \in Conns
         /\ r.readers \in SUBSET Ids /\ r.crossed \in BOOLEAN
BY DEF EntrySet

(* Fields of an entry written.                                             *)
LEMMA EntryMarked ==
  ASSUME NEW r \in EntrySet, NEW a \in BOOLEAN, NEW b \in BOOLEAN
  PROVE  /\ [r EXCEPT !.inuse = a] \in EntrySet /\ [r EXCEPT !.inuse = a].inuse = a
         /\ Kept([r EXCEPT !.inuse = a], r)
         /\ [r EXCEPT !.inuse = a, !.valid = b] \in EntrySet
         /\ [r EXCEPT !.inuse = a, !.valid = b].inuse = a
         /\ Kept([r EXCEPT !.inuse = a, !.valid = b], r)
BY DEF EntrySet, Kept

LEMMA EntryGone ==
  ASSUME NEW r \in EntrySet
  PROVE  Terminated(r) \in EntrySet /\ Gone(Terminated(r)) /\ Terminated(r).inuse = r.inuse
<1> DEFINE b == Crossing(r)
           q == [r EXCEPT !.conn = No, !.readers = {}, !.crossed = b]
<1>1. b \in BOOLEAN
  BY EntryFields DEF Crossing
<1>2. Terminated(r) = q
  BY DEF Terminated
<1> HIDE DEF b
<1>3. q \in EntrySet /\ q.conn = No /\ q.readers = {} /\ q.inuse = r.inuse
  BY <1>1, NoTyped DEF EntrySet
<1> QED BY <1>2, <1>3 DEF Gone

LEMMA UnusedTyped ==
  /\ Unused \in EntrySet /\ ~Unused.inuse /\ Unused.conn = No /\ Unused.readers = {}
BY NoTyped DEF Unused, EntrySet

LEMMA GotoMoves ==
  ASSUME PoolTypeOK, NEW t \in Tasks, NEW l \in Places, Goto(t, l)
  PROVE  pc' \in [Tasks -> Places] /\ pc'[t] = l /\ \A u \in Tasks \ {t} : pc'[u] = pc[u]
BY DEF PoolTypeOK, Goto

LEMMA MoveMoves ==
  ASSUME PoolTypeOK, NEW t \in Tasks, NEW i \in Entries, Move(t, i)
  PROVE  at' \in [Tasks -> Entries] /\ at'[t] = i /\ \A u \in Tasks \ {t} : at'[u] = at[u]
BY DEF PoolTypeOK, Move

LEMMA SlotOne == 1 \in Entries /\ \A i \in Entries : i < Slots => i + 1 \in Entries
BY HttpPoolAssumption DEF Entries

LEMMA AfterMoves ==
  ASSUME PoolTypeOK, NEW t \in Tasks, NEW l \in {"gc", "look"}, After(t, l)
  PROVE  /\ pc' \in [Tasks -> Places] /\ pc'[t] \in {"gc", "look", "wait"}
         /\ at' \in [Tasks -> Entries]
         /\ \A u \in Tasks \ {t} : pc'[u] = pc[u] /\ at'[u] = at[u]
<1>1. at[t] \in Entries
  BY DEF PoolTypeOK
<1>2. CASE at[t] < Slots
  <2>1. Goto(t, l) /\ Move(t, at[t] + 1) /\ at[t] + 1 \in Entries /\ l \in Places
    BY <1>1, <1>2, SlotOne DEF After, Places
  <2> QED BY <2>1, GotoMoves, MoveMoves
<1>3. CASE ~(at[t] < Slots)
  <2> DEFINE k == IF l = "gc" THEN "look" ELSE "wait"
  <2>1. Goto(t, k) /\ Move(t, 1) /\ 1 \in Entries /\ k \in Places /\ k \in {"look", "wait"}
    BY <1>3, SlotOne DEF After, Places
  <2> HIDE DEF k
  <2> QED BY <2>1, GotoMoves, MoveMoves
<1> QED BY <1>2, <1>3

LEMMA SearchMoves ==
  ASSUME PoolTypeOK, NEW t \in Tasks, Search(t)
  PROVE  pc' \in [Tasks -> Places] /\ pc'[t] \in {"gc", "look"} /\ \A u \in Tasks \ {t} : pc'[u] = pc[u]
<1>1. PICK l \in {"gc", "look"} : Goto(t, l)
  BY DEF Search
<1>2. l \in Places
  BY DEF Places
<1> QED BY <1>1, <1>2, GotoMoves

LEMMA HereTyped ==
  ASSUME PoolTypeOK, NEW t \in Tasks
  PROVE  /\ at[t] \in Entries /\ Here(t) = entry[at[t]] /\ Here(t) \in EntrySet
         /\ \A r \in EntrySet : SetHere(t, r) =>
              Changes(at[t], r) /\ entry' \in [Entries -> EntrySet]
BY DEF PoolTypeOK, Here, SetHere, Changes

(* The actions of a search.                                                *)
LEMMA SearchingEffect ==
  ASSUME PoolTypeOK, NEW t \in Tasks, Searching(t)
  PROVE  PoolTypeOK' /\ Effect
<1> USE DEF HasEntry, Busy, Asking, Reading
<1>0. /\ at[t] \in Entries /\ Here(t) = entry[at[t]] /\ Here(t) \in EntrySet
      /\ \A r \in EntrySet : SetHere(t, r) => Changes(at[t], r) /\ entry' \in [Entries -> EntrySet]
  BY HereTyped
<1>1. CASE GcMark(t)
  <2>1. PICK r \in EntrySet : SetHere(t, r) /\ r.inuse /\ Kept(r, Here(t))
    BY <1>0, <1>1, EntryMarked DEF GcMark
  <2>2. Changes(at[t], r) /\ entry' \in [Entries -> EntrySet]
    BY <1>0, <2>1
  <2>3. pc' \in [Tasks -> Places] /\ pc'[t] = "gcIn" /\ \A u \in Tasks \ {t} : pc'[u] = pc[u]
    BY <1>1, GotoMoves DEF GcMark, Places
  <2>4. pc[t] = "gc" /\ ~Here(t).inuse /\ at' = at /\ asked' = asked /\ mine' = mine
    BY <1>1 DEF GcMark
  <2>5. PoolTypeOK'
    BY <2>2, <2>3, <2>4 DEF PoolTypeOK
  <2>6. Takes(t)
    BY <2>1, <2>2, <2>3, <2>4 DEF Takes, Alone
  <2> QED BY <2>5, <2>6 DEF Effect
<1>2. CASE GcSkip(t)
  <2>1. /\ pc' \in [Tasks -> Places] /\ pc'[t] \in {"gc", "look", "wait"}
        /\ at' \in [Tasks -> Entries]
        /\ \A u \in Tasks \ {t} : pc'[u] = pc[u] /\ at'[u] = at[u]
    BY <1>2, AfterMoves DEF GcSkip
  <2>2. pc[t] = "gc" /\ entry' = entry /\ asked' = asked /\ mine' = mine
    BY <1>2 DEF GcSkip
  <2>3. PoolTypeOK'
    BY <2>1, <2>2 DEF PoolTypeOK
  <2>4. Moves(t)
    BY <2>1, <2>2 DEF Moves, Alone
  <2> QED BY <2>3, <2>4 DEF Effect
<1>3. CASE GcUnmark(t)
  <2>1. PICK r \in EntrySet : SetHere(t, r) /\ ~r.inuse /\ (Gone(r) \/ Kept(r, Here(t)))
    <3> DEFINE fresh == [Terminated(Here(t)) EXCEPT !.inuse = FALSE, !.valid = FALSE]
               same == [Here(t) EXCEPT !.inuse = FALSE]
    <3>1. SetHere(t, fresh) \/ SetHere(t, same)
      BY <1>3 DEF GcUnmark
    <3>2. fresh \in EntrySet /\ ~fresh.inuse /\ Gone(fresh)
      <4> DEFINE q == Terminated(Here(t))
      <4>1. q \in EntrySet /\ Gone(q)
        BY <1>0, EntryGone
      <4>2. fresh = [q EXCEPT !.inuse = FALSE, !.valid = FALSE]
        OBVIOUS
      <4> HIDE DEF q, fresh
      <4> QED BY <4>1, <4>2, EntryMarked DEF Gone, Kept
    <3>3. same \in EntrySet /\ ~same.inuse /\ Kept(same, Here(t))
      BY <1>0, EntryMarked
    <3> HIDE DEF fresh, same
    <3> QED BY <3>1, <3>2, <3>3
  <2>2. Changes(at[t], r) /\ entry' \in [Entries -> EntrySet]
    BY <1>0, <2>1
  <2>3. /\ pc' \in [Tasks -> Places] /\ pc'[t] \in {"gc", "look", "wait"}
        /\ at' \in [Tasks -> Entries]
        /\ \A u \in Tasks \ {t} : pc'[u] = pc[u] /\ at'[u] = at[u]
    BY <1>3, AfterMoves DEF GcUnmark
  <2>4. pc[t] = "gcIn" /\ asked' = asked /\ mine' = mine
    BY <1>3 DEF GcUnmark
  <2>5. PoolTypeOK'
    BY <2>2, <2>3, <2>4 DEF PoolTypeOK
  <2>6. Leaves(t)
    BY <2>1, <2>2, <2>3, <2>4 DEF Leaves, Alone
  <2> QED BY <2>5, <2>6 DEF Effect
<1>4. CASE Look(t)
  <2>0. pc[t] = "look" /\ asked' = asked /\ mine' = mine
    BY <1>4 DEF Look
  <2>1. CASE Here(t).inuse
    <3>1. After(t, "look") /\ entry' = entry
      BY <1>4, <2>1 DEF Look
    <3>2. /\ pc' \in [Tasks -> Places] /\ pc'[t] \in {"gc", "look", "wait"}
          /\ at' \in [Tasks -> Entries]
          /\ \A u \in Tasks \ {t} : pc'[u] = pc[u] /\ at'[u] = at[u]
      BY <3>1, AfterMoves
    <3>3. PoolTypeOK'
      BY <2>0, <3>1, <3>2 DEF PoolTypeOK
    <3>4. Moves(t)
      BY <2>0, <3>1, <3>2 DEF Moves, Alone
    <3> QED BY <3>3, <3>4 DEF Effect
  <2>2. CASE ~Here(t).inuse
    <3> DEFINE l == IF Supported THEN "held" ELSE "out"
               r == [Here(t) EXCEPT !.inuse = TRUE, !.valid = Supported]
    <3>1. SetHere(t, r) /\ Goto(t, l) /\ at' = at
      BY <1>4, <2>2 DEF Look
    <3>2. r \in EntrySet /\ r.inuse /\ Kept(r, Here(t))
      BY <1>0, HttpPoolAssumption, EntryMarked
    <3> HIDE DEF r
    <3>3. Changes(at[t], r) /\ entry' \in [Entries -> EntrySet]
      BY <1>0, <3>1, <3>2
    <3>4. l \in Places /\ l = IF Supported THEN "held" ELSE "out"
      BY DEF Places
    <3> HIDE DEF l
    <3>5. pc' \in [Tasks -> Places] /\ pc'[t] = l /\ \A u \in Tasks \ {t} : pc'[u] = pc[u]
      BY <3>1, <3>4, GotoMoves
    <3>6. PoolTypeOK'
      BY <2>0, <3>1, <3>3, <3>5 DEF PoolTypeOK
    <3>7. Supported => Takes(t)
      BY <2>0, <2>2, <3>1, <3>2, <3>3, <3>4, <3>5 DEF Takes, Alone
    <3>8. ~Supported => Refused(t)
      BY <2>0, <2>2, <3>1, <3>2, <3>3, <3>4, <3>5 DEF Refused, Alone
    <3> QED BY <3>6, <3>7, <3>8 DEF Effect
  <2> QED BY <2>1, <2>2
<1>5. CASE Wait(t)
  BY <1>5 DEF Wait, Effect, PoolTypeOK, poolVars
<1>6. CASE WaitOver(t)
  <2>1. pc[t] = "wait" /\ Search(t) /\ entry' = entry /\ at' = at /\ asked' = asked /\ mine' = mine
    BY <1>6 DEF WaitOver
  <2>2. /\ pc' \in [Tasks -> Places] /\ pc'[t] \in {"gc", "look"}
        /\ \A u \in Tasks \ {t} : pc'[u] = pc[u]
    BY <2>1, SearchMoves
  <2>3. PoolTypeOK'
    BY <2>1, <2>2 DEF PoolTypeOK
  <2>4. Moves(t)
    BY <2>1, <2>2 DEF Moves, Alone
  <2> QED BY <2>3, <2>4 DEF Effect
<1> QED BY <1>1, <1>2, <1>3, <1>4, <1>5, <1>6 DEF Searching

(* The actions of a client that holds an entry.                            *)
LEMMA UsingEffect ==
  ASSUME PoolTypeOK, Named, NEW t \in Tasks, Request(t) \/ Using(t)
  PROVE  PoolTypeOK' /\ Effect
<1> USE DEF HasEntry, Busy, Asking, Reading
<1>0. /\ at[t] \in Entries /\ Here(t) = entry[at[t]] /\ Here(t) \in EntrySet
      /\ \A r \in EntrySet : SetHere(t, r) => Changes(at[t], r) /\ entry' \in [Entries -> EntrySet]
  BY HereTyped
<1>a. Here(t).conn \in Conns
  BY <1>0, EntryFields
<1>1. CASE Request(t)
  <2> DEFINE b == IF Here(t).conn.open THEN Here(t).conn ELSE Fresh
             c == WriteRequest(b, asked')
             x == Crossing(Here(t))
             r == [Here(t) EXCEPT !.conn = c, !.crossed = x]
  <2>1. /\ pc[t] \in {"held", "hold"} /\ asked < MaxRequests /\ asked' = asked + 1
        /\ mine' = [mine EXCEPT ![t] = asked'] /\ SetHere(t, r) /\ at' = at
    BY <1>1 DEF Request
  <2>2. asked' \in 0..MaxRequests /\ asked' \in Ids
    BY <2>1, HttpPoolAssumption DEF PoolTypeOK
  <2>3. b \in Conns /\ b \in {Here(t).conn, Fresh}
    BY <1>a, FreshTyped
  <2>4. c \in Conns
    <3> HIDE DEF b
    <3>1. [b EXCEPT !.up = Append(b.up, asked')] \in Conns
      <4>1. Append(b.up, asked') \in Seq(Ids)
        BY <2>2, <2>3 DEF Conns
      <4> DEFINE up == Append(b.up, asked')
      <4>2. up \in Seq(Ids)
        BY <4>1
      <4> HIDE DEF up
      <4>3. [b EXCEPT !.up = up] \in Conns
        BY <2>3, <4>2 DEF Conns
      <4> QED BY <4>3 DEF up
    <3> QED BY <3>1 DEF WriteRequest
  <2>5. b \in {Here(t).conn, Fresh} /\ c = WriteRequest(b, asked')
    BY <2>3
  <2>a. x \in BOOLEAN /\ (~x => Here(t).readers = {})
    BY <1>0, EntryFields DEF Crossing
  <2> HIDE DEF b, c, x
  <2>6. /\ r \in EntrySet /\ r.inuse = Here(t).inuse /\ r.conn = c
        /\ ~r.crossed => r.readers = {}
    BY <1>0, <2>4, <2>a DEF EntrySet
  <2> HIDE DEF r
  <2>7. Changes(at[t], r) /\ entry' \in [Entries -> EntrySet]
    BY <1>0, <2>1, <2>6
  <2>8. PICK l \in {"request", "streamed"} : Goto(t, l)
    BY <1>1 DEF Request
  <2>9. pc' \in [Tasks -> Places] /\ pc'[t] = l /\ \A u \in Tasks \ {t} : pc'[u] = pc[u]
    BY <2>8, GotoMoves DEF Places
  <2>10. /\ mine' \in [Tasks -> 0..MaxRequests] /\ mine'[t] = asked'
         /\ \A u \in Tasks \ {t} : mine'[u] = mine[u]
    BY <2>1, <2>2 DEF PoolTypeOK
  <2>11. PoolTypeOK'
    BY <2>1, <2>2, <2>7, <2>9, <2>10 DEF PoolTypeOK
  <2>12. Asks(t, r)
    BY <2>1, <2>2, <2>5, <2>6, <2>9, <2>10 DEF Asks
  <2>13. Uses(t)
    BY <2>1, <2>6, <2>7, <2>9, <2>10, <2>12 DEF Uses, Alone
  <2> QED BY <2>11, <2>13 DEF Effect
<1>2. /\ Read(Here(t).conn) = [Here(t).conn EXCEPT !.down = Tail(@)]
      /\ Readable(Here(t).conn) => Read(Here(t).conn) \in Conns
  <2>1. ASSUME Readable(Here(t).conn)
        PROVE  Read(Here(t).conn) \in Conns
    <3>1. Tail(Here(t).conn.down) \in Seq(Tokens)
      BY <1>a, <2>1, TailOf DEF Conns, Readable
    <3> DEFINE rest == Tail(Here(t).conn.down)
    <3>2. rest \in Seq(Tokens)
      BY <3>1
    <3> HIDE DEF rest
    <3>3. [Here(t).conn EXCEPT !.down = rest] \in Conns
      BY <1>a, <3>2 DEF Conns
    <3> QED BY <3>3 DEF Read, rest
  <2> QED BY <2>1 DEF Read
<1>3. CASE ReadHead(t)
  <2> DEFINE c == Read(Here(t).conn)
             more == Next1(Here(t).conn).kind \notin Final(pc[t] = "streamed")
             S == IF more /\ pc[t] = "streamed" THEN Here(t).readers \cup {mine[t]} ELSE Here(t).readers
             r == [Here(t) EXCEPT !.conn = c, !.readers = S]
             l == IF more /\ pc[t] = "request" THEN "body" ELSE "hold"
  <2>1. /\ Asking(t) /\ Readable(Here(t).conn) /\ Next1(Here(t).conn).kind \in Heads
        /\ SetHere(t, r) /\ Goto(t, l)
        /\ at' = at /\ asked' = asked /\ mine' = mine
    BY <1>3 DEF ReadHead
  <2>2. c \in Conns /\ c = Read(Here(t).conn)
    BY <1>2, <2>1
  <2>3. S \in SUBSET Ids
    BY <1>0, <2>1, EntryFields DEF Named
  <2>4. /\ l \in {"hold", "body"}
        /\ S = Here(t).readers \/ (S = Here(t).readers \cup {mine[t]} /\ l = "hold")
    BY <2>1
  <2> HIDE DEF c, S, l
  <2>5. r \in EntrySet /\ r.inuse = Here(t).inuse /\ r.conn = c /\ r.readers = S /\ r.crossed = Here(t).crossed
    BY <1>0, <2>2, <2>3 DEF EntrySet
  <2> HIDE DEF r
  <2>6. Changes(at[t], r) /\ entry' \in [Entries -> EntrySet]
    BY <1>0, <2>1, <2>5
  <2>7. pc' \in [Tasks -> Places] /\ pc'[t] = l /\ \A u \in Tasks \ {t} : pc'[u] = pc[u]
    BY <2>1, <2>4, GotoMoves DEF Places
  <2>8. PoolTypeOK'
    BY <2>1, <2>6, <2>7 DEF PoolTypeOK
  <2>9. Reads(t, r)
    BY <2>1, <2>2, <2>4, <2>5, <2>7 DEF Reads
  <2>10. Uses(t)
    BY <2>1, <2>4, <2>5, <2>6, <2>7, <2>9 DEF Uses, Alone
  <2> QED BY <2>8, <2>10 DEF Effect
<1>4. CASE ReadBody(t)
  <2> DEFINE c == Read(Here(t).conn)
             r == [Here(t) EXCEPT !.conn = c]
  <2>1. /\ Reading(t) /\ Readable(Here(t).conn) /\ SetHere(t, r)
        /\ at' = at /\ asked' = asked /\ mine' = mine
        /\ Goto(t, "hold") \/ pc' = pc
    BY <1>4 DEF ReadBody
  <2>2. c \in Conns /\ c = Read(Here(t).conn)
    BY <1>2, <2>1
  <2> HIDE DEF c
  <2>3. /\ r \in EntrySet /\ r.inuse = Here(t).inuse /\ r.conn = c
        /\ r.readers = Here(t).readers /\ r.crossed = Here(t).crossed
    BY <1>0, <2>2 DEF EntrySet
  <2> HIDE DEF r
  <2>4. Changes(at[t], r) /\ entry' \in [Entries -> EntrySet]
    BY <1>0, <2>1, <2>3
  <2>5. pc' \in [Tasks -> Places] /\ pc'[t] \in {"hold", "body"} /\ \A u \in Tasks \ {t} : pc'[u] = pc[u]
    <3>1. CASE pc' = pc
      BY <2>1, <3>1 DEF PoolTypeOK
    <3>2. CASE Goto(t, "hold")
      BY <3>2, GotoMoves DEF Places
    <3> QED BY <2>1, <3>1, <3>2
  <2>6. PoolTypeOK'
    BY <2>1, <2>4, <2>5 DEF PoolTypeOK
  <2>7. Reads(t, r)
    BY <2>1, <2>2, <2>3, <2>5 DEF Reads
  <2>8. Uses(t)
    BY <2>1, <2>3, <2>4, <2>5, <2>7 DEF Uses, Alone
  <2> QED BY <2>6, <2>8 DEF Effect
<1>5. CASE Fail(t) \/ Misread(t)
  <2> DEFINE r == Terminated(Here(t))
  <2>1. /\ pc[t] \in {"request", "streamed", "body"} /\ Goto(t, "hold") /\ SetHere(t, r)
        /\ at' = at /\ asked' = asked /\ mine' = mine
    BY <1>5 DEF Fail, Misread, Dropped
  <2>2. r \in EntrySet /\ r.inuse = Here(t).inuse /\ Gone(r)
    BY <1>0, EntryGone
  <2> HIDE DEF r
  <2>3. Changes(at[t], r) /\ entry' \in [Entries -> EntrySet]
    BY <1>0, <2>1, <2>2
  <2>4. pc' \in [Tasks -> Places] /\ pc'[t] = "hold" /\ \A u \in Tasks \ {t} : pc'[u] = pc[u]
    BY <2>1, GotoMoves DEF Places
  <2>5. PoolTypeOK'
    BY <2>1, <2>3, <2>4 DEF PoolTypeOK
  <2>6. GivesUp(t, r)
    BY <2>2, <2>4 DEF GivesUp
  <2>7. Uses(t)
    BY <2>1, <2>2, <2>3, <2>4, <2>6 DEF Uses, Alone
  <2> QED BY <2>5, <2>7 DEF Effect
<1> QED BY <1>1, <1>3, <1>4, <1>5 DEF Using

(* Every step.                                                             *)
LEMMA StepEffect ==
  ASSUME PoolTypeOK, Lives, Named, [Next]_vars
  PROVE  PoolTypeOK' /\ Effect
<1> USE DEF HasEntry, Busy, Asking, Reading
<1>1. ASSUME NEW t \in Tasks, Connect(t)
      PROVE  PoolTypeOK' /\ Effect
  <2>1. /\ pc[t] = "out" /\ Search(t) /\ Move(t, 1)
        /\ entry' = entry /\ asked' = asked /\ mine' = mine
    BY <1>1 DEF Connect
  <2>2. pc' \in [Tasks -> Places] /\ pc'[t] \in {"gc", "look"} /\ \A u \in Tasks \ {t} : pc'[u] = pc[u]
    BY <2>1, SearchMoves
  <2>3. at' \in [Tasks -> Entries] /\ \A u \in Tasks \ {t} : at'[u] = at[u]
    BY <2>1, SlotOne, MoveMoves
  <2>4. PoolTypeOK'
    BY <2>1, <2>2, <2>3 DEF PoolTypeOK
  <2>5. Moves(t)
    BY <2>1, <2>2, <2>3 DEF Moves, Alone
  <2> QED BY <2>4, <2>5 DEF Effect
<1>2. ASSUME NEW t \in Tasks, Release(t)
      PROVE  PoolTypeOK' /\ Effect
  <2> DEFINE r == [Here(t) EXCEPT !.inuse = FALSE]
  <2>1. /\ pc[t] \in {"held", "hold"} /\ SetHere(t, r) /\ Goto(t, "tell") /\ Move(t, 1)
        /\ mine' = [mine EXCEPT ![t] = 0] /\ asked' = asked
    BY <1>2 DEF Release
  <2>2. r \in EntrySet /\ ~r.inuse /\ Kept(r, Here(t))
    BY HereTyped, EntryMarked
  <2> HIDE DEF r
  <2>3. Changes(at[t], r) /\ entry' \in [Entries -> EntrySet]
    BY <2>1, <2>2, HereTyped
  <2>4. pc' \in [Tasks -> Places] /\ pc'[t] = "tell" /\ \A u \in Tasks \ {t} : pc'[u] = pc[u]
    BY <2>1, GotoMoves DEF Places
  <2>5. at' \in [Tasks -> Entries] /\ \A u \in Tasks \ {t} : at'[u] = at[u]
    BY <2>1, SlotOne, MoveMoves
  <2>6. mine' \in [Tasks -> 0..MaxRequests] /\ \A u \in Tasks \ {t} : mine'[u] = mine[u]
    BY <2>1, HttpPoolAssumption DEF PoolTypeOK
  <2>7. PoolTypeOK'
    BY <2>1, <2>3, <2>4, <2>5, <2>6 DEF PoolTypeOK
  <2>8. Leaves(t)
    BY <2>1, <2>2, <2>3, <2>4, <2>5, <2>6 DEF Leaves, Alone
  <2> QED BY <2>7, <2>8 DEF Effect
<1>3. ASSUME NEW t \in Tasks, Tell(t)
      PROVE  PoolTypeOK' /\ Effect
  <2>1. /\ pc[t] = "tell" /\ entry' = entry /\ at' = at /\ asked' = asked /\ mine' = mine
        /\ pc' = pc \/ Goto(t, "out")
    BY <1>3 DEF Tell
  <2>2. /\ pc' \in [Tasks -> Places] /\ pc'[t] \in {"tell", "out"}
        /\ \A u \in Tasks \ {t} : pc'[u] = pc[u]
    BY <2>1, GotoMoves DEF Places, PoolTypeOK
  <2>3. PoolTypeOK'
    BY <2>1, <2>2 DEF PoolTypeOK
  <2>4. Moves(t)
    BY <2>1, <2>2 DEF Moves, Alone
  <2> QED BY <2>3, <2>4 DEF Effect
<1>4. ASSUME NEW e \in Entries, Serve(e)
      PROVE  PoolTypeOK' /\ Effect
  <2>0. entry[e] \in EntrySet /\ entry[e].conn \in Conns /\ ServerLive(entry[e].conn)
    BY EntryFields DEF PoolTypeOK, Lives
  <2>1. PICK c \in ServerSteps(entry[e].conn) : entry' = [entry EXCEPT ![e].conn = c]
    BY <1>4 DEF Serve
  <2> DEFINE r == [entry[e] EXCEPT !.conn = c]
  <2>2. c \in Conns
    BY <2>0, ServerCases
  <2>3. /\ r \in EntrySet /\ r.inuse = entry[e].inuse /\ r.conn = c
        /\ r.readers = entry[e].readers /\ r.crossed = entry[e].crossed
    BY <2>0, <2>2 DEF EntrySet
  <2>4. entry' = [entry EXCEPT ![e] = r]
    BY <2>1
  <2> HIDE DEF r
  <2>5. Changes(e, r) /\ entry' \in [Entries -> EntrySet]
    BY <2>3, <2>4 DEF Changes, PoolTypeOK
  <2>6. pc' = pc /\ at' = at /\ mine' = mine /\ asked' = asked
    BY <1>4 DEF Serve
  <2>7. PoolTypeOK'
    BY <2>5, <2>6 DEF PoolTypeOK
  <2>8. Served(e)
    BY <2>3, <2>5, <2>6 DEF Served
  <2> QED BY <2>7, <2>8 DEF Effect
<1>5. ASSUME UNCHANGED poolVars
      PROVE  PoolTypeOK' /\ Effect
  BY <1>5 DEF poolVars, PoolTypeOK, Effect
<1>6. ASSUME NEW t \in Tasks, TimeOut(t)
      PROVE  UNCHANGED poolVars
  BY <1>6 DEF TimeOut, poolVars
<1>7. ASSUME NEW c \in Contexts, Submit(c)
      PROVE  UNCHANGED poolVars
  BY <1>7 DEF Submit, poolVars
<1>8. ASSUME NEW e \in Entries, NEW id \in Ids, StreamRead(e, id) \/ StreamFails(e, id)
      PROVE  PoolTypeOK' /\ Effect
  <2>0. entry[e] \in EntrySet /\ entry[e].conn \in Conns /\ ServerLive(entry[e].conn)
    BY EntryFields DEF PoolTypeOK, Lives
  <2>1. pc' = pc /\ at' = at /\ mine' = mine /\ asked' = asked
    BY <1>8 DEF StreamRead, StreamFails
  <2>2. PICK r \in EntrySet :
          /\ entry' = [entry EXCEPT ![e] = r]
          /\ r.inuse = entry[e].inuse /\ r.crossed = entry[e].crossed
          /\ r.readers \subseteq entry[e].readers
          /\ \/ r.conn = entry[e].conn
             \/ Readable(entry[e].conn) /\ r.conn = Read(entry[e].conn)
    <3>1. CASE StreamRead(e, id)
      <4> DEFINE c == Read(entry[e].conn)
                 S == IF Next1(entry[e].conn).kind \in Final(TRUE) /\ ~entry[e].crossed
                        THEN entry[e].readers \ {id} ELSE entry[e].readers
                 r == [entry[e] EXCEPT !.conn = c, !.readers = S]
      <4>1. Readable(entry[e].conn) /\ entry' = [entry EXCEPT ![e].conn = c, ![e].readers = S]
        BY <3>1 DEF StreamRead
      <4>2. entry' = [entry EXCEPT ![e] = r]
        BY <4>1 DEF PoolTypeOK
      <4>3. c \in Conns /\ c = Read(entry[e].conn)
        BY <2>0, <4>1, ReadTyped
      <4>4. S \in SUBSET Ids /\ S \subseteq entry[e].readers
        BY <2>0, EntryFields
      <4> HIDE DEF c, S
      <4>5. /\ r \in EntrySet /\ r.inuse = entry[e].inuse /\ r.crossed = entry[e].crossed
            /\ r.conn = c /\ r.readers = S
        BY <2>0, <4>3, <4>4 DEF EntrySet
      <4> HIDE DEF r
      <4> QED BY <4>1, <4>2, <4>3, <4>4, <4>5
    <3>2. CASE StreamFails(e, id)
      <4> DEFINE c == entry[e].conn
                 S == entry[e].readers \ {id}
                 r == [entry[e] EXCEPT !.conn = c, !.readers = S]
      <4>1. entry' = [entry EXCEPT ![e].readers = S]
        BY <3>2 DEF StreamFails
      <4>2. entry' = [entry EXCEPT ![e] = r]
        BY <4>1, <2>0 DEF PoolTypeOK, EntrySet
      <4>3. c \in Conns /\ c = entry[e].conn
        BY <2>0
      <4>4. S \in SUBSET Ids /\ S \subseteq entry[e].readers
        BY <2>0, EntryFields
      <4> HIDE DEF c, S
      <4>5. /\ r \in EntrySet /\ r.inuse = entry[e].inuse /\ r.crossed = entry[e].crossed
            /\ r.conn = c /\ r.readers = S
        BY <2>0, <4>3, <4>4 DEF EntrySet
      <4> HIDE DEF r
      <4> QED BY <4>2, <4>3, <4>4, <4>5
    <3> QED BY <1>8, <3>1, <3>2
  <2>3. Changes(e, r) /\ entry' \in [Entries -> EntrySet]
    BY <2>2 DEF Changes, PoolTypeOK
  <2>4. PoolTypeOK'
    BY <2>1, <2>3 DEF PoolTypeOK
  <2>5. Streams(e)
    BY <2>1, <2>2, <2>3 DEF Streams
  <2> QED BY <2>4, <2>5 DEF Effect
<1>9. CASE Next
  BY <1>1, <1>2, <1>3, <1>4, <1>5, <1>6, <1>7, <1>8, <1>9, SearchingEffect, UsingEffect DEF Next
<1>10. CASE UNCHANGED vars
  BY <1>5, <1>10 DEF vars
<1> QED BY <1>9, <1>10

-----------------------------------------------------------------------------
(* Ownership.                                                              *)
Ownership ==
  /\ \A t, u \in Tasks : HasEntry(t) /\ HasEntry(u) /\ at[t] = at[u] => t = u
  /\ \A t \in Tasks : HasEntry(t) => entry[at[t]].inuse

NoneLost == \A e \in Entries : entry[e].inuse => \E t \in Tasks : HasEntry(t) /\ at[t] = e

(* The connections, for the clients that use them and for those nobody     *)
(* uses.                                                                   *)
ConnRight ==
  /\ Lives
  /\ \A t \in Tasks : Asking(t) => mine[t] \in Ids /\ Due(entry[at[t]].conn, mine[t])
  /\ \A t \in Tasks : Reading(t) => mine[t] \in Ids /\ Ending(entry[at[t]].conn, mine[t])
  /\ \A e \in Entries : Quiet(entry[e].conn) \/ \E t \in Tasks : at[t] = e /\ Busy(t)

(* The detached readers that have had no company.                          *)
StreamRight ==
  \A e \in Entries : ~entry[e].crossed =>
    /\ \A id \in entry[e].readers : Ending(entry[e].conn, id)
    /\ \A t \in Tasks : at[t] = e /\ Busy(t) => entry[e].readers = {}

LEMMA BusyHasEntry == \A t \in Tasks : Busy(t) => HasEntry(t)
BY DEF Busy, Asking, Reading, HasEntry

LEMMA OwnershipKept ==
  ASSUME PoolTypeOK, Ownership, Effect
  PROVE  Ownership'
<1>0. \A e \in Entries, r \in EntrySet : Changes(e, r) =>
        entry'[e] = r /\ \A f \in Entries \ {e} : entry'[f] = entry[f]
  BY DEF Changes, PoolTypeOK
<1>1. \A t \in Tasks : at[t] \in Entries
  BY DEF PoolTypeOK
<1>2. ASSUME NEW t \in Tasks, Alone(t)
      PROVE  \A u \in Tasks \ {t} : (HasEntry(u)' <=> HasEntry(u)) /\ at'[u] = at[u]
  BY <1>2 DEF Alone, HasEntry
<1>3. ASSUME NEW t \in Tasks, Moves(t) PROVE Ownership'
  BY <1>1, <1>2, <1>3 DEF Moves, Ownership
<1>4. ASSUME NEW t \in Tasks, Takes(t) PROVE Ownership'
  BY <1>0, <1>1, <1>2, <1>4 DEF Takes, Ownership, Here
<1>5. ASSUME NEW t \in Tasks, Refused(t) PROVE Ownership'
  BY <1>0, <1>1, <1>2, <1>5 DEF Refused, Ownership, Here
<1>6. ASSUME NEW t \in Tasks, Leaves(t) PROVE Ownership'
  BY <1>0, <1>1, <1>2, <1>6 DEF Leaves, Ownership, Here
<1>7. ASSUME NEW t \in Tasks, Uses(t) PROVE Ownership'
  BY <1>0, <1>1, <1>2, <1>7 DEF Uses, Ownership, Here
<1>8. ASSUME NEW e \in Entries, Served(e) \/ Streams(e) PROVE Ownership'
  BY <1>0, <1>1, <1>8 DEF Served, Streams, Ownership, HasEntry
<1>9. CASE UNCHANGED poolVars
  BY <1>9 DEF poolVars, Ownership, HasEntry
<1> QED BY <1>3, <1>4, <1>5, <1>6, <1>7, <1>8, <1>9 DEF Effect

LEMMA NoneLostKept ==
  ASSUME PoolTypeOK, Ownership, NoneLost, Supported, Effect
  PROVE  NoneLost'
<1>0. \A e \in Entries, r \in EntrySet : Changes(e, r) =>
        entry'[e] = r /\ \A f \in Entries \ {e} : entry'[f] = entry[f]
  BY DEF Changes, PoolTypeOK
<1>1. \A t \in Tasks : at[t] \in Entries
  BY DEF PoolTypeOK
<1>2. ASSUME NEW t \in Tasks, Alone(t)
      PROVE  \A u \in Tasks \ {t} : (HasEntry(u)' <=> HasEntry(u)) /\ at'[u] = at[u]
  BY <1>2 DEF Alone, HasEntry
<1>3. ASSUME NEW t \in Tasks, Moves(t) PROVE NoneLost'
  BY <1>1, <1>2, <1>3 DEF Moves, NoneLost
<1>4. ASSUME NEW t \in Tasks, Takes(t) PROVE NoneLost'
  BY <1>0, <1>1, <1>2, <1>4 DEF Takes, NoneLost, Here
<1>5. ASSUME NEW t \in Tasks, Leaves(t) PROVE NoneLost'
  BY <1>0, <1>1, <1>2, <1>5 DEF Leaves, NoneLost, Here
<1>6. ASSUME NEW t \in Tasks, Uses(t) PROVE NoneLost'
  BY <1>0, <1>1, <1>2, <1>6 DEF Uses, NoneLost, Here
<1>7. ASSUME NEW e \in Entries, Served(e) \/ Streams(e) PROVE NoneLost'
  BY <1>0, <1>1, <1>7 DEF Served, Streams, NoneLost, HasEntry
<1>8. CASE UNCHANGED poolVars
  BY <1>8 DEF poolVars, NoneLost, HasEntry
<1> QED BY <1>3, <1>4, <1>5, <1>6, <1>7, <1>8 DEF Effect, Refused

(* A step that changes at most the entry of one client.                    *)
LEMMA OneEntry ==
  ASSUME PoolTypeOK, Ownership, ConnRight,
         NEW t \in Tasks, NEW c \in Conns, Alone(t), ServerLive(c),
         \A e \in Entries : entry'[e].conn = IF e = at[t] THEN c ELSE entry[e].conn,
         HasEntry(t) \/ c = entry[at[t]].conn,
         Busy(t)' => at'[t] = at[t],
         Asking(t)' => mine'[t] \in Ids /\ Due(c, mine'[t]),
         Reading(t)' => mine'[t] \in Ids /\ Ending(c, mine'[t]),
         Busy(t)' \/ Quiet(c) \/ (~Busy(t) /\ c = entry[at[t]].conn)
  PROVE  ConnRight'
<1>0. \A u \in Tasks : at[u] \in Entries
  BY DEF PoolTypeOK
<1>1. \A u \in Tasks \ {t} :
        /\ Asking(u)' <=> Asking(u)
        /\ Reading(u)' <=> Reading(u)
        /\ Busy(u)' <=> Busy(u)
        /\ at'[u] = at[u] /\ mine'[u] = mine[u]
  BY DEF Alone, Asking, Reading, Busy
<1>2. \A u \in Tasks \ {t} : Busy(u) => entry'[at[u]].conn = entry[at[u]].conn
  <2>1. \A u \in Tasks \ {t} : Busy(u) /\ at[u] = at[t] => ~HasEntry(t)
    BY BusyHasEntry DEF Ownership
  <2> QED BY <1>0, <2>1
<1>3. Lives'
  BY DEF ConnRight, Lives
<1>4. \A u \in Tasks : Asking(u)' => mine'[u] \in Ids /\ Due(entry'[at'[u]].conn, mine'[u])
  <2>1. ASSUME NEW u \in Tasks \ {t}, Asking(u)'
        PROVE  mine'[u] \in Ids /\ Due(entry'[at'[u]].conn, mine'[u])
    <3>1. Asking(u) /\ Busy(u) /\ at'[u] = at[u] /\ mine'[u] = mine[u]
      BY <1>1, <2>1 DEF Busy
    <3>2. entry'[at'[u]].conn = entry[at[u]].conn
      BY <1>2, <3>1
    <3> QED BY <3>1, <3>2 DEF ConnRight
  <2>2. Asking(t)' => entry'[at'[t]].conn = c
    BY <1>0 DEF Busy
  <2> QED BY <2>1, <2>2
<1>5. \A u \in Tasks : Reading(u)' => mine'[u] \in Ids /\ Ending(entry'[at'[u]].conn, mine'[u])
  <2>1. ASSUME NEW u \in Tasks \ {t}, Reading(u)'
        PROVE  mine'[u] \in Ids /\ Ending(entry'[at'[u]].conn, mine'[u])
    <3>1. Reading(u) /\ Busy(u) /\ at'[u] = at[u] /\ mine'[u] = mine[u]
      BY <1>1, <2>1 DEF Busy
    <3>2. entry'[at'[u]].conn = entry[at[u]].conn
      BY <1>2, <3>1
    <3> QED BY <3>1, <3>2 DEF ConnRight
  <2>2. Reading(t)' => entry'[at'[t]].conn = c
    BY <1>0 DEF Busy
  <2> QED BY <2>1, <2>2
<1>6. ASSUME NEW e \in Entries
      PROVE  Quiet(entry'[e].conn) \/ \E u \in Tasks : at'[u] = e /\ Busy(u)'
  <2>1. CASE \E u \in Tasks \ {t} : at[u] = e /\ Busy(u)
    BY <1>1, <2>1
  <2>2. CASE e # at[t] /\ Quiet(entry[e].conn)
    BY <2>2
  <2>3. CASE e = at[t]
    <3>1. CASE Busy(t)'
      BY <2>3, <3>1
    <3>2. CASE Quiet(c)
      BY <2>3, <3>2
    <3>3. CASE ~Busy(t) /\ c = entry[at[t]].conn
      <4>1. Quiet(entry[e].conn) \/ \E u \in Tasks \ {t} : at[u] = e /\ Busy(u)
        BY <3>3 DEF ConnRight
      <4> QED BY <1>1, <2>3, <3>3, <4>1
    <3> QED BY <3>1, <3>2, <3>3
  <2> QED BY <2>1, <2>2, <2>3 DEF ConnRight
<1> QED BY <1>3, <1>4, <1>5, <1>6 DEF ConnRight

LEMMA EndingQuiet == \A c, m : Ending(c, m) => Quiet(c)
BY DEF Ending

LEMMA ConnRightKept ==
  ASSUME PoolTypeOK, Ownership, ConnRight, Effect
  PROVE  ConnRight'
<1>0. \A e \in Entries, r \in EntrySet : Changes(e, r) =>
        \A f \in Entries : entry'[f].conn = IF f = e THEN r.conn ELSE entry[f].conn
  BY DEF Changes, PoolTypeOK
<1>1. \A e \in Entries : entry[e].conn \in Conns /\ ServerLive(entry[e].conn)
  BY EntryFields DEF PoolTypeOK, ConnRight, Lives
<1>2. \A t \in Tasks : at[t] \in Entries /\ Here(t) = entry[at[t]]
  BY DEF PoolTypeOK, Here
<1>3. \A t \in Tasks : ~HasEntry(t)' => ~Busy(t)' /\ ~Asking(t)' /\ ~Reading(t)'
  BY DEF Busy, Asking, Reading, HasEntry
<1>b. \A t \in Tasks : Busy(t)' <=> (Asking(t)' \/ Reading(t)')
  BY DEF Busy
<1>4. ASSUME NEW t \in Tasks, Moves(t)
      PROVE  ConnRight'
  <2> DEFINE c == entry[at[t]].conn
  <2>1. /\ Alone(t) /\ ~HasEntry(t) /\ ~Busy(t) /\ ~Busy(t)' /\ ~Asking(t)' /\ ~Reading(t)'
        /\ \A e \in Entries : entry'[e].conn = IF e = at[t] THEN c ELSE entry[e].conn
    BY <1>3, <1>4, BusyHasEntry DEF Moves
  <2>2. c \in Conns /\ ServerLive(c)
    BY <1>1, <1>2
  <2> QED BY <2>1, <2>2, OneEntry
<1>5. ASSUME NEW t \in Tasks, Takes(t) \/ Refused(t)
      PROVE  ConnRight'
  <2> DEFINE c == entry[at[t]].conn
  <2>1. PICK r \in EntrySet : Changes(at[t], r) /\ r.conn = c
    BY <1>2, <1>5 DEF Takes, Refused, Kept
  <2>2. /\ Alone(t) /\ ~HasEntry(t) /\ ~Busy(t) /\ ~Busy(t)' /\ ~Asking(t)' /\ ~Reading(t)'
    BY <1>3, <1>5, <1>b, BusyHasEntry DEF Takes, Refused
  <2>3. \A e \in Entries : entry'[e].conn = IF e = at[t] THEN c ELSE entry[e].conn
    BY <1>0, <1>2, <2>1
  <2>4. c \in Conns /\ ServerLive(c)
    BY <1>1, <1>2
  <2> QED BY <2>2, <2>3, <2>4, OneEntry
<1>6. ASSUME NEW t \in Tasks, Leaves(t)
      PROVE  ConnRight'
  <2>1. PICK r \in EntrySet : Changes(at[t], r) /\ r.conn \in {No, entry[at[t]].conn}
    BY <1>2, <1>6 DEF Leaves, Gone, Kept
  <2> DEFINE c == r.conn
  <2>2. /\ Alone(t) /\ HasEntry(t) /\ ~Busy(t) /\ ~Busy(t)' /\ ~Asking(t)' /\ ~Reading(t)'
    BY <1>3, <1>6 DEF Leaves
  <2>3. \A e \in Entries : entry'[e].conn = IF e = at[t] THEN c ELSE entry[e].conn
    BY <1>0, <1>2, <2>1
  <2>4. c \in Conns /\ ServerLive(c) /\ (Quiet(c) \/ c = entry[at[t]].conn)
    BY <1>1, <1>2, <2>1, NoTyped
  <2> HIDE DEF c
  <2> QED BY <2>2, <2>3, <2>4, OneEntry
<1>7. ASSUME NEW t \in Tasks, Uses(t)
      PROVE  ConnRight'
  <2> DEFINE b == entry[at[t]].conn
  <2>1. PICK r \in EntrySet :
          /\ Changes(at[t], r)
          /\ Asks(t, r) \/ Reads(t, r) \/ GivesUp(t, r)
    BY <1>7 DEF Uses
  <2> DEFINE c == r.conn
  <2>2. Alone(t) /\ HasEntry(t) /\ at'[t] = at[t]
    BY <1>7 DEF Uses
  <2>3. \A e \in Entries : entry'[e].conn = IF e = at[t] THEN c ELSE entry[e].conn
    BY <1>0, <1>2, <2>1
  <2>4. b \in Conns /\ ServerLive(b) /\ c \in Conns /\ at[t] \in Entries /\ Here(t).conn = b
    BY <1>1, <1>2, EntryFields
  <2>5. ~Busy(t) => Quiet(b)
    <3>1. \A u \in Tasks : Busy(u) /\ at[u] = at[t] => u = t
      BY <2>2, BusyHasEntry DEF Ownership
    <3> QED BY <2>4, <3>1 DEF ConnRight
  <2>6. Asking(t) => mine[t] \in Ids /\ Due(b, mine[t])
    BY DEF ConnRight
  <2>7. Reading(t) => mine[t] \in Ids /\ Ending(b, mine[t])
    BY DEF ConnRight
  <2>8. c = r.conn
    OBVIOUS
  <2> HIDE DEF b, c
  <2>9. CASE Asks(t, r)
    <3>1. PICK d \in {b, Fresh} : c = WriteRequest(d, mine'[t])
      BY <2>4, <2>8, <2>9 DEF Asks
    <3>2. ~Busy(t) /\ Asking(t)' /\ mine'[t] \in Ids
      BY <2>9 DEF Asks
    <3>3. d \in Conns /\ ServerLive(d) /\ Quiet(d)
      <4>1. Quiet(Fresh)
        BY FreshTyped, LenEmpty DEF Quiet, NoHeads
      <4> QED BY <2>4, <2>5, <3>1, <3>2, <4>1, FreshTyped
    <3>4. ServerLive(c) /\ Due(c, mine'[t])
      BY <3>1, <3>2, <3>3, RequestTyped DEF Asked, Due
    <3>5. ~Reading(t)' /\ Busy(t)'
      BY <3>2 DEF Asking, Reading, Busy
    <3> QED BY <2>2, <2>3, <2>4, <3>2, <3>4, <3>5, OneEntry
  <2>10. CASE Reads(t, r)
    <3>1. /\ Busy(t) /\ (Reading(t)' \/ ~Busy(t)') /\ mine'[t] = mine[t]
          /\ Readable(b) /\ c = Read(b)
          /\ Asking(t) => Next1(b).kind \in Heads
      BY <2>4, <2>8, <2>10 DEF Reads
    <3>2. mine[t] \in Ids /\ Ending(c, mine[t])
      <4>1. Asking(t) => Asked(b, mine[t])
        BY <2>4, <2>6, <3>1, ReadQuiet DEF Due
      <4> QED BY <2>4, <2>6, <2>7, <3>1, <4>1, ReadAsked, ReadEnding DEF Busy
    <3>3. ServerLive(c)
      BY <2>4, <3>1, ReadTyped
    <3>4. ~Asking(t)'
      BY <3>1 DEF Asking, Reading, Busy
    <3>5. Quiet(c)
      BY <3>2, EndingQuiet
    <3> QED BY <2>2, <2>3, <2>4, <3>1, <3>2, <3>3, <3>4, <3>5, OneEntry
  <2>11. CASE GivesUp(t, r)
    <3>1. ~Busy(t)' /\ ~Asking(t)' /\ ~Reading(t)' /\ Quiet(c) /\ ServerLive(c)
      BY <1>b, <2>8, <2>11, NoTyped DEF GivesUp, Gone
    <3> QED BY <2>2, <2>3, <2>4, <3>1, OneEntry
  <2> QED BY <2>1, <2>9, <2>10, <2>11
<1>8. ASSUME NEW e \in Entries, Served(e) \/ Streams(e)
      PROVE  ConnRight'
  <2> DEFINE b == entry[e].conn
  <2>1. PICK r \in EntrySet :
          /\ Changes(e, r)
          /\ r.conn \in ServerSteps(b) \/ r.conn = b \/ (Readable(b) /\ r.conn = Read(b))
    BY <1>8 DEF Served, Streams
  <2> DEFINE d == r.conn
  <2>2. \A f \in Entries : entry'[f].conn = IF f = e THEN d ELSE entry[f].conn
    BY <1>0, <2>1
  <2>3. /\ b \in Conns /\ ServerLive(b)
        /\ d \in ServerSteps(b) \/ d = b \/ (Readable(b) /\ d = Read(b))
    BY <1>1, <2>1
  <2>4. pc' = pc /\ at' = at /\ mine' = mine
    BY <1>8 DEF Served, Streams
  <2>5. b = entry[e].conn
    OBVIOUS
  <2> HIDE DEF b, d
  <2>6. ServerLive(d)
    BY <2>3, ServerCases, ReadTyped
  <2>7. Quiet(b) => Quiet(d)
    BY <2>3, ServerQuiet, ReadQuiet
  <2>8. \A m \in Ids : Ending(b, m) => Ending(d, m)
    BY <2>3, ServerQuiet, EndingQuiet, ReadEnding
  <2>9. \A m \in Ids : Due(b, m) => Due(d, m)
    <3>1. d \in ServerSteps(b) => \A m \in Ids : Asked(b, m) => Asked(d, m)
      BY <2>3, ServerAsked
    <3>2. Readable(b) /\ d = Read(b) => \A m \in Ids : Due(b, m) => Due(d, m)
      BY <2>3, ReadDue
    <3> QED BY <2>3, <2>7, <3>1, <3>2 DEF Due
  <2>10. \A t \in Tasks :
           /\ Asking(t)' <=> Asking(t)
           /\ Reading(t)' <=> Reading(t)
           /\ Busy(t)' <=> Busy(t)
    BY <2>4 DEF Asking, Reading, Busy
  <2>11. Lives'
    BY <2>2, <2>6 DEF ConnRight, Lives
  <2>12. \A t \in Tasks : Asking(t)' => mine'[t] \in Ids /\ Due(entry'[at'[t]].conn, mine'[t])
    <3>1. ASSUME NEW t \in Tasks, Asking(t)
          PROVE  mine[t] \in Ids /\ Due(entry'[at[t]].conn, mine[t])
      <4>1. mine[t] \in Ids /\ Due(entry[at[t]].conn, mine[t])
        BY <3>1 DEF ConnRight
      <4>2. entry'[at[t]].conn = IF at[t] = e THEN d ELSE entry[at[t]].conn
        BY <1>2, <2>2
      <4> QED BY <2>5, <2>9, <4>1, <4>2
    <3> QED BY <2>4, <2>10, <3>1
  <2>13. \A t \in Tasks : Reading(t)' => mine'[t] \in Ids /\ Ending(entry'[at'[t]].conn, mine'[t])
    <3>1. ASSUME NEW t \in Tasks, Reading(t)
          PROVE  mine[t] \in Ids /\ Ending(entry'[at[t]].conn, mine[t])
      <4>1. mine[t] \in Ids /\ Ending(entry[at[t]].conn, mine[t])
        BY <3>1 DEF ConnRight
      <4>2. entry'[at[t]].conn = IF at[t] = e THEN d ELSE entry[at[t]].conn
        BY <1>2, <2>2
      <4> QED BY <2>5, <2>8, <4>1, <4>2
    <3> QED BY <2>4, <2>10, <3>1
  <2>14. \A f \in Entries : Quiet(entry'[f].conn) \/ \E t \in Tasks : at'[t] = f /\ Busy(t)'
    BY <2>2, <2>4, <2>5, <2>7, <2>10 DEF ConnRight
  <2> QED BY <2>11, <2>12, <2>13, <2>14 DEF ConnRight
<1>9. CASE UNCHANGED poolVars
  BY <1>9 DEF poolVars, ConnRight, Lives, Busy, Asking, Reading
<1> QED BY <1>4, <1>5, <1>6, <1>7, <1>8, <1>9 DEF Effect

(* A step of one client that changes at most its entry.                    *)
LEMMA OneStream ==
  ASSUME PoolTypeOK, StreamRight, NEW t \in Tasks, NEW r, Alone(t),
         \A e \in Entries : entry'[e] = IF e = at[t] THEN r ELSE entry[e],
         Busy(t)' => at'[t] = at[t],
         ~r.crossed =>
           /\ \A id \in r.readers : Ending(r.conn, id)
           /\ \A u \in Tasks \ {t} : at[u] = at[t] /\ Busy(u) => r.readers = {}
           /\ Busy(t)' => r.readers = {}
  PROVE  StreamRight'
<1>1. \A u \in Tasks \ {t} : (Busy(u)' <=> Busy(u)) /\ at'[u] = at[u]
  BY DEF Alone, Busy, Asking, Reading
<1> SUFFICES ASSUME NEW e \in Entries, ~entry'[e].crossed
             PROVE  /\ \A id \in entry'[e].readers : Ending(entry'[e].conn, id)
                    /\ \A u \in Tasks : at'[u] = e /\ Busy(u)' => entry'[e].readers = {}
  BY DEF StreamRight
<1>2. CASE e = at[t]
  BY <1>1, <1>2
<1>3. CASE e # at[t]
  <2>1. entry'[e] = entry[e]
    BY <1>3
  <2>2. \A u \in Tasks : at'[u] = e /\ Busy(u)' => at[u] = e /\ Busy(u)
    BY <1>1, <1>3
  <2> QED BY <2>1, <2>2 DEF StreamRight
<1> QED BY <1>2, <1>3

LEMMA StreamRightKept ==
  ASSUME PoolTypeOK, Ownership, ConnRight, StreamRight, Effect
  PROVE  StreamRight'
<1>0. \A e \in Entries, r \in EntrySet : Changes(e, r) =>
        \A f \in Entries : entry'[f] = IF f = e THEN r ELSE entry[f]
  BY DEF Changes, PoolTypeOK
<1>1. \A e \in Entries : /\ entry[e] \in EntrySet /\ entry[e].conn \in Conns
                        /\ entry[e].readers \in SUBSET Ids /\ ServerLive(entry[e].conn)
  BY EntryFields DEF PoolTypeOK, ConnRight, Lives
<1>2. \A t \in Tasks : at[t] \in Entries /\ Here(t) = entry[at[t]]
  BY DEF PoolTypeOK, Here
<1>3. \A t \in Tasks : ~HasEntry(t)' => ~Busy(t)'
  BY DEF Busy, Asking, Reading, HasEntry
<1>4. \A t, u \in Tasks : HasEntry(t) /\ u # t /\ at[u] = at[t] => ~Busy(u)
  BY BusyHasEntry DEF Ownership
<1>5. ASSUME NEW t \in Tasks, NEW r \in EntrySet, Alone(t), ~Busy(t)', Kept(r, Here(t)),
             \A e \in Entries : entry'[e] = IF e = at[t] THEN r ELSE entry[e]
      PROVE  StreamRight'
  <2>1. ~r.crossed =>
          /\ \A id \in r.readers : Ending(r.conn, id)
          /\ \A u \in Tasks \ {t} : at[u] = at[t] /\ Busy(u) => r.readers = {}
    BY <1>2, <1>5 DEF Kept, StreamRight
  <2> QED BY <1>5, <2>1, OneStream
<1>6. ASSUME NEW t \in Tasks, NEW r \in EntrySet, Alone(t), HasEntry(t), Busy(t)' => at'[t] = at[t],
             r.readers = {},
             \A e \in Entries : entry'[e] = IF e = at[t] THEN r ELSE entry[e]
      PROVE  StreamRight'
  BY <1>6, OneStream
<1>7. ASSUME NEW t \in Tasks, Moves(t)
      PROVE  StreamRight'
  <2>1. /\ Alone(t) /\ ~Busy(t)' /\ Here(t) \in EntrySet
        /\ \A e \in Entries : entry'[e] = IF e = at[t] THEN Here(t) ELSE entry[e]
    BY <1>1, <1>2, <1>3, <1>7 DEF Moves
  <2> QED BY <1>5, <2>1 DEF Kept
<1>8. ASSUME NEW t \in Tasks, Takes(t) \/ Refused(t)
      PROVE  StreamRight'
  <2>1. PICK r \in EntrySet : Changes(at[t], r) /\ Kept(r, Here(t))
    BY <1>8 DEF Takes, Refused
  <2>2. Alone(t) /\ ~Busy(t)'
    BY <1>3, <1>8 DEF Takes, Refused
  <2>3. \A e \in Entries : entry'[e] = IF e = at[t] THEN r ELSE entry[e]
    BY <1>0, <1>2, <2>1
  <2> QED BY <1>5, <2>1, <2>2, <2>3
<1>9. ASSUME NEW t \in Tasks, Leaves(t)
      PROVE  StreamRight'
  <2>1. PICK r \in EntrySet : Changes(at[t], r) /\ (Gone(r) \/ Kept(r, Here(t)))
    BY <1>9 DEF Leaves
  <2>2. Alone(t) /\ HasEntry(t) /\ ~Busy(t)'
    BY <1>3, <1>9 DEF Leaves
  <2>3. \A e \in Entries : entry'[e] = IF e = at[t] THEN r ELSE entry[e]
    BY <1>0, <1>2, <2>1
  <2> QED BY <1>5, <1>6, <2>1, <2>2, <2>3 DEF Gone
<1>10. ASSUME NEW t \in Tasks, Uses(t)
       PROVE  StreamRight'
  <2>1. PICK r \in EntrySet :
          /\ Changes(at[t], r)
          /\ Asks(t, r) \/ Reads(t, r) \/ GivesUp(t, r)
    BY <1>10 DEF Uses
  <2>2. Alone(t) /\ HasEntry(t) /\ at'[t] = at[t]
    BY <1>10 DEF Uses
  <2>3. \A e \in Entries : entry'[e] = IF e = at[t] THEN r ELSE entry[e]
    BY <1>0, <1>2, <2>1
  <2>4. CASE r.readers = {}
    BY <1>6, <2>2, <2>3, <2>4
  <2>5. CASE r.crossed
    BY <2>2, <2>3, <2>5, OneStream
  <2>6. CASE Reads(t, r) /\ ~r.crossed
    <3> DEFINE b == entry[at[t]].conn
    <3>1. /\ Busy(t) /\ Readable(b) /\ r.conn = Read(b) /\ ~entry[at[t]].crossed
          /\ Asking(t) => Next1(b).kind \in Heads
      BY <1>2, <2>6 DEF Reads
    <3>2. entry[at[t]].readers = {}
      BY <1>2, <3>1 DEF StreamRight
    <3>3. r.readers = {} \/ (r.readers = {mine[t]} /\ ~Busy(t)')
      BY <1>2, <2>6, <3>2 DEF Reads
    <3>4. b \in Conns /\ ServerLive(b) /\ mine[t] \in Ids
      BY <1>1, <1>2, <3>1 DEF Busy, ConnRight
    <3> HIDE DEF b
    <3>5. Ending(r.conn, mine[t])
      <4>1. Asking(t) => Asked(b, mine[t])
        BY <3>1, <3>4, ReadQuiet DEF b, Due, ConnRight
      <4>2. Reading(t) => Ending(b, mine[t])
        BY DEF b, ConnRight
      <4> QED BY <3>1, <3>4, <4>1, <4>2, ReadAsked, ReadEnding DEF Busy
    <3> QED BY <1>4, <2>2, <2>3, <3>3, <3>5, OneStream
  <2> QED BY <2>1, <2>4, <2>5, <2>6 DEF Asks, GivesUp, Gone
<1>11. ASSUME NEW e \in Entries, Served(e) \/ Streams(e)
       PROVE  StreamRight'
  <2> DEFINE b == entry[e].conn
  <2>1. PICK r \in EntrySet :
          /\ Changes(e, r) /\ r.crossed = entry[e].crossed /\ r.readers \subseteq entry[e].readers
          /\ r.conn \in ServerSteps(b) \/ r.conn = b \/ (Readable(b) /\ r.conn = Read(b))
    BY <1>11 DEF Served, Streams
  <2>2. \A f \in Entries : entry'[f] = IF f = e THEN r ELSE entry[f]
    BY <1>0, <2>1
  <2>3. b \in Conns /\ ServerLive(b) /\ entry[e].readers \in SUBSET Ids
    BY <1>1
  <2>4. \A t \in Tasks : at'[t] = at[t] /\ (Busy(t)' <=> Busy(t))
    BY <1>11 DEF Served, Streams, Busy, Asking, Reading
  <2>5. b = entry[e].conn
    OBVIOUS
  <2> HIDE DEF b
  <2>6. \A m \in Ids : Ending(b, m) => Ending(r.conn, m)
    BY <2>1, <2>3, ServerQuiet, EndingQuiet, ReadEnding
  <2>7. ~r.crossed =>
          /\ \A id \in r.readers : Ending(r.conn, id)
          /\ \A t \in Tasks : at[t] = e /\ Busy(t) => r.readers = {}
    BY <2>1, <2>3, <2>5, <2>6 DEF StreamRight
  <2> QED BY <2>2, <2>4, <2>7 DEF StreamRight
<1>12. CASE UNCHANGED poolVars
  BY <1>12 DEF poolVars, StreamRight, Busy, Asking, Reading
<1> QED BY <1>7, <1>8, <1>9, <1>10, <1>11, <1>12 DEF Effect

-----------------------------------------------------------------------------
IndInv == PoolTypeOK /\ Ownership /\ ConnRight /\ StreamRight

LEMMA InitInd == Init => IndInv /\ NoneLost
<1> SUFFICES ASSUME Init PROVE IndInv /\ NoneLost
  OBVIOUS
<1>1. /\ entry = [e \in Entries |-> Unused]
      /\ pc = [t \in Tasks |-> "out"] /\ at = [t \in Tasks |-> 1]
      /\ asked = 0 /\ mine = [t \in Tasks |-> 0]
  BY DEF Init
<1>2. Unused \in EntrySet /\ ~Unused.inuse /\ Unused.conn = No /\ Unused.readers = {}
  BY UnusedTyped
<1>3. \A e \in Entries : entry[e] = Unused
  BY <1>1
<1>4. PoolTypeOK
  <2>1. entry \in [Entries -> EntrySet]
    BY <1>1, <1>2
  <2>2. pc \in [Tasks -> Places]
    BY <1>1 DEF Places
  <2>3. at \in [Tasks -> Entries]
    BY <1>1, SlotOne
  <2>4. asked \in 0..MaxRequests /\ mine \in [Tasks -> 0..MaxRequests]
    BY <1>1, HttpPoolAssumption
  <2> QED BY <2>1, <2>2, <2>3, <2>4 DEF PoolTypeOK
<1>5. \A t \in Tasks : ~HasEntry(t) /\ ~Asking(t) /\ ~Reading(t)
  BY <1>1 DEF HasEntry, Asking, Reading
<1>6. ConnRight
  BY <1>2, <1>3, <1>5, NoTyped DEF ConnRight, Lives
<1>7. StreamRight
  BY <1>2, <1>3 DEF StreamRight
<1> QED BY <1>2, <1>3, <1>4, <1>5, <1>6, <1>7 DEF IndInv, Ownership, NoneLost

LEMMA StepInd ==
  ASSUME IndInv, [Next]_vars
  PROVE  IndInv' /\ (Supported /\ NoneLost => NoneLost')
<1>1. Lives /\ Named
  BY DEF IndInv, ConnRight, Named, Busy
<1>2. PoolTypeOK' /\ Effect
  BY <1>1, StepEffect DEF IndInv
<1> QED BY <1>2, OwnershipKept, ConnRightKept, StreamRightKept, NoneLostKept DEF IndInv

LEMMA Inductive == Spec => []IndInv
<1>1. Init => IndInv
  BY InitInd
<1>2. IndInv /\ [Next]_vars => IndInv'
  BY StepInd
<1> QED BY <1>1, <1>2, PTL DEF Spec

(* No entry has two holders, one that has a holder is marked, and, where   *)
(* doConnect knows the scheme, none is marked without one: EntryOwned      *)
(* (HTTPConnectionPool::connect, garbageCollect and ~HTTPConnectionPtr).   *)
THEOREM EntriesOwned == Spec => []EntryOwned
<1> DEFINE Free == Supported => NoneLost
<1>1. Init => IndInv /\ Free
  BY InitInd
<1>2. IndInv /\ Free /\ [Next]_vars => (IndInv /\ Free)'
  <2> SUFFICES ASSUME IndInv, Free, [Next]_vars
               PROVE  IndInv' /\ (Supported => NoneLost')
    OBVIOUS
  <2> QED BY StepInd
<1>3. IndInv /\ Free => EntryOwned
  <2> SUFFICES ASSUME IndInv, Free, NEW e \in Entries
               PROVE  /\ \A t, u \in Tasks : Holds(t, e) /\ Holds(u, e) => t = u
                      /\ (\E t \in Tasks : Holds(t, e)) => entry[e].inuse
                      /\ Supported /\ entry[e].inuse => \E t \in Tasks : Holds(t, e)
    BY DEF EntryOwned
  <2>1. \A t \in Tasks : Holds(t, e) <=> HasEntry(t) /\ at[t] = e
    BY DEF Holds, HasEntry
  <2> QED BY <2>1 DEF IndInv, Ownership, NoneLost
<1> HIDE DEF Free
<1> QED BY <1>1, <1>2, <1>3, PTL DEF Spec

(* A connection nobody makes a request on has no answer to come, whatever  *)
(* detached readers do: NoAnswerDue (RAIIPointerResetter drops it when a   *)
(* request fails).                                                         *)
THEOREM NothingDue == Spec => []NoAnswerDue
<1>1. IndInv => NoAnswerDue
  <2> SUFFICES ASSUME IndInv, NEW e \in Entries, AnswerDue(entry[e].conn)
               PROVE  \E t \in Tasks : at[t] = e /\ (Asking(t) \/ Reading(t))
    BY DEF NoAnswerDue
  <2>1. ~Quiet(entry[e].conn)
    BY DEF AnswerDue, Quiet, NoHeads
  <2> QED BY <2>1 DEF IndInv, ConnRight, Busy
<1> QED BY <1>1, Inductive, PTL

(* What a client or a detached reader reads is the answer to its request,  *)
(* unless a detached reader was still at work when the next user came:     *)
(* AnswerMatches.                                                          *)
THEOREM AnswersMatch == Spec => AnswerMatches
<1> DEFINE Clients ==
             \A t \in Tasks :
               (ReadHead(t) \/ ReadBody(t)) /\ ~Here(t).crossed => Next1(Here(t).conn).id = mine[t]
           Readers ==
             \A e \in Entries : \A id \in entry[e].readers :
               StreamRead(e, id) /\ ~entry[e].crossed => Next1(entry[e].conn).id = id
<1>1. IndInv => Clients
  <2> SUFFICES ASSUME IndInv, NEW t \in Tasks, ReadHead(t) \/ ReadBody(t)
               PROVE  Next1(Here(t).conn).id = mine[t]
    OBVIOUS
  <2> DEFINE b == Here(t).conn
  <2>1. b = entry[at[t]].conn /\ b \in Conns /\ ServerLive(b)
    BY HereTyped, EntryFields DEF IndInv, ConnRight, Lives
  <2>2. Readable(b)
    BY DEF ReadHead, ReadBody
  <2>3. CASE ReadHead(t)
    <3>1. Asking(t) /\ Next1(b).kind \in Heads
      BY <2>3 DEF ReadHead
    <3>2. mine[t] \in Ids /\ Due(b, mine[t])
      BY <2>1, <3>1 DEF IndInv, ConnRight
    <3>3. Asked(b, mine[t])
      BY <2>1, <2>2, <3>1, <3>2, ReadQuiet DEF Due
    <3> QED BY <2>1, <2>2, <3>1, <3>2, <3>3, ReadAsked
  <2>4. CASE ReadBody(t)
    <3>1. Reading(t)
      BY <2>4 DEF ReadBody
    <3>2. mine[t] \in Ids /\ Ending(b, mine[t])
      BY <2>1, <3>1 DEF IndInv, ConnRight
    <3> QED BY <2>1, <2>2, <3>2, ReadEnding
  <2> QED BY <2>3, <2>4
<1>2. IndInv => Readers
  <2> SUFFICES ASSUME IndInv, NEW e \in Entries, NEW id \in entry[e].readers,
                      StreamRead(e, id), ~entry[e].crossed
               PROVE  Next1(entry[e].conn).id = id
    OBVIOUS
  <2>1. /\ entry[e].conn \in Conns /\ ServerLive(entry[e].conn) /\ id \in Ids
        /\ Readable(entry[e].conn)
    BY EntryFields DEF IndInv, PoolTypeOK, ConnRight, Lives, StreamRead
  <2>2. Ending(entry[e].conn, id)
    BY DEF IndInv, StreamRight
  <2> QED BY <2>1, <2>2, ReadEnding
<1>3. IndInv => [Clients /\ Readers]_vars
  BY <1>1, <1>2
<1> QED BY <1>3, Inductive, PTL DEF AnswerMatches
=============================================================================
