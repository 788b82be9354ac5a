--------------------------- MODULE AbstractQueue ---------------------------
(***************************************************************************)
(* What Queue and ConcurrentQueue do (generic/queue.hpp): a bounded first- *)
(* in first-out channel over an array of Capacity cells that takes a turn  *)
(* of Capacity + 1 values.  The last value of a turn has no cell: unless   *)
(* there happens to be room behind the array it is Lost, and whoever pops  *)
(* it gets any value.  got is what the last pop of a task returned.        *)
(***************************************************************************)
EXTENDS Naturals, Sequences

CONSTANTS Tasks, Items, NoItem, Lost, Junk, Capacity

VARIABLES
  content,
  turn,     \* the values pushed in this turn
  room,     \* whether there is room behind the array
  got

Init ==
  /\ content = <<>> /\ turn = 0 /\ room \in BOOLEAN
  /\ got = [t \in Tasks |-> NoItem]

Push(v) ==
  /\ Len(content) < Capacity
  /\ content' = Append(content, IF turn = Capacity /\ ~room THEN Lost ELSE v)
  /\ turn' = IF turn = Capacity THEN 0 ELSE turn + 1
  /\ UNCHANGED <<room, got>>

Pop(t) ==
  /\ content # <<>>
  /\ content' = Tail(content)
  /\ \E v \in IF Head(content) = Lost THEN Junk ELSE {Head(content)} :
       got' = [got EXCEPT ![t] = v]
  /\ UNCHANGED <<turn, room>>

(* The popped value is used up.                                            *)
Use(t) ==
  /\ got' = [got EXCEPT ![t] = NoItem]
  /\ UNCHANGED <<content, turn, room>>

Next ==
  \/ \E v \in Items : Push(v)
  \/ \E t \in Tasks : Pop(t) \/ Use(t)

Spec == Init /\ [][Next]_<<content, turn, room, got>>
=============================================================================
