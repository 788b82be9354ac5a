---------------------------- MODULE MCPipeStream ----------------------------
(* PipeStream for TLC: reader and writer on one thread.                    *)
EXTENDS PipeStream

CONSTANTS r, w, c1

Both == {r, w}
ASSUME PipeQueue

(* What is found behind the array of the ring reads as an empty chunk.     *)
EndOnly == {End}

(* The lengths that matter for a buffer of two: one that fits, one that    *)
(* does not, a read() too short for a chunk, a peekn that needs two chunks.*)
Spans ==
  [put |-> 1..3, write |-> {1, 3}, get |-> {1, 2}, read |-> {1}, peek |-> {2}]

HomeOne == [t \in Both |-> c1]
=============================================================================
