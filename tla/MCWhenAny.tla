----------------------------- MODULE MCWhenAny -----------------------------
(* WhenAny for TLC: the arguments of the call.                             *)
EXTENDS WhenAny

(* Operations, timers, and a task that waits only if it has to, with some  *)
(* of the others before it and some after it.                              *)
Mixed == <<"io", "timer", "try", "io", "timer", "io">>
=============================================================================
