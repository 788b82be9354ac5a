----------------------------- MODULE MCHttpPool -----------------------------
(* HttpPool for TLC: every client on a thread of its own.                  *)
EXTENDS HttpPool

CONSTANTS a, b

Two == {a, b}
MCHome == [t \in Two |-> t]
MCIds == 1..MaxRequests
MCFramings == {<<"length", 0>>, <<"length", 1>>, <<"chunked", 0>>}
=============================================================================
