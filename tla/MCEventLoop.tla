---------------------------- MODULE MCEventLoop ----------------------------
(* EventLoop for TLC.                                                      *)
EXTENDS EventLoop

CONSTANTS main, s1, s2, s3

Four == {main, s1, s2, s3}
=============================================================================
