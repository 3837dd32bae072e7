----------------------------- MODULE MCWaitQueue ----------------------------
(* Model-checking instances of WaitQueue.                                  *)
EXTENDS WaitQueue
=============================================================================
