------------------------------ MODULE MCGcHeap ------------------------------
(* Model-checking instances of GcHeap.                                     *)
EXTENDS GcHeap
=============================================================================
