---------------------------- MODULE MCFieldArena ----------------------------
(* Model-checking instances of FieldArena.                                 *)
EXTENDS FieldArena
=============================================================================
