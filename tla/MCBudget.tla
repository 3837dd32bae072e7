------------------------------ MODULE MCBudget ------------------------------
(* Model-checking instances of Budget.                                     *)
EXTENDS Budget
=============================================================================
