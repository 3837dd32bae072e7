------------------------------ MODULE MCEngine ------------------------------
(***************************************************************************)
(* The execution budget and the tiers for the model checker.  In the       *)
(* models they share no state, so that their interleavings add nothing:    *)
(* each moves while the other is in an initial state.                      *)
(***************************************************************************)
EXTENDS Budget, MCTiering

MCInit == Init /\ TierInit
TiersRest == TierInit /\ prog = LoopThenStore
BudgetRests == Init /\ fuel = NoFuel

MCNext ==
    \/ TiersRest /\ Next /\ UNCHANGED tierVars
    \/ BudgetRests /\ TierNext /\ UNCHANGED vars

MCSpec ==
    /\ MCInit
    /\ [][MCNext]_<<vars, tierVars>>
    /\ BudgetFairness /\ TierFairness

(* The variables of the budget and of the tiers keep their types: the fuel, *)
(* an unsigned counter, never falls below zero (syncJitFuelBack).           *)
EngineTypesOK == TypeOK /\ TierTypeOK
=============================================================================
