----------------------------- MODULE MCModules ------------------------------
(***************************************************************************)
(* What a module goes through, for the model checker: its integers are     *)
(* decoded, its bodies are validated, it is linked into a store, its       *)
(* lowered code comes from the cache, its functions call each other, and   *)
(* it uses descriptors.  In the models these parts share no state, so that *)
(* their interleavings add nothing: each moves while the others are in     *)
(* their initial states.                                                   *)
(***************************************************************************)
EXTENDS MCVmCalls, MCLinking, MCCodeCache, MCValidate, Leb128, WasiFd

\* LebInit chooses an input; the empty one stands for the decoder at rest.
LebRests == bytes = <<>> /\ outcome = "reading" /\ ~signed /\ \A w \in Widths : width <= w
OthersRest == ValidateInit /\ CallsInit /\ LinkInit /\ CacheInit /\ WasiInit
MCInit == LebInit /\ OthersRest

MCNext ==
    \/ /\ OthersRest /\ LebNext
       /\ UNCHANGED <<validateVars, callVars, linkVars, cacheVars, wasiVars>>
    \/ /\ LebRests /\ CallsInit /\ LinkInit /\ CacheInit /\ WasiInit /\ ValidateNext
       /\ UNCHANGED <<lebVars, callVars, linkVars, cacheVars, wasiVars>>
    \/ /\ LebRests /\ ValidateInit /\ LinkInit /\ CacheInit /\ WasiInit /\ CallsNext
       /\ UNCHANGED <<lebVars, validateVars, linkVars, cacheVars, wasiVars>>
    \/ /\ LebRests /\ ValidateInit /\ CallsInit /\ CacheInit /\ WasiInit /\ LinkNext
       /\ UNCHANGED <<lebVars, validateVars, callVars, cacheVars, wasiVars>>
    \/ /\ LebRests /\ ValidateInit /\ CallsInit /\ LinkInit /\ WasiInit /\ CacheNext
       /\ UNCHANGED <<lebVars, validateVars, callVars, linkVars, wasiVars>>
    \/ /\ LebRests /\ ValidateInit /\ CallsInit /\ LinkInit /\ CacheInit /\ WasiNext
       /\ UNCHANGED <<lebVars, validateVars, callVars, linkVars, cacheVars>>

MCSpec ==
    /\ MCInit
    /\ [][MCNext]_<<lebVars, validateVars, callVars, linkVars, cacheVars, wasiVars>>

(* The variables of validation, calls, linking and descriptors keep their   *)
(* types.  Of the machine's stacks: whatever is called and thrown, labels   *)
(* and frames stay inside their arrays, and so do operands (pushLabel,      *)
(* pushFrame, push), except that handleException does not check and is      *)
(* stopped by the bounds check of the build.                                *)
ModulesTypesOK == ValidateTypeOK /\ CallsTypeOK /\ LinkTypeOK /\ WasiTypeOK
=============================================================================
