---------------------- MODULE MCUsageLedgerRefinement ----------------------
(* An instance of the refinement: one window per row, interchangeable users. *)
EXTENDS UsageLedgerRefinement, TLC

CONSTANTS inbox

MCWindows == {inbox}
MCKeysOf  == [w \in MCWindows |-> {w}]

AlikeUsers == Permutations(Users)
=============================================================================
