--------------------------- MODULE MCEnforcement ---------------------------
(* The enforcement with interchangeable users and apps. *)
EXTENDS EnforcementInvariant, TLC

Interchangeable == Permutations(Users) \cup Permutations(Apps)
=============================================================================
