--------------------------- MODULE MCUsageLedger ---------------------------
(***************************************************************************)
(* Windows and rows for model checking the usage ledger.  A window stands  *)
(* for its (app class, title) pair; a row is a primary key of one of the   *)
(* three daily_usage tables.  The windows have a row each and share the    *)
(* row of their category.                                                  *)
(***************************************************************************)
EXTENDS UsageLedgerInvariant, TLC

CONSTANTS draft, inbox,      \* windows, and their rows
          work               \* the row both are counted in

TwoWindows == {draft, inbox}
TwoKeys    == TwoWindows \cup {work}
TwoKeysOf  == [w \in TwoWindows |-> {w, work}]

\* The two windows differ in nothing but their names.
AlikeWindows == Permutations(TwoWindows)

OneWindow  == {inbox}
OneKey     == {inbox}
OneKeyOf   == [w \in OneWindow |-> {inbox}]
=============================================================================
