----------------------- MODULE UsageLedgerRefinement -----------------------
(***************************************************************************)
(* The usage ledger implements the usage meter.  The snapshot is what the  *)
(* tables hold; the live meter is what the tables will hold once every     *)
(* event still in memory, drained or buffered, has been walked.            *)
(***************************************************************************)
EXTENDS UsageLedger, SequencesExt

Value == INSTANCE Metering

Durable == [cur |-> [u \in Users |-> Seed(u)], spent |-> closed]

\* the meter as far as the running flush has come
Walked ==
    IF job # "flushing" THEN Durable
    ELSE [cur   |-> focus,
          spent |-> [u \in Users |-> [k \in Keys |-> [d \in Days |->
                        closed[u][k][d] + delta[u][k][d]]]]]

Live == FoldLeft(Value!Observed, Walked, todo \o buffer)

Meter == INSTANCE UsageMeter WITH live <- Live, durable <- Durable

\* Every step of buffering, flushing, crashing and restarting is a step of the
\* meter or invisible to it: a flush that is walked event by event still takes
\* effect at once, each event counts once, and a flush that fails or a crash
\* goes back exactly to the last commit.
LedgerImplementsMeter == Meter!Spec
=============================================================================
