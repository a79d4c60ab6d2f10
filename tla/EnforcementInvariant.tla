------------------------ MODULE EnforcementInvariant ------------------------
(***************************************************************************)
(* The inductive invariant behind SignalsTellTheBlocks,                    *)
(* VerdictFollowsPolicy and LimitBlocksEndWithTheirDay.  What an idle      *)
(* actor leaves behind depends on what its evaluations have read and on    *)
(* which corrections are still queued behind them.                         *)
(***************************************************************************)
EXTENDS Enforcement

\* An evaluation runs only inside a job of the actor, and keeps the job going.
JobInv ==
    /\ actor \in {"idle", "reset"} => AllDone
    /\ actor \in {"event", "mutation", "tick"} => lastReset <= today

\* A change of the policies of u that the actor has yet to look at ...
Announced(u) == u \in handlers \/ Queued(Changed(u))

\* ... or has taken from the queue without knowing yet what is focused.
Pending(u) == Announced(u) \/ (actor = "mutation" /\ step[u].at \in {"lookup", "ask"})

Agrees(u, a) == HardBlocked(u, a) <=> rule[u][a] = "block"

\* The policies an evaluation has read are the stored ones, or a correction
\* waits behind it; and no app is forgotten with a wrong verdict.
UserVerdict(u) ==
    /\ step[u].at \in {"read", "apply"} => heard[u] = step[u].app
    /\ step[u].at = "apply" => step[u].rule = rule[u][step[u].app] \/ Announced(u)
    /\ heard[u] # NoApp
       => Agrees(u, heard[u]) \/ Pending(u) \/ step[u].at \in {"read", "apply"}

VerdictInv == \A u \in Users : UserVerdict(u)

\* The days the actor remembers are past, and in order.
CheckInv ==
    /\ lastReset <= day /\ today <= day
    /\ lastReset = -1 <=> firstCheck = -1
    /\ firstCheck <= lastReset

DayInv == TypeOK /\ JobInv /\ CheckInv /\ LimitBlocksEndWithTheirDay

EnforcementInv == DayInv /\ SignalsTellTheBlocks /\ VerdictInv
=============================================================================
