----------------------------- MODULE UsageMeter -----------------------------
(***************************************************************************)
(* What the usage ledger promises, without buffer, flush, transaction or   *)
(* events table: one meter per user, running on the reported events, of    *)
(* which the database holds a snapshot.                                    *)
(*                                                                         *)
(*   live      the meter after every event accepted so far                 *)
(*   durable   the meter the database would restart from                   *)
(*                                                                         *)
(* A snapshot is taken of the whole meter at once, a loss goes back to the *)
(* last snapshot as a whole, and nothing else touches the snapshot: an     *)
(* event is counted completely or not at all, and once.                    *)
(***************************************************************************)
EXTENDS Metering

VARIABLES live, durable

Init == live = Zero /\ durable = Zero

Observe(u, type, w, t) ==
    /\ type \in Windowed <=> w # NoWindow
    /\ live' = Observed(live, [uid |-> u, type |-> type, win |-> w, ts |-> t])
    /\ UNCHANGED durable

Save == durable' = live /\ UNCHANGED live

Lose == live' = durable /\ UNCHANGED durable

Next ==
    \/ \E u \in Users, type \in EventType, w \in Windows \cup {NoWindow},
          t \in Time : Observe(u, type, w, t)
    \/ Save
    \/ Lose

Spec == Init /\ [][Next]_<< live, durable >>
=============================================================================
