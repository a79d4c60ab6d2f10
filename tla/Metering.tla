------------------------------ MODULE Metering ------------------------------
(***************************************************************************)
(* The usage meter as a value: what each user has focused, since when, and *)
(* the milliseconds spent per row and day.                                 *)
(***************************************************************************)
EXTENDS Integers, EventTypes, UtcDay

CONSTANTS Users, Windows, Keys, KeysOf, NoWindow, NoFocus, MaxTime

Time == 0 .. MaxTime
Days == 0 .. DayOf(MaxTime)

Zero == [cur   |-> [u \in Users |-> NoFocus],
         spent |-> [u \in Users |-> [k \in Keys |-> [d \in Days |-> 0]]]]

\* Meter m after event e: an event that is not ignored ends the focus of its
\* user, counting it on every row of its window and every day it touched; a
\* Focus begins the next.
Observed(m, e) ==
    LET was == m.cur[e.uid]
        counts(k) == was # NoFocus /\ k \in KeysOf[was.win]
        earned(k, d) == IF counts(k) THEN Overlap(was.ts, e.ts, d) ELSE 0
    IN  IF e.type \in Ignored THEN m
        ELSE [cur   |-> [m.cur EXCEPT ![e.uid] =
                            IF e.type = "Focus"
                            THEN [win |-> e.win, ts |-> e.ts] ELSE NoFocus],
              spent |-> [m.spent EXCEPT ![e.uid] =
                            [k \in Keys |-> [d \in Days |->
                                @[k][d] + earned(k, d)]]]]
=============================================================================
