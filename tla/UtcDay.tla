------------------------------- MODULE UtcDay -------------------------------
(***************************************************************************)
(* How a span of milliseconds is distributed over UTC days.                *)
(* SplitByUtcDay follows the loop of split_by_utc_day; Overlap is the      *)
(* closed form the usage ledger is written with.                           *)
(***************************************************************************)
EXTENDS Integers, Sequences

CONSTANT DayLen          \* milliseconds in a day (DAY_MS)

ASSUME DayLenAssumption == DayLen \in Nat \ {0}

DayOf(t) == t \div DayLen

DayStart(d) == d * DayLen

\* A variant with a bug: an interval before the day has a negative overlap.
OverlapOfAnyTwoTimes(start, end, d) ==
    LET lo == IF start > DayStart(d) THEN start ELSE DayStart(d)
        hi == IF end < DayStart(d + 1) THEN end ELSE DayStart(d + 1)
    IN  hi - lo

\* Milliseconds of [start, end) that fall into day d.
Overlap(start, end, d) ==
    LET lo == IF start > DayStart(d) THEN start ELSE DayStart(d)
        hi == IF end < DayStart(d + 1) THEN end ELSE DayStart(d + 1)
    IN  IF hi > lo THEN hi - lo ELSE 0

\* A variant with a bug: cuts a day after the start, not at midnight.
DayLater(cursor) == cursor + DayLen

NextMidnight(cursor) == cursor - (cursor % DayLen) + DayLen

\* The segments of [start, end): one per covered day, in order, each with the
\* midnight opening its day and the milliseconds it contributes.
SplitByUtcDay(start, end) ==
    LET segments[cursor \in start .. end] ==
            IF cursor >= end
            THEN << >>
            ELSE LET segEnd == IF end < NextMidnight(cursor) THEN end
                                                ELSE NextMidnight(cursor)
                 IN  << [day |-> cursor - (cursor % DayLen),
                         dur |-> segEnd - cursor] >> \o segments[segEnd]
    IN  IF end <= start THEN << >> ELSE segments[start]
=============================================================================
