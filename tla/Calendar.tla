------------------------------ MODULE Calendar ------------------------------
(***************************************************************************)
(* The day keys of the daily usage tables.  The writer splits an interval  *)
(* at UTC midnights and names each day with a hand-written civil-date      *)
(* algorithm; the readers (policy evaluation, reports, pruning) name days  *)
(* with chrono.  A clock runs through the calendar, day by day, next to a  *)
(* date that is stepped by the Gregorian rules the readers follow.         *)
(***************************************************************************)
EXTENDS UtcDay, FiniteSetsExt

CONSTANTS LastDay,   \* bound: days after 1970-01-01 the clock reaches
          MaxSpan    \* bound: length of the intervals that are split

ASSUME CalendarAssumption == LastDay \in Nat /\ MaxSpan \in Nat

VARIABLES now,       \* milliseconds since the epoch
          date       \* the date a reader computes for now

\* daily_date_str, from the number of the day
DailyDateWithoutYearShift(day) ==
    LET z   == day + 719468
        era == z \div 146097
        doe == z % 146097
        yoe == (doe - doe \div 1460 + doe \div 36524 - doe \div 146096) \div 365
        doy == doe - (365 * yoe + yoe \div 4 - yoe \div 100)
        mp  == (5 * doy + 2) \div 153
    IN  [y |-> yoe + era * 400,
         m |-> IF mp < 10 THEN mp + 3 ELSE mp - 9,
         d |-> doy - (153 * mp + 2) \div 5 + 1]

DailyDate(day) ==
    LET march == DailyDateWithoutYearShift(day)   \* years that begin in March
    IN  [march EXCEPT !.y = IF march.m <= 2 THEN @ + 1 ELSE @]

\* chrono's proleptic Gregorian calendar
LeapYear(y) == y % 4 = 0 /\ (y % 100 = 0 => y % 400 = 0)

MonthLength(y, m) ==
    CASE m = 2                 -> IF LeapYear(y) THEN 29 ELSE 28
      [] m \in {4, 6, 9, 11}   -> 30
      [] OTHER                 -> 31

DayAfter(t) ==
    IF t.d < MonthLength(t.y, t.m) THEN [t EXCEPT !.d = @ + 1]
    ELSE IF t.m < 12 THEN [y |-> t.y, m |-> t.m + 1, d |-> 1]
    ELSE [y |-> t.y + 1, m |-> 1, d |-> 1]

Init == now = 0 /\ date = [y |-> 1970, m |-> 1, d |-> 1]

Tick ==
    /\ DayOf(now + 1) <= LastDay
    /\ now' = now + 1
    /\ date' = IF DayOf(now') = DayOf(now) THEN date ELSE DayAfter(date)

Spec == Init /\ [][Tick]_<< now, date >>
-----------------------------------------------------------------------------
\* The key a total is written under is the date it is looked up by, on every
\* day from 1970 to the bound, leap days and centuries included.
WrittenDayIsReadDay == DailyDate(DayOf(now)) = date

\* The segments of an interval are the overlaps with the days it covers: none
\* is lost, counted on a neighbouring day or empty, and each day appears once.
SegmentsAreOverlaps ==
    \A start \in {s \in now - MaxSpan .. now : s >= 0} :
        LET segments == SplitByUtcDay(start, now)
            of(d)    == {i \in DOMAIN segments : segments[i].day = DayStart(d)}
        IN  /\ \A i \in DOMAIN segments : segments[i].day % DayLen = 0
            /\ \A d \in DayOf(start) - 1 .. DayOf(now) + 1 :
                   /\ Cardinality(of(d)) = IF Overlap(start, now, d) > 0 THEN 1 ELSE 0
                   /\ \A i \in of(d) : segments[i].dur = Overlap(start, now, d)
=============================================================================
