--------------------------- MODULE Calendar_proofs ---------------------------
(***************************************************************************)
(* The hand-written civil dates are the Gregorian calendar, on every day   *)
(* from 1970 on, and the loop that splits an interval at UTC midnights     *)
(* yields its overlaps with the days, both for every length of the day.    *)
(***************************************************************************)
EXTENDS DayScreens, Induction_proofs, SequenceTheorems, TLAPS

-----------------------------------------------------------------------------
(* The parts of a day number: eras of 400 years that begin in March.       *)

\* The number that daily_date_str divides, for day doy of year r of the q-th
\* four years of century c of era e.
Number(e, c, q, r, doy) == 146097 * e + 36524 * c + 1461 * q + 365 * r + doy

\* A year has 365 days, and a 366th when it ends in a leap February.
Leaps(c, q, r) == r = 3 /\ (q = 24 => c = 3)
Parts(e, c, q, r, doy) ==
    /\ e \in Nat /\ c \in Nat /\ q \in Nat /\ r \in Nat /\ doy \in Nat
    /\ c <= 3 /\ q <= 24 /\ r <= 3 /\ doy <= 365
    /\ doy = 365 => Leaps(c, q, r)

\* Years since year 0, each counted from its March.
Year(e, c, q, r) == 400 * e + 100 * c + 4 * q + r

LEMMA HasParts ==
  ASSUME NEW z \in Nat
  PROVE  \E e, c, q, r, doy : Parts(e, c, q, r, doy) /\ z = Number(e, c, q, r, doy)
  <1> DEFINE e == z \div 146097
             x == z % 146097
  <1>1. e \in Nat /\ x \in Nat /\ x <= 146096 /\ z = 146097 * e + x
    BY SMT
  <1> HIDE DEF e, x
  <1>2. PICK c \in Nat, y \in Nat : c <= 3 /\ y <= 36524 /\ x = 36524 * c + y /\ (y = 36524 => c = 3)
    <2>1. CASE x = 146096
      BY <2>1, SMT
    <2>2. CASE x # 146096
      <3> DEFINE c == x \div 36524
                 y == x % 36524
      <3>1. c \in Nat /\ c <= 3 /\ y \in Nat /\ y < 36524 /\ x = 36524 * c + y
        BY <1>1, <2>2, SMT
      <3> HIDE DEF c, y
      <3>2. y <= 36524 /\ y # 36524
        BY <3>1, SMT
      <3> QED
        BY <3>1, <3>2
    <2> QED
      BY <2>1, <2>2
  <1>3. PICK q \in Nat, w \in Nat : q <= 24 /\ w <= 1460 /\ y = 1461 * q + w
    <2>1. /\ y \div 1461 \in Nat /\ y \div 1461 <= 24 /\ y % 1461 \in Nat /\ y % 1461 <= 1460
          /\ y = 1461 * (y \div 1461) + (y % 1461)
      BY <1>2, SMT
    <2> QED
      BY <2>1, SMT
  <1>4. PICK r \in Nat, doy \in Nat : /\ r <= 3 /\ doy <= 365 /\ w = 365 * r + doy
                                      /\ doy = 365 => w = 1460 /\ r = 3
    <2>1. CASE w = 1460
      BY <2>1, SMT
    <2>2. CASE w # 1460
      <3>1. /\ w \div 365 \in Nat /\ w \div 365 <= 3 /\ w % 365 \in Nat /\ w % 365 < 365
            /\ w = 365 * (w \div 365) + (w % 365)
        BY <1>3, <2>2, SMT
      <3> QED
        BY <3>1, SMT
    <2> QED
      BY <2>1, <2>2
  <1>5. doy = 365 => Leaps(c, q, r)
    BY <1>2, <1>3, <1>4, SMT DEF Leaps
  <1>6. z = Number(e, c, q, r, doy)
    BY <1>1, <1>2, <1>3, <1>4, SMT DEF Number
  <1> QED
    BY <1>1, <1>2, <1>3, <1>4, <1>5, <1>6 DEF Parts

-----------------------------------------------------------------------------
(* What daily_date_str makes of the parts. *)

LEMMA EraIs ==
  ASSUME NEW e, NEW c, NEW q, NEW r, NEW doy, Parts(e, c, q, r, doy)
  PROVE  /\ Number(e, c, q, r, doy) \in Nat
         /\ Number(e, c, q, r, doy) \div 146097 = e
         /\ Number(e, c, q, r, doy) % 146097 = 36524 * c + 1461 * q + 365 * r + doy
  BY SMT DEF Parts, Number

LEMMA YearIs ==
  ASSUME NEW e, NEW c, NEW q, NEW r, NEW doy, Parts(e, c, q, r, doy),
         NEW doe, doe = 36524 * c + 1461 * q + 365 * r + doy
  PROVE  (doe - doe \div 1460 + doe \div 36524 - doe \div 146096) \div 365 = 100 * c + 4 * q + r
  <1>1. doe \in Nat
    BY SMT DEF Parts
  <1>2. doe \div 36524 = c + doe \div 146096
    BY SMT DEF Parts, Leaps
  <1>3. \/ doe \div 1460 = 25 * c + q /\ doy <= 364
        \/ doe \div 1460 = 25 * c + q + 1 /\ doy >= 1
    <2> DEFINE h == 24 * c + q + 365 * r + doy
    <2>1. doe = 1460 * (25 * c + q) + h /\ h \in Nat /\ h < 2920
      BY SMT DEF Parts
    <2>2. CASE h < 1460
      BY <2>1, <2>2, SMT DEF Parts, Leaps
    <2>3. CASE h >= 1460
      BY <2>1, <2>3, SMT DEF Parts, Leaps
    <2> QED
      BY <2>1, <2>2, <2>3, SMT
  <1> QED
    BY <1>1, <1>2, <1>3, SMT DEF Parts, Leaps

LEMMA DayOfYearIs ==
  ASSUME NEW e, NEW c, NEW q, NEW r, NEW doy, Parts(e, c, q, r, doy),
         NEW yoe, yoe = 100 * c + 4 * q + r
  PROVE  365 * yoe + yoe \div 4 - yoe \div 100 = 36524 * c + 1461 * q + 365 * r
  <1>1. yoe \div 4 = 25 * c + q /\ yoe \div 100 = c
    BY SMT DEF Parts
  <1> QED
    BY <1>1, SMT DEF Parts

\* Month and day of the month, counted from the first of March.
FromMarch(doy)  == (5 * doy + 2) \div 153
Month(doy)      == IF FromMarch(doy) < 10 THEN FromMarch(doy) + 3 ELSE FromMarch(doy) - 9
DayOfMonth(doy) == doy - (153 * FromMarch(doy) + 2) \div 5 + 1
Date(n, doy)    == [y |-> IF Month(doy) <= 2 THEN n + 1 ELSE n, m |-> Month(doy), d |-> DayOfMonth(doy)]

LEMMA DailyDateIs ==
  ASSUME NEW day \in Nat, NEW e, NEW c, NEW q, NEW r, NEW doy, Parts(e, c, q, r, doy),
         day + 719468 = Number(e, c, q, r, doy)
  PROVE  DailyDate(day) = Date(Year(e, c, q, r), doy)
  <1> DEFINE z   == day + 719468
             doe == z % 146097
             yoe == (doe - doe \div 1460 + doe \div 36524 - doe \div 146096) \div 365
             dy  == doe - (365 * yoe + yoe \div 4 - yoe \div 100)
             mp  == (5 * dy + 2) \div 153
  <1>1. z \div 146097 = e /\ doe = 36524 * c + 1461 * q + 365 * r + doy
    BY EraIs
  <1>2. yoe = 100 * c + 4 * q + r
    BY <1>1, YearIs
  <1>3. 365 * yoe + yoe \div 4 - yoe \div 100 = 36524 * c + 1461 * q + 365 * r
    BY <1>2, DayOfYearIs
  <1>4. dy = doy
    BY <1>1, <1>3, SMT DEF Parts
  <1>5. mp = FromMarch(doy)
    BY <1>4 DEF FromMarch
  <1>6. DailyDateWithoutYearShift(day) =
            [y |-> yoe + (z \div 146097) * 400,
             m |-> IF mp < 10 THEN mp + 3 ELSE mp - 9,
             d |-> dy - (153 * mp + 2) \div 5 + 1]
    BY DEF DailyDateWithoutYearShift
  <1>7. yoe + (z \div 146097) * 400 = Year(e, c, q, r)
    BY <1>1, <1>2, SMT DEF Parts, Year
  <1> HIDE DEF z, doe, yoe, dy, mp
  <1>8. DailyDateWithoutYearShift(day) = [y |-> Year(e, c, q, r), m |-> Month(doy), d |-> DayOfMonth(doy)]
    BY <1>4, <1>5, <1>6, <1>7 DEF Month, DayOfMonth
  <1> HIDE DEF Year
  <1> QED
    BY <1>8 DEF DailyDate, Date

-----------------------------------------------------------------------------
(* The months. *)

LEMMA Months ==
  ASSUME NEW doy \in Nat, doy <= 365
  PROVE  \/ doy <= 30 /\ Month(doy) = 3 /\ DayOfMonth(doy) = doy + 1
         \/ 31 <= doy /\ doy <= 60 /\ Month(doy) = 4 /\ DayOfMonth(doy) = doy - 30
         \/ 61 <= doy /\ doy <= 91 /\ Month(doy) = 5 /\ DayOfMonth(doy) = doy - 60
         \/ 92 <= doy /\ doy <= 121 /\ Month(doy) = 6 /\ DayOfMonth(doy) = doy - 91
         \/ 122 <= doy /\ doy <= 152 /\ Month(doy) = 7 /\ DayOfMonth(doy) = doy - 121
         \/ 153 <= doy /\ doy <= 183 /\ Month(doy) = 8 /\ DayOfMonth(doy) = doy - 152
         \/ 184 <= doy /\ doy <= 213 /\ Month(doy) = 9 /\ DayOfMonth(doy) = doy - 183
         \/ 214 <= doy /\ doy <= 244 /\ Month(doy) = 10 /\ DayOfMonth(doy) = doy - 213
         \/ 245 <= doy /\ doy <= 274 /\ Month(doy) = 11 /\ DayOfMonth(doy) = doy - 244
         \/ 275 <= doy /\ doy <= 305 /\ Month(doy) = 12 /\ DayOfMonth(doy) = doy - 274
         \/ 306 <= doy /\ doy <= 336 /\ Month(doy) = 1 /\ DayOfMonth(doy) = doy - 305
         \/ 337 <= doy /\ Month(doy) = 2 /\ DayOfMonth(doy) = doy - 336
  BY SMT DEF Month, DayOfMonth, FromMarch

LEMMA LeapYearIs ==
  ASSUME NEW e, NEW c, NEW q, NEW r, NEW doy, Parts(e, c, q, r, doy)
  PROVE  LeapYear(Year(e, c, q, r) + 1) <=> Leaps(c, q, r)
  <1> DEFINE y == Year(e, c, q, r) + 1
  <1>1. y % 4 = 0 <=> r = 3
    BY SMT DEF Parts, Year
  <1>2. r = 3 => (y % 100 = 0 <=> q = 24)
    BY SMT DEF Parts, Year
  <1>3. r = 3 /\ q = 24 => (y % 400 = 0 <=> c = 3)
    BY SMT DEF Parts, Year
  <1> HIDE DEF y
  <1> QED
    BY <1>1, <1>2, <1>3 DEF LeapYear, Leaps, y

LEMMA DateFields ==
  ASSUME NEW n, NEW doy
  PROVE  /\ Date(n, doy).y = (IF Month(doy) <= 2 THEN n + 1 ELSE n)
         /\ Date(n, doy).m = Month(doy) /\ Date(n, doy).d = DayOfMonth(doy)
  BY DEF Date

\* The day after, field by field.
LEMMA DayAfterIs ==
  ASSUME NEW n \in Nat, NEW doy, Month(doy) \in Int, DayOfMonth(doy) \in Int,
         NEW y, y = IF Month(doy) <= 2 THEN n + 1 ELSE n
  PROVE  DayAfter(Date(n, doy)) =
            IF DayOfMonth(doy) < MonthLength(y, Month(doy))
            THEN [y |-> y, m |-> Month(doy), d |-> DayOfMonth(doy) + 1]
            ELSE IF Month(doy) < 12 THEN [y |-> y, m |-> Month(doy) + 1, d |-> 1]
            ELSE [y |-> y + 1, m |-> 1, d |-> 1]
  <1> DEFINE m == Month(doy)
             d == DayOfMonth(doy)
  <1>1. Date(n, doy) = [y |-> y, m |-> m, d |-> d]
    BY DEF Date
  <1> HIDE DEF m, d
  <1>2. [[y |-> y, m |-> m, d |-> d] EXCEPT !.d = @ + 1] = [y |-> y, m |-> m, d |-> d + 1]
    OBVIOUS
  <1> QED
    BY <1>1, <1>2 DEF DayAfter, m, d

\* The next day of the same year, from March to February ...
LEMMA NextDay ==
  ASSUME NEW n \in Nat, NEW doy \in Nat, doy < 365, doy = 364 => LeapYear(n + 1)
  PROVE  Date(n, doy + 1) = DayAfter(Date(n, doy))
  <1> DEFINE y == IF Month(doy) <= 2 THEN n + 1 ELSE n
             m == Month(doy)
             d == DayOfMonth(doy)
             l == MonthLength(y, m)
  <1>1. m \in Int /\ d \in Int
    BY Months, SMT
  <1>2. DayAfter(Date(n, doy)) = IF d < l THEN [y |-> y, m |-> m, d |-> d + 1]
                                 ELSE IF m < 12 THEN [y |-> y, m |-> m + 1, d |-> 1]
                                 ELSE [y |-> y + 1, m |-> 1, d |-> 1]
    BY <1>1, DayAfterIs
  <1>3. Date(n, doy + 1) = [y |-> IF Month(doy + 1) <= 2 THEN n + 1 ELSE n,
                            m |-> Month(doy + 1), d |-> DayOfMonth(doy + 1)]
    BY DEF Date
  <1>4. l = IF m = 2 THEN (IF LeapYear(y) THEN 29 ELSE 28)
            ELSE IF m \in {4, 6, 9, 11} THEN 30 ELSE 31
    BY DEF MonthLength
  <1>5. m = 2 => (d < l <=> doy < 364 \/ LeapYear(n + 1))
    BY <1>4, Months, SMT
  <1> HIDE DEF l, d, m, y
  <1>6. CASE d < l
    <2>1. Month(doy + 1) = m /\ DayOfMonth(doy + 1) = d + 1
      BY <1>4, <1>5, <1>6, Months, SMT DEF m, d
    <2> QED
      BY <1>2, <1>3, <1>6, <2>1 DEF m, y
  <1>7. CASE ~(d < l)
    <2>1. /\ m # 2 /\ DayOfMonth(doy + 1) = 1
          /\ Month(doy + 1) = IF m < 12 THEN m + 1 ELSE 1
          /\ m < 12 => (m <= 2 <=> m + 1 <= 2)
      BY <1>4, <1>5, <1>7, Months, SMT DEF m, d
    <2>2. CASE m < 12
      <3>1. (IF Month(doy + 1) <= 2 THEN n + 1 ELSE n) = y
        BY <2>1, <2>2 DEF m, y
      <3> QED
        BY <1>2, <1>3, <1>7, <2>1, <2>2, <3>1
    <2>3. CASE ~(m < 12)
      <3>1. y = n /\ 1 <= 2
        BY <1>1, <2>3, SMT DEF m, y
      <3> QED
        BY <1>2, <1>3, <1>7, <2>1, <2>3, <3>1
    <2> QED
      BY <2>2, <2>3
  <1> QED
    BY <1>6, <1>7

\* ... and the first of March after the last of February.
LEMMA NextMarch ==
  ASSUME NEW n \in Nat, NEW doy \in Nat,
         doy = 365 \/ (doy = 364 /\ ~LeapYear(n + 1)), doy = 365 => LeapYear(n + 1)
  PROVE  Date(n + 1, 0) = DayAfter(Date(n, doy))
  <1>1. Month(doy) = 2 /\ DayOfMonth(doy) = doy - 336
    BY Months, SMT
  <1>2. Month(0) = 3 /\ DayOfMonth(0) = 1
    BY Months, SMT
  <1>3. MonthLength(n + 1, 2) = IF LeapYear(n + 1) THEN 29 ELSE 28
    BY DEF MonthLength
  <1>4. DayOfMonth(doy) \in Int /\ ~(DayOfMonth(doy) < MonthLength(n + 1, 2))
    BY <1>1, <1>3, SMT
  <1>5. DayAfter(Date(n, doy)) = [y |-> n + 1, m |-> 2 + 1, d |-> 1]
    <2> DEFINE y == n + 1
    <2>1. y = IF Month(doy) <= 2 THEN n + 1 ELSE n
      BY <1>1, SMT
    <2>2. Month(doy) \in Int
      BY <1>1
    <2> HIDE DEF y
    <2>3. DayAfter(Date(n, doy)) =
            IF DayOfMonth(doy) < MonthLength(y, Month(doy))
            THEN [y |-> y, m |-> Month(doy), d |-> DayOfMonth(doy) + 1]
            ELSE IF Month(doy) < 12 THEN [y |-> y, m |-> Month(doy) + 1, d |-> 1]
            ELSE [y |-> y + 1, m |-> 1, d |-> 1]
      BY <1>4, <2>1, <2>2, DayAfterIs
    <2>4. ~(DayOfMonth(doy) < MonthLength(y, Month(doy))) /\ Month(doy) < 12
      BY <1>1, <1>4, SMT DEF y
    <2> QED
      BY <1>1, <2>3, <2>4 DEF y
  <1>6. Date(n + 1, 0) = [y |-> n + 1, m |-> 3, d |-> 1]
    BY <1>2, SMT DEF Date
  <1> QED
    BY <1>5, <1>6, SMT

\* daily_date_str follows the calendar from every day to the next.
LEMMA DailyDateFollows ==
  ASSUME NEW day \in Nat
  PROVE  DailyDate(day + 1) = DayAfter(DailyDate(day))
  <1>1. PICK e, c, q, r, doy : Parts(e, c, q, r, doy) /\ day + 719468 = Number(e, c, q, r, doy)
    <2>1. day + 719468 \in Nat
      OBVIOUS
    <2> QED
      BY <2>1, HasParts
  <1> DEFINE n == Year(e, c, q, r)
  <1>2. DailyDate(day) = Date(n, doy)
    BY <1>1, DailyDateIs
  <1>3. n \in Nat /\ doy \in Nat /\ doy <= 365 /\ (LeapYear(n + 1) <=> Leaps(c, q, r))
    <2>1. n \in Nat
      BY <1>1, SMT DEF Parts, Year
    <2> QED
      BY <1>1, <2>1, LeapYearIs DEF Parts
  <1>4. ASSUME NEW f, NEW g, NEW h, NEW i, NEW dy, Parts(f, g, h, i, dy),
               Number(f, g, h, i, dy) = Number(e, c, q, r, doy) + 1
        PROVE  DailyDate(day + 1) = Date(Year(f, g, h, i), dy)
    <2>1. day + 1 \in Nat /\ (day + 1) + 719468 = Number(f, g, h, i, dy)
      BY <1>1, <1>4
    <2> QED
      BY <1>4, <2>1, DailyDateIs
  <1>5. CASE doy < 364 \/ (doy = 364 /\ Leaps(c, q, r))
    <2>1. Parts(e, c, q, r, doy + 1)
      BY <1>1, <1>5, SMT DEF Parts
    <2>2. Number(e, c, q, r, doy + 1) = Number(e, c, q, r, doy) + 1
      BY <1>1, SMT DEF Parts, Number
    <2>3. DailyDate(day + 1) = Date(n, doy + 1)
      BY <1>4, <2>1, <2>2
    <2>4. doy < 365 /\ (doy = 364 => LeapYear(n + 1))
      BY <1>3, <1>5, SMT
    <2> HIDE DEF n
    <2> QED
      BY <1>2, <1>3, <2>3, <2>4, NextDay
  <1>6. CASE doy = 365 \/ (doy = 364 /\ ~Leaps(c, q, r))
    <2>1. DayAfter(DailyDate(day)) = Date(n + 1, 0)
      <3>1. /\ doy = 365 \/ (doy = 364 /\ ~LeapYear(n + 1))
            /\ doy = 365 => LeapYear(n + 1)
        BY <1>1, <1>3, <1>6 DEF Parts
      <3> HIDE DEF n
      <3> QED
        BY <1>2, <1>3, <3>1, NextMarch
    <2>2. ASSUME NEW f, NEW g, NEW h, NEW i, Parts(f, g, h, i, 0),
                 Number(f, g, h, i, 0) = Number(e, c, q, r, doy) + 1, Year(f, g, h, i) = n + 1
          PROVE  DailyDate(day + 1) = DayAfter(DailyDate(day))
      BY <1>4, <2>1, <2>2
    <2>3. CASE r < 3
      <3>1. /\ Parts(e, c, q, r + 1, 0) /\ Number(e, c, q, r + 1, 0) = Number(e, c, q, r, doy) + 1
            /\ Year(e, c, q, r + 1) = n + 1
        BY <1>1, <1>6, <2>3, SMT DEF Parts, Number, Year, Leaps
      <3> QED
        BY <2>2, <3>1
    <2>4. CASE r = 3 /\ q < 24
      <3>1. /\ Parts(e, c, q + 1, 0, 0) /\ Number(e, c, q + 1, 0, 0) = Number(e, c, q, r, doy) + 1
            /\ Year(e, c, q + 1, 0) = n + 1
        BY <1>1, <1>6, <2>4, SMT DEF Parts, Number, Year, Leaps
      <3> QED
        BY <2>2, <3>1
    <2>5. CASE r = 3 /\ q = 24 /\ c < 3
      <3>1. /\ Parts(e, c + 1, 0, 0, 0) /\ Number(e, c + 1, 0, 0, 0) = Number(e, c, q, r, doy) + 1
            /\ Year(e, c + 1, 0, 0) = n + 1
        BY <1>1, <1>6, <2>5, SMT DEF Parts, Number, Year, Leaps
      <3> QED
        BY <2>2, <3>1
    <2>6. CASE r = 3 /\ q = 24 /\ c = 3
      <3>1. /\ Parts(e + 1, 0, 0, 0, 0) /\ Number(e + 1, 0, 0, 0, 0) = Number(e, c, q, r, doy) + 1
            /\ Year(e + 1, 0, 0, 0) = n + 1
        BY <1>1, <1>6, <2>6, SMT DEF Parts, Number, Year, Leaps
      <3> QED
        BY <2>2, <3>1
    <2> QED
      BY <1>1, <2>3, <2>4, <2>5, <2>6, SMT DEF Parts
  <1> QED
    BY <1>3, <1>5, <1>6, SMT

-----------------------------------------------------------------------------
(* The clock. *)

LEMMA DayIs ==
  ASSUME NEW t \in Nat
  PROVE  DayOf(t) \in Nat /\ DayLen * DayOf(t) <= t /\ t < DayLen * DayOf(t) + DayLen
  <1>1. DayLen \in Nat \ {0}
    BY DayLenAssumption
  <1>2. /\ t \div DayLen \in Nat /\ t % DayLen \in 0 .. DayLen - 1
        /\ t = DayLen * (t \div DayLen) + (t % DayLen)
    BY <1>1, SMT
  <1> DEFINE k == DayLen * (t \div DayLen)
             x == t % DayLen
  <1>3. k \in Nat /\ t = k + x /\ x \in Nat /\ x < DayLen
    BY <1>1, <1>2, SMT
  <1> HIDE DEF k, x
  <1>4. k <= t /\ t < k + DayLen
    BY <1>1, <1>3, SMT
  <1> QED
    BY <1>2, <1>4 DEF k, DayOf

\* From one millisecond to the next the day stays or is the next one.
LEMMA NextDayIs ==
  ASSUME NEW t \in Nat
  PROVE  DayOf(t + 1) = DayOf(t) \/ DayOf(t + 1) = DayOf(t) + 1
  <1> DEFINE a == DayOf(t)
             b == DayOf(t + 1)
  <1>1. DayLen \in Nat \ {0} /\ t + 1 \in Nat
    BY DayLenAssumption
  <1>2. /\ a \in Nat /\ DayLen * a <= t /\ t < DayLen * a + DayLen
        /\ b \in Nat /\ DayLen * b <= t + 1 /\ t + 1 < DayLen * b + DayLen
    BY <1>1, DayIs
  <1> HIDE DEF a, b
  <1>3. ASSUME b < a PROVE FALSE
    <2>1. DayLen * (b + 1) <= DayLen * a
      BY <1>1, <1>2, <1>3, SMT
    <2>2. DayLen * (b + 1) = DayLen * b + DayLen
      BY <1>1, <1>2, SMT
    <2> QED
      BY <1>1, <1>2, <2>1, <2>2, SMT
  <1>4. ASSUME b > a + 1 PROVE FALSE
    <2>1. DayLen * (a + 2) <= DayLen * b
      BY <1>1, <1>2, <1>4, SMT
    <2>2. DayLen * (a + 2) = DayLen * a + DayLen + DayLen
      BY <1>1, <1>2, SMT
    <2> QED
      BY <1>1, <1>2, <2>1, <2>2, SMT
  <1>5. b = a \/ b = a + 1
    BY <1>2, <1>3, <1>4, SMT
  <1> QED
    BY <1>5 DEF a, b

\* WrittenDayIsReadDay: on every day from 1970 on, leap days and the ends of
\* centuries and eras included, the key daily_date_str writes a total under is
\* the date chrono looks it up by.
THEOREM DatesAgree == Spec => []WrittenDayIsReadDay
  <1> DEFINE Inv == now \in Nat /\ WrittenDayIsReadDay
  <1>1. Init => Inv
    <2> SUFFICES ASSUME Init PROVE now \in Nat /\ DailyDate(DayOf(now)) = date
      BY DEF WrittenDayIsReadDay
    <2>1. now = 0 /\ now \in Nat /\ date = [y |-> 1970, m |-> 1, d |-> 1]
      BY DEF Init
    <2>2. DayOf(now) = 0
      <3>1. DayLen \in Nat \ {0} /\ DayOf(now) \in Nat /\ DayLen * DayOf(now) <= 0
        BY <2>1, DayIs, DayLenAssumption
      <3> QED
        BY <3>1, SMT
    <2>3. Parts(4, 3, 17, 1, 306)
      BY SMT DEF Parts
    <2>4. 0 + 719468 = Number(4, 3, 17, 1, 306) /\ Year(4, 3, 17, 1) = 1969
      BY SMT DEF Number, Year
    <2>5. DailyDate(0) = Date(1969, 306)
      BY <2>3, <2>4, DailyDateIs
    <2>6. Month(306) = 1 /\ DayOfMonth(306) = 1
      BY Months, SMT
    <2> QED
      BY <2>1, <2>2, <2>5, <2>6, SMT DEF Date
  <1>2. Inv /\ [Tick]_<< now, date >> => Inv'
    <2> SUFFICES ASSUME Inv, Tick PROVE Inv'
      BY DEF WrittenDayIsReadDay
    <2>1. now' = now + 1 /\ now' \in Nat /\ DayOf(now) \in Nat
      BY DayIs DEF Tick
    <2>2. CASE DayOf(now') = DayOf(now)
      BY <2>1, <2>2 DEF Tick, WrittenDayIsReadDay
    <2>3. CASE DayOf(now') = DayOf(now) + 1
      <3>1. date' = DayAfter(date)
        BY <2>1, <2>3, SMT DEF Tick
      <3>2. DailyDate(DayOf(now')) = DayAfter(DailyDate(DayOf(now)))
        BY <2>1, <2>3, DailyDateFollows
      <3> QED
        BY <2>1, <3>1, <3>2 DEF WrittenDayIsReadDay
    <2> QED
      BY <2>1, <2>2, <2>3, NextDayIs
  <1> QED
    BY <1>1, <1>2, PTL DEF Spec

-----------------------------------------------------------------------------
(* Midnights *)

LEMMA Midnights ==
    ASSUME NEW d \in Int
    PROVE  /\ DayStart(d) \in Int /\ DayStart(d + 1) = DayStart(d) + DayLen
           /\ DayStart(d) % DayLen = 0
           /\ d >= 0 => DayStart(d) >= 0
<1>1. DayLen \in Nat \ {0}
  BY DayLenAssumption
<1>2. d * DayLen \in Int /\ (d + 1) * DayLen = d * DayLen + DayLen
  BY <1>1, SMT
<1>3. d >= 0 => d * DayLen >= 0
  BY <1>1, SMT
<1>4. (d * DayLen) % DayLen = 0
  BY <1>1, SMT
<1> QED
  BY <1>2, <1>3, <1>4 DEF DayStart

LEMMA MidnightsInOrder ==
    ASSUME NEW d \in Int, NEW e \in Int, d < e
    PROVE  DayStart(d + 1) <= DayStart(e) /\ DayStart(d) < DayStart(e)
<1>1. DayLen \in Nat \ {0} /\ e - (d + 1) \in Nat
  BY DayLenAssumption
<1>2. (e - (d + 1)) * DayLen \in Nat
  BY <1>1, SMT
<1>3. e * DayLen = (e - (d + 1)) * DayLen + (d + 1) * DayLen
  BY <1>1, SMT
<1>4. (d + 1) * DayLen = d * DayLen + DayLen /\ d * DayLen \in Int /\ (d + 1) * DayLen \in Int
  BY <1>1, SMT
<1> QED
  BY <1>1, <1>2, <1>3, <1>4, SMT DEF DayStart

LEMMA DayAround ==
    ASSUME NEW t \in Nat
    PROVE  /\ DayOf(t) \in Nat /\ DayStart(DayOf(t)) \in Nat
           /\ DayStart(DayOf(t)) = t - (t % DayLen) /\ DayStart(DayOf(t)) <= t
           /\ NextMidnight(t) = DayStart(DayOf(t) + 1) /\ t < NextMidnight(t)
           /\ NextMidnight(t) \in Nat
<1>1. DayLen \in Nat \ {0}
  BY DayLenAssumption
<1>2. /\ t \div DayLen \in Nat /\ t % DayLen \in 0 .. DayLen - 1
      /\ t = DayLen * (t \div DayLen) + (t % DayLen)
  BY <1>1, SMT
<1>3. DayLen * (t \div DayLen) = (t \div DayLen) * DayLen /\ (t \div DayLen) * DayLen \in Nat
  BY <1>1, <1>2, SMT
<1>4. DayOf(t) \in Nat /\ DayStart(DayOf(t)) = (t \div DayLen) * DayLen
  BY <1>2 DEF DayOf, DayStart
<1>5. DayStart(DayOf(t) + 1) = DayStart(DayOf(t)) + DayLen
  BY <1>4, Midnights
<1> DEFINE k == (t \div DayLen) * DayLen
           x == t % DayLen
<1>6. k \in Nat /\ x \in 0 .. DayLen - 1 /\ t = k + x /\ DayStart(DayOf(t)) = k
  BY <1>2, <1>3, <1>4
<1>7. NextMidnight(t) = t - x + DayLen
  BY DEF NextMidnight
<1> HIDE DEF k
<1>8. t - x = k /\ k <= t /\ t < k + DayLen
  <2> HIDE DEF x
  <2> QED
    BY <1>1, <1>6, SMT
<1> HIDE DEF x
<1>9. NextMidnight(t) = k + DayLen /\ k + DayLen \in Nat
  BY <1>1, <1>6, <1>7, <1>8, SMT
<1> QED
  BY <1>4, <1>5, <1>6, <1>8, <1>9 DEF x

-----------------------------------------------------------------------------
(* The segments of an interval *)

\* Where the segment from c ends, the segments from there, and the function
\* that split_by_utc_day's loop computes.
Cut(end, c) == IF end < NextMidnight(c) THEN end ELSE NextMidnight(c)
From(g, end, c) ==
    IF c >= end THEN << >>
    ELSE << [day |-> c - (c % DayLen), dur |-> Cut(end, c) - c] >> \o g[Cut(end, c)]
Splits(g, start, end) == g = [c \in start .. end |-> From(g, end, c)]

LEMMA CutIs ==
    ASSUME NEW end \in Nat, NEW c \in Nat, c < end
    PROVE  Cut(end, c) \in Nat /\ c < Cut(end, c) /\ Cut(end, c) <= end
<1>1. NextMidnight(c) \in Nat /\ c < NextMidnight(c)
  BY DayAround
<1> QED
  BY <1>1 DEF Cut

LEMMA SplitExists ==
    ASSUME NEW start \in Nat, NEW end \in Nat
    PROVE  \E g : Splits(g, start, end)
<1> DEFINE P == {i \in Nat : \E g : \A c \in start .. end :
                     end - c <= i => g[c] = From(g, end, c)}
<1>1. 0 \in P
  <2> DEFINE g == [c \in start .. end |-> << >>]
  <2>1. \A c \in start .. end : end - c <= 0 => g[c] = From(g, end, c)
    BY DEF From
  <2> HIDE DEF g
  <2> QED
    BY <2>1
<1>2. ASSUME NEW i \in Nat, i \in P PROVE i + 1 \in P
  <2>1. PICK g : \A c \in start .. end : end - c <= i => g[c] = From(g, end, c)
    BY <1>2
  <2> DEFINE h == [c \in start .. end |-> From(g, end, c)]
  <2>2. ASSUME NEW c \in start .. end, end - c <= i + 1 PROVE h[c] = From(h, end, c)
    <3>1. CASE c >= end
      BY <3>1 DEF From
    <3>2. CASE ~ c >= end
      <4> DEFINE s == Cut(end, c)
      <4>1. s \in start .. end /\ end - s <= i
        <5>1. c \in Nat /\ c < end
          BY <3>2
        <5>2. s \in Nat /\ c < s /\ s <= end
          BY <5>1, CutIs
        <5> HIDE DEF s
        <5> QED
          BY <2>2, <5>2
      <4> HIDE DEF s
      <4>2. g[s] = From(g, end, s) /\ h[s] = From(g, end, s)
        BY <2>1, <4>1
      <4>3. h[c] = From(g, end, c)
        OBVIOUS
      <4> HIDE DEF h
      <4> QED
        BY <3>2, <4>2, <4>3 DEF From, s
    <3> QED
      BY <3>1, <3>2
  <2> HIDE DEF h
  <2> QED
    BY <2>2
<1> DEFINE n == IF start <= end THEN end - start ELSE 0
<1>3. n \in Nat /\ n \in P
  <2>1. n \in Nat
    OBVIOUS
  <2> HIDE DEF P, n
  <2>2. 0 .. n \subseteq P
    BY <1>1, <1>2, <2>1, Induction
  <2> QED
    BY <2>1, <2>2
<1>4. PICK g : \A c \in start .. end : g[c] = From(g, end, c)
  BY <1>3
<1> DEFINE h == [c \in start .. end |-> From(g, end, c)]
<1>5. \A c \in start .. end : h[c] = g[c]
  BY <1>4
<1>6. ASSUME NEW c \in start .. end PROVE From(g, end, c) = From(h, end, c)
  <2>1. CASE c >= end
    BY <2>1 DEF From
  <2>2. CASE ~ c >= end
    <3>1. c \in Nat /\ c < end
      BY <2>2
    <3>2. Cut(end, c) \in start .. end
      BY <3>1, CutIs
    <3>3. h[Cut(end, c)] = g[Cut(end, c)]
      BY <1>5, <3>2
    <3> HIDE DEF h
    <3> QED
      BY <3>3 DEF From
  <2> QED
    BY <2>1, <2>2
<1>7. h = [c \in start .. end |-> From(h, end, c)]
  BY <1>6
<1>8. Splits(h, start, end)
  BY <1>7 DEF Splits
<1> HIDE DEF h
<1> QED
  BY <1>8

\* The segments q of [c, end) are its overlaps with the days it covers.
Segment == [day : Int, dur : Int]
Covers(q, c, end) ==
    /\ q \in Seq(Segment)
    /\ \A i \in 1 .. Len(q) : \E d \in Int :
           q[i].day = DayStart(d) /\ q[i].dur = Overlap(c, end, d) /\ q[i].dur > 0
    /\ \A d \in Int : Overlap(c, end, d) > 0 => \E i \in 1 .. Len(q) : q[i].day = DayStart(d)
    /\ \A i, j \in 1 .. Len(q) : q[i].day = q[j].day => i = j

LEMMA CoversNothing == ASSUME NEW end \in Nat PROVE Covers(<< >>, end, end)
<1>1. \A d \in Int : Overlap(end, end, d) = 0
  <2> TAKE d \in Int
  <2>1. DayStart(d) \in Int /\ DayStart(d + 1) \in Int /\ DayStart(d) < DayStart(d + 1)
    BY Midnights, DayLenAssumption
  <2> QED
    BY <2>1 DEF Overlap
<1> QED
  BY <1>1 DEF Covers

LEMMA OverlapParts ==
    ASSUME NEW end \in Nat, NEW c \in Nat, c < end, NEW d \in Int
    PROVE  Overlap(c, end, d) =
               IF d = DayOf(c) THEN Cut(end, c) - c ELSE Overlap(Cut(end, c), end, d)
<1> DEFINE a == DayOf(c)
           s == Cut(end, c)
           lo == DayStart(d)
           hi == DayStart(d + 1)
<1>1. /\ a \in Nat /\ DayStart(a) \in Nat /\ DayStart(a) <= c /\ c < DayStart(a + 1)
      /\ DayStart(a + 1) \in Nat
      /\ s = IF end < DayStart(a + 1) THEN end ELSE DayStart(a + 1)
  BY DayAround DEF Cut
<1>2. lo \in Int /\ hi \in Int /\ lo < hi
  BY Midnights, DayLenAssumption
<1>3. CASE d = a
  BY <1>1, <1>2, <1>3 DEF Overlap
<1>4. CASE d < a
  <2>1. hi <= DayStart(a)
    BY <1>1, <1>4, MidnightsInOrder
  <2> HIDE DEF s, a
  <2>2. s \in Nat /\ c <= s
    BY <1>1
  <2> HIDE DEF lo, hi
  <2>3. Overlap(c, end, d) = 0 /\ Overlap(s, end, d) = 0
    BY <1>1, <1>2, <2>1, <2>2 DEF Overlap, lo, hi
  <2> QED
    BY <1>4, <2>3 DEF s, a
<1>5. CASE d > a
  <2>1. DayStart(a + 1) <= lo
    BY <1>1, <1>5, MidnightsInOrder
  <2> HIDE DEF s, a
  <2>2. s \in Nat /\ c <= s
    BY <1>1
  <2>3. Overlap(c, end, d) = Overlap(s, end, d)
    BY <1>1, <1>2, <2>1, <2>2 DEF Overlap
  <2> QED
    BY <1>1, <1>5, <2>3 DEF s, a
<1> QED
  BY <1>1, <1>3, <1>4, <1>5

\* A segment up to the next midnight, and those of the rest.
LEMMA CoversMore ==
    ASSUME NEW end \in Nat, NEW c \in Nat, c < end, NEW q, Covers(q, Cut(end, c), end)
    PROVE  Covers(<< [day |-> c - (c % DayLen), dur |-> Cut(end, c) - c] >> \o q, c, end)
<1> DEFINE s == Cut(end, c)
           a == DayOf(c)
           first == [day |-> c - (c % DayLen), dur |-> s - c]
           all == << first >> \o q
<1>1. /\ s \in Nat /\ c < s /\ s <= end /\ a \in Nat
      /\ first = [day |-> DayStart(a), dur |-> s - c] /\ DayStart(a) \in Nat
  BY CutIs, DayAround
<1>2. \A d \in Int : Overlap(c, end, d) = IF d = a THEN s - c ELSE Overlap(s, end, d)
  BY OverlapParts
<1>3. Overlap(s, end, a) = 0
  <2>2. s >= DayStart(a + 1) \/ s = end
    <3>1. NextMidnight(c) = DayStart(a + 1) /\ DayStart(a + 1) \in Int
      BY <1>1, DayAround, Midnights
    <3> QED
      BY <3>1 DEF Cut
  <2>3. DayStart(a) \in Int /\ DayStart(a + 1) \in Int
    BY <1>1, Midnights
  <2> HIDE DEF s, a
  <2> QED
    BY <1>1, <2>2, <2>3 DEF Overlap
<1> HIDE DEF s, a
<1>4. /\ first \in Segment /\ << first >> \in Seq(Segment) /\ q \in Seq(Segment)
      /\ Len(q) \in Nat
  <2>1. first \in Segment
    BY <1>1 DEF Segment
  <2>2. q \in Seq(Segment)
    BY DEF Covers, s
  <2> HIDE DEF first
  <2> QED
    BY <2>1, <2>2, LenProperties
<1> HIDE DEF first
<1>5. /\ all \in Seq(Segment) /\ Len(all) = Len(q) + 1 /\ all[1] = first
      /\ \A i \in 1 .. Len(q) : all[i + 1] = q[i]
  <2>1. Len(<< first >>) = 1 /\ << first >>[1] = first
    OBVIOUS
  <2>2. /\ all \in Seq(Segment) /\ Len(all) = Len(q) + 1
        /\ \A i \in 1 .. 1 + Len(q) : all[i] = IF i <= 1 THEN << first >>[i] ELSE q[i - 1]
    BY <1>4, <2>1, ConcatProperties
  <2> HIDE DEF all
  <2>3. 1 \in 1 .. 1 + Len(q) /\ \A i \in 1 .. Len(q) : i + 1 \in 1 .. 1 + Len(q) /\ ~ i + 1 <= 1
                                                       /\ (i + 1) - 1 = i
    BY <1>4
  <2> QED
    BY <2>1, <2>2, <2>3
<1> HIDE DEF all
<1>6. \A i \in 1 .. Len(all) : i = 1 \/ (i - 1 \in 1 .. Len(q) /\ all[i] = q[i - 1])
  <2> TAKE i \in 1 .. Len(all)
  <2>1. i # 1 => i - 1 \in 1 .. Len(q) /\ (i - 1) + 1 = i
    BY <1>4, <1>5
  <2> QED
    BY <1>5, <2>1
<1>7. ASSUME NEW i \in 1 .. Len(q)
      PROVE  \E d \in Int : /\ d # a /\ q[i].day = DayStart(d) /\ q[i].dur > 0
                            /\ q[i].dur = Overlap(s, end, d) /\ q[i].dur = Overlap(c, end, d)
  <2>1. PICK d \in Int : q[i].day = DayStart(d) /\ q[i].dur = Overlap(s, end, d) /\ q[i].dur > 0
    BY DEF Covers, s
  <2>2. d # a
    BY <1>3, <2>1
  <2> QED
    BY <1>2, <2>1, <2>2
<1>8. first.day = DayStart(a) /\ first.dur = Overlap(c, end, a) /\ first.dur > 0
  BY <1>1, <1>2
<1>9. \A d \in Int : d # a => DayStart(d) # DayStart(a)
  <2> SUFFICES ASSUME NEW d \in Int, d # a PROVE DayStart(d) # DayStart(a)
    OBVIOUS
  <2>1. DayStart(d) \in Int /\ DayStart(a) \in Int
    BY <1>1, Midnights
  <2>2. d < a \/ a < d
    BY <1>1
  <2> QED
    BY <1>1, <2>1, <2>2, MidnightsInOrder
<1>10. \A i \in 1 .. Len(all) : \E d \in Int :
           all[i].day = DayStart(d) /\ all[i].dur = Overlap(c, end, d) /\ all[i].dur > 0
  <2> TAKE i \in 1 .. Len(all)
  <2>1. CASE i = 1
    BY <1>1, <1>5, <1>8, <2>1
  <2>2. CASE i # 1
    <3>1. i - 1 \in 1 .. Len(q) /\ all[i] = q[i - 1]
      BY <1>6, <2>2
    <3> QED
      BY <1>7, <3>1
  <2> QED
    BY <2>1, <2>2
<1>11. ASSUME NEW d \in Int, Overlap(c, end, d) > 0
       PROVE  \E i \in 1 .. Len(all) : all[i].day = DayStart(d)
  <2>1. CASE d = a
    <3>1. 1 \in 1 .. Len(all)
      BY <1>4, <1>5
    <3> QED
      BY <1>5, <1>8, <2>1, <3>1
  <2>2. CASE d # a
    <3>1. Overlap(s, end, d) > 0
      BY <1>2, <1>11, <2>2
    <3>2. PICK i \in 1 .. Len(q) : q[i].day = DayStart(d)
      BY <3>1 DEF Covers, s
    <3>3. i + 1 \in 1 .. Len(all) /\ all[i + 1] = q[i]
      BY <1>4, <1>5
    <3> QED
      BY <3>2, <3>3
  <2> QED
    BY <2>1, <2>2
<1>12. ASSUME NEW i \in 1 .. Len(all), NEW j \in 1 .. Len(all), all[i].day = all[j].day
       PROVE  i = j
  <2>1. \A k \in 1 .. Len(q) : q[k].day # first.day
    BY <1>7, <1>8, <1>9
  <2>2. CASE i = 1 \/ j = 1
    BY <1>5, <1>6, <1>12, <2>1, <2>2
  <2>3. CASE i # 1 /\ j # 1
    <3>1. /\ i - 1 \in 1 .. Len(q) /\ all[i] = q[i - 1]
          /\ j - 1 \in 1 .. Len(q) /\ all[j] = q[j - 1]
      BY <1>6, <2>3
    <3>2. i - 1 = j - 1
      BY <1>12, <3>1 DEF Covers, s
    <3> QED
      BY <3>2
  <2> QED
    BY <2>2, <2>3
<1> QED
  BY <1>5, <1>10, <1>11, <1>12 DEF Covers, all, first, s

\* split_by_utc_day yields the overlaps, for every length of the day.
LEMMA SplitCovers ==
    ASSUME NEW start \in Nat, NEW end \in Nat, start <= end
    PROVE  Covers(SplitByUtcDay(start, end), start, end)
<1>1. CASE start = end
  BY <1>1, CoversNothing DEF SplitByUtcDay
<1>2. CASE start # end
  <2> DEFINE C == CHOOSE g : Splits(g, start, end)
             P == {i \in Nat : \A c \in start .. end : end - c <= i => Covers(C[c], c, end)}
  <2>1. SplitByUtcDay(start, end) = C[start]
    <3>1. ~ end <= start
      BY <1>2
    <3> QED
      BY <3>1, Zenon DEF SplitByUtcDay, Splits, From, Cut
  <2>2. Splits(C, start, end)
    BY SplitExists, Zenon
  <2> HIDE DEF C
  <2>3. \A c \in start .. end : C[c] = From(C, end, c)
    BY <2>2 DEF Splits
  <2>4. 0 \in P
    <3>1. ASSUME NEW c \in start .. end, end - c <= 0 PROVE Covers(C[c], c, end)
      <4>1. c = end /\ c >= end
        BY <3>1
      <4>2. C[c] = << >>
        BY <2>3, <4>1 DEF From
      <4> QED
        BY <4>1, <4>2, CoversNothing
    <3> QED
      BY <3>1
  <2>5. ASSUME NEW i \in Nat, i \in P PROVE i + 1 \in P
    <3>1. ASSUME NEW c \in start .. end, end - c <= i + 1, c < end PROVE Covers(C[c], c, end)
      <4> DEFINE s == Cut(end, c)
      <4>1. c \in Nat
        OBVIOUS
      <4>2. s \in Nat /\ c < s /\ s <= end
        BY <3>1, <4>1, CutIs
      <4>3. s \in start .. end /\ end - s <= i
        <5> HIDE DEF s
        <5> QED
          BY <3>1, <4>2
      <4>4. Covers(C[s], s, end)
        <5> HIDE DEF s
        <5> QED
          BY <2>5, <4>3
      <4>5. C[c] = << [day |-> c - (c % DayLen), dur |-> s - c] >> \o C[s]
        <5>1. ~ c >= end
          BY <3>1
        <5> QED
          BY <2>3, <5>1 DEF From
      <4> QED
        BY <3>1, <4>1, <4>4, <4>5, CoversMore
    <3>2. ASSUME NEW c \in start .. end, ~ c < end PROVE Covers(C[c], c, end)
      <4>1. c \in start .. end /\ end - c <= 0
        BY <3>2
      <4> QED
        BY <2>4, <4>1
    <3> QED
      BY <3>1, <3>2
  <2>6. end - start \in Nat /\ end - start \in P
    <3>1. end - start \in Nat
      OBVIOUS
    <3> DEFINE n == end - start
    <3> HIDE DEF P, n
    <3>2. 0 .. n \subseteq P
      <4>1. n \in Nat
        BY <3>1 DEF n
      <4> QED
        BY <2>4, <2>5, <4>1, Induction
    <3> QED
      BY <3>1, <3>2 DEF n
  <2>7. start \in start .. end /\ end - start <= end - start
    OBVIOUS
  <2> QED
    BY <2>1, <2>6, <2>7
<1> QED
  BY <1>1, <1>2

\* SegmentsAreOverlaps: an interval of any length, ending at any time, is cut
\* into the milliseconds it has in common with each day.
THEOREM SplitIsOverlap == Spec => []SegmentsAreOverlaps
<1>1. Init => now \in Nat
  BY DEF Init
<1>2. now \in Nat /\ [Tick]_<< now, date >> => (now \in Nat)'
  BY DEF Tick
<1>3. now \in Nat => SegmentsAreOverlaps
  <2> SUFFICES ASSUME now \in Nat, NEW start \in now - MaxSpan .. now, start >= 0
               PROVE  LET segments == SplitByUtcDay(start, now)
                          of(d)    == {i \in DOMAIN segments : segments[i].day = DayStart(d)}
                      IN  /\ \A i \in DOMAIN segments : segments[i].day % DayLen = 0
                          /\ \A d \in DayOf(start) - 1 .. DayOf(now) + 1 :
                                 /\ Cardinality(of(d)) = IF Overlap(start, now, d) > 0 THEN 1 ELSE 0
                                 /\ \A i \in of(d) : segments[i].dur = Overlap(start, now, d)
    BY DEF SegmentsAreOverlaps
  <2> DEFINE q == SplitByUtcDay(start, now)
             of(d) == {i \in DOMAIN q : q[i].day = DayStart(d)}
  <2>1. start \in Nat /\ start <= now /\ DayOf(start) \in Nat /\ DayOf(now) \in Nat
    <3>1. start \in Nat /\ start <= now
      BY CalendarAssumption
    <3> QED
      BY <3>1, DayAround
  <2>2. Covers(q, start, now)
    BY <2>1, SplitCovers
  <2> HIDE DEF q
  <2>3. DOMAIN q = 1 .. Len(q)
    BY <2>2, LenProperties DEF Covers
  <2>4. \A i \in DOMAIN q : q[i].day % DayLen = 0
    <3> TAKE i \in DOMAIN q
    <3>1. PICK d \in Int : q[i].day = DayStart(d)
      BY <2>2, <2>3 DEF Covers
    <3> QED
      BY <3>1, Midnights
  <2>5. ASSUME NEW d \in Int PROVE \A i \in of(d) : q[i].dur = Overlap(start, now, d) /\ q[i].dur > 0
    <3> TAKE i \in of(d)
    <3>1. i \in 1 .. Len(q) /\ q[i].day = DayStart(d)
      BY <2>3
    <3>2. PICK e \in Int :
            q[i].day = DayStart(e) /\ q[i].dur = Overlap(start, now, e) /\ q[i].dur > 0
      BY <2>2, <3>1 DEF Covers
    <3>3. d = e
      <4>1. DayStart(d) \in Int /\ DayStart(d) = DayStart(e)
        BY <3>1, <3>2, Midnights
      <4> QED
        BY <4>1, MidnightsInOrder
    <3> QED
      BY <3>2, <3>3
  <2>6. ASSUME NEW d \in Int
        PROVE  Cardinality(of(d)) = IF Overlap(start, now, d) > 0 THEN 1 ELSE 0
    <3>1. CASE Overlap(start, now, d) > 0
      <4>1. PICK i \in 1 .. Len(q) : q[i].day = DayStart(d)
        BY <2>2, <3>1 DEF Covers
      <4>2. \A j \in 1 .. Len(q) : q[j].day = DayStart(d) => j = i
        BY <2>2, <4>1 DEF Covers
      <4>3. of(d) = {i}
        BY <2>3, <4>1, <4>2
      <4> HIDE DEF of
      <4> QED
        BY <3>1, <4>3, FS_Singleton
    <3>2. CASE ~ Overlap(start, now, d) > 0
      <4>1. of(d) = {}
        BY <2>5, <3>2
      <4> HIDE DEF of
      <4> QED
        BY <3>2, <4>1, FS_EmptySet
    <3> QED
      BY <3>1, <3>2
  <2>7. DayOf(start) - 1 .. DayOf(now) + 1 \subseteq Int
    BY <2>1
  <2> QED
    BY <2>4, <2>5, <2>6, <2>7 DEF q
<1> QED
  BY <1>1, <1>2, <1>3, PTL DEF Spec

\* The screens read the clock and leave it alone: whatever they and the daemon
\* do in between, both hold next to them.
THEOREM CalendarOfScreens ==
    SpecScreens => Spec /\ [](WrittenDayIsReadDay /\ SegmentsAreOverlaps)
<1>1. InitScreens => Init
  BY DEF InitScreens
<1>2. [NextScreens]_<< now, date, log, refresh >> => [Tick]_<< now, date >>
  BY DEF NextScreens, Pass, Record, ReadSeed, ReadEvents, Rebuild
<1> QED
  BY <1>1, <1>2, DatesAgree, SplitIsOverlap, PTL DEF SpecScreens, Spec
=============================================================================
