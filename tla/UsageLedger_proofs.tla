------------------------- MODULE UsageLedger_proofs -------------------------
(***************************************************************************)
(* Theorems about the usage ledger, for every set of users, windows and    *)
(* rows, every capacity and every bound: its types; that the daily totals, *)
(* open and closed, agree with the events table and never exceed the time  *)
(* that has passed, under any interleaving of events, flushes, failures,   *)
(* crashes and restarts, provided a Resume is later than the event before  *)
(* it (~ ResumeTies); that an orderly shutdown leaves no interval open;    *)
(* and that the ledger as a whole implements the usage meter.              *)
(***************************************************************************)
EXTENDS UsageLedgerInvariant, UsageLedgerRefinement, Induction_proofs, SequenceTheorems, TLAPS

-----------------------------------------------------------------------------
(* Days *)

\* Midnights are natural numbers, a day apart.
LEMMA DayStartType ==
    ASSUME NEW d \in Nat
    PROVE  /\ DayStart(d) \in Nat
           /\ DayStart(d + 1) \in Nat
           /\ DayStart(d) < DayStart(d + 1)
<1>1. DayLen \in Nat /\ DayLen > 0
  BY DayLenAssumption
<1>2. d * DayLen \in Nat /\ (d + 1) * DayLen \in Nat
  BY <1>1
<1>3. (d + 1) * DayLen = d * DayLen + DayLen
  BY <1>1
<1> QED
  BY <1>1, <1>2, <1>3 DEF DayStart

LEMMA DaysAreNaturals == Days \subseteq Nat
<1>1. DayOf(MaxTime) \in Int
  BY DayLenAssumption, LedgerAssumption DEF DayOf
<1> QED
  BY <1>1 DEF Days

LEMMA TimesAreNaturals == Time \subseteq Nat
BY LedgerAssumption DEF Time

\* The overlap of an interval with a day is a length, and grows with its end.
LEMMA OverlapType ==
    ASSUME NEW a \in Nat, NEW b \in Nat, NEW d \in Nat
    PROVE  Overlap(a, b, d) \in Nat
<1>1. DayStart(d) \in Nat /\ DayStart(d + 1) \in Nat
  BY DayStartType
<1> QED
  BY <1>1 DEF Overlap

LEMMA OverlapMonotone ==
    ASSUME NEW a \in Nat, NEW b \in Nat, NEW c \in Nat, NEW d \in Nat, b <= c
    PROVE  Overlap(a, b, d) <= Overlap(a, c, d)
<1>1. DayStart(d) \in Nat /\ DayStart(d + 1) \in Nat
  BY DayStartType
<1> QED
  BY <1>1 DEF Overlap

\* Two adjacent intervals contribute to a day what their union does.
LEMMA OverlapAdjacent ==
    ASSUME NEW a \in Nat, NEW b \in Nat, NEW c \in Nat, NEW d \in Nat,
           a <= b, b <= c
    PROVE  Overlap(a, b, d) + Overlap(b, c, d) = Overlap(a, c, d)
<1>1. DayStart(d) \in Nat /\ DayStart(d + 1) \in Nat
      /\ DayStart(d) < DayStart(d + 1)
  BY DayStartType
<1> QED
  BY <1>1 DEF Overlap

LEMMA ShareType ==
    ASSUME NEW f \in OpenFocus \cup {NoFocus}, NEW t \in Nat,
           NEW k \in Keys, NEW d \in Days
    PROVE  Share(f, t, k, d) \in Nat
<1>1. CASE f = NoFocus
  BY <1>1 DEF Share
<1>2. CASE f # NoFocus
  <2>1. f.ts \in Nat
    BY <1>2, LedgerAssumption DEF OpenFocus, Time
  <2>2. Overlap(f.ts, t, d) \in Nat
    BY <2>1, OverlapType, DaysAreNaturals
  <2> QED
    BY <2>2 DEF Share
<1> QED
  BY <1>1, <1>2
-----------------------------------------------------------------------------
(* Type correctness *)

LEMMA NothingType == Nothing \in Tally /\ Unfocused \in [Users -> OpenFocus \cup {NoFocus}]
BY DEF Nothing, Tally, Unfocused

LEMMA StampedType ==
    ASSUME clock \in Time, NEW u \in Users, NEW type \in EventType,
           NEW w \in Windows \cup {NoWindow}
    PROVE  Stamped(u, type, w) \in TimedEvent
BY DEF Stamped, TimedEvent

LEMMA PushType ==
    ASSUME buffer \in Seq(TimedEvent), Len(buffer) <= MaxCapacity,
           NEW e \in TimedEvent
    PROVE  Push(e) \in Seq(TimedEvent) /\ Len(Push(e)) <= MaxCapacity
BY LedgerAssumption DEF Push

LEMMA SeedType ==
    ASSUME TypeOK, NEW u \in Users
    PROVE  Seed(u) \in OpenFocus \cup {NoFocus}
<1> DEFINE P(i) == LastEvent(u, i) /\ events[i].type = "Focus"
<1>1. CASE \E i \in DOMAIN events : P(i)
  <2>1. PICK i \in DOMAIN events : i = CHOOSE j \in DOMAIN events : P(j)
    BY <1>1
  <2>2. events[i] \in TimedEvent
    BY <2>1 DEF TypeOK
  <2>3. Seed(u) = AsFocus(events[i])
    BY <1>1, <2>1 DEF Seed
  <2> QED
    BY <2>2, <2>3 DEF AsFocus, OpenFocus, TimedEvent
<1>2. CASE ~ \E i \in DOMAIN events : P(i)
  BY <1>2 DEF Seed
<1> QED
  BY <1>1, <1>2

LEMMA BeginFlushType ==
    ASSUME TypeOK, NEW drained \in Seq(TimedEvent), BeginFlush(drained),
           UNCHANGED << clock, registered, toClose, database >>,
           proc' \in {"running", "closing", "stopping", "stopped", "crashed"}
    PROVE  TypeOK'
<1>1. focus' \in [Users -> OpenFocus \cup {NoFocus}]
  BY SeedType DEF BeginFlush
<1>2. delta' \in Tally
  BY NothingType DEF BeginFlush
<1>3. buffer' = << >> /\ todo' = drained /\ done' = << >> /\ flushNow' = clock
      /\ job' = "flushing"
  BY DEF BeginFlush
<1> QED
  BY <1>1, <1>2, <1>3, LedgerAssumption DEF TypeOK, database

LEMMA EndFlushType ==
    ASSUME TypeOK, EndFlush
    PROVE  /\ job' \in {"idle", "closing", "flushing"}
           /\ proc' \in {"running", "closing", "stopping", "stopped", "crashed"}
           /\ todo' \in Seq(TimedEvent) /\ done' \in Seq(TimedEvent)
           /\ flushNow' \in Time
           /\ focus' \in [Users -> OpenFocus \cup {NoFocus}]
           /\ delta' \in Tally
BY NothingType, LedgerAssumption DEF EndFlush, TypeOK, Time

LEMMA DieType ==
    ASSUME TypeOK, NEW how \in {"stopped", "crashed"}, Die(how)
    PROVE  TypeOK'
BY NothingType, LedgerAssumption DEF Die, TypeOK, Time, database

LEMMA CloseIntervalType ==
    ASSUME TypeOK, NEW u \in Users, NEW t \in Time, CloseInterval(u, focus[u], t)
    PROVE  delta' \in Tally
<1>1. \A k \in Keys, d \in Days : Share(focus[u], t, k, d) \in Nat
  BY ShareType, TimesAreNaturals DEF TypeOK
<1>2. \A k \in Keys, d \in Days :
        delta[u][k][d] + Share(focus[u], t, k, d) \in Nat
  BY <1>1 DEF TypeOK, Tally
<1> DEFINE row == [k \in Keys |-> [d \in Days |->
                      delta[u][k][d] + Share(focus[u], t, k, d)]]
<1>3. row \in [Keys -> [Days -> Nat]]
  BY <1>2
<1>4. delta' = [delta EXCEPT ![u] = row]
  BY DEF CloseInterval
<1> HIDE DEF row
<1> QED
  BY <1>3, <1>4 DEF TypeOK, Tally

LEMMA TypeOKInit == Init => TypeOK
BY NothingType, LedgerAssumption DEF Init, TypeOK, Time

LEMMA TypeOKStep == TypeOK /\ [Next]_vars => TypeOK'
<1> SUFFICES ASSUME TypeOK, [Next]_vars PROVE TypeOK'
  OBVIOUS
<1>1. ASSUME NEW u \in Users, NEW type \in Arrivals,
             NEW w \in Windows \cup {NoWindow}, HandleEvent(u, type, w)
      PROVE  TypeOK'
  <2> DEFINE pushed == Push(Stamped(u, type, w))
  <2>1. pushed \in Seq(TimedEvent) /\ Len(pushed) <= MaxCapacity
    BY StampedType, PushType, LedgerAssumption DEF TypeOK
  <2>2. UNCHANGED << clock, proc, registered, toClose, database >>
    BY <1>1 DEF HandleEvent
  <2> HIDE DEF pushed
  <2>3. CASE BeginFlush(pushed)
    BY <2>1, <2>2, <2>3, BeginFlushType DEF TypeOK
  <2>4. CASE LookupFails(pushed)
    BY <2>1, <2>2, <2>4 DEF LookupFails, TypeOK, flush, database
  <2>5. CASE buffer' = pushed /\ UNCHANGED << job, flush >>
    BY <2>1, <2>2, <2>5 DEF TypeOK, flush, database
  <2> QED
    BY <1>1, <2>3, <2>4, <2>5 DEF HandleEvent, pushed
<1>2. CASE FlushTick
  BY <1>2, BeginFlushType DEF FlushTick, TypeOK
<1>3. CASE WalkEvent
  <2> DEFINE e == Head(todo)
  <2>1. e \in TimedEvent /\ Tail(todo) \in Seq(TimedEvent)
    BY <1>3 DEF WalkEvent, TypeOK
  <2>2. e.uid \in Users /\ e.ts \in Time /\ AsFocus(e) \in OpenFocus
    BY <2>1 DEF TimedEvent, AsFocus, OpenFocus
  <2>3. done' \in Seq(TimedEvent) /\ todo' \in Seq(TimedEvent)
    BY <1>3, <2>1 DEF WalkEvent, TypeOK
  <2>4. /\ focus' \in [Users -> OpenFocus \cup {NoFocus}]
        /\ delta' \in Tally
    <3>1. CASE CloseInterval(e.uid, focus[e.uid], e.ts)
               /\ \E f \in {AsFocus(e), NoFocus} :
                      focus' = [focus EXCEPT ![e.uid] = f]
      BY <3>1, <2>2, CloseIntervalType DEF TypeOK
    <3>2. CASE UNCHANGED << focus, delta >>
      BY <3>2 DEF TypeOK
    <3> HIDE DEF e
    <3> QED
      BY <1>3, <3>1, <3>2 DEF WalkEvent, e
  <2> QED
    BY <1>3, <2>3, <2>4 DEF WalkEvent, TypeOK, memory, database
<1>4. CASE CommitFlush
  <2>1. \A u \in Users, k \in Keys, d \in Days :
          Share(focus[u], flushNow, k, d) \in Nat
    BY ShareType, TimesAreNaturals DEF TypeOK
  <2>2. \A u \in Users, k \in Keys, d \in Days : OpenAfter(u, k, d) \in Nat
    BY <2>1 DEF OpenAfter, TypeOK, Tally
  <2>3. open' \in Tally
    BY <1>4, <2>2 DEF CommitFlush, Tally
  <2>4. \A u \in Users, k \in Keys, d \in Days :
          closed[u][k][d] + delta[u][k][d] \in Nat
    BY DEF TypeOK, Tally
  <2>5. closed' \in Tally
    BY <1>4, <2>4 DEF CommitFlush, Tally
  <2>6. events' \in Seq(TimedEvent) /\ measuredAt' \in Time
    BY <1>4 DEF CommitFlush, TypeOK
  <2> QED
    BY <1>4, <2>3, <2>5, <2>6, EndFlushType DEF CommitFlush, TypeOK, memory
<1>5. CASE FailFlush
  BY <1>5, EndFlushType DEF FailFlush, TypeOK, memory, database
<1>6. CASE Shutdown
  <2>1. OpenUids \subseteq Users
    BY DEF OpenUids
  <2>2. BufferUids \subseteq Users
    <3>1. \A i \in DOMAIN buffer : buffer[i] \in TimedEvent
      BY DEF TypeOK
    <3> QED
      BY <3>1 DEF BufferUids, TimedEvent
  <2> QED
    BY <1>6, <2>1, <2>2 DEF Shutdown, TypeOK, flush, database
<1>7. ASSUME NEW u \in Users, ShutdownPush(u) PROVE TypeOK'
  <2>1. Stamped(u, "ShutDown", NoWindow) \in TimedEvent
    BY StampedType DEF TypeOK, EventType
  <2> QED
    BY <1>7, <2>1, PushType DEF ShutdownPush, TypeOK, flush, database
<1>8. CASE ShutdownFlush
  <2>1. CASE BeginFlush(buffer) /\ UNCHANGED proc
    BY <1>8, <2>1, BeginFlushType DEF ShutdownFlush, TypeOK
  <2>2. CASE LookupFails(buffer) /\ proc' = "stopping"
    BY <1>8, <2>2 DEF ShutdownFlush, LookupFails, TypeOK, flush, database
  <2> QED
    BY <1>8, <2>1, <2>2 DEF ShutdownFlush
<1>9. ASSUME NEW u \in Users, Register(u) \/ Unregister(u) PROVE TypeOK'
  BY <1>9 DEF Register, Unregister, TypeOK, flush, database
<1>10. CASE Crash
  BY <1>10, DieType DEF Crash
<1>11. CASE Exit
  BY <1>11, DieType DEF Exit
<1>12. CASE Start
  BY <1>12 DEF Start, TypeOK, memory, flush, database
<1>13. CASE Tick
  BY <1>13, LedgerAssumption DEF Tick, TypeOK, Time, memory, flush, database
<1>14. CASE UNCHANGED vars
  BY <1>14 DEF vars, TypeOK, memory, flush, database
<1> QED
  BY <1>1, <1>2, <1>3, <1>4, <1>5, <1>6, <1>7, <1>8, <1>9, <1>10, <1>11,
     <1>12, <1>13, <1>14 DEF Next

\* Every reachable state is well typed: totals are natural numbers and the
\* buffer stays within its capacity.
THEOREM LedgerTypeOK == Spec => []TypeOK
BY TypeOKInit, TypeOKStep, PTL DEF Spec

-----------------------------------------------------------------------------
(* What a log says is focused *)

LEMMA FocusIsSomething == ASSUME NEW e \in TimedEvent PROVE AsFocus(e) # NoFocus
<1>1. e.win \in Windows \cup {NoWindow} /\ e.ts \in Nat
  BY TimesAreNaturals DEF TimedEvent
<1>2. AsFocus(e) \in [win : Windows \cup {NoWindow}, ts : Nat]
  BY <1>1 DEF AsFocus
<1> QED
  BY <1>2, LedgerAssumption

LEMMA FocusedWhen ==
    ASSUME NEW log \in Seq(TimedEvent), NEW u, NEW i, IsLastMeasured(log, u, i)
    PROVE  Focused(log, u) = IF log[i].type = "Focus" THEN AsFocus(log[i])
                                                      ELSE NoFocus
<1>1. \A j : IsLastMeasured(log, u, j) => j = i
  <2> SUFFICES ASSUME NEW j, IsLastMeasured(log, u, j) PROVE j = i
    OBVIOUS
  <2>1. i \in Nat /\ j \in Nat /\ i <= j /\ j <= i
    BY LenProperties DEF IsLastMeasured
  <2> QED
    BY <2>1
<1>2. i \in DOMAIN log
  BY DEF IsLastMeasured
<1> DEFINE P(j) == IsLastMeasured(log, u, j) /\ log[j].type = "Focus"
<1>3. CASE log[i].type = "Focus"
  <2>1. P(i)
    BY <1>3
  <2>2. \A j \in DOMAIN log : P(j) => j = i
    BY <1>1
  <2>3. (CHOOSE j \in DOMAIN log : P(j)) = i
    BY <1>2, <2>1, <2>2
  <2> QED
    BY <1>2, <1>3, <2>1, <2>3 DEF Focused
<1>4. CASE log[i].type # "Focus"
  BY <1>1, <1>4 DEF Focused
<1> QED
  BY <1>3, <1>4

LEMMA FocusedWithout ==
    ASSUME NEW log, NEW u,
           \A i \in DOMAIN log : ~ (IsLastMeasured(log, u, i) /\ log[i].type = "Focus")
    PROVE  Focused(log, u) = NoFocus
BY DEF Focused

\* A user whose log says nothing, or whose focus is found at some row.
LEMMA FocusedCases ==
    ASSUME NEW log \in Seq(TimedEvent), NEW u
    PROVE  \/ Focused(log, u) = NoFocus
           \/ \E i \in DOMAIN log : /\ IsLastMeasured(log, u, i)
                                    /\ log[i].type = "Focus"
                                    /\ Focused(log, u) = AsFocus(log[i])
BY FocusedWhen, FocusedWithout

LEMMA FocusedType ==
    ASSUME NEW log \in Seq(TimedEvent), NEW u
    PROVE  Focused(log, u) \in OpenFocus \cup {NoFocus}
<1>1. \A i \in DOMAIN log : AsFocus(log[i]) \in OpenFocus
  <2> TAKE i \in DOMAIN log
  <2>1. log[i] \in TimedEvent
    BY LenProperties, ElementOfSeq
  <2> QED
    BY <2>1 DEF AsFocus, TimedEvent, OpenFocus
<1> QED
  BY <1>1, FocusedCases

LEMMA FocusedNotAfter ==
    ASSUME NEW log \in Seq(TimedEvent), NEW u, NEW t, NotAfter(log, t),
           Focused(log, u) # NoFocus
    PROVE  Focused(log, u).ts <= t
BY FocusedCases DEF NotAfter, AsFocus

\* A measured event decides what its user has focused, and nothing else does.
LEMMA FocusedAppend ==
    ASSUME NEW log \in Seq(TimedEvent), NEW e \in TimedEvent, NEW u
    PROVE  Focused(Append(log, e), u) =
               IF e.uid = u /\ e.type \notin Ignored
               THEN IF e.type = "Focus" THEN AsFocus(e) ELSE NoFocus
               ELSE Focused(log, u)
<1> DEFINE longer == Append(log, e)
           n      == Len(log) + 1
<1>1. /\ longer \in Seq(TimedEvent) /\ DOMAIN longer = 1 .. n
      /\ DOMAIN log = 1 .. Len(log) /\ Len(log) \in Nat
      /\ longer[n] = e /\ \A i \in 1 .. Len(log) : longer[i] = log[i]
  BY AppendProperties, LenProperties
<1> HIDE DEF longer
<1>2. CASE e.uid = u /\ e.type \notin Ignored
  <2>1. IsLastMeasured(longer, u, n)
    BY <1>1, <1>2 DEF IsLastMeasured
  <2>2. Focused(longer, u) = IF longer[n].type = "Focus"
                             THEN AsFocus(longer[n]) ELSE NoFocus
    BY <1>1, <2>1, FocusedWhen
  <2>3. Focused(longer, u) = IF e.type = "Focus" THEN AsFocus(e) ELSE NoFocus
    BY <1>1, <2>2
  <2> QED
    BY <1>2, <2>3 DEF longer
<1>3. CASE ~ (e.uid = u /\ e.type \notin Ignored)
  <2>1. \A i \in 1 .. Len(log) :
          IsLastMeasured(longer, u, i) <=> IsLastMeasured(log, u, i)
    BY <1>1, <1>3 DEF IsLastMeasured
  <2>2. ~ IsLastMeasured(longer, u, n)
    BY <1>1, <1>3 DEF IsLastMeasured
  <2>3. CASE \E i \in DOMAIN log : IsLastMeasured(log, u, i) /\ log[i].type = "Focus"
    <3>1. PICK i \in 1 .. Len(log) : IsLastMeasured(log, u, i) /\ log[i].type = "Focus"
      BY <1>1, <2>3
    <3>2. Focused(log, u) = AsFocus(log[i])
      BY <3>1, FocusedWhen
    <3>3. IsLastMeasured(longer, u, i) /\ longer[i] = log[i]
      BY <1>1, <2>1, <3>1
    <3>4. Focused(longer, u) = AsFocus(log[i])
      BY <1>1, <3>1, <3>3, FocusedWhen
    <3> QED
      BY <1>3, <3>2, <3>4 DEF longer
  <2>4. CASE ~ \E i \in DOMAIN log : IsLastMeasured(log, u, i) /\ log[i].type = "Focus"
    <3>1. Focused(log, u) = NoFocus
      BY <2>4, FocusedWithout
    <3>2. Focused(longer, u) = NoFocus
      BY <1>1, <2>1, <2>2, <2>4, FocusedWithout
    <3> QED
      BY <1>3, <3>1, <3>2 DEF longer
  <2> QED
    BY <2>3, <2>4
<1> QED
  BY <1>2, <1>3

-----------------------------------------------------------------------------
(* The queries find it *)

\* With the rows in order, the row the SQL query reads is the last measured one.
LEMMA SeedIsFocused ==
    ASSUME events \in Seq(TimedEvent), Ordered(events), NEW u \in Users
    PROVE  Seed(u) = Focused(events, u)
<1>1. DOMAIN events = 1 .. Len(events) /\ Len(events) \in Nat
      /\ \A i \in DOMAIN events : events[i] \in TimedEvent
  BY LenProperties, ElementOfSeq
<1>2. \A i \in DOMAIN events : events[i].ts \in Nat
                               /\ events[i].type \in EventType
  BY <1>1, TimesAreNaturals DEF TimedEvent
<1>3. ASSUME NEW i \in DOMAIN events, LastEvent(u, i), events[i].type = "Focus"
      PROVE  IsLastMeasured(events, u, i)
  <2>1. i \in RowsOf(u) /\ i \in MeasuredOf(u)
    BY <1>3 DEF LastEvent, MeasuredOf, Ignored
  <2>2. PICK m \in MeasuredOf(u) :
               /\ events[m].ts = events[i].ts
               /\ \A n \in MeasuredOf(u) : events[n].ts <= events[m].ts
    BY <1>3 DEF LastEvent
  <2>3. ASSUME NEW n \in MeasuredOf(u), ~ n <= i PROVE FALSE
    <3>1. n \in RowsOf(u) /\ n \in DOMAIN events /\ i < n
      BY <1>1, <2>3 DEF MeasuredOf, RowsOf
    <3>2. events[i].ts <= events[n].ts
      BY <3>1 DEF Ordered
    <3>3. events[n].ts = events[i].ts
      BY <1>2, <2>2, <3>1, <3>2
    <3> QED
      BY <1>3, <2>3, <3>1, <3>3 DEF LastEvent
  <2> QED
    BY <2>1, <2>3 DEF IsLastMeasured, MeasuredOf, RowsOf
<1>4. ASSUME NEW i \in DOMAIN events, IsLastMeasured(events, u, i),
             events[i].type = "Focus"
      PROVE  LastEvent(u, i)
  <2>1. i \in RowsOf(u) /\ i \in MeasuredOf(u)
    BY <1>4 DEF IsLastMeasured, RowsOf, MeasuredOf
  <2>2. \A n \in MeasuredOf(u) : events[n].ts <= events[i].ts
    <3> TAKE n \in MeasuredOf(u)
    <3>1. n \in DOMAIN events /\ n <= i
      BY <1>4 DEF IsLastMeasured, RowsOf, MeasuredOf
    <3> QED
      BY <1>1, <1>2, <3>1 DEF Ordered
  <2>3. ASSUME NEW j \in RowsOf(u), events[j].ts = events[i].ts, ~ j <= i
        PROVE  FALSE
    <3>1. j \in DOMAIN events /\ i < j /\ events[j].uid = events[i].uid
      BY <1>1, <2>1, <2>3 DEF RowsOf
    <3>2. events[j].type \in Ignored
      BY <1>4, <2>3, <3>1 DEF IsLastMeasured, RowsOf
    <3>3. events[i].ts < events[j].ts
      BY <3>1, <3>2 DEF Ordered, Ignored
    <3> QED
      BY <1>2, <2>3, <3>1, <3>3
  <2> QED
    BY <2>1, <2>2, <2>3 DEF LastEvent
<1> DEFINE P(i) == LastEvent(u, i) /\ events[i].type = "Focus"
<1>5. CASE \E i \in DOMAIN events : P(i)
  <2>1. PICK i \in DOMAIN events : i = CHOOSE j \in DOMAIN events : P(j)
    BY <1>5
  <2>2. P(i) /\ Seed(u) = AsFocus(events[i])
    BY <1>5, <2>1 DEF Seed
  <2>3. IsLastMeasured(events, u, i)
    BY <1>3, <2>2
  <2> QED
    BY <2>2, <2>3, FocusedWhen
<1>6. CASE ~ \E i \in DOMAIN events : P(i)
  <2>1. Seed(u) = NoFocus
    BY <1>6 DEF Seed
  <2>2. Focused(events, u) = NoFocus
    BY <1>4, <1>6, FocusedWithout
  <2> QED
    BY <2>1, <2>2
<1> QED
  BY <1>5, <1>6

\* A user the flush leaves out has nothing open.
LEMMA OpenUidsAreFocused ==
    ASSUME events \in Seq(TimedEvent), InTime(events), NEW u \in Users,
           Focused(events, u) # NoFocus
    PROVE  u \in OpenUids
<1>1. PICK i \in DOMAIN events : /\ IsLastMeasured(events, u, i)
                                 /\ events[i].type = "Focus"
  BY FocusedCases
<1>2. DOMAIN events = 1 .. Len(events) /\ Len(events) \in Nat
      /\ \A j \in DOMAIN events : events[j] \in TimedEvent
  BY LenProperties, ElementOfSeq
<1>3. \A j \in DOMAIN events : events[j].ts \in Nat
  BY <1>2, TimesAreNaturals DEF TimedEvent
<1>4. i \in MeasuredOf(u)
  BY <1>1 DEF IsLastMeasured, MeasuredOf, RowsOf
<1>5. \A j \in MeasuredOf(u) :
        events[j].ts < events[i].ts \/ (events[j].ts = events[i].ts /\ j <= i)
  <2> TAKE j \in MeasuredOf(u)
  <2>1. j \in DOMAIN events /\ j <= i
    BY <1>1 DEF IsLastMeasured, RowsOf, MeasuredOf
  <2>2. j < i => events[j].ts <= events[i].ts
    BY <2>1 DEF InTime
  <2> QED
    BY <1>2, <1>3, <2>1, <2>2
<1> QED
  BY <1>1, <1>4, <1>5 DEF OpenUids
-----------------------------------------------------------------------------
(* Logs *)

LEMMA LogType ==
    ASSUME TypeOK
    PROVE  /\ Pending \in Seq(TimedEvent) /\ Log \in Seq(TimedEvent)
           /\ events \o done \in Seq(TimedEvent)
BY ConcatProperties DEF TypeOK, Pending, Log

\* Order is inherited by prefixes.
LEMMA OrderedPrefix ==
    ASSUME NEW s \in Seq(TimedEvent), NEW t \in Seq(TimedEvent), Ordered(s \o t)
    PROVE  Ordered(s) /\ Ordered(t)
<1>1. /\ DOMAIN s = 1 .. Len(s) /\ DOMAIN t = 1 .. Len(t)
      /\ DOMAIN (s \o t) = 1 .. Len(s) + Len(t)
      /\ Len(s) \in Nat /\ Len(t) \in Nat
  BY LenProperties, ConcatProperties
<1>2. \A i \in 1 .. Len(s) : i \in DOMAIN (s \o t) /\ (s \o t)[i] = s[i]
  BY <1>1, ConcatProperties
<1>3. \A i \in 1 .. Len(t) : /\ i + Len(s) \in DOMAIN (s \o t)
                             /\ (s \o t)[i + Len(s)] = t[i]
  BY <1>1, ConcatProperties
<1>4. Ordered(s)
  BY <1>1, <1>2 DEF Ordered
<1>5. Ordered(t)
  <2> SUFFICES ASSUME NEW i \in 1 .. Len(t), NEW j \in 1 .. Len(t), i < j
               PROVE  /\ t[i].ts <= t[j].ts
                      /\ t[j].type = "Resume" /\ t[i].uid = t[j].uid
                         => t[i].ts < t[j].ts
    BY <1>1 DEF Ordered
  <2>1. i + Len(s) < j + Len(s)
    BY <1>1
  <2> QED
    BY <1>3, <2>1 DEF Ordered
<1> QED
  BY <1>4, <1>5

LEMMA OrderedAppend ==
    ASSUME NEW s \in Seq(TimedEvent), NEW e \in TimedEvent, Ordered(s),
           NotAfter(s, e.ts),
           e.type = "Resume" => \A i \in DOMAIN s : s[i].uid = e.uid => s[i].ts < e.ts
    PROVE  Ordered(Append(s, e))
<1>1. /\ DOMAIN s = 1 .. Len(s) /\ Len(s) \in Nat
      /\ DOMAIN Append(s, e) = 1 .. Len(s) + 1
      /\ Append(s, e)[Len(s) + 1] = e
      /\ \A i \in 1 .. Len(s) : Append(s, e)[i] = s[i]
  BY AppendProperties, LenProperties
<1> QED
  BY <1>1 DEF Ordered, NotAfter

LEMMA NotAfterConcat ==
    ASSUME NEW s \in Seq(TimedEvent), NEW t \in Seq(TimedEvent), NEW x
    PROVE  NotAfter(s \o t, x) <=> NotAfter(s, x) /\ NotAfter(t, x)
<1>1. /\ DOMAIN s = 1 .. Len(s) /\ DOMAIN t = 1 .. Len(t)
      /\ DOMAIN (s \o t) = 1 .. Len(s) + Len(t)
      /\ Len(s) \in Nat /\ Len(t) \in Nat
      /\ \A i \in 1 .. Len(s) + Len(t) :
            (s \o t)[i] = IF i <= Len(s) THEN s[i] ELSE t[i - Len(s)]
  BY LenProperties, ConcatProperties
<1>2. ASSUME NotAfter(s \o t, x) PROVE NotAfter(s, x) /\ NotAfter(t, x)
  <2>1. \A i \in 1 .. Len(t) : /\ i + Len(s) \in 1 .. Len(s) + Len(t)
                               /\ (s \o t)[i + Len(s)] = t[i]
    BY <1>1
  <2>2. \A i \in 1 .. Len(s) : /\ i \in 1 .. Len(s) + Len(t)
                               /\ (s \o t)[i] = s[i]
    BY <1>1
  <2>3. NotAfter(s, x)
    BY <1>1, <1>2, <2>2 DEF NotAfter
  <2>4. NotAfter(t, x)
    BY <1>1, <1>2, <2>1 DEF NotAfter
  <2> QED
    BY <2>3, <2>4
<1>3. ASSUME NotAfter(s, x), NotAfter(t, x) PROVE NotAfter(s \o t, x)
  <2>1. \A i \in 1 .. Len(s) + Len(t) : ~ i <= Len(s) => i - Len(s) \in 1 .. Len(t)
    BY <1>1
  <2> QED
    BY <1>1, <1>3, <2>1 DEF NotAfter
<1> QED
  BY <1>2, <1>3

LEMMA WalkedLog ==
    ASSUME NEW s \in Seq(TimedEvent), NEW d \in Seq(TimedEvent),
           NEW t \in Seq(TimedEvent), t # << >>
    PROVE  /\ s \o Append(d, Head(t)) = Append(s \o d, Head(t))
           /\ (s \o Append(d, Head(t))) \o Tail(t) = (s \o d) \o t
<1>1. Head(t) \in TimedEvent /\ Tail(t) \in Seq(TimedEvent)
      /\ << Head(t) >> \in Seq(TimedEvent)
      /\ Append(d, Head(t)) = d \o << Head(t) >>
      /\ Append(s \o d, Head(t)) = (s \o d) \o << Head(t) >>
  BY HeadTailProperties, AppendIsConcat, ConcatProperties
<1>2. s \o (d \o << Head(t) >>) = (s \o d) \o << Head(t) >>
  BY <1>1, ConcatAssociative
<1>3. << Head(t) >> \o Tail(t) = t
  BY HeadTailProperties
<1>4. ((s \o d) \o << Head(t) >>) \o Tail(t) = (s \o d) \o (<< Head(t) >> \o Tail(t))
  <2>1. s \o d \in Seq(TimedEvent)
    BY ConcatProperties
  <2> QED
    BY <1>1, <2>1, ConcatAssociative, SMTT(40)
<1>5. s \o Append(d, Head(t)) = (s \o d) \o << Head(t) >>
  BY <1>1, <1>2
<1>6. s \o Append(d, Head(t)) = Append(s \o d, Head(t))
  BY <1>1, <1>5
<1>7. (s \o Append(d, Head(t))) \o Tail(t) = (s \o d) \o t
  BY <1>3, <1>4, <1>5
<1> QED
  BY <1>6, <1>7

-----------------------------------------------------------------------------
(* Steps outside a flush *)

\* The tables and the flush are left alone while time passes.
LEMMA QuietStep ==
    ASSUME LedgerInv, TypeOK', clock <= clock',
           UNCHANGED << buffer, flush, database >>,
           job' = job \/ (job # "flushing" /\ job' # "flushing")
    PROVE  LedgerInv'
<1>1. /\ buffer' = buffer /\ todo' = todo /\ done' = done
      /\ flushNow' = flushNow /\ focus' = focus /\ delta' = delta
      /\ events' = events /\ closed' = closed /\ open' = open
      /\ measuredAt' = measuredAt
      /\ (job' = "flushing") = (job = "flushing")
  BY DEF flush, database
<1>2. Pending' = Pending /\ Log' = Log
  BY <1>1 DEF Pending, Log
<1>3. \A t \in Nat : t <= clock => t <= clock'
  BY TimesAreNaturals DEF LedgerInv, TypeOK
<1>4. LogInv'
  <2>1. NotAfter(Log, clock')
    <3>1. \A i \in DOMAIN Log : Log[i].ts \in Nat
      <4> TAKE i \in DOMAIN Log
      <4>1. Log[i] \in TimedEvent
        BY LogType, LenProperties, ElementOfSeq DEF LedgerInv
      <4> QED
        BY <4>1, TimesAreNaturals DEF TimedEvent
    <3> QED
      BY <1>3, <3>1 DEF LedgerInv, LogInv, NotAfter
  <2>2. measuredAt \in Nat /\ flushNow \in Nat
    BY TimesAreNaturals DEF LedgerInv, TypeOK
  <2>3. Ordered(Log') /\ NotAfter(events', measuredAt')
        /\ NotBefore(Pending', measuredAt')
    BY <1>1, <1>2 DEF LedgerInv, LogInv
  <2>4. measuredAt' <= clock'
    BY <1>1, <1>3, <2>2 DEF LedgerInv, LogInv
  <2>5. job' = "flushing" =>
          /\ buffer' = << >>
          /\ measuredAt' <= flushNow' /\ flushNow' <= clock'
          /\ NotAfter(done', flushNow') /\ NotAfter(todo', flushNow')
    BY <1>1, <1>3, <2>2 DEF LedgerInv, LogInv
  <2>6. job' # "flushing" => todo' = << >> /\ done' = << >>
    BY <1>1 DEF LedgerInv, LogInv
  <2> QED
    BY <1>2, <2>1, <2>3, <2>4, <2>5, <2>6 DEF LogInv
<1>5. WalkInv' /\ OpenMatchesEvents' /\ RoomInv' /\ WalkRoomInv'
  BY <1>1 DEF LedgerInv, WalkInv, OpenMatchesEvents, RoomInv, WalkRoomInv
<1> QED
  BY <1>4, <1>5 DEF LedgerInv

\* What a buffer may hold: events in order, not older than the last flush.
Fits(buffered) ==
    /\ buffered \in Seq(TimedEvent)
    /\ Ordered(events \o buffered) /\ NotAfter(events \o buffered, clock)
    /\ NotBefore(buffered, measuredAt)

LEMMA IdleLog ==
    ASSUME LedgerInv, job # "flushing"
    PROVE  /\ todo = << >> /\ done = << >> /\ events \o done = events
           /\ Pending = buffer /\ Log = events \o buffer
           /\ Fits(buffer)
<1>1. todo = << >> /\ done = << >> /\ Pending = buffer
      /\ events \in Seq(TimedEvent) /\ buffer \in Seq(TimedEvent)
  BY DEF LedgerInv, LogInv, TypeOK, Pending
<1>2. events \o done = events
  BY <1>1, ConcatEmptySeq
<1> QED
  BY <1>1, <1>2 DEF Log, Fits, LedgerInv, LogInv

LEMMA PushedFits ==
    ASSUME LedgerInv, job # "flushing",
           NEW u \in Users, NEW type \in EventType, NEW w \in Windows \cup {NoWindow},
           type = "Resume" =>
               /\ \A i \in RowsOf(u) : events[i].ts < clock
               /\ \A i \in DOMAIN buffer : buffer[i].uid = u => buffer[i].ts < clock
    PROVE  Fits(Push(Stamped(u, type, w)))
<1> DEFINE e == Stamped(u, type, w)
<1>1. Fits(buffer) /\ buffer \in Seq(TimedEvent) /\ events \in Seq(TimedEvent)
  BY IdleLog DEF LedgerInv, TypeOK
<1>2. e \in TimedEvent /\ e.ts = clock /\ e.type = type /\ e.uid = u
  BY StampedType DEF LedgerInv, TypeOK, Stamped
<1>3. measuredAt <= clock
  BY DEF LedgerInv, LogInv
<1> SUFFICES Fits(Push(e))
  OBVIOUS
<1> HIDE DEF e
<1>4. CASE Push(e) = Append(buffer, e)
  <2>1. events \o Append(buffer, e) = Append(events \o buffer, e)
    <3>1. << e >> \in Seq(TimedEvent) /\ events \o buffer \in Seq(TimedEvent)
      BY <1>1, <1>2, ConcatProperties
    <3> QED
      BY <1>1, <1>2, <3>1, AppendIsConcat, ConcatAssociative
  <2>2. Ordered(Append(events \o buffer, e))
    <3>1. ASSUME NEW i \in DOMAIN (events \o buffer), type = "Resume",
                 (events \o buffer)[i].uid = u
          PROVE  (events \o buffer)[i].ts < clock
      <4>1. /\ i \in 1 .. Len(events) + Len(buffer)
            /\ Len(events) \in Nat /\ Len(buffer) \in Nat
            /\ DOMAIN events = 1 .. Len(events) /\ DOMAIN buffer = 1 .. Len(buffer)
            /\ (events \o buffer)[i] = IF i <= Len(events) THEN events[i]
                                       ELSE buffer[i - Len(events)]
        BY <1>1, ConcatProperties, LenProperties
      <4>2. CASE i <= Len(events)
        BY <3>1, <4>1, <4>2 DEF RowsOf
      <4>3. CASE ~ i <= Len(events)
        <5>1. i - Len(events) \in DOMAIN buffer
          BY <4>1, <4>3
        <5> QED
          BY <3>1, <4>1, <4>3, <5>1
      <4> QED
        BY <4>2, <4>3
    <3>2. events \o buffer \in Seq(TimedEvent)
      BY <1>1, ConcatProperties
    <3> QED
      BY <1>1, <1>2, <3>1, <3>2, OrderedAppend DEF Fits
  <2>3. /\ Append(buffer, e) \in Seq(TimedEvent)
        /\ DOMAIN Append(buffer, e) = 1 .. Len(buffer) + 1
        /\ DOMAIN buffer = 1 .. Len(buffer) /\ Len(buffer) \in Nat
        /\ Append(buffer, e)[Len(buffer) + 1] = e
        /\ \A i \in 1 .. Len(buffer) : Append(buffer, e)[i] = buffer[i]
    BY <1>1, <1>2, AppendProperties, LenProperties
  <2>4. NotBefore(Append(buffer, e), measuredAt)
    BY <1>1, <1>2, <1>3, <2>3 DEF Fits, NotBefore
  <2>5. NotAfter(events, clock) /\ NotAfter(buffer, clock)
    BY <1>1, NotAfterConcat DEF Fits
  <2>6. clock \in Nat
    BY TimesAreNaturals DEF LedgerInv, TypeOK
  <2>7. NotAfter(Append(buffer, e), clock)
    BY <1>2, <2>3, <2>5, <2>6 DEF NotAfter
  <2>8. NotAfter(events \o Append(buffer, e), clock)
    BY <1>1, <2>3, <2>5, <2>7, NotAfterConcat
  <2> QED
    BY <1>4, <2>1, <2>2, <2>3, <2>4, <2>8 DEF Fits
<1>5. CASE Push(e) = buffer
  BY <1>1, <1>5
<1> QED
  BY <1>4, <1>5 DEF Push

\* The buffer changes while no flush runs.
LEMMA BufferStep ==
    ASSUME LedgerInv, TypeOK', job # "flushing", job' # "flushing",
           Fits(buffer'), UNCHANGED << clock, flush, database >>
    PROVE  LedgerInv'
<1>1. /\ todo' = << >> /\ done' = << >> /\ clock' = clock
      /\ events' = events /\ closed' = closed /\ open' = open
      /\ measuredAt' = measuredAt
  BY IdleLog DEF flush, database
<1>2. Pending' = buffer' /\ Log' = events \o buffer'
  BY <1>1, ConcatEmptySeq DEF Pending, Log, LedgerInv, TypeOK
<1>3. LogInv'
  BY <1>1, <1>2 DEF LogInv, LedgerInv, Fits
<1>4. WalkInv' /\ WalkRoomInv'
  BY DEF WalkInv, WalkRoomInv
<1>5. OpenMatchesEvents' /\ RoomInv'
  BY <1>1 DEF LedgerInv, OpenMatchesEvents, RoomInv
<1> QED
  BY <1>3, <1>4, <1>5 DEF LedgerInv

-----------------------------------------------------------------------------
(* A flush begins *)

LEMMA FlushedFocus ==
    ASSUME LedgerInv, job # "flushing", NEW drained, BeginFlush(drained), NEW u \in Users
    PROVE  focus'[u] = Focused(events, u)
<1>1. events \in Seq(TimedEvent) /\ buffer \in Seq(TimedEvent)
  BY DEF LedgerInv, TypeOK
<1>2. Ordered(events)
  BY <1>1, IdleLog, OrderedPrefix DEF Fits
<1>3. focus'[u] = IF u \in FlushedUids(drained) THEN Seed(u) ELSE NoFocus
  BY DEF BeginFlush
<1>4. Focused(events, u) # NoFocus => u \in FlushedUids(drained)
  BY <1>1, <1>2, OpenUidsAreFocused DEF FlushedUids, Ordered, InTime
<1> QED
  BY <1>1, <1>2, <1>3, <1>4, SeedIsFocused

LEMMA BeginStep ==
    ASSUME LedgerInv, TypeOK', job # "flushing", NEW drained, Fits(drained),
           BeginFlush(drained), UNCHANGED << clock, database >>
    PROVE  LedgerInv'
<1>1. /\ job' = "flushing" /\ buffer' = << >> /\ todo' = drained /\ done' = << >>
      /\ flushNow' = clock /\ clock' = clock
      /\ events' = events /\ closed' = closed /\ open' = open
      /\ measuredAt' = measuredAt /\ delta' = Nothing
  BY DEF BeginFlush, database
<1>2. events \in Seq(TimedEvent) /\ drained \in Seq(TimedEvent)
      /\ closed \in Tally /\ measuredAt \in Nat /\ clock \in Nat
  BY TimesAreNaturals DEF LedgerInv, TypeOK, Fits
<1>3. events \o << >> = events
  BY <1>2, ConcatEmptySeq
<1>4. Pending' = drained /\ Log' = events \o drained
  BY <1>1, <1>3 DEF Pending, Log
<1>5. NotAfter(drained, clock) /\ NotAfter(<< >>, clock)
  <2>1. NotAfter(drained, clock)
    BY <1>2, NotAfterConcat DEF Fits
  <2>2. NotAfter(<< >>, clock)
    BY DEF NotAfter
  <2> QED
    BY <2>1, <2>2
<1>6. LogInv'
  <2>1. Ordered(Log') /\ NotAfter(Log', clock') /\ NotBefore(Pending', measuredAt')
    BY <1>1, <1>4 DEF Fits
  <2>2. NotAfter(events', measuredAt') /\ measuredAt' <= clock'
    BY <1>1 DEF LedgerInv, LogInv
  <2>3. /\ buffer' = << >> /\ measuredAt' <= flushNow' /\ flushNow' <= clock'
        /\ NotAfter(done', flushNow') /\ NotAfter(todo', flushNow')
    BY <1>1, <1>2, <1>5, <2>2
  <2> QED
    BY <1>1, <2>1, <2>2, <2>3 DEF LogInv
<1>7. \A u \in Users : Focused(events, u) # NoFocus =>
        /\ Focused(events, u) \in OpenFocus
        /\ Focused(events, u).ts <= measuredAt
  BY <1>2, FocusedType, FocusedNotAfter DEF LedgerInv, LogInv
<1>8. \A i \in DOMAIN drained : drained[i].ts \in Nat /\ measuredAt <= drained[i].ts
  <2> TAKE i \in DOMAIN drained
  <2>1. drained[i] \in TimedEvent
    BY <1>2, LenProperties, ElementOfSeq
  <2> QED
    BY <2>1, TimesAreNaturals DEF Fits, NotBefore, TimedEvent
<1>9. WalkInv'
  <2> SUFFICES ASSUME NEW u \in Users
               PROVE  /\ focus'[u] = Focused(events, u)
                      /\ focus'[u] # NoFocus
                         => /\ focus'[u].ts <= clock
                            /\ NotBefore(drained, focus'[u].ts)
    BY <1>1, <1>3 DEF WalkInv
  <2>1. focus'[u] = Focused(events, u)
    BY FlushedFocus
  <2>2. ASSUME Focused(events, u) # NoFocus
        PROVE  /\ Focused(events, u).ts <= clock
               /\ NotBefore(drained, Focused(events, u).ts)
    <3>1. Focused(events, u).ts \in Nat /\ Focused(events, u).ts <= measuredAt
      BY <1>7, <2>2, TimesAreNaturals DEF OpenFocus
    <3>2. measuredAt <= clock
      BY DEF LedgerInv, LogInv
    <3> QED
      BY <1>2, <1>8, <3>1, <3>2 DEF NotBefore
  <2> QED
    BY <2>1, <2>2
<1>10. OpenMatchesEvents' /\ RoomInv'
  BY <1>1 DEF LedgerInv, OpenMatchesEvents, RoomInv
<1>11. WalkRoomInv'
  <2> SUFFICES ASSUME NEW u \in Users, NEW k \in Keys, NEW d \in Days
               PROVE  /\ closed[u][k][d] <= Overlap(0, clock, d)
                      /\ focus'[u] # NoFocus
                         => closed[u][k][d] <= Overlap(0, focus'[u].ts, d)
                      /\ \A i \in DOMAIN drained :
                             closed[u][k][d] <= Overlap(0, drained[i].ts, d)
    <3>1. \A u \in Users, k \in Keys, d \in Days :
            closed[u][k][d] + Nothing[u][k][d] = closed[u][k][d]
      BY <1>2 DEF Nothing, Tally
    <3> QED
      BY <1>1, <3>1 DEF WalkRoomInv
  <2>1. closed[u][k][d] \in Nat /\ closed[u][k][d] <= Overlap(0, measuredAt, d)
    BY <1>2 DEF LedgerInv, RoomInv, Tally
  <2>2. \A t \in Nat : measuredAt <= t => closed[u][k][d] <= Overlap(0, t, d)
    <3> SUFFICES ASSUME NEW t \in Nat, measuredAt <= t
                 PROVE  closed[u][k][d] <= Overlap(0, t, d)
      OBVIOUS
    <3>1. d \in Nat /\ 0 \in Nat
      BY DaysAreNaturals
    <3>2. Overlap(0, measuredAt, d) \in Nat /\ Overlap(0, t, d) \in Nat
      BY <1>2, <3>1, OverlapType
    <3>3. Overlap(0, measuredAt, d) <= Overlap(0, t, d)
      BY <1>2, <3>1, OverlapMonotone
    <3> QED
      BY <2>1, <3>2, <3>3
  <2>3. closed[u][k][d] <= Overlap(0, clock, d)
    BY <1>2, <2>2 DEF LedgerInv, LogInv
  <2>4. focus'[u] # NoFocus => closed[u][k][d] <= Overlap(0, focus'[u].ts, d)
    BY FlushedFocus DEF LedgerInv, RoomInv
  <2> QED
    BY <1>8, <2>2, <2>3, <2>4
<1> QED
  BY <1>6, <1>9, <1>10, <1>11 DEF LedgerInv

-----------------------------------------------------------------------------
(* A flush walks an event *)

LEMMA ShareMonotone ==
    ASSUME NEW f \in OpenFocus \cup {NoFocus}, NEW s \in Nat, NEW t \in Nat, s <= t,
           NEW k \in Keys, NEW d \in Days
    PROVE  Share(f, s, k, d) <= Share(f, t, k, d)
<1>1. CASE f = NoFocus
  BY <1>1 DEF Share
<1>2. CASE f # NoFocus
  <2>1. f.ts \in Nat /\ d \in Nat
    BY <1>2, TimesAreNaturals, DaysAreNaturals DEF OpenFocus
  <2> QED
    BY <2>1, OverlapMonotone DEF Share
<1> QED
  BY <1>1, <1>2

\* What the walk knows of the event at the head of todo.
LEMMA HeadFacts ==
    ASSUME LedgerInv, job = "flushing", todo # << >>
    PROVE  LET e == Head(todo) IN
           /\ e \in TimedEvent /\ e.ts \in Nat /\ Tail(todo) \in Seq(TimedEvent)
           /\ 1 \in DOMAIN todo /\ todo[1] = e
           /\ \A i \in DOMAIN Tail(todo) : /\ i + 1 \in DOMAIN todo
                                           /\ Tail(todo)[i] = todo[i + 1]
                                           /\ todo[i + 1].ts \in Nat
                                           /\ e.ts <= todo[i + 1].ts
           /\ measuredAt <= e.ts /\ e.ts <= flushNow
<1> DEFINE e == Head(todo)
<1>1. todo \in Seq(TimedEvent) /\ events \o done \in Seq(TimedEvent)
      /\ Pending = todo /\ Log = (events \o done) \o todo
  BY LogType DEF LedgerInv, TypeOK, Pending, Log
<1>2. /\ Head(todo) \in TimedEvent /\ Tail(todo) \in Seq(TimedEvent)
      /\ DOMAIN todo = 1 .. Len(todo) /\ Len(todo) \in Nat /\ Len(todo) # 0
      /\ DOMAIN Tail(todo) = 1 .. Len(todo) - 1
      /\ \A i \in 1 .. Len(todo) - 1 : Tail(todo)[i] = todo[i + 1]
  BY <1>1, HeadTailProperties, LenProperties, EmptySeq
<1>3. todo[1] = Head(todo) /\ 1 \in DOMAIN todo
  BY <1>1, <1>2
<1>4. Ordered(todo)
  BY <1>1, OrderedPrefix DEF LedgerInv, LogInv
<1>5. \A i \in DOMAIN todo : todo[i].ts \in Nat
  <2> TAKE i \in DOMAIN todo
  <2>1. todo[i] \in TimedEvent
    BY <1>1, <1>2, ElementOfSeq
  <2> QED
    BY <2>1, TimesAreNaturals DEF TimedEvent
<1>6. \A i \in DOMAIN Tail(todo) : i + 1 \in DOMAIN todo /\ 1 < i + 1
  BY <1>2
<1>7. \A i \in DOMAIN Tail(todo) : todo[1].ts <= todo[i + 1].ts
  BY <1>3, <1>4, <1>6 DEF Ordered
<1>8. measuredAt <= todo[1].ts /\ todo[1].ts <= flushNow
  BY <1>1, <1>3 DEF LedgerInv, LogInv, NotBefore, NotAfter
<1> QED
  BY <1>2, <1>3, <1>5, <1>6, <1>7, <1>8

LEMMA WalkStep ==
    ASSUME LedgerInv, TypeOK', WalkEvent
    PROVE  LedgerInv'
<1> DEFINE e == Head(todo)
<1>1. /\ job = "flushing" /\ job' = "flushing" /\ todo # << >>
      /\ todo' = Tail(todo) /\ done' = Append(done, e)
      /\ clock' = clock /\ buffer' = buffer /\ flushNow' = flushNow
      /\ events' = events /\ closed' = closed /\ open' = open
      /\ measuredAt' = measuredAt
  BY DEF WalkEvent, memory, database
<1>2. /\ e \in TimedEvent /\ e.ts \in Nat /\ Tail(todo) \in Seq(TimedEvent)
      /\ 1 \in DOMAIN todo /\ todo[1] = e
      /\ \A i \in DOMAIN Tail(todo) : /\ i + 1 \in DOMAIN todo
                                      /\ Tail(todo)[i] = todo[i + 1]
                                      /\ todo[i + 1].ts \in Nat
                                      /\ e.ts <= todo[i + 1].ts
      /\ measuredAt <= e.ts /\ e.ts <= flushNow
  BY <1>1, HeadFacts
<1>3. /\ events \in Seq(TimedEvent) /\ done \in Seq(TimedEvent)
      /\ todo \in Seq(TimedEvent) /\ events \o done \in Seq(TimedEvent)
      /\ measuredAt \in Nat /\ flushNow \in Nat
      /\ focus \in [Users -> OpenFocus \cup {NoFocus}]
      /\ delta \in Tally /\ closed \in Tally /\ e.uid \in Users
  BY <1>2, LogType, TimesAreNaturals DEF LedgerInv, TypeOK, TimedEvent
<1>4. /\ events \o done' = Append(events \o done, e)
      /\ Pending' = Tail(todo) /\ Pending = todo /\ Log' = Log
  <2>1. Pending = todo /\ Pending' = todo'
    BY <1>1 DEF Pending
  <2>2. Log = (events \o done) \o todo /\ Log' = (events \o done') \o todo'
    BY <1>1, <2>1 DEF Log
  <2>3. /\ events \o done' = Append(events \o done, e)
        /\ (events \o done') \o todo' = (events \o done) \o todo
    <3>1. /\ events \o Append(done, e) = Append(events \o done, e)
          /\ (events \o Append(done, e)) \o Tail(todo) = (events \o done) \o todo
      <4>1. /\ events \in Seq(TimedEvent) /\ done \in Seq(TimedEvent)
            /\ todo \in Seq(TimedEvent) /\ todo # << >>
        BY <1>1, <1>3
      <4> QED
        BY <4>1, WalkedLog, Zenon
    <3> QED
      BY <1>1, <3>1
  <2> QED
    BY <1>1, <2>1, <2>2, <2>3
<1>5. \/ /\ e.type \notin Ignored
         /\ CloseInterval(e.uid, focus[e.uid], e.ts)
         /\ focus' = [focus EXCEPT ![e.uid] =
                         IF e.type = "Focus" THEN AsFocus(e) ELSE NoFocus]
      \/ e.type \in Ignored /\ UNCHANGED << focus, delta >>
  BY <1>1 DEF WalkEvent, Close, Ignored
<1> HIDE DEF e
<1>7. LogInv'
  <2>1. Ordered(Log') /\ NotAfter(Log', clock')
        /\ NotAfter(events', measuredAt') /\ measuredAt' <= clock'
    BY <1>1, <1>4 DEF LedgerInv, LogInv
  <2>2. NotBefore(Pending', measuredAt')
    BY <1>1, <1>2, <1>4 DEF LedgerInv, LogInv, NotBefore
  <2>3. buffer' = << >> /\ measuredAt' <= flushNow' /\ flushNow' <= clock'
    BY <1>1 DEF LedgerInv, LogInv
  <2>4. NotAfter(todo', flushNow')
    BY <1>1, <1>2 DEF LedgerInv, LogInv, NotAfter
  <2>5. NotAfter(done', flushNow')
    <3>1. /\ DOMAIN done = 1 .. Len(done) /\ Len(done) \in Nat
          /\ DOMAIN Append(done, e) = 1 .. Len(done) + 1
          /\ Append(done, e)[Len(done) + 1] = e
          /\ \A i \in 1 .. Len(done) : Append(done, e)[i] = done[i]
      BY <1>2, <1>3, AppendProperties, LenProperties
    <3>2. NotAfter(done, flushNow)
      BY <1>1 DEF LedgerInv, LogInv
    <3> QED
      BY <1>1, <1>2, <3>1, <3>2 DEF NotAfter
  <2> QED
    BY <1>1, <2>1, <2>2, <2>3, <2>4, <2>5 DEF LogInv
<1>8. ASSUME NEW u \in Users, ~ (u = e.uid /\ e.type \notin Ignored)
      PROVE  /\ focus'[u] = focus[u] /\ delta'[u] = delta[u]
             /\ Focused(events \o done', u) = Focused(events \o done, u)
  <2>1. focus'[u] = focus[u] /\ delta'[u] = delta[u]
    BY <1>3, <1>5, <1>8 DEF CloseInterval, Tally
  <2>2. Focused(events \o done', u) = Focused(events \o done, u)
    <3>1. Focused(Append(events \o done, e), u) = Focused(events \o done, u)
      BY <1>2, <1>3, <1>8, FocusedAppend
    <3> QED
      BY <1>4, <3>1
  <2> QED
    BY <2>1, <2>2
<1>9. ASSUME NEW u \in Users, u = e.uid, e.type \notin Ignored
      PROVE  /\ focus'[u] = IF e.type = "Focus" THEN AsFocus(e) ELSE NoFocus
             /\ Focused(events \o done', u) = focus'[u]
             /\ \A k \in Keys, d \in Days :
                    delta'[u][k][d] = delta[u][k][d] + Share(focus[u], e.ts, k, d)
  <2>1. focus'[u] = IF e.type = "Focus" THEN AsFocus(e) ELSE NoFocus
    BY <1>3, <1>5, <1>9
  <2>2. Focused(events \o done', u) = focus'[u]
    <3>1. Focused(Append(events \o done, e), u)
          = IF e.type = "Focus" THEN AsFocus(e) ELSE NoFocus
      BY <1>2, <1>3, <1>9, FocusedAppend
    <3> QED
      BY <1>4, <2>1, <3>1
  <2>3. \A k \in Keys, d \in Days :
          delta'[u][k][d] = delta[u][k][d] + Share(focus[u], e.ts, k, d)
    BY <1>3, <1>5, <1>9 DEF CloseInterval, Tally
  <2> QED
    BY <2>1, <2>2, <2>3
<1>10. AsFocus(e).ts = e.ts
  BY DEF AsFocus
<1>11. WalkInv'
  <2> SUFFICES ASSUME NEW u \in Users
               PROVE  /\ focus'[u] = Focused(events \o done', u)
                      /\ focus'[u] # NoFocus
                         => /\ focus'[u].ts <= flushNow
                            /\ NotBefore(Tail(todo), focus'[u].ts)
                      /\ \/ focus'[u] = Focused(events, u)
                         \/ \A k \in Keys, d \in Days :
                               Share(Focused(events, u), measuredAt, k, d)
                                   <= delta'[u][k][d]
    BY <1>1 DEF WalkInv
  <2>1. /\ focus[u] = Focused(events \o done, u)
        /\ focus[u] # NoFocus
           => focus[u].ts <= flushNow /\ NotBefore(todo, focus[u].ts)
        /\ \/ focus[u] = Focused(events, u)
           \/ \A k \in Keys, d \in Days :
                  Share(Focused(events, u), measuredAt, k, d) <= delta[u][k][d]
    BY <1>1 DEF LedgerInv, WalkInv
  <2>2. CASE ~ (u = e.uid /\ e.type \notin Ignored)
    <3>1. NotBefore(todo, focus[u].ts) => NotBefore(Tail(todo), focus[u].ts)
      BY <1>2 DEF NotBefore
    <3> QED
      BY <1>8, <2>1, <2>2, <3>1
  <2>3. CASE u = e.uid /\ e.type \notin Ignored
    <3>1. NotBefore(Tail(todo), e.ts)
      BY <1>2 DEF NotBefore
    <3>2. \A k \in Keys, d \in Days :
            Share(Focused(events, u), measuredAt, k, d) <= delta'[u][k][d]
      <4> TAKE k \in Keys, d \in Days
      <4> DEFINE f == Focused(events, u)
      <4>1. f \in OpenFocus \cup {NoFocus} /\ focus[u] \in OpenFocus \cup {NoFocus}
        BY <1>3, FocusedType
      <4>2. /\ Share(focus[u], e.ts, k, d) \in Nat
            /\ Share(f, measuredAt, k, d) \in Nat
            /\ Share(f, e.ts, k, d) \in Nat
            /\ Share(f, measuredAt, k, d) <= Share(f, e.ts, k, d)
            /\ delta[u][k][d] \in Nat
        <5> HIDE DEF f
        <5>1. /\ Share(focus[u], e.ts, k, d) \in Nat
              /\ Share(f, measuredAt, k, d) \in Nat
              /\ Share(f, e.ts, k, d) \in Nat
          BY <1>2, <1>3, <4>1, ShareType
        <5>2. Share(f, measuredAt, k, d) <= Share(f, e.ts, k, d)
          BY <1>2, <1>3, <4>1, ShareMonotone
        <5>3. delta[u][k][d] \in Nat
          BY <1>3 DEF Tally
        <5> QED
          BY <5>1, <5>2, <5>3
      <4>3. delta'[u][k][d] = delta[u][k][d] + Share(focus[u], e.ts, k, d)
        BY <1>9, <2>3
      <4> HIDE DEF f
      <4>4. CASE focus[u] = f
        BY <4>2, <4>3, <4>4 DEF f
      <4>5. CASE Share(f, measuredAt, k, d) <= delta[u][k][d]
        BY <4>2, <4>3, <4>5 DEF f
      <4> QED
        BY <2>1, <4>4, <4>5 DEF f
    <3> QED
      BY <1>2, <1>9, <1>10, <2>3, <3>1, <3>2
  <2> QED
    BY <2>2, <2>3
<1>12. OpenMatchesEvents' /\ RoomInv'
  BY <1>1 DEF LedgerInv, OpenMatchesEvents, RoomInv
<1>13. WalkRoomInv'
  <2> SUFFICES ASSUME NEW u \in Users, NEW k \in Keys, NEW d \in Days
               PROVE  LET total == closed[u][k][d] + delta'[u][k][d] IN
                      /\ total <= Overlap(0, flushNow, d)
                      /\ focus'[u] # NoFocus => total <= Overlap(0, focus'[u].ts, d)
                      /\ \A i \in DOMAIN Tail(todo) :
                             total <= Overlap(0, Tail(todo)[i].ts, d)
    BY <1>1 DEF WalkRoomInv
  <2> DEFINE before == closed[u][k][d] + delta[u][k][d]
             after  == closed[u][k][d] + delta'[u][k][d]
  <2>1. /\ before <= Overlap(0, flushNow, d)
        /\ focus[u] # NoFocus => before <= Overlap(0, focus[u].ts, d)
        /\ \A i \in DOMAIN todo : before <= Overlap(0, todo[i].ts, d)
    BY <1>1 DEF LedgerInv, WalkRoomInv
  <2>2. before \in Nat /\ d \in Nat /\ 0 \in Nat
    BY <1>3, DaysAreNaturals DEF Tally
  <2>3. CASE ~ (u = e.uid /\ e.type \notin Ignored)
    BY <1>2, <1>8, <2>1, <2>3
  <2>4. CASE u = e.uid /\ e.type \notin Ignored
    <3>1. after = before + Share(focus[u], e.ts, k, d)
          /\ Share(focus[u], e.ts, k, d) \in Nat
      <4>1. delta'[u][k][d] = delta[u][k][d] + Share(focus[u], e.ts, k, d)
        BY <1>9, <2>4
      <4>2. Share(focus[u], e.ts, k, d) \in Nat
        BY <1>2, <1>3, ShareType
      <4>3. closed[u][k][d] \in Nat /\ delta[u][k][d] \in Nat
        BY <1>3 DEF Tally
      <4> QED
        BY <4>1, <4>2, <4>3
    <3> HIDE DEF before, after
    <3>2. after <= Overlap(0, e.ts, d)
      <4>1. CASE focus[u] # NoFocus
        <5> DEFINE f == focus[u]
        <5>1. f.ts \in Nat /\ f.ts <= e.ts
          <6>1. f \in OpenFocus
            BY <1>3, <4>1
          <6>2. NotBefore(todo, f.ts)
            BY <1>1, <4>1 DEF LedgerInv, WalkInv
          <6> QED
            BY <1>2, <6>1, <6>2, TimesAreNaturals DEF OpenFocus, NotBefore
        <5>2. /\ Overlap(0, f.ts, d) \in Nat /\ Overlap(f.ts, e.ts, d) \in Nat
              /\ Overlap(0, f.ts, d) + Overlap(f.ts, e.ts, d) = Overlap(0, e.ts, d)
          <6>1. Overlap(0, f.ts, d) \in Nat /\ Overlap(f.ts, e.ts, d) \in Nat
            BY <1>2, <2>2, <5>1, OverlapType
          <6>2. Overlap(0, f.ts, d) + Overlap(f.ts, e.ts, d) = Overlap(0, e.ts, d)
            BY <1>2, <2>2, <5>1, OverlapAdjacent
          <6> QED
            BY <6>1, <6>2
        <5>3. before <= Overlap(0, f.ts, d)
          BY <2>1, <4>1
        <5>4. Share(f, e.ts, k, d) <= Overlap(f.ts, e.ts, d)
          BY <5>2 DEF Share
        <5> HIDE DEF f
        <5> QED
          BY <2>2, <3>1, <5>2, <5>3, <5>4 DEF f
      <4>2. CASE focus[u] = NoFocus
        <5>1. Share(focus[u], e.ts, k, d) = 0
          BY <4>2 DEF Share
        <5>2. before <= Overlap(0, e.ts, d)
          BY <1>2, <2>1
        <5> QED
          BY <2>2, <3>1, <5>1, <5>2
      <4> QED
        BY <4>1, <4>2
    <3>3. \A t \in Nat : e.ts <= t => after <= Overlap(0, t, d)
      <4> SUFFICES ASSUME NEW t \in Nat, e.ts <= t PROVE after <= Overlap(0, t, d)
        OBVIOUS
      <4>1. /\ Overlap(0, e.ts, d) <= Overlap(0, t, d)
            /\ Overlap(0, e.ts, d) \in Nat /\ Overlap(0, t, d) \in Nat
        BY <1>2, <2>2, OverlapMonotone, OverlapType
      <4>2. after \in Nat
        BY <2>2, <3>1
      <4> QED
        BY <3>2, <4>1, <4>2
    <3>4. after <= Overlap(0, flushNow, d)
      BY <1>2, <1>3, <3>3
    <3>5. focus'[u] # NoFocus => after <= Overlap(0, focus'[u].ts, d)
      BY <1>9, <1>10, <2>4, <3>2
    <3>6. \A i \in DOMAIN Tail(todo) : after <= Overlap(0, Tail(todo)[i].ts, d)
      BY <1>2, <3>3
    <3> QED
      BY <3>4, <3>5, <3>6 DEF after
  <2> QED
    BY <2>3, <2>4
<1> QED
  BY <1>7, <1>11, <1>12, <1>13 DEF LedgerInv

-----------------------------------------------------------------------------
(* A flush ends *)

\* Nothing is left in memory, and the tables are as a commit left them: with
\* these facts the invariant holds.
LEMMA Settled ==
    ASSUME TypeOK', job' # "flushing", buffer' = << >>, todo' = << >>, done' = << >>,
           Ordered(events'), NotAfter(events', clock'),
           NotAfter(events', measuredAt'), measuredAt' <= clock',
           OpenMatchesEvents', RoomInv'
    PROVE  LedgerInv'
<1>1. events' \in Seq(TimedEvent)
  BY DEF TypeOK
<1>2. Pending' = << >> /\ Log' = events'
  BY <1>1, ConcatEmptySeq DEF Pending, Log
<1>3. NotBefore(<< >>, measuredAt')
  BY DEF NotBefore
<1>4. LogInv'
  BY <1>2, <1>3 DEF LogInv
<1>5. WalkInv' /\ WalkRoomInv'
  BY DEF WalkInv, WalkRoomInv
<1> QED
  BY <1>4, <1>5 DEF LedgerInv

\* The transaction rolls back or the process dies.
LEMMA LossStep ==
    ASSUME LedgerInv, TypeOK', job' # "flushing",
           buffer' = << >>, todo' = << >>, done' = << >>,
           UNCHANGED << clock, database >>
    PROVE  LedgerInv'
<1>1. /\ events' = events /\ closed' = closed /\ open' = open
      /\ measuredAt' = measuredAt /\ clock' = clock
  BY DEF database
<1>2. /\ events \in Seq(TimedEvent) /\ done \in Seq(TimedEvent)
      /\ events \o done \in Seq(TimedEvent) /\ Pending \in Seq(TimedEvent)
  BY LogType DEF LedgerInv, TypeOK
<1>3. Ordered(events \o done) /\ NotAfter(events \o done, clock)
  BY <1>2, OrderedPrefix, NotAfterConcat DEF LedgerInv, LogInv, Log
<1>4. Ordered(events) /\ NotAfter(events, clock)
  BY <1>2, <1>3, OrderedPrefix, NotAfterConcat
<1>5. OpenMatchesEvents' /\ RoomInv'
  BY <1>1 DEF LedgerInv, OpenMatchesEvents, RoomInv
<1> QED
  BY <1>1, <1>4, <1>5, Settled DEF LedgerInv, LogInv

LEMMA CommitStep ==
    ASSUME LedgerInv, TypeOK', CommitFlush
    PROVE  LedgerInv'
<1>1. /\ job = "flushing" /\ job' = "idle" /\ todo = << >>
      /\ todo' = << >> /\ done' = << >> /\ buffer' = buffer /\ buffer = << >>
      /\ clock' = clock /\ events' = events \o done /\ measuredAt' = flushNow
  BY DEF CommitFlush, EndFlush, memory, LedgerInv, LogInv
<1>2. /\ events \in Seq(TimedEvent) /\ done \in Seq(TimedEvent)
      /\ events \o done \in Seq(TimedEvent)
      /\ measuredAt \in Nat /\ flushNow \in Nat /\ clock \in Nat
      /\ focus \in [Users -> OpenFocus \cup {NoFocus}]
      /\ delta \in Tally /\ closed \in Tally /\ open \in Tally
  BY LogType, TimesAreNaturals DEF LedgerInv, TypeOK
<1>3. /\ measuredAt <= flushNow /\ flushNow <= clock
      /\ NotAfter(events, measuredAt) /\ NotAfter(done, flushNow)
  BY <1>1 DEF LedgerInv, LogInv
<1>4. Ordered(events')
  <2>1. Pending = << >> /\ Log = (events \o done) \o << >>
    BY <1>1 DEF Pending, Log
  <2>2. Log = events \o done
    BY <1>2, <2>1, ConcatEmptySeq
  <2> QED
    BY <1>1, <2>2 DEF LedgerInv, LogInv
<1>5. NotAfter(events', flushNow)
  <2>1. \A i \in DOMAIN events : events[i].ts \in Nat
    <3> TAKE i \in DOMAIN events
    <3>1. events[i] \in TimedEvent
      BY <1>2, LenProperties, ElementOfSeq
    <3> QED
      BY <3>1, TimesAreNaturals DEF TimedEvent
  <2>2. NotAfter(events, flushNow)
    BY <1>2, <1>3, <2>1 DEF NotAfter
  <2> QED
    BY <1>1, <1>2, <1>3, <2>2, NotAfterConcat
<1>6. NotAfter(events', clock')
  <2>1. \A i \in DOMAIN events' : events'[i].ts \in Nat
    <3> TAKE i \in DOMAIN events'
    <3>1. events'[i] \in TimedEvent
      BY <1>1, <1>2, LenProperties, ElementOfSeq
    <3> QED
      BY <3>1, TimesAreNaturals DEF TimedEvent
  <2> QED
    BY <1>1, <1>2, <1>3, <1>5, <2>1 DEF NotAfter
<1>7. \A u \in Users : focus[u] = Focused(events', u)
  BY <1>1 DEF LedgerInv, WalkInv
<1>8. OpenMatchesEvents'
  <2> SUFFICES ASSUME NEW u \in Users, NEW k \in Keys, NEW d \in Days
               PROVE  open'[u][k][d] = Share(focus[u], flushNow, k, d)
    BY <1>1, <1>7 DEF OpenMatchesEvents
  <2> DEFINE was   == Focused(events, u)
             still == Share(focus[u], flushNow, k, d)
  <2>1. open'[u][k][d] = OpenAfter(u, k, d)
    BY DEF CommitFlush
  <2>2. open[u][k][d] = Share(was, measuredAt, k, d)
    BY DEF LedgerInv, OpenMatchesEvents
  <2>3. was \in OpenFocus \cup {NoFocus} /\ focus[u] \in OpenFocus \cup {NoFocus}
    BY <1>2, FocusedType
  <2>4. still \in Nat /\ Share(was, measuredAt, k, d) \in Nat /\ delta[u][k][d] \in Nat
    <3>1. delta[u][k][d] \in Nat
      BY <1>2 DEF Tally
    <3>2. still \in Nat
      BY <1>2, <2>3, ShareType
    <3>3. Share(was, measuredAt, k, d) \in Nat
      <4> HIDE DEF was
      <4> QED
        BY <1>2, <2>3, ShareType
    <3> QED
      BY <3>1, <3>2, <3>3
  <2>5. \/ focus[u] = was
        \/ Share(was, measuredAt, k, d) <= delta[u][k][d]
    BY <1>1 DEF LedgerInv, WalkInv
  <2>6. CASE still > 0
    BY <2>1, <2>6 DEF OpenAfter
  <2>7. CASE ~ still > 0 /\ delta[u][k][d] > 0
    BY <2>1, <2>4, <2>7 DEF OpenAfter
  <2>8. CASE ~ still > 0 /\ ~ delta[u][k][d] > 0
    <3>1. open'[u][k][d] = Share(was, measuredAt, k, d)
      BY <2>1, <2>2, <2>8 DEF OpenAfter
    <3>2. still = 0 /\ delta[u][k][d] = 0
      BY <2>4, <2>8
    <3>3. CASE focus[u] = was
      <4>1. Share(was, measuredAt, k, d) <= Share(was, flushNow, k, d)
        BY <1>2, <1>3, <2>3, ShareMonotone
      <4>2. Share(was, flushNow, k, d) = still
        BY <3>3
      <4> HIDE DEF was, still
      <4>3. Share(was, measuredAt, k, d) = 0
        BY <2>4, <3>2, <4>1, <4>2
      <4> QED
        BY <3>1, <3>2, <4>3 DEF still
    <3>4. CASE Share(was, measuredAt, k, d) <= delta[u][k][d]
      <4> HIDE DEF was, still
      <4>1. Share(was, measuredAt, k, d) = 0
        BY <2>4, <3>2, <3>4
      <4> QED
        BY <3>1, <3>2, <4>1 DEF still
    <3> QED
      BY <2>5, <3>3, <3>4
  <2> QED
    BY <2>6, <2>7, <2>8
<1>9. RoomInv'
  <2> SUFFICES ASSUME NEW u \in Users, NEW k \in Keys, NEW d \in Days
               PROVE  /\ closed'[u][k][d] <= Overlap(0, flushNow, d)
                      /\ focus[u] # NoFocus
                         => closed'[u][k][d] <= Overlap(0, focus[u].ts, d)
    BY <1>1, <1>7 DEF RoomInv
  <2>1. closed'[u][k][d] = closed[u][k][d] + delta[u][k][d]
    BY DEF CommitFlush
  <2> QED
    BY <1>1, <2>1 DEF LedgerInv, WalkRoomInv
<1> QED
  BY <1>1, <1>3, <1>4, <1>5, <1>6, <1>8, <1>9, Settled

-----------------------------------------------------------------------------
(* The invariant holds in every reachable state *)

LEMMA LedgerInvInit == Init => LedgerInv
<1> SUFFICES ASSUME Init PROVE LedgerInv
  OBVIOUS
<1>1. TypeOK
  BY TypeOKInit
<1>2. Pending = << >> /\ events = << >> /\ done = << >>
  BY DEF Init, Pending
<1>3. events \o done = << >> /\ Log = << >>
  BY <1>2, ConcatEmptySeq, EmptySeq DEF Log
<1>4. LogInv
  BY <1>2, <1>3 DEF Init, LogInv, Ordered, NotAfter, NotBefore
<1>5. WalkInv /\ WalkRoomInv
  BY DEF Init, WalkInv, WalkRoomInv
<1>6. \A u \in Users : Focused(events, u) = NoFocus
  BY <1>2 DEF Focused, IsLastMeasured
<1>7. OpenMatchesEvents
  BY <1>6 DEF Init, OpenMatchesEvents, Share, Nothing
<1>8. RoomInv
  <2> SUFFICES ASSUME NEW u \in Users, NEW k \in Keys, NEW d \in Days
               PROVE  closed[u][k][d] <= Overlap(0, measuredAt, d)
    BY <1>6 DEF RoomInv
  <2>1. closed[u][k][d] = 0 /\ measuredAt = 0
    BY DEF Init, Nothing
  <2>2. Overlap(0, measuredAt, d) \in Nat
    BY <2>1, OverlapType, DaysAreNaturals
  <2> QED
    BY <2>1, <2>2
<1> QED
  BY <1>1, <1>4, <1>5, <1>7, <1>8 DEF LedgerInv

\* One step per action; a Resume never shares its millisecond with the event
\* before it.
LEMMA LedgerInvStep ==
    ASSUME ~ResumeTies, LedgerInv, [Next]_vars
    PROVE  LedgerInv'
<1>1. TypeOK /\ TypeOK'
  BY TypeOKStep DEF LedgerInv
<1>2. clock \in Nat
  BY <1>1, TimesAreNaturals DEF TypeOK
<1>3. ASSUME NEW u \in Users, NEW type \in Arrivals,
             NEW w \in Windows \cup {NoWindow}, HandleEvent(u, type, w)
      PROVE  LedgerInv'
  <2> DEFINE pushed == Push(Stamped(u, type, w))
  <2>1. job # "flushing" /\ UNCHANGED << clock, database >>
    BY <1>3 DEF HandleEvent, Ready
  <2>2. Fits(pushed)
    <3>1. type \in EventType
      BY LedgerAssumption
    <3>2. type = "Resume" =>
             /\ \A i \in RowsOf(u) : events[i].ts < clock
             /\ \A i \in DOMAIN buffer : buffer[i].uid = u => buffer[i].ts < clock
      BY <1>3 DEF HandleEvent, Spaced
    <3> QED
      BY <2>1, <3>1, <3>2, PushedFits
  <2>3. \/ BeginFlush(pushed)
        \/ LookupFails(pushed)
        \/ buffer' = pushed /\ UNCHANGED << job, flush >>
    BY <1>3 DEF HandleEvent
  <2> HIDE DEF pushed
  <2>4. CASE BeginFlush(pushed)
    BY <1>1, <2>1, <2>2, <2>4, BeginStep
  <2>5. CASE LookupFails(pushed)
    BY <1>1, <2>1, <2>2, <2>5, BufferStep DEF LookupFails
  <2>6. CASE buffer' = pushed /\ UNCHANGED << job, flush >>
    BY <1>1, <2>1, <2>2, <2>6, BufferStep
  <2> QED
    BY <2>3, <2>4, <2>5, <2>6
<1>4. CASE FlushTick
  <2>1. job # "flushing" /\ UNCHANGED << clock, database >> /\ BeginFlush(buffer)
    BY <1>4 DEF FlushTick, Ready
  <2>2. Fits(buffer)
    BY <2>1, IdleLog
  <2> QED
    BY <1>1, <2>1, <2>2, BeginStep
<1>5. CASE WalkEvent
  BY <1>1, <1>5, WalkStep
<1>6. CASE CommitFlush
  BY <1>1, <1>6, CommitStep
<1>7. CASE FailFlush
  <2>1. /\ job' # "flushing" /\ todo' = << >> /\ done' = << >>
        /\ buffer' = buffer /\ UNCHANGED << clock, database >>
    BY <1>7 DEF FailFlush, EndFlush, memory
  <2>2. buffer = << >>
    BY <1>7 DEF FailFlush, LedgerInv, LogInv
  <2> QED
    BY <1>1, <2>1, <2>2, LossStep
<1>8. CASE Shutdown
  <2>1. /\ job # "flushing" /\ job' # "flushing"
        /\ UNCHANGED << clock, buffer, flush, database >>
    BY <1>8 DEF Shutdown, Ready
  <2> QED
    BY <1>1, <1>2, <2>1, QuietStep
<1>9. ASSUME NEW u \in Users, ShutdownPush(u)
      PROVE  LedgerInv'
  <2>1. /\ job # "flushing" /\ job' # "flushing"
        /\ UNCHANGED << clock, flush, database >>
        /\ buffer' = Push(Stamped(u, "ShutDown", NoWindow))
    BY <1>9 DEF ShutdownPush
  <2>2. Fits(Push(Stamped(u, "ShutDown", NoWindow)))
    BY <2>1, PushedFits DEF EventType
  <2> QED
    BY <1>1, <2>1, <2>2, BufferStep
<1>10. CASE ShutdownFlush
  <2>1. job # "flushing" /\ UNCHANGED << clock, database >>
    BY <1>10 DEF ShutdownFlush
  <2>2. Fits(buffer)
    BY <2>1, IdleLog
  <2>3. CASE BeginFlush(buffer)
    BY <1>1, <2>1, <2>2, <2>3, BeginStep
  <2>4. CASE LookupFails(buffer)
    BY <1>1, <2>1, <2>2, <2>4, BufferStep DEF LookupFails
  <2> QED
    BY <1>10, <2>3, <2>4 DEF ShutdownFlush
<1>11. ASSUME NEW u \in Users, Register(u) \/ Unregister(u)
       PROVE  LedgerInv'
  <2>1. job' = job /\ UNCHANGED << clock, buffer, flush, database >>
    BY <1>11 DEF Register, Unregister
  <2> QED
    BY <1>1, <1>2, <2>1, QuietStep
<1>12. CASE Crash \/ Exit
  <2>1. /\ job' # "flushing" /\ buffer' = << >> /\ todo' = << >> /\ done' = << >>
        /\ UNCHANGED << clock, database >>
    BY <1>12 DEF Crash, Exit, Die
  <2> QED
    BY <1>1, <2>1, LossStep
<1>13. CASE Start
  <2>1. job' = job /\ UNCHANGED << clock, buffer, flush, database >>
    BY <1>13 DEF Start, memory
  <2> QED
    BY <1>1, <1>2, <2>1, QuietStep
<1>14. CASE Tick
  <2>1. /\ job' = job /\ clock' = clock + 1
        /\ UNCHANGED << buffer, flush, database >>
    BY <1>14 DEF Tick, memory
  <2> QED
    BY <1>1, <1>2, <2>1, QuietStep
<1>15. CASE UNCHANGED vars
  <2>1. job' = job /\ UNCHANGED << clock, buffer, flush, database >>
    BY <1>15 DEF vars, memory
  <2> QED
    BY <1>1, <1>2, <2>1, QuietStep
<1> QED
  BY <1>3, <1>4, <1>5, <1>6, <1>7, <1>8, <1>9, <1>10, <1>11, <1>12, <1>13, <1>14,
     <1>15 DEF Next

\* For any users, windows, rows, length of the day, flush threshold and buffer
\* capacity, with every crash, rollback and failed lookup of the code, the
\* invariant of the ledger holds, provided that no Resume carries the
\* millisecond of the event before it.
THEOREM LedgerInvHolds ==
    ASSUME ~ResumeTies
    PROVE  Spec => []LedgerInv
<1>1. Init => LedgerInv
  BY LedgerInvInit
<1>2. LedgerInv /\ [Next]_vars => LedgerInv'
  BY LedgerInvStep
<1> QED
  BY <1>1, <1>2, PTL DEF Spec

\* The open milliseconds in the tables are always those of the interval that is
\* open in the events table: no flush, crash or rollback leaves a stale one.
THEOREM OpenRowsMatchEvents ==
    ASSUME ~ResumeTies
    PROVE  Spec => []OpenMatchesEvents
<1>1. LedgerInv => OpenMatchesEvents
  BY DEF LedgerInv
<1> QED
  BY <1>1, LedgerInvHolds, PTL

\* Closed time ends where the open interval begins, so that their sum is within
\* the time that has passed on the day.
LEMMA RoomForOpenTime == LedgerInv => NeverMoreThanElapsed
<1> SUFFICES ASSUME LedgerInv, NEW u \in Users, NEW k \in Keys, NEW d \in Days
             PROVE  closed[u][k][d] + open[u][k][d] <= Overlap(0, measuredAt, d)
  BY DEF NeverMoreThanElapsed
<1> DEFINE f == Focused(events, u)
<1>1. open[u][k][d] = Share(f, measuredAt, k, d)
  BY DEF LedgerInv, OpenMatchesEvents
<1>2. /\ closed[u][k][d] <= Overlap(0, measuredAt, d)
      /\ f # NoFocus => closed[u][k][d] <= Overlap(0, f.ts, d)
  BY DEF LedgerInv, RoomInv
<1>3. events \in Seq(TimedEvent) /\ measuredAt \in Nat /\ closed[u][k][d] \in Nat
  BY TimesAreNaturals DEF LedgerInv, TypeOK, Tally
<1>4. d \in Nat /\ Overlap(0, measuredAt, d) \in Nat
  BY <1>3, DaysAreNaturals, OverlapType
<1>5. CASE f = NoFocus \/ k \notin KeysOf[f.win]
  <2>1. open[u][k][d] = 0
    BY <1>1, <1>5 DEF Share
  <2> HIDE DEF f
  <2> QED
    BY <1>2, <1>3, <1>4, <2>1
<1>6. CASE f # NoFocus /\ k \in KeysOf[f.win]
  <2>1. f \in OpenFocus \cup {NoFocus} /\ f.ts <= measuredAt
    BY <1>3, <1>6, FocusedType, FocusedNotAfter DEF LedgerInv, LogInv
  <2> HIDE DEF f
  <2>2. f.ts \in Nat
    BY <1>6, <2>1, TimesAreNaturals DEF OpenFocus
  <2>3. Overlap(0, f.ts, d) + Overlap(f.ts, measuredAt, d) = Overlap(0, measuredAt, d)
    BY <1>3, <1>4, <2>1, <2>2, OverlapAdjacent
  <2>4. open[u][k][d] = Overlap(f.ts, measuredAt, d)
    BY <1>1, <1>6 DEF Share
  <2>5. Overlap(0, f.ts, d) \in Nat /\ Overlap(f.ts, measuredAt, d) \in Nat
    BY <1>3, <1>4, <2>2, OverlapType
  <2> QED
    BY <1>2, <1>3, <1>4, <1>6, <2>3, <2>4, <2>5
<1> QED
  BY <1>5, <1>6

\* What the daemon reports for a day never exceeds the time that has passed on
\* that day: no interval is counted twice, whatever the flushes, the failures
\* and the restarts.
THEOREM UsageFitsTheDay ==
    ASSUME ~ResumeTies
    PROVE  Spec => []NeverMoreThanElapsed
<1> QED
  BY RoomForOpenTime, LedgerInvHolds, PTL
-----------------------------------------------------------------------------
(* Shutdown *)

\* A log grows by an event that is not older than it.
LEMMA InTimeAppend ==
    ASSUME NEW s \in Seq(TimedEvent), NEW e \in TimedEvent, InTime(s), NotAfter(s, e.ts)
    PROVE  InTime(Append(s, e)) /\ NotAfter(Append(s, e), e.ts)
<1>1. /\ DOMAIN s = 1 .. Len(s) /\ Len(s) \in Nat
      /\ DOMAIN Append(s, e) = 1 .. Len(s) + 1
      /\ Append(s, e)[Len(s) + 1] = e
      /\ \A i \in 1 .. Len(s) : Append(s, e)[i] = s[i]
  BY AppendProperties, LenProperties
<1>2. e.ts \in Nat
  BY TimesAreNaturals DEF TimedEvent
<1> QED
  BY <1>1, <1>2 DEF InTime, NotAfter

LEMMA InTimePrefix ==
    ASSUME NEW s \in Seq(TimedEvent), NEW t \in Seq(TimedEvent), InTime(s \o t)
    PROVE  InTime(s)
<1>1. /\ DOMAIN s = 1 .. Len(s) /\ DOMAIN (s \o t) = 1 .. Len(s) + Len(t)
      /\ Len(s) \in Nat /\ Len(t) \in Nat
      /\ \A i \in 1 .. Len(s) : (s \o t)[i] = s[i]
  BY LenProperties, ConcatProperties
<1> QED
  BY <1>1 DEF InTime

\* The events of others say nothing of a user.
LEMMA FocusedElsewhere ==
    ASSUME NEW s \in Seq(TimedEvent), NEW t \in Seq(TimedEvent), NEW u,
           \A i \in DOMAIN t : t[i].uid # u
    PROVE  Focused(s \o t, u) = Focused(s, u)
<1>1. /\ DOMAIN s = 1 .. Len(s) /\ DOMAIN t = 1 .. Len(t)
      /\ DOMAIN (s \o t) = 1 .. Len(s) + Len(t)
      /\ Len(s) \in Nat /\ Len(t) \in Nat
      /\ \A i \in 1 .. Len(s) + Len(t) :
            (s \o t)[i] = IF i <= Len(s) THEN s[i] ELSE t[i - Len(s)]
      /\ s \o t \in Seq(TimedEvent)
  BY LenProperties, ConcatProperties
<1>2. \A i \in DOMAIN (s \o t) : (s \o t)[i].uid = u => i \in DOMAIN s /\ (s \o t)[i] = s[i]
  <2> TAKE i \in DOMAIN (s \o t)
  <2>1. CASE i <= Len(s)
    BY <1>1, <2>1
  <2>2. CASE ~ i <= Len(s)
    <3>1. i - Len(s) \in DOMAIN t
      BY <1>1, <2>2
    <3> QED
      BY <1>1, <2>2, <3>1
  <2> QED
    BY <2>1, <2>2
<1>3. \A i \in DOMAIN s : i \in DOMAIN (s \o t) /\ (s \o t)[i] = s[i]
  BY <1>1
<1>4. \A i : IsLastMeasured(s \o t, u, i) <=> IsLastMeasured(s, u, i)
  BY <1>2, <1>3 DEF IsLastMeasured
<1>5. CASE Focused(s, u) = NoFocus
  <2>1. \A i \in DOMAIN s : ~ (IsLastMeasured(s, u, i) /\ s[i].type = "Focus")
    <3>1. \A i \in DOMAIN s : s[i] \in TimedEvent
      BY LenProperties, ElementOfSeq
    <3> QED
      BY <1>5, <3>1, FocusedWhen, FocusIsSomething
  <2>2. \A i \in DOMAIN (s \o t) :
            ~ (IsLastMeasured(s \o t, u, i) /\ (s \o t)[i].type = "Focus")
    BY <1>3, <1>4, <2>1 DEF IsLastMeasured
  <2> QED
    BY <1>5, <2>2, FocusedWithout
<1>6. CASE Focused(s, u) # NoFocus
  <2>1. PICK i \in DOMAIN s : /\ IsLastMeasured(s, u, i) /\ s[i].type = "Focus"
                              /\ Focused(s, u) = AsFocus(s[i])
    BY <1>6, FocusedCases
  <2>2. IsLastMeasured(s \o t, u, i) /\ (s \o t)[i] = s[i]
    BY <1>3, <1>4, <2>1
  <2> QED
    BY <1>1, <2>1, <2>2, FocusedWhen
<1> QED
  BY <1>5, <1>6

\* While no flush runs, the log is what is stored and what is buffered.
LEMMA IdleBooks ==
    ASSUME TypeOK, BooksInv, job # "flushing"
    PROVE  /\ todo = << >> /\ done = << >> /\ events \o done = events
           /\ Pending = buffer /\ Log = events \o buffer
<1>1. todo = << >> /\ done = << >> /\ Pending = buffer /\ events \in Seq(TimedEvent)
  BY DEF BooksInv, MemoryInv, TypeOK, Pending
<1>2. events \o done = events
  BY <1>1, ConcatEmptySeq
<1> QED
  BY <1>1, <1>2 DEF Log

LEMMA BegunBooks ==
    ASSUME TypeOK, NEW drained, BeginFlush(drained), UNCHANGED database
    PROVE  job' = "flushing" /\ buffer' = << >> /\ Log' = events \o drained
<1>1. /\ job' = "flushing" /\ buffer' = << >> /\ todo' = drained /\ done' = << >>
      /\ events' = events /\ events \in Seq(TimedEvent)
  BY DEF BeginFlush, database, TypeOK
<1>2. events \o << >> = events
  BY <1>1, ConcatEmptySeq
<1> QED
  BY <1>1, <1>2 DEF Log, Pending

\* Nothing happens to the events.
LEMMA QuietBooks ==
    ASSUME TypeOK, TypeOK', BooksInv, job' = job, clock <= clock',
           UNCHANGED << buffer, todo, done, events, toClose >>,
           proc' = "closing" => proc = "closing"
    PROVE  BooksInv'
<1>1. Pending' = Pending /\ Log' = Log
  BY DEF Pending, Log
<1>2. NotAfter(Log, clock')
  <2>1. \A i \in DOMAIN Log : Log[i].ts \in Nat
    <3> TAKE i \in DOMAIN Log
    <3>1. Log[i] \in TimedEvent
      BY LogType, LenProperties, ElementOfSeq
    <3> QED
      BY <3>1, TimesAreNaturals DEF TimedEvent
  <2>2. clock \in Nat /\ clock' \in Nat
    BY TimesAreNaturals DEF TypeOK
  <2> QED
    BY <2>1, <2>2 DEF BooksInv, MemoryInv, NotAfter
<1> QED
  BY <1>1, <1>2 DEF BooksInv, MemoryInv

\* What has not been stored is lost.
LEMMA LostBooks ==
    ASSUME TypeOK, BooksInv, job' = "idle", UNCHANGED << clock, events >>,
           buffer' = << >>, todo' = << >>, done' = << >>
    PROVE  BooksInv'
<1>1. /\ events \in Seq(TimedEvent) /\ done \in Seq(TimedEvent)
      /\ events \o done \in Seq(TimedEvent) /\ Pending \in Seq(TimedEvent)
  BY LogType DEF TypeOK
<1>2. InTime(events) /\ NotAfter(events, clock)
  <2>1. InTime(events \o done) /\ NotAfter(events \o done, clock)
    BY <1>1, InTimePrefix, NotAfterConcat DEF BooksInv, MemoryInv, Log
  <2> QED
    BY <1>1, <2>1, InTimePrefix, NotAfterConcat
<1>3. Log' = events
  BY <1>1, ConcatEmptySeq DEF Log, Pending
<1> QED
  BY <1>2, <1>3 DEF BooksInv, MemoryInv

\* An event that is stamped now, and kept or rejected by the buffer.
LEMMA PushedBooks ==
    ASSUME TypeOK, BooksInv, job # "flushing", NEW e \in TimedEvent, e.ts = clock
    PROVE  /\ Push(e) \in Seq(TimedEvent)
           /\ InTime(events \o Push(e)) /\ NotAfter(events \o Push(e), clock)
           /\ events \o Append(buffer, e) = Append(Log, e)
<1>1. /\ events \in Seq(TimedEvent) /\ buffer \in Seq(TimedEvent)
      /\ Log \in Seq(TimedEvent) /\ Log = events \o buffer
      /\ InTime(Log) /\ NotAfter(Log, clock)
  BY LogType, IdleBooks DEF TypeOK, BooksInv
<1>2. events \o Append(buffer, e) = Append(Log, e)
  <2>1. << e >> \in Seq(TimedEvent)
    OBVIOUS
  <2> QED
    BY <1>1, <2>1, AppendIsConcat, ConcatAssociative
<1>3. InTime(Append(Log, e)) /\ NotAfter(Append(Log, e), clock)
  BY <1>1, InTimeAppend
<1>4. Append(buffer, e) \in Seq(TimedEvent)
  BY <1>1, AppendProperties
<1>5. CASE Push(e) = buffer
  BY <1>1, <1>2, <1>5
<1>6. CASE Push(e) = Append(buffer, e)
  BY <1>2, <1>3, <1>4, <1>6
<1> QED
  BY <1>2, <1>5, <1>6 DEF Push

\* Who gets a ShutDown event: nobody whose interval is open is left out.
LEMMA ShutdownBooks ==
    ASSUME ~MayFailLookup, RoomToClose, TypeOK, TypeOK', BooksInv, Shutdown
    PROVE  BooksInv'
<1>1. /\ job = "idle" /\ job' = "closing"
      /\ toClose' = (registered \cup BufferUids) \cup OpenUids
      /\ clock' = clock /\ buffer' = buffer /\ todo' = todo /\ done' = done
      /\ events' = events
  BY DEF Shutdown, Ready, flush, database
<1>2. Log' = Log /\ Log = events \o buffer /\ events \in Seq(TimedEvent)
      /\ buffer \in Seq(TimedEvent) /\ todo = << >> /\ done = << >>
  BY <1>1, IdleBooks DEF Log, Pending, TypeOK
<1>3. ASSUME NEW u \in Users, Focused(Log, u) # NoFocus
      PROVE  u \in toClose'
  <2> SUFFICES ASSUME u \notin BufferUids PROVE u \in OpenUids
    BY <1>1
  <2>1. Focused(events, u) # NoFocus
    BY <1>2, <1>3, FocusedElsewhere DEF BufferUids
  <2>2. InTime(events)
    BY <1>2, InTimePrefix DEF BooksInv, MemoryInv
  <2> QED
    BY <1>2, <2>1, <2>2, OpenUidsAreFocused
<1>4. Len(buffer) + Cardinality(toClose') <= MaxCapacity
  <2>1. toClose' \in SUBSET Users
    BY DEF TypeOK
  <2>2. /\ Cardinality(toClose') <= Cardinality(Users)
        /\ Cardinality(toClose') \in Nat /\ Cardinality(Users) \in Nat
    BY <2>1, FS_Subset, FS_CardinalityType DEF RoomToClose
  <2>3. Len(buffer) \in Nat /\ Len(buffer) <= FlushCount
    BY <1>1, <1>2, LedgerAssumption DEF BooksInv, MemoryInv
  <2> QED
    BY <2>2, <2>3, LedgerAssumption DEF RoomToClose
<1> QED
  BY <1>1, <1>2, <1>3, <1>4 DEF BooksInv, MemoryInv

LEMMA ShutdownPushBooks ==
    ASSUME RoomToClose, TypeOK, BooksInv, NEW u \in Users, ShutdownPush(u)
    PROVE  BooksInv'
<1> DEFINE e == Stamped(u, "ShutDown", NoWindow)
<1>1. /\ job = "closing" /\ job' = "closing" /\ u \in toClose
      /\ buffer' = Push(e) /\ toClose' = toClose \ {u}
      /\ clock' = clock /\ todo' = todo /\ done' = done /\ events' = events
  BY DEF ShutdownPush, flush, database
<1>2. e \in TimedEvent /\ e.ts = clock /\ e.uid = u /\ e.type = "ShutDown"
  BY StampedType DEF TypeOK, Stamped, EventType
<1> HIDE DEF e
<1>3. Cardinality(toClose) \in Nat \ {0} /\ Cardinality(toClose') = Cardinality(toClose) - 1
  <2>1. IsFiniteSet(toClose)
    BY FS_Subset DEF RoomToClose, TypeOK
  <2>2. Cardinality(toClose) \in Nat /\ Cardinality(toClose) # 0
    BY <1>1, <2>1, FS_CardinalityType, FS_EmptySet
  <2> QED
    BY <1>1, <2>1, <2>2, FS_RemoveElement
<1>4. /\ Len(buffer) \in Nat /\ buffer \in Seq(TimedEvent)
      /\ Len(buffer) + Cardinality(toClose) <= MaxCapacity /\ MaxCapacity \in Nat
  BY <1>1, LedgerAssumption DEF BooksInv, MemoryInv, TypeOK
<1>5. buffer' = Append(buffer, e) /\ Len(buffer') = Len(buffer) + 1
  <2>1. ~ Len(buffer) >= MaxCapacity
    BY <1>3, <1>4
  <2> QED
    BY <1>1, <1>2, <1>4, <2>1, AppendProperties DEF Push
<1>6. /\ Log' = Append(Log, e) /\ Log \in Seq(TimedEvent)
      /\ InTime(Log') /\ NotAfter(Log', clock') /\ todo' = << >> /\ done' = << >>
  <2>1. events \o done = events /\ todo = << >> /\ done = << >>
    BY <1>1, IdleBooks
  <2>2. Log' = events \o buffer'
    BY <1>1, <2>1 DEF Log, Pending
  <2> QED
    BY <1>1, <1>2, <1>5, <2>1, <2>2, PushedBooks, LogType
<1>7. ASSUME NEW v \in Users, Focused(Log', v) # NoFocus
      PROVE  v \in toClose'
  <2>1. v # u /\ Focused(Log, v) # NoFocus
    BY <1>2, <1>6, <1>7, FocusedAppend DEF Ignored
  <2> QED
    BY <1>1, <2>1 DEF BooksInv, MemoryInv
<1> QED
  BY <1>1, <1>3, <1>4, <1>5, <1>6, <1>7 DEF BooksInv, MemoryInv

\* One step per action.
LEMMA BooksInvStep ==
    ASSUME ~MayFailLookup, RoomToClose, TypeOK, BooksInv, [Next]_vars
    PROVE  BooksInv'
<1>1. TypeOK' /\ clock \in Nat
  BY TypeOKStep, TimesAreNaturals DEF TypeOK
<1>2. ASSUME NEW u \in Users, NEW type \in Arrivals,
             NEW w \in Windows \cup {NoWindow}, HandleEvent(u, type, w)
      PROVE  BooksInv'
  <2> DEFINE e == Stamped(u, type, w)
  <2>1. /\ job = "idle" /\ proc' # "closing" /\ UNCHANGED << clock, database >>
        /\ events' = events /\ todo = << >> /\ done = << >> /\ events \o done = events
    BY <1>2, IdleBooks DEF HandleEvent, Ready, database
  <2>2. InTime(events \o Push(e)) /\ NotAfter(events \o Push(e), clock)
    <3>1. e \in TimedEvent /\ e.ts = clock
      BY StampedType, LedgerAssumption DEF TypeOK, Stamped
    <3> QED
      BY <2>1, <3>1, PushedBooks
  <2>3. \/ Len(Push(e)) >= FlushCount /\ BeginFlush(Push(e))
        \/ /\ ~ Len(Push(e)) >= FlushCount
           /\ buffer' = Push(e) /\ UNCHANGED << job, flush >>
    BY <1>2 DEF HandleEvent, LookupFails
  <2> HIDE DEF e
  <2>4. CASE BeginFlush(Push(e))
    BY <2>1, <2>2, <2>4, BegunBooks DEF BooksInv, MemoryInv
  <2>5. CASE ~ Len(Push(e)) >= FlushCount /\ buffer' = Push(e) /\ UNCHANGED << job, flush >>
    <3>1. job' = "idle" /\ todo' = << >> /\ done' = << >> /\ Log' = events \o Push(e)
      BY <2>1, <2>5 DEF flush, Log, Pending
    <3>2. Len(buffer') < FlushCount
      <4>1. Len(buffer') \in Nat
        BY <1>1 DEF TypeOK
      <4> QED
        BY <2>5, <4>1, LedgerAssumption
    <3> QED
      BY <2>1, <2>2, <3>1, <3>2 DEF BooksInv, MemoryInv
  <2> QED
    BY <2>3, <2>4, <2>5
<1>3. CASE FlushTick
  <2>1. /\ job = "idle" /\ proc' # "closing" /\ BeginFlush(buffer)
        /\ UNCHANGED << clock, database >>
    BY <1>3 DEF FlushTick, Ready
  <2> QED
    BY <2>1, BegunBooks, IdleBooks DEF BooksInv, MemoryInv
<1>4. CASE WalkEvent
  <2>1. /\ job = "flushing" /\ job' = job /\ todo # << >> /\ todo' = Tail(todo)
        /\ done' = Append(done, Head(todo)) /\ UNCHANGED << clock, proc, buffer, events >>
    BY <1>4 DEF WalkEvent, memory, database
  <2>2. Log' = Log
    BY <2>1, WalkedLog DEF Log, Pending, TypeOK
  <2> QED
    BY <2>1, <2>2 DEF BooksInv, MemoryInv
<1>5. CASE CommitFlush
  <2>1. /\ job = "flushing" /\ todo = << >> /\ job' = "idle" /\ todo' = << >>
        /\ done' = << >> /\ buffer' = buffer /\ clock' = clock /\ events' = events \o done
    BY <1>5 DEF CommitFlush, EndFlush, memory
  <2>2. events \o done \in Seq(TimedEvent)
    BY LogType
  <2>3. Log' = Log
    <3>1. Pending = << >> /\ Pending' = << >>
      BY <2>1 DEF Pending, BooksInv, MemoryInv
    <3>2. Log = events \o done /\ Log' = ((events \o done) \o << >>) \o << >>
      BY <2>1, <2>2, <3>1, ConcatEmptySeq DEF Log
    <3> QED
      BY <2>2, <3>2, ConcatEmptySeq
  <2> QED
    BY <2>1, <2>3 DEF BooksInv, MemoryInv
<1>6. CASE FailFlush
  <2>1. /\ job' = "idle" /\ todo' = << >> /\ done' = << >> /\ job = "flushing"
        /\ buffer' = buffer /\ UNCHANGED << clock, events >>
    BY <1>6 DEF FailFlush, EndFlush, memory, database
  <2> QED
    BY <2>1, LostBooks DEF BooksInv, MemoryInv
<1>7. CASE Shutdown
  BY <1>1, <1>7, ShutdownBooks
<1>8. ASSUME NEW u \in Users, ShutdownPush(u) PROVE BooksInv'
  BY <1>8, ShutdownPushBooks
<1>9. CASE ShutdownFlush
  <2>1. /\ job = "closing" /\ toClose = {} /\ BeginFlush(buffer)
        /\ UNCHANGED << clock, database >>
    BY <1>9 DEF ShutdownFlush, LookupFails
  <2>2. \A u \in Users : Focused(Log, u) = NoFocus
    BY <2>1 DEF BooksInv, MemoryInv
  <2> QED
    BY <2>1, <2>2, BegunBooks, IdleBooks DEF BooksInv, MemoryInv
<1>10. ASSUME NEW u \in Users, Register(u) \/ Unregister(u) PROVE BooksInv'
  <2>1. /\ job' = job /\ proc' = proc /\ clock' = clock
        /\ UNCHANGED << buffer, todo, done, events, toClose >>
    BY <1>10 DEF Register, Unregister, flush, database
  <2> QED
    BY <1>1, <2>1, QuietBooks
<1>11. CASE Crash \/ Exit
  <2>1. /\ job' = "idle" /\ buffer' = << >> /\ todo' = << >> /\ done' = << >>
        /\ UNCHANGED << clock, events >>
    BY <1>11 DEF Crash, Exit, Die, database
  <2> QED
    BY <2>1, LostBooks
<1>12. CASE Start
  <2>1. /\ job' = job /\ proc' # "closing" /\ clock' = clock
        /\ UNCHANGED << buffer, todo, done, events, toClose >>
    BY <1>12 DEF Start, memory, flush, database
  <2> QED
    BY <1>1, <2>1, QuietBooks
<1>13. CASE Tick
  <2>1. /\ job' = job /\ proc' = proc /\ clock' = clock + 1
        /\ UNCHANGED << buffer, todo, done, events, toClose >>
    BY <1>13 DEF Tick, memory, flush, database
  <2> QED
    BY <1>1, <2>1, QuietBooks
<1>14. CASE UNCHANGED vars
  <2>1. /\ job' = job /\ proc' = proc /\ clock' = clock
        /\ UNCHANGED << buffer, todo, done, events, toClose >>
    BY <1>14 DEF vars, memory, flush, database
  <2> QED
    BY <1>1, <2>1, QuietBooks
<1> QED
  BY <1>2, <1>3, <1>4, <1>5, <1>6, <1>7, <1>8, <1>9, <1>10, <1>11, <1>12, <1>13,
     <1>14 DEF Next

LEMMA BooksInvInit == Init => BooksInv
<1> SUFFICES ASSUME Init PROVE BooksInv
  OBVIOUS
<1>1. Pending = << >> /\ events = << >> /\ done = << >> /\ buffer = << >> /\ todo = << >>
      /\ job = "idle"
  BY DEF Init, Pending
<1>2. Log = << >>
  BY <1>1, ConcatEmptySeq, EmptySeq DEF Log
<1> QED
  BY <1>1, <1>2 DEF BooksInv, MemoryInv, InTime, NotAfter

\* When the flush of a Shutdown commits, nobody is left with an open interval,
\* not even a user whose plugin has gone: for any users, windows and threshold,
\* with crashes and rollbacks at any time, as long as the lookup of the open
\* intervals works and the buffer has room for one more event of every user.
THEOREM BooksAreClosed ==
    ASSUME ~MayFailLookup, RoomToClose
    PROVE  Spec => ShutdownClosesEveryInterval
<1>1. Init => TypeOK /\ BooksInv
  BY TypeOKInit, BooksInvInit
<1>2. TypeOK /\ BooksInv /\ [Next]_vars => TypeOK' /\ BooksInv'
  BY TypeOKStep, BooksInvStep
<1>3. TypeOK /\ BooksInv =>
          (proc = "closing" /\ CommitFlush => \A u \in Users : Focused(events', u) = NoFocus)
  <2> SUFFICES ASSUME TypeOK, BooksInv, proc = "closing", CommitFlush
               PROVE  \A u \in Users : Focused(events', u) = NoFocus
    OBVIOUS
  <2>1. job = "flushing" /\ todo = << >> /\ events' = events \o done
    BY DEF CommitFlush
  <2>2. Log = events \o done
    BY <2>1, LogType, ConcatEmptySeq DEF Log, Pending
  <2> QED
    BY <2>1, <2>2 DEF BooksInv, MemoryInv
<1> QED
  BY <1>1, <1>2, <1>3, PTL DEF Spec, ShutdownClosesEveryInterval

-----------------------------------------------------------------------------
(* No event is forgotten *)

\* Nothing of a log is dropped, moved or changed in a later one.
Kept(log, later) ==
    Len(log) <= Len(later) /\ \A i \in DOMAIN log : later[i] = log[i]

LEMMA KeptSame == ASSUME NEW log \in Seq(TimedEvent) PROVE Kept(log, log)
<1>1. Len(log) \in Nat
  BY LenProperties
<1> QED
  BY <1>1 DEF Kept

LEMMA KeptPushed ==
    ASSUME TypeOK, NEW e \in TimedEvent
    PROVE  Kept(events \o buffer, events \o Push(e))
<1>1. events \in Seq(TimedEvent) /\ buffer \in Seq(TimedEvent)
      /\ events \o buffer \in Seq(TimedEvent)
  BY ConcatProperties DEF TypeOK
<1>2. CASE Push(e) = buffer
  BY <1>1, <1>2, KeptSame
<1>3. CASE Push(e) = Append(buffer, e)
  <2>1. << e >> \in Seq(TimedEvent) /\ Append(buffer, e) = buffer \o << e >>
    BY <1>1, AppendIsConcat
  <2>2. events \o Append(buffer, e) = Append(events \o buffer, e)
    BY <1>1, <2>1, AppendIsConcat, ConcatAssociative
  <2>3. /\ Len(events \o buffer) \in Nat
        /\ DOMAIN (events \o buffer) = 1 .. Len(events \o buffer)
        /\ Len(Append(events \o buffer, e)) = Len(events \o buffer) + 1
        /\ \A i \in 1 .. Len(events \o buffer) :
              Append(events \o buffer, e)[i] = (events \o buffer)[i]
    BY <1>1, AppendProperties, LenProperties
  <2> QED
    BY <1>3, <2>2, <2>3 DEF Kept
<1> QED
  BY <1>2, <1>3 DEF Push

LEMMA AcceptedIs ==
    ASSUME TypeOK, MemoryInv
    PROVE  /\ Accepted \in Seq(TimedEvent)
           /\ Accepted = IF job = "flushing" THEN (events \o done) \o todo
                         ELSE events \o buffer
<1>1. /\ events \in Seq(TimedEvent) /\ buffer \in Seq(TimedEvent)
      /\ (events \o done) \o todo \in Seq(TimedEvent)
      /\ events \o buffer \in Seq(TimedEvent)
  BY ConcatProperties DEF TypeOK
<1>2. CASE job = "flushing"
  <2>1. Accepted = ((events \o done) \o todo) \o << >>
    BY <1>2 DEF Accepted, MemoryInv
  <2> QED
    BY <1>1, <1>2, <2>1, ConcatEmptySeq
<1>3. CASE job # "flushing"
  <2>1. Accepted = ((events \o << >>) \o << >>) \o buffer
    BY <1>3 DEF Accepted, MemoryInv
  <2> QED
    BY <1>1, <1>3, <2>1, ConcatEmptySeq
<1> QED
  BY <1>2, <1>3

\* A flush that begins with all that is in memory, or with one event more.
LEMMA AcceptedBegun ==
    ASSUME TypeOK, NEW drained \in Seq(TimedEvent), BeginFlush(drained),
           UNCHANGED database
    PROVE  MemoryInv' /\ Accepted' = events \o drained
<1>1. /\ job' = "flushing" /\ buffer' = << >> /\ todo' = drained /\ done' = << >>
      /\ events' = events
  BY DEF BeginFlush, database
<1>2. events \in Seq(TimedEvent) /\ events \o drained \in Seq(TimedEvent)
  BY ConcatProperties DEF TypeOK
<1>3. Accepted' = ((events \o << >>) \o drained) \o << >>
  BY <1>1 DEF Accepted
<1> QED
  BY <1>1, <1>2, <1>3, ConcatEmptySeq DEF MemoryInv

LEMMA LossLosesMemory ==
    ASSUME TypeOK, MemoryInv, Crash \/ Exit \/ FailFlush
    PROVE  MemoryInv' /\ Accepted' = events
<1>1. /\ job' = "idle" /\ buffer' = << >> /\ todo' = << >> /\ done' = << >>
      /\ events' = events
  <2>1. CASE Crash \/ Exit
    BY <2>1 DEF Crash, Exit, Die, database
  <2>2. CASE FailFlush
    BY <2>2 DEF FailFlush, EndFlush, memory, database, MemoryInv
  <2> QED
    BY <2>1, <2>2
<1>2. MemoryInv' /\ Accepted' = ((events \o << >>) \o << >>) \o << >>
  BY <1>1 DEF MemoryInv, Accepted
<1>3. events \in Seq(TimedEvent) /\ events \o << >> = events
  BY ConcatEmptySeq DEF TypeOK
<1> QED
  BY <1>2, <1>3

\* One step per action.
LEMMA MemoryStep ==
    ASSUME TypeOK, MemoryInv, [Next]_vars, ~(Crash \/ Exit \/ FailFlush)
    PROVE  MemoryInv' /\ Kept(Accepted, Accepted')
<1> DEFINE Goal == MemoryInv' /\ Kept(Accepted, Accepted')
<1>1. events \in Seq(TimedEvent) /\ buffer \in Seq(TimedEvent)
      /\ Accepted \in Seq(TimedEvent) /\ Kept(Accepted, Accepted)
  BY AcceptedIs, KeptSame DEF TypeOK
\* An event that is pushed, whether or not a flush begins with it.
<1>2. ASSUME NEW e \in TimedEvent, job # "flushing", UNCHANGED database,
             \/ BeginFlush(Push(e))
             \/ /\ job' # "flushing" /\ buffer' = Push(e)
                /\ UNCHANGED << todo, done >>
      PROVE  Goal
  <2>1. Accepted = events \o buffer /\ Push(e) \in Seq(TimedEvent)
    BY <1>1, <1>2, AcceptedIs, AppendProperties DEF Push
  <2>2. CASE BeginFlush(Push(e))
    BY <1>2, <2>1, <2>2, AcceptedBegun, KeptPushed
  <2>3. CASE /\ job' # "flushing" /\ buffer' = Push(e)
             /\ UNCHANGED << todo, done >>
    <3>1. MemoryInv' /\ events' = events
      BY <1>2, <2>3 DEF MemoryInv, database
    <3>2. Accepted' = ((events \o << >>) \o << >>) \o Push(e)
      BY <1>2, <2>3, <3>1 DEF MemoryInv, Accepted
    <3>3. events \o << >> = events
      BY <1>1, ConcatEmptySeq
    <3> QED
      BY <2>1, <3>1, <3>2, <3>3, KeptPushed
  <2> QED
    BY <1>2, <2>2, <2>3
<1>3. ASSUME BeginFlush(buffer), job # "flushing", UNCHANGED database PROVE Goal
  BY <1>1, <1>3, AcceptedBegun, AcceptedIs
<1>4. ASSUME UNCHANGED << todo, done, buffer, events >>,
             job' = job \/ (job # "flushing" /\ job' # "flushing")
      PROVE  Goal
  <2>1. MemoryInv' /\ Accepted' = Accepted
    BY <1>4 DEF MemoryInv, Accepted
  <2> QED
    BY <1>1, <2>1
<1>5. ASSUME NEW u \in Users, NEW type \in Arrivals, NEW w \in Windows \cup {NoWindow},
             HandleEvent(u, type, w)
      PROVE  Goal
  <2>1. Stamped(u, type, w) \in TimedEvent
    BY StampedType, LedgerAssumption DEF TypeOK
  <2>2. /\ job = "idle" /\ UNCHANGED database
        /\ \/ BeginFlush(Push(Stamped(u, type, w)))
           \/ /\ job' = "idle" /\ buffer' = Push(Stamped(u, type, w))
              /\ UNCHANGED << todo, done >>
    BY <1>5 DEF HandleEvent, Ready, LookupFails, flush
  <2> QED
    BY <1>2, <2>1, <2>2
<1>6. CASE FlushTick
  BY <1>3, <1>6 DEF FlushTick, Ready
<1>7. CASE WalkEvent
  <2>1. /\ job = "flushing" /\ job' = job /\ todo # << >> /\ todo' = Tail(todo)
        /\ done' = Append(done, Head(todo)) /\ UNCHANGED << buffer, events >>
    BY <1>7 DEF WalkEvent, memory, database
  <2>2. MemoryInv' /\ Accepted' = Accepted
    BY <2>1, WalkedLog DEF MemoryInv, Accepted, TypeOK
  <2> QED
    BY <1>1, <2>2
<1>8. CASE CommitFlush
  <2>1. /\ job = "flushing" /\ todo = << >> /\ job' = "idle" /\ todo' = << >>
        /\ done' = << >> /\ buffer' = buffer /\ events' = events \o done
    BY <1>8 DEF CommitFlush, EndFlush, memory
  <2>2. MemoryInv' /\ buffer = << >> /\ events \o done \in Seq(TimedEvent)
    BY <2>1, LogType DEF MemoryInv
  <2>3. /\ Accepted = ((events \o done) \o << >>) \o << >>
        /\ Accepted' = (((events \o done) \o << >>) \o << >>) \o << >>
    BY <2>1, <2>2 DEF Accepted
  <2>4. (events \o done) \o << >> = events \o done
    BY <2>2, ConcatEmptySeq
  <2>5. Accepted' = Accepted
    BY <2>3, <2>4
  <2> QED
    BY <1>1, <2>2, <2>5
<1>9. CASE FailFlush
  BY <1>9
<1>10. CASE Shutdown
  BY <1>4, <1>10 DEF Shutdown, Ready, flush, database
<1>11. ASSUME NEW u \in Users, ShutdownPush(u) PROVE Goal
  <2>1. Stamped(u, "ShutDown", NoWindow) \in TimedEvent
    BY StampedType DEF TypeOK, EventType, Close
  <2>2. /\ job = "closing" /\ job' = "closing" /\ UNCHANGED << todo, done, database >>
        /\ buffer' = Push(Stamped(u, "ShutDown", NoWindow))
    BY <1>11 DEF ShutdownPush, flush
  <2> QED
    BY <1>2, <2>1, <2>2
<1>12. CASE ShutdownFlush
  <2>1. CASE BeginFlush(buffer)
    BY <1>3, <1>12, <2>1 DEF ShutdownFlush
  <2>2. CASE LookupFails(buffer)
    BY <1>4, <1>12, <2>2 DEF ShutdownFlush, LookupFails, flush, database
  <2> QED
    BY <1>12, <2>1, <2>2 DEF ShutdownFlush
<1>13. ASSUME NEW u \in Users, Register(u) \/ Unregister(u) PROVE Goal
  BY <1>4, <1>13 DEF Register, Unregister, flush, database
<1>14. CASE Crash \/ Exit
  BY <1>14
<1>15. CASE Start
  BY <1>4, <1>15 DEF Start, memory, flush, database
<1>16. CASE Tick
  BY <1>4, <1>16 DEF Tick, memory, flush, database
<1>17. CASE UNCHANGED vars
  BY <1>4, <1>17 DEF vars, memory, flush, database
<1> QED
  BY <1>5, <1>6, <1>7, <1>8, <1>9, <1>10, <1>11, <1>12, <1>13, <1>14, <1>15, <1>16,
     <1>17 DEF Next

\* An event that was accepted stays where it is in the order of arrival until
\* it is in the table; only a death or a rollback loses any, and then none of
\* the table: for any users, events, thresholds and failures.
THEOREM NoEventIsForgotten == Spec => OnlyFailuresLoseEvents
<1>1. Init => TypeOK /\ MemoryInv
  BY TypeOKInit DEF Init, MemoryInv
<1>2. TypeOK /\ MemoryInv /\ [Next]_vars => TypeOK' /\ MemoryInv'
  BY TypeOKStep, MemoryStep, LossLosesMemory
<1>3. TypeOK /\ MemoryInv /\ [Next]_vars =>
          [IF Crash \/ Exit \/ FailFlush
           THEN Accepted' = events
           ELSE /\ Len(Accepted) <= Len(Accepted')
                /\ \A i \in DOMAIN Accepted : Accepted'[i] = Accepted[i]]_vars
  BY MemoryStep, LossLosesMemory DEF Kept
<1> QED
  BY <1>1, <1>2, <1>3, PTL DEF Spec, OnlyFailuresLoseEvents

-----------------------------------------------------------------------------
(* The meter after a log *)

\* The meters a fold passes through.
Passed(t, m, log) ==
    /\ DOMAIN t = 0 .. Len(log) /\ t[0] = m
    /\ \A i \in 1 .. Len(log) : t[i] = Value!Observed(t[i - 1], log[i])

Step(g, m, log, s) == IF s = {} THEN m ELSE Value!Observed(g[s \ {Max(s)}], log[Max(s)])
Iterates(g, m, log, n) == g = [s \in SUBSET (1 .. n) |-> Step(g, m, log, s)]

LEMMA IterateExists ==
    ASSUME NEW m, NEW log, NEW n \in Nat
    PROVE  \E g : Iterates(g, m, log, n)
<1> DEFINE P == {k \in Nat : \E g : Iterates(g, m, log, k)}
<1>1. 0 \in P
  <2> DEFINE g == [s \in SUBSET (1 .. 0) |-> m]
  <2>1. \A s \in SUBSET (1 .. 0) : s = {}
    OBVIOUS
  <2>2. g = [s \in SUBSET (1 .. 0) |-> Step(g, m, log, s)]
    BY <2>1 DEF Step
  <2> QED
    BY <2>2 DEF Iterates
<1>2. ASSUME NEW k \in Nat, k \in P PROVE k + 1 \in P
  <2>1. PICK g : Iterates(g, m, log, k)
    BY <1>2
  <2> DEFINE h == [s \in SUBSET (1 .. k + 1) |-> Step(g, m, log, s)]
  <2>2. ASSUME NEW s \in SUBSET (1 .. k + 1), s # {}
        PROVE  h[s \ {Max(s)}] = g[s \ {Max(s)}]
    <3>1. s \ {Max(s)} \in SUBSET (1 .. k) /\ s \ {Max(s)} \in SUBSET (1 .. k + 1)
      BY MaxOut
    <3> DEFINE r == s \ {Max(s)}
    <3> HIDE DEF r
    <3>2. g[r] = Step(g, m, log, r)
      BY <2>1, <3>1 DEF Iterates, r
    <3>3. h[r] = Step(g, m, log, r)
      BY <3>1 DEF r
    <3> QED
      BY <3>2, <3>3 DEF r
  <2>3. \A s \in SUBSET (1 .. k + 1) : h[s] = Step(h, m, log, s)
    <3> TAKE s \in SUBSET (1 .. k + 1)
    <3>1. h[s] = Step(g, m, log, s)
      OBVIOUS
    <3> HIDE DEF h
    <3> QED
      BY <2>2, <3>1 DEF Step
  <2>4. h = [s \in SUBSET (1 .. k + 1) |-> Step(h, m, log, s)]
    <3>1. h = [s \in SUBSET (1 .. k + 1) |-> h[s]]
      OBVIOUS
    <3> HIDE DEF h
    <3> QED
      BY <2>3, <3>1
  <2>5. \E f : Iterates(f, m, log, k + 1)
    <3> HIDE DEF h
    <3> QED
      BY <2>4 DEF Iterates
  <2> QED
    BY <2>5
<1> HIDE DEF P
<1>3. 0 .. n \subseteq P
  BY <1>1, <1>2, Induction
<1> QED
  BY <1>3 DEF P

\* The fold passes through the meters after each of its events.
LEMMA FoldPasses ==
    ASSUME NEW m, NEW log \in Seq(TimedEvent)
    PROVE  \E t : Passed(t, m, log) /\ FoldLeft(Value!Observed, m, log) = t[Len(log)]
<1> DEFINE n == Len(log)
<1>1. n \in Nat /\ DOMAIN log = 1 .. n
  BY LenProperties
<1>2. FoldLeft(Value!Observed, m, log) =
        (CHOOSE g : g = [s \in SUBSET DOMAIN log |->
                            IF s = {} THEN m
                            ELSE Value!Observed(g[s \ {Max(s)}], log[Max(s)])])[DOMAIN log]
  BY Zenon DEF FoldLeft, MapThenFoldSet
<1>3. FoldLeft(Value!Observed, m, log) = (CHOOSE g : Iterates(g, m, log, n))[DOMAIN log]
  BY <1>1, <1>2, Zenon DEF Iterates, Step
<1>4. PICK g : g = CHOOSE h : Iterates(h, m, log, n)
  OBVIOUS
<1>5. Iterates(g, m, log, n)
  BY <1>1, <1>4, IterateExists, Zenon
<1>6. FoldLeft(Value!Observed, m, log) = g[1 .. n]
  BY <1>1, <1>3, <1>4, Zenon
<1> DEFINE t == [i \in 0 .. n |-> g[1 .. i]]
<1>7. t[0] = m
  <2>1. 0 \in 0 .. n /\ 1 .. 0 = {} /\ {} \in SUBSET (1 .. n)
    BY <1>1
  <2> QED
    BY <1>5, <2>1 DEF Iterates, Step
<1>8. ASSUME NEW i \in 1 .. n PROVE t[i] = Value!Observed(t[i - 1], log[i])
  <2>1. /\ i \in 0 .. n /\ i - 1 \in 0 .. n /\ i - 1 \in Nat /\ (i - 1) + 1 = i
        /\ 1 .. i \in SUBSET (1 .. n) /\ i \in 1 .. i
    BY <1>1
  <2>2. Max(1 .. i) = i
    BY <2>1, MaxOut
  <2>3. (1 .. i) \ {i} = 1 .. i - 1 /\ 1 .. i # {}
    <3>1. \A x : x \in (1 .. i) \ {i} <=> x \in 1 .. i - 1
      BY <2>1
    <3> QED
      BY <2>1, <3>1
  <2>4. g[1 .. i] = Value!Observed(g[1 .. i - 1], log[i])
    BY <1>5, <2>1, <2>2, <2>3 DEF Iterates, Step
  <2> QED
    BY <2>1, <2>4
<1>9. t[n] = g[1 .. n]
  BY <1>1
<1> QED
  BY <1>1, <1>6, <1>7, <1>8, <1>9 DEF Passed

\* There is only one way through.
LEMMA FoldIs ==
    ASSUME NEW m, NEW log \in Seq(TimedEvent), NEW t, Passed(t, m, log)
    PROVE  FoldLeft(Value!Observed, m, log) = t[Len(log)]
<1>1. PICK f : Passed(f, m, log) /\ FoldLeft(Value!Observed, m, log) = f[Len(log)]
  BY FoldPasses
<1> DEFINE n == Len(log)
           P == {i \in Nat : f[i] = t[i]}
<1>2. n \in Nat
  BY LenProperties
<1>3. 0 \in P
  BY <1>1 DEF Passed
<1>4. ASSUME NEW i \in 0 .. n, i \in P, i < n PROVE i + 1 \in P
  <2>1. i + 1 \in 1 .. n /\ (i + 1) - 1 = i
    BY <1>2, <1>4
  <2>2. f[i + 1] = Value!Observed(f[i], log[i + 1])
        /\ t[i + 1] = Value!Observed(t[i], log[i + 1])
    BY <1>1, <2>1 DEF Passed
  <2> QED
    BY <1>4, <2>1, <2>2
<1>5. 0 .. n \subseteq P
  <2> HIDE DEF P, n
  <2> QED
    BY <1>2, <1>3, <1>4, Induction
<1> QED
  BY <1>1, <1>2, <1>5

LEMMA FoldNothing == ASSUME NEW m PROVE FoldLeft(Value!Observed, m, << >>) = m
<1>1. << >> \in Seq(TimedEvent) /\ Len(<< >>) = 0
  OBVIOUS
<1>2. PICK t : Passed(t, m, << >>) /\ FoldLeft(Value!Observed, m, << >>) = t[Len(<< >>)]
  BY <1>1, FoldPasses
<1>3. t[0] = m
  BY <1>2 DEF Passed
<1> QED
  BY <1>1, <1>2, <1>3

\* One more event at the end, and one less at the beginning.
LEMMA FoldAppend ==
    ASSUME NEW m, NEW log \in Seq(TimedEvent), NEW e \in TimedEvent
    PROVE  FoldLeft(Value!Observed, m, Append(log, e)) =
               Value!Observed(FoldLeft(Value!Observed, m, log), e)
<1> DEFINE n == Len(log)
           longer == Append(log, e)
<1>1. /\ n \in Nat /\ longer \in Seq(TimedEvent) /\ Len(longer) = n + 1 /\ longer[n + 1] = e
      /\ \A i \in 1 .. n : longer[i] = log[i]
  BY AppendProperties, LenProperties
<1>2. PICK t : Passed(t, m, log) /\ FoldLeft(Value!Observed, m, log) = t[n]
  BY FoldPasses
<1> DEFINE r == [i \in 0 .. n + 1 |-> IF i = n + 1 THEN Value!Observed(t[n], e) ELSE t[i]]
<1> HIDE DEF longer
<1>3. Passed(r, m, longer)
  <2>1. DOMAIN r = 0 .. Len(longer) /\ r[0] = m
    BY <1>1, <1>2 DEF Passed
  <2>2. ASSUME NEW i \in 1 .. Len(longer) PROVE r[i] = Value!Observed(r[i - 1], longer[i])
    <3>1. CASE i = n + 1
      BY <1>1, <3>1
    <3>2. CASE i # n + 1
      <4>1. i \in 1 .. n /\ i \in 0 .. n + 1 /\ i - 1 \in 0 .. n + 1 /\ i - 1 # n + 1
        BY <1>1, <3>2
      <4>2. t[i] = Value!Observed(t[i - 1], log[i])
        BY <1>2, <4>1 DEF Passed
      <4> QED
        BY <1>1, <3>2, <4>1, <4>2
    <3> QED
      BY <3>1, <3>2
  <2> HIDE DEF r
  <2> QED
    BY <2>1, <2>2 DEF Passed
<1>4. r[n + 1] = Value!Observed(t[n], e)
  BY <1>1
<1> HIDE DEF r
<1>5. FoldLeft(Value!Observed, m, longer) = r[n + 1]
  BY <1>1, <1>3, FoldIs
<1> QED
  BY <1>2, <1>4, <1>5 DEF longer

LEMMA FoldHead ==
    ASSUME NEW m, NEW log \in Seq(TimedEvent), log # << >>
    PROVE  FoldLeft(Value!Observed, m, log) =
               FoldLeft(Value!Observed, Value!Observed(m, Head(log)), Tail(log))
<1> DEFINE n == Len(log)
<1>1. /\ n \in Nat /\ n > 0 /\ Tail(log) \in Seq(TimedEvent) /\ Len(Tail(log)) = n - 1
      /\ Head(log) = log[1] /\ \A i \in 1 .. n - 1 : Tail(log)[i] = log[i + 1]
  BY HeadTailProperties, LenProperties, EmptySeq
<1>2. PICK t : Passed(t, m, log) /\ FoldLeft(Value!Observed, m, log) = t[n]
  BY FoldPasses
<1> DEFINE r == [i \in 0 .. n - 1 |-> t[i + 1]]
<1>3. Passed(r, Value!Observed(m, Head(log)), Tail(log))
  <2>1. DOMAIN r = 0 .. Len(Tail(log)) /\ r[0] = Value!Observed(m, Head(log))
    <3>1. t[1] = Value!Observed(t[0], log[1]) /\ t[0] = m
      <4>1. 1 \in 1 .. Len(log) /\ 1 - 1 = 0
        BY <1>1
      <4> QED
        BY <1>2, <4>1 DEF Passed
    <3> QED
      BY <1>1, <3>1
  <2>2. ASSUME NEW i \in 1 .. Len(Tail(log)) PROVE r[i] = Value!Observed(r[i - 1], Tail(log)[i])
    <3>1. /\ i + 1 \in 1 .. n /\ (i + 1) - 1 = i /\ i \in 0 .. n - 1 /\ i - 1 \in 0 .. n - 1
          /\ (i - 1) + 1 = i /\ i \in 1 .. n - 1
      BY <1>1
    <3>2. t[i + 1] = Value!Observed(t[i], log[i + 1])
      BY <1>2, <3>1 DEF Passed
    <3> QED
      BY <1>1, <3>1, <3>2
  <2> HIDE DEF r
  <2> QED
    BY <2>1, <2>2 DEF Passed
<1>4. r[n - 1] = t[n]
  BY <1>1
<1> HIDE DEF r
<1>5. FoldLeft(Value!Observed, Value!Observed(m, Head(log)), Tail(log)) = r[n - 1]
  BY <1>1, <1>3, FoldIs
<1> QED
  BY <1>2, <1>4, <1>5

-----------------------------------------------------------------------------
(* The ledger implements the meter *)

\* The instances of the meter speak of the ledger's constants and days.
LEMMA SameMeters ==
    /\ \A a, b, d : Value!Overlap(a, b, d) = Overlap(a, b, d)
    /\ \A m, e : Meter!Observed(m, e) = Value!Observed(m, e)
    /\ Value!Days = Days /\ Meter!Days = Days /\ Meter!Time = Time
    /\ Meter!Windowed = Windowed /\ Meter!EventType = EventType
    /\ Value!Ignored = Ignored
<1>1. \A a, b, d : Value!Overlap(a, b, d) = Overlap(a, b, d)
                  /\ Meter!Overlap(a, b, d) = Overlap(a, b, d)
  BY DEF Value!Overlap, Meter!Overlap, Overlap, Value!DayStart, Meter!DayStart, DayStart
<1>2. Value!Days = Days /\ Meter!Days = Days /\ Meter!Time = Time
  BY DEF Value!Days, Meter!Days, Days, Meter!Time, Time, Value!DayOf, Meter!DayOf, DayOf
<1>3. /\ Meter!Windowed = Windowed /\ Meter!EventType = EventType
      /\ Value!Ignored = Ignored /\ Meter!Ignored = Ignored
  BY DEF Meter!Windowed, Windowed, Meter!EventType, EventType, Value!Ignored,
         Meter!Ignored, Ignored
<1>4. \A m, e : Meter!Observed(m, e) = Value!Observed(m, e)
  BY DEF Meter!Observed, Value!Observed, Meter!Overlap, Value!Overlap, Meter!DayStart,
         Value!DayStart, Meter!Days, Value!Days, Meter!DayOf, Value!DayOf,
         Meter!Ignored, Value!Ignored
<1> QED
  BY <1>1, <1>2, <1>3, <1>4

Seeds == \A u \in Users : Seed(u) = Focused(events, u)
Saved(log, spent) == [cur |-> [u \in Users |-> Focused(log, u)], spent |-> spent]

LEMMA SeedsAreFocused == LedgerInv => Seeds
<1> SUFFICES ASSUME LedgerInv PROVE Seeds
  OBVIOUS
<1>1. /\ events \in Seq(TimedEvent) /\ done \in Seq(TimedEvent)
      /\ events \o done \in Seq(TimedEvent) /\ Pending \in Seq(TimedEvent)
  BY LogType DEF LedgerInv, TypeOK
<1>2. Ordered(events \o done)
  BY <1>1, OrderedPrefix DEF LedgerInv, LogInv, Log
<1>3. Ordered(events)
  BY <1>1, <1>2, OrderedPrefix
<1> QED
  BY <1>1, <1>3, SeedIsFocused DEF Seeds

LEMMA DurableIs == ASSUME Seeds PROVE Durable = Saved(events, closed)
BY DEF Seeds, Durable, Saved

\* What is in memory, and the meter that has seen it.
Unwalked == todo \o buffer
LEMMA UnwalkedIs ==
    ASSUME LedgerInv
    PROVE  /\ job = "flushing" => Unwalked = todo /\ buffer = << >>
           /\ job # "flushing" => Unwalked = buffer /\ todo = << >>
           /\ Unwalked \in Seq(TimedEvent)
           /\ Live = FoldLeft(Value!Observed, Walked, Unwalked)
<1>1. todo \in Seq(TimedEvent) /\ buffer \in Seq(TimedEvent)
  BY DEF LedgerInv, TypeOK
<1>2. Unwalked \in Seq(TimedEvent)
  BY <1>1, ConcatProperties DEF Unwalked
<1>3. todo \o << >> = todo /\ << >> \o buffer = buffer
  BY <1>1, ConcatEmptySeq
<1>4. /\ job = "flushing" => buffer = << >>
      /\ job # "flushing" => todo = << >>
  BY DEF LedgerInv, LogInv
<1> QED
  BY <1>2, <1>3, <1>4 DEF Unwalked, Live

Stutter == UNCHANGED << Live, Durable >>

\* Neither tables nor events in memory change.
LEMMA QuietMeter ==
    ASSUME LedgerInv, Seeds, Seeds', UNCHANGED << buffer, flush, database >>,
           job' = job \/ (job # "flushing" /\ job' # "flushing")
    PROVE  Stutter
<1>1. /\ buffer' = buffer /\ todo' = todo /\ focus' = focus /\ delta' = delta
      /\ events' = events /\ closed' = closed /\ (job' = "flushing") = (job = "flushing")
  BY DEF flush, database
<1>2. Durable' = Durable
  <2>1. Durable' = Saved(events', closed')
    BY DEF Seeds, Durable, Saved
  <2> QED
    BY <1>1, <2>1, DurableIs
<1>3. Walked' = Walked
  BY <1>1, <1>2 DEF Walked
<1> QED
  BY <1>1, <1>2, <1>3 DEF Live, Stutter

\* A flush begins: the meter is that of what it drained.
LEMMA BeginMeter ==
    ASSUME LedgerInv, Seeds, Seeds', job # "flushing", NEW drained \in Seq(TimedEvent),
           BeginFlush(drained), UNCHANGED database
    PROVE  /\ Durable' = Durable
           /\ Live' = FoldLeft(Value!Observed, Durable, drained)
<1>1. /\ job' = "flushing" /\ buffer' = << >> /\ todo' = drained /\ delta' = Nothing
      /\ events' = events /\ closed' = closed
      /\ focus' = [u \in Users |-> IF u \in FlushedUids(drained) THEN Seed(u) ELSE NoFocus]
  BY DEF BeginFlush, database
<1>2. Durable' = Durable /\ Durable = Saved(events, closed)
  <2>1. Durable' = Saved(events', closed')
    BY DEF Seeds, Durable, Saved
  <2> QED
    BY <1>1, <2>1, DurableIs
<1>3. focus' = [u \in Users |-> Focused(events, u)]
  <2>1. \A u \in Users : focus'[u] = Focused(events, u)
    BY FlushedFocus
  <2> QED
    BY <1>1, <2>1
<1>4. [u \in Users |-> [k \in Keys |-> [d \in Days |-> closed[u][k][d] + Nothing[u][k][d]]]]
        = closed
  <2>1. closed \in [Users -> [Keys -> [Days -> Nat]]]
    BY DEF LedgerInv, TypeOK, Tally
  <2>2. \A u \in Users, k \in Keys, d \in Days : closed[u][k][d] + Nothing[u][k][d] = closed[u][k][d]
    BY <2>1 DEF Nothing
  <2> QED
    BY <2>1, <2>2
<1>5. Walked' = Saved(events, closed)
  <2>1. Walked' = [cur |-> focus', spent |-> [u \in Users |-> [k \in Keys |-> [d \in Days |->
                        closed'[u][k][d] + delta'[u][k][d]]]]]
    BY <1>1 DEF Walked
  <2>2. Walked' = [cur |-> focus', spent |-> closed]
    BY <1>1, <1>4, <2>1
  <2> QED
    BY <1>3, <2>2 DEF Saved
<1>6. Live' = FoldLeft(Value!Observed, Walked', drained \o << >>)
  BY <1>1 DEF Live
<1> QED
  BY <1>2, <1>5, <1>6, ConcatEmptySeq

\* While no flush runs, the buffer changes.
LEMMA BufferMeter ==
    ASSUME LedgerInv, Seeds, Seeds', job # "flushing", job' # "flushing",
           buffer' \in Seq(TimedEvent), UNCHANGED << flush, database >>
    PROVE  /\ Durable' = Durable
           /\ Live' = FoldLeft(Value!Observed, Durable, buffer')
<1>1. todo' = << >> /\ events' = events /\ closed' = closed
  BY UnwalkedIs DEF flush, database
<1>2. Durable' = Durable
  <2>1. Durable' = Saved(events', closed')
    BY DEF Seeds, Durable, Saved
  <2> QED
    BY <1>1, <2>1, DurableIs
<1>3. Live' = FoldLeft(Value!Observed, Walked', << >> \o buffer') /\ Walked' = Durable'
  BY <1>1 DEF Live, Walked
<1> QED
  BY <1>2, <1>3, ConcatEmptySeq

\* An event that is stamped now is observed by the meter, or by nobody.
LEMMA PushedMeter ==
    ASSUME LedgerInv, job # "flushing",
           NEW u \in Users, NEW type \in EventType, NEW w \in Windows \cup {NoWindow},
           type \in Windowed <=> w # NoWindow, Durable' = Durable,
           Live' = FoldLeft(Value!Observed, Durable, Push(Stamped(u, type, w)))
    PROVE  Meter!Next \/ Stutter
<1> DEFINE e == Stamped(u, type, w)
<1>1. e \in TimedEvent /\ buffer \in Seq(TimedEvent) /\ clock \in Time
  BY StampedType DEF LedgerInv, TypeOK
<1>2. Live = FoldLeft(Value!Observed, Durable, buffer)
  BY UnwalkedIs DEF Walked
<1>3. CASE Push(e) = buffer
  BY <1>2, <1>3 DEF Stutter
<1>4. CASE Push(e) = Append(buffer, e)
  <2>1. Live' = Value!Observed(Live, e)
    <3> HIDE DEF e
    <3> QED
      BY <1>1, <1>2, <1>4, FoldAppend DEF e
  <2>2. e = [uid |-> u, type |-> type, win |-> w, ts |-> clock]
    BY DEF Stamped
  <2>3. Live' = Meter!Observed(Live, [uid |-> u, type |-> type, win |-> w, ts |-> clock])
    BY <2>1, <2>2, SameMeters
  <2>4. Meter!Observe(u, type, w, clock)
    BY <2>3, SameMeters DEF Meter!Observe
  <2> QED
    BY <1>1, <2>4, SameMeters DEF Meter!Next
<1> QED
  BY <1>3, <1>4 DEF Push

\* One iteration of the walk: the meter has seen the event before.
LEMMA WalkMeter ==
    ASSUME LedgerInv, Seeds, Seeds', WalkEvent
    PROVE  Stutter
<1> DEFINE e == Head(todo)
<1>1. /\ job = "flushing" /\ job' = "flushing" /\ todo # << >> /\ buffer = << >>
      /\ todo' = Tail(todo) /\ buffer' = buffer /\ events' = events /\ closed' = closed
  BY UnwalkedIs DEF WalkEvent, memory, database
<1>2. todo \in Seq(TimedEvent) /\ Tail(todo) \in Seq(TimedEvent) /\ e \in TimedEvent
      /\ focus \in [Users -> OpenFocus \cup {NoFocus}]
      /\ delta \in Tally /\ closed \in Tally
  BY <1>1, HeadTailProperties DEF LedgerInv, TypeOK
<1>3. e.uid \in Users /\ e.type \in EventType /\ e.ts \in Nat
  BY <1>2, TimesAreNaturals DEF TimedEvent
<1>4. Durable' = Durable
  <2>1. Durable' = Saved(events', closed')
    BY DEF Seeds, Durable, Saved
  <2> QED
    BY <1>1, <2>1, DurableIs
<1>5. Walked' = Value!Observed(Walked, e)
  <2>1. CASE e.type \in Ignored
    <3>1. focus' = focus /\ delta' = delta
      BY <2>1 DEF WalkEvent, Ignored, Close
    <3> QED
      BY <1>1, <2>1, <3>1, SameMeters DEF Walked, Value!Observed
  <2>2. CASE e.type \notin Ignored
    <3>1. /\ focus' = [focus EXCEPT ![e.uid] = IF e.type = "Focus" THEN AsFocus(e) ELSE NoFocus]
          /\ CloseInterval(e.uid, focus[e.uid], e.ts)
      BY <2>2 DEF WalkEvent, Close, Ignored
    <3> DEFINE was == focus[e.uid]
               sum == [u \in Users |-> [k \in Keys |-> [d \in Days |->
                          closed[u][k][d] + delta[u][k][d]]]]
               earned(k, d) == IF was # NoFocus /\ k \in KeysOf[was.win]
                               THEN Overlap(was.ts, e.ts, d) ELSE 0
               more == [sum EXCEPT ![e.uid] = [k \in Keys |-> [d \in Days |->
                          sum[e.uid][k][d] + earned(k, d)]]]
               sum2 == [u \in Users |-> [k \in Keys |-> [d \in Days |->
                          closed[u][k][d] + delta'[u][k][d]]]]
    <3>2. more = sum2
      <4>1. ASSUME NEW u \in Users, NEW k \in Keys, NEW d \in Days
            PROVE  more[u][k][d] = sum2[u][k][d]
        <5>1. closed[u][k][d] \in Nat /\ delta[u][k][d] \in Nat
          BY <1>2 DEF Tally
        <5>2. earned(k, d) = Share(was, e.ts, k, d) /\ Share(was, e.ts, k, d) \in Nat
          <6>1. was \in OpenFocus \cup {NoFocus}
            BY <1>2, <1>3
          <6> QED
            BY <1>3, <6>1, ShareType DEF Share
        <5>3. delta'[u][k][d] = IF u = e.uid THEN delta[u][k][d] + Share(was, e.ts, k, d)
                                             ELSE delta[u][k][d]
          BY <1>2, <1>3, <3>1 DEF CloseInterval, Tally
        <5>4. more[u][k][d] = IF u = e.uid THEN sum[u][k][d] + earned(k, d) ELSE sum[u][k][d]
          BY <1>3
        <5>5. sum[u][k][d] = closed[u][k][d] + delta[u][k][d]
              /\ sum2[u][k][d] = closed[u][k][d] + delta'[u][k][d]
          OBVIOUS
        <5> HIDE DEF more, sum, sum2, earned, was
        <5> QED
          BY <5>1, <5>2, <5>3, <5>4, <5>5
      <4>2. /\ more = [u \in Users |-> [k \in Keys |-> [d \in Days |-> more[u][k][d]]]]
            /\ sum2 = [u \in Users |-> [k \in Keys |-> [d \in Days |-> sum2[u][k][d]]]]
        <5>1. sum2 = [u \in Users |-> [k \in Keys |-> [d \in Days |-> sum2[u][k][d]]]]
          OBVIOUS
        <5>2. ASSUME NEW u \in Users
              PROVE  more[u] = [k \in Keys |-> [d \in Days |-> more[u][k][d]]]
          <6>1. CASE u = e.uid
            BY <1>3, <6>1
          <6>2. CASE u # e.uid
            BY <1>3, <6>2
          <6> QED
            BY <6>1, <6>2
        <5>3. more = [u \in Users |-> more[u]]
          OBVIOUS
        <5> HIDE DEF more, sum2
        <5> QED
          BY <5>1, <5>2, <5>3
      <4> HIDE DEF more, sum2
      <4> QED
        BY <4>1, <4>2
    <3>3. Walked = [cur |-> focus, spent |-> sum]
      BY <1>1 DEF Walked
    <3>4. Walked' = [cur |-> focus', spent |-> sum2]
      BY <1>1 DEF Walked
    <3>5. Value!Observed(Walked, e) = [cur |-> focus', spent |-> more]
      <4>1. Walked.cur = focus /\ Walked.spent = sum
        BY <3>3
      <4>2. e.type \notin Value!Ignored
        BY <2>2, SameMeters
      <4>3. Value!Observed(Walked, e) =
              [cur   |-> [focus EXCEPT ![e.uid] = IF e.type = "Focus" THEN AsFocus(e) ELSE NoFocus],
               spent |-> more]
        BY <4>1, <4>2, SameMeters DEF Value!Observed, AsFocus
      <4> HIDE DEF more
      <4> QED
        BY <3>1, <4>3
    <3> QED
      BY <3>2, <3>4, <3>5
  <2> QED
    BY <2>1, <2>2
<1>6. Live' = FoldLeft(Value!Observed, Walked', Tail(todo))
  BY <1>1, <1>2, ConcatEmptySeq DEF Live
<1>7. Live = FoldLeft(Value!Observed, Walked, todo)
  BY <1>1, UnwalkedIs
<1> QED
  BY <1>1, <1>2, <1>4, <1>5, <1>6, <1>7, FoldHead DEF Stutter

\* The commit saves the meter.
LEMMA CommitMeter ==
    ASSUME LedgerInv, Seeds, Seeds', CommitFlush
    PROVE  Meter!Save
<1>1. /\ job = "flushing" /\ todo = << >> /\ buffer = << >> /\ job' # "flushing"
      /\ todo' = << >> /\ buffer' = << >> /\ events' = events \o done
      /\ closed' = [u \in Users |-> [k \in Keys |-> [d \in Days |->
                        closed[u][k][d] + delta[u][k][d]]]]
  BY UnwalkedIs DEF CommitFlush, EndFlush, memory
<1>2. Live = Walked
  BY <1>1, UnwalkedIs, FoldNothing
<1>3. Walked = [cur |-> focus, spent |-> closed']
  BY <1>1 DEF Walked
<1>4. focus = [u \in Users |-> Focused(events', u)]
  <2>1. \A u \in Users : focus[u] = Focused(events', u)
    BY <1>1 DEF LedgerInv, WalkInv
  <2>2. focus = [u \in Users |-> focus[u]]
    BY DEF LedgerInv, TypeOK
  <2> QED
    BY <2>1, <2>2
<1>5. Durable' = Saved(events', closed')
  BY DEF Seeds, Durable, Saved
<1>6. Live' = FoldLeft(Value!Observed, Durable', << >> \o << >>) /\ << >> \o << >> = << >>
  BY <1>1 DEF Live, Walked
<1> QED
  BY <1>2, <1>3, <1>4, <1>5, <1>6, FoldNothing DEF Meter!Save, Saved

\* A rollback or a death goes back to the tables.
LEMMA LossMeter ==
    ASSUME LedgerInv, Seeds, Seeds', job' # "flushing", buffer' = << >>, todo' = << >>,
           UNCHANGED database
    PROVE  Meter!Lose
<1>1. events' = events /\ closed' = closed
  BY DEF database
<1>2. Durable' = Durable
  <2>1. Durable' = Saved(events', closed')
    BY DEF Seeds, Durable, Saved
  <2> QED
    BY <1>1, <2>1, DurableIs
<1>3. Live' = FoldLeft(Value!Observed, Durable', << >> \o << >>) /\ << >> \o << >> = << >>
  BY DEF Live, Walked
<1> QED
  BY <1>2, <1>3, FoldNothing DEF Meter!Lose

\* One step per action.
LEMMA MeterStep ==
    ASSUME LedgerInv, LedgerInv', Seeds, Seeds', [Next]_vars
    PROVE  Meter!Next \/ Stutter
<1>1. /\ Meter!Save => Meter!Next
      /\ Meter!Lose => Meter!Next
  BY DEF Meter!Next
<1>2. buffer \in Seq(TimedEvent) /\ buffer' \in Seq(TimedEvent)
  BY DEF LedgerInv, TypeOK
<1>3. ASSUME NEW u \in Users, NEW type \in Arrivals,
             NEW w \in Windows \cup {NoWindow}, HandleEvent(u, type, w)
      PROVE  Meter!Next \/ Stutter
  <2> DEFINE pushed == Push(Stamped(u, type, w))
  <2>1. /\ job = "idle" /\ type \in EventType /\ (type \in Windowed <=> w # NoWindow)
        /\ UNCHANGED database
    BY <1>3, LedgerAssumption DEF HandleEvent, Ready
  <2>2. pushed \in Seq(TimedEvent)
    BY <2>1, StampedType, PushType DEF LedgerInv, TypeOK
  <2>3. \/ BeginFlush(pushed)
        \/ job' = "idle" /\ buffer' = pushed /\ UNCHANGED flush
    BY <1>3, <2>1 DEF HandleEvent, LookupFails
  <2>4. Durable' = Durable /\ Live' = FoldLeft(Value!Observed, Durable, pushed)
    <3> HIDE DEF pushed
    <3>1. CASE BeginFlush(pushed)
      BY <2>1, <2>2, <3>1, BeginMeter
    <3>2. CASE job' = "idle" /\ buffer' = pushed /\ UNCHANGED flush
      BY <2>1, <2>2, <3>2, BufferMeter
    <3> QED
      BY <2>3, <3>1, <3>2
  <2> QED
    BY <2>1, <2>4, PushedMeter
<1>4. ASSUME job # "flushing", BeginFlush(buffer), UNCHANGED database
      PROVE  Stutter
  <2>1. Live = FoldLeft(Value!Observed, Durable, buffer)
    BY <1>4, UnwalkedIs DEF Walked
  <2> QED
    BY <1>2, <1>4, <2>1, BeginMeter DEF Stutter
<1>5. CASE FlushTick
  BY <1>4, <1>5 DEF FlushTick, Ready
<1>6. CASE WalkEvent
  BY <1>6, WalkMeter
<1>7. CASE CommitFlush
  BY <1>1, <1>7, CommitMeter
<1>8. CASE FailFlush
  <2>1. job' # "flushing" /\ todo' = << >> /\ buffer' = << >> /\ UNCHANGED database
    BY <1>8, UnwalkedIs DEF FailFlush, EndFlush, memory
  <2> QED
    BY <1>1, <2>1, LossMeter
<1>9. CASE Shutdown
  <2>1. job # "flushing" /\ job' # "flushing" /\ UNCHANGED << buffer, flush, database >>
    BY <1>9 DEF Shutdown, Ready
  <2> QED
    BY <2>1, QuietMeter
<1>10. ASSUME NEW u \in Users, ShutdownPush(u) PROVE Meter!Next \/ Stutter
  <2>1. /\ job # "flushing" /\ job' # "flushing" /\ UNCHANGED << flush, database >>
        /\ buffer' = Push(Stamped(u, "ShutDown", NoWindow))
    BY <1>10 DEF ShutdownPush
  <2>2. Durable' = Durable /\ Live' = FoldLeft(Value!Observed, Durable, buffer')
    BY <1>2, <2>1, BufferMeter
  <2>3. "ShutDown" \in EventType /\ "ShutDown" \notin Windowed
    BY DEF EventType, Windowed
  <2> QED
    BY <2>1, <2>2, <2>3, PushedMeter
<1>11. CASE ShutdownFlush
  <2>1. job # "flushing" /\ UNCHANGED database
    BY <1>11 DEF ShutdownFlush
  <2>2. CASE BeginFlush(buffer)
    BY <1>4, <2>1, <2>2
  <2>3. CASE LookupFails(buffer)
    <3>1. job' # "flushing" /\ UNCHANGED << buffer, flush, database >>
      BY <2>1, <2>3 DEF LookupFails
    <3> QED
      BY <2>1, <3>1, QuietMeter
  <2> QED
    BY <1>11, <2>2, <2>3 DEF ShutdownFlush
<1>12. ASSUME NEW u \in Users, Register(u) \/ Unregister(u) PROVE Stutter
  <2>1. job' = job /\ UNCHANGED << buffer, flush, database >>
    BY <1>12 DEF Register, Unregister
  <2> QED
    BY <2>1, QuietMeter
<1>13. CASE Crash \/ Exit
  <2>1. job' # "flushing" /\ buffer' = << >> /\ todo' = << >> /\ UNCHANGED database
    BY <1>13 DEF Crash, Exit, Die
  <2> QED
    BY <1>1, <2>1, LossMeter
<1>14. CASE Start \/ Tick \/ UNCHANGED vars
  <2>1. job' = job /\ UNCHANGED << buffer, flush, database >>
    BY <1>14 DEF Start, Tick, vars, memory
  <2> QED
    BY <2>1, QuietMeter
<1> QED
  BY <1>3, <1>5, <1>6, <1>7, <1>8, <1>9, <1>10, <1>11, <1>12, <1>13, <1>14 DEF Next

LEMMA MeterInit == Init => Meter!Init
<1> SUFFICES ASSUME Init PROVE Meter!Init
  OBVIOUS
<1>1. Seeds
  BY LedgerInvInit, SeedsAreFocused
<1>2. \A u \in Users : Focused(events, u) = NoFocus
  BY DEF Init, Focused, IsLastMeasured
<1>3. Durable = Meter!Zero
  BY <1>1, <1>2, DurableIs, SameMeters DEF Init, Nothing, Saved, Meter!Zero
<1>4. Live = FoldLeft(Value!Observed, Durable, << >> \o << >>) /\ << >> \o << >> = << >>
  BY DEF Init, Live, Walked
<1> QED
  BY <1>3, <1>4, FoldNothing DEF Meter!Init

\* For any users, windows, rows, thresholds and capacity, and with every crash,
\* rollback and failed lookup of the code: what the ledger does to its tables,
\* flush by flush, is what a meter does that counts each event when it happens,
\* is saved as a whole and falls back as a whole.
THEOREM LedgerIsMeter ==
    ASSUME ~ResumeTies
    PROVE  Spec => LedgerImplementsMeter
<1>1. Init => Meter!Init
  BY MeterInit
<1>2. LedgerInv /\ LedgerInv' /\ Seeds /\ Seeds' /\ [Next]_vars
        => [Meter!Next]_<< Live, Durable >>
  BY MeterStep DEF Stutter
<1> QED
  BY <1>1, <1>2, LedgerInvHolds, SeedsAreFocused, PTL
     DEF Spec, LedgerImplementsMeter, Meter!Spec

-----------------------------------------------------------------------------
(* The closed time of a log *)

\* What the intervals of u on row k that log ends contribute to day d.
Shares(log, u, k, d) ==
    [i \in Ended(log, u, k) |-> Overlap(log[i].ts, log[Min(Later(log, u, i))].ts, d)]

LEMMA EndedFinite ==
    ASSUME NEW log \in Seq(TimedEvent), NEW u, NEW k
    PROVE  /\ IsFiniteSet(Ended(log, u, k)) /\ Ended(log, u, k) \subseteq 1 .. Len(log)
           /\ DOMAIN log = 1 .. Len(log) /\ Len(log) \in Nat
<1>1. DOMAIN log = 1 .. Len(log) /\ Len(log) \in Nat
  BY LenProperties
<1>2. Ended(log, u, k) \subseteq 1 .. Len(log)
  BY <1>1 DEF Ended, MeasuredIn
<1>3. IsFiniteSet(1 .. Len(log))
  BY <1>1, FS_Interval
<1>4. IsFiniteSet(Ended(log, u, k))
  BY <1>2, <1>3, FS_Subset
<1> QED
  BY <1>1, <1>2, <1>4

LEMMA SpentAdds ==
    ASSUME NEW log \in Seq(TimedEvent), NEW u, NEW k, NEW d
    PROVE  \E g : /\ Adds(g, Shares(log, u, k, d), Ended(log, u, k))
                  /\ Spent(log, u, k, d) = g[Ended(log, u, k)]
<1> DEFINE S == Ended(log, u, k)
           F(i) == Overlap(log[i].ts, log[Min(Later(log, u, i))].ts, d)
           f == [i \in S |-> F(i)]
           Body(g, s) == IF s = {} THEN 0 ELSE F(CHOOSE x \in s : TRUE)
                                                 + g[s \ {CHOOSE x \in s : TRUE}]
           C == CHOOSE g : g = [s \in SUBSET S |-> Body(g, s)]
<1>1. Spent(log, u, k, d) = C[S]
  BY Zenon DEF Spent, MapThenSumSet, MapThenFoldSet
<1>2. \A g : \A s \in SUBSET S : Body(g, s) = Added(g, f, s)
  <2> TAKE g
  <2> TAKE s \in SUBSET S
  <2>1. CASE s = {}
    BY <2>1 DEF Added
  <2>2. CASE s # {}
    <3>1. AnyOf(s) \in S
      BY <2>2, AnyIsIn
    <3>2. f[AnyOf(s)] = F(AnyOf(s))
      BY <3>1
    <3>3. Body(g, s) = F(AnyOf(s)) + g[s \ {AnyOf(s)}]
      <4> HIDE DEF F
      <4> QED
        BY <2>2, Zenon DEF AnyOf
    <3> HIDE DEF F, f, Body
    <3> QED
      BY <2>2, <3>2, <3>3 DEF Added
  <2> QED
    BY <2>1, <2>2
<1> HIDE DEF F
<1>0. \E h : Adder(h, f, S)
  <2>1. IsFiniteSet(S)
    BY EndedFinite
  <2> HIDE DEF S, f
  <2> QED
    BY <2>1, SumExists
<1>3. PICK h : h = [s \in SUBSET S |-> Added(h, f, s)]
  BY <1>0 DEF Adder
<1>4. h = [s \in SUBSET S |-> Body(h, s)]
  <2> HIDE DEF f, S, Body
  <2> QED
    BY <1>2, <1>3
<1>5. C = [s \in SUBSET S |-> Body(C, s)]
  <2> HIDE DEF S, Body
  <2> QED
    BY <1>4, Zenon
<1>6. \A s \in SUBSET S : C[s] = Added(C, f, s)
  <2> HIDE DEF f, S, Body, C
  <2> QED
    BY <1>2, <1>5
<1>7. Adds(C, f, S)
  <2> HIDE DEF f, S, C
  <2> QED
    BY <1>6 DEF Adds
<1>8. f = Shares(log, u, k, d)
  BY DEF Shares, F
<1> HIDE DEF f, S, C
<1> QED
  BY <1>1, <1>7, <1>8 DEF S

LEMMA LeastIs ==
    ASSUME NEW S \in SUBSET Nat, S # {}
    PROVE  Min(S) \in S /\ \A y \in S : Min(S) <= y
<1>1. \E x \in S : \A y \in S : x <= y
  BY LeastNatural
<1> QED
  BY <1>1 DEF Min

LEMMA LeastOf ==
    ASSUME NEW S \in SUBSET Nat, NEW x \in S, \A y \in S : x <= y
    PROVE  Min(S) = x
<1>1. Min(S) \in Nat /\ x \in Nat /\ Min(S) <= x /\ x <= Min(S)
  BY LeastIs
<1> QED
  BY <1>1

LEMMA SpentType ==
    ASSUME NEW log \in Seq(TimedEvent), NEW u, NEW k, NEW d \in Days
    PROVE  /\ \A i \in Ended(log, u, k) : Shares(log, u, k, d)[i] \in Nat
           /\ Spent(log, u, k, d) \in Nat
<1> DEFINE S == Ended(log, u, k)
           f == Shares(log, u, k, d)
<1>1. IsFiniteSet(S) /\ DOMAIN log = 1 .. Len(log) /\ Len(log) \in Nat
  BY EndedFinite
<1>2. \A i \in 1 .. Len(log) : log[i].ts \in Nat
  <2> TAKE i \in 1 .. Len(log)
  <2>1. log[i] \in TimedEvent
    BY <1>1, ElementOfSeq
  <2> QED
    BY <2>1, TimesAreNaturals DEF TimedEvent
<1>3. ASSUME NEW i \in S PROVE f[i] \in Nat
  <2>1. i \in 1 .. Len(log) /\ Later(log, u, i) # {} /\ Later(log, u, i) \subseteq 1 .. Len(log)
    BY <1>1 DEF Ended, Later, MeasuredIn
  <2>2. Min(Later(log, u, i)) \in 1 .. Len(log)
    <3>1. Later(log, u, i) \in SUBSET Nat
      BY <2>1
    <3> QED
      BY <2>1, <3>1, LeastIs
  <2>3. f[i] = Overlap(log[i].ts, log[Min(Later(log, u, i))].ts, d)
    BY DEF Shares
  <2> QED
    BY <1>2, <2>1, <2>2, <2>3, DaysAreNaturals, OverlapType
<1>4. PICK g : Adds(g, f, S) /\ Spent(log, u, k, d) = g[S]
  BY SpentAdds
<1>5. g[S] \in Nat
  <2> HIDE DEF f, S
  <2> QED
    BY <1>1, <1>3, <1>4, SumTakesOut
<1> QED
  BY <1>3, <1>4, <1>5

\* A measured event ends the interval its user has open, and no other event
\* ends one.
LEMMA SpentAppend ==
    ASSUME NEW log \in Seq(TimedEvent), NEW e \in TimedEvent, NEW u, NEW k, NEW d \in Days
    PROVE  Spent(Append(log, e), u, k, d) =
               Spent(log, u, k, d) + IF e.uid = u /\ e.type \notin Ignored
                                     THEN Share(Focused(log, u), e.ts, k, d) ELSE 0
<1> DEFINE longer == Append(log, e)
           n == Len(log) + 1
           S == Ended(log, u, k)
           T == Ended(longer, u, k)
           f == Shares(log, u, k, d)
           h == Shares(longer, u, k, d)
           counts == e.uid = u /\ e.type \notin Ignored
<1>1. /\ longer \in Seq(TimedEvent) /\ DOMAIN longer = 1 .. n
      /\ DOMAIN log = 1 .. Len(log) /\ Len(log) \in Nat /\ n \in Nat /\ n \notin 1 .. Len(log)
      /\ longer[n] = e /\ \A i \in 1 .. Len(log) : longer[i] = log[i]
  BY AppendProperties, LenProperties
<1> HIDE DEF longer
<1>2. /\ MeasuredIn(log, u) \subseteq 1 .. Len(log)
      /\ MeasuredIn(longer, u) = MeasuredIn(log, u) \cup (IF counts THEN {n} ELSE {})
  <2>1. MeasuredIn(log, u) \subseteq 1 .. Len(log)
    BY <1>1 DEF MeasuredIn
  <2>2. \A i \in 1 .. Len(log) : i \in MeasuredIn(longer, u) <=> i \in MeasuredIn(log, u)
    BY <1>1 DEF MeasuredIn
  <2>3. n \in MeasuredIn(longer, u) <=> counts
    BY <1>1 DEF MeasuredIn
  <2>4. MeasuredIn(longer, u) \subseteq 1 .. n
    BY <1>1 DEF MeasuredIn
  <2>5. 1 .. n = (1 .. Len(log)) \cup {n}
    BY <1>1
  <2> HIDE DEF n, counts
  <2> QED
    BY <1>1, <2>1, <2>2, <2>3, <2>4, <2>5
<1>3. ASSUME NEW i \in 1 .. Len(log)
      PROVE  /\ Later(longer, u, i) = Later(log, u, i) \cup (IF counts THEN {n} ELSE {})
             /\ Later(log, u, i) \subseteq 1 .. Len(log) /\ Later(log, u, i) \subseteq Nat
  <2>1. i < n
    BY <1>1
  <2> HIDE DEF n, counts
  <2> QED
    BY <1>1, <1>2, <2>1 DEF Later
<1>4. ASSUME NEW i \in 1 .. Len(log), Later(log, u, i) # {}
      PROVE  /\ Min(Later(longer, u, i)) = Min(Later(log, u, i))
             /\ longer[Min(Later(log, u, i))] = log[Min(Later(log, u, i))]
  <2> DEFINE m == Min(Later(log, u, i))
  <2>1. m \in Later(log, u, i) /\ \A y \in Later(log, u, i) : m <= y
    BY <1>3, <1>4, LeastIs
  <2> HIDE DEF m
  <2>2. m \in 1 .. Len(log) /\ m <= n
    BY <1>1, <1>3, <2>1
  <2>3. Later(longer, u, i) \subseteq Nat /\ m \in Later(longer, u, i)
        /\ \A y \in Later(longer, u, i) : m <= y
    BY <1>1, <1>3, <2>1, <2>2
  <2>4. Min(Later(longer, u, i)) = m
    BY <2>3, LeastOf
  <2> QED
    BY <1>1, <2>2, <2>4 DEF m
<1>5. S \subseteq T /\ S \subseteq 1 .. Len(log)
  <2> SUFFICES ASSUME NEW i \in S PROVE i \in T /\ i \in 1 .. Len(log)
    OBVIOUS
  <2>1. /\ i \in MeasuredIn(log, u) /\ log[i].type = "Focus" /\ k \in KeysOf[log[i].win]
        /\ Later(log, u, i) # {}
    BY DEF Ended
  <2>2. i \in 1 .. Len(log) /\ i \in MeasuredIn(longer, u) /\ longer[i] = log[i]
    BY <1>1, <1>2, <2>1
  <2>3. Later(longer, u, i) # {}
    BY <1>3, <2>1, <2>2
  <2> QED
    BY <2>1, <2>2, <2>3 DEF Ended
<1>6. \A i \in S : h[i] = f[i]
  <2> TAKE i \in S
  <2>1. i \in T /\ i \in 1 .. Len(log) /\ Later(log, u, i) # {}
    BY <1>5 DEF Ended
  <2>2. h[i] = Overlap(longer[i].ts, longer[Min(Later(longer, u, i))].ts, d)
    BY <2>1 DEF Shares
  <2>3. f[i] = Overlap(log[i].ts, log[Min(Later(log, u, i))].ts, d)
    BY DEF Shares
  <2> QED
    BY <1>1, <1>4, <2>1, <2>2, <2>3
<1>7. ASSUME NEW i \in T, i \notin S
      PROVE  /\ counts /\ i \in 1 .. Len(log) /\ IsLastMeasured(log, u, i)
             /\ log[i].type = "Focus" /\ k \in KeysOf[log[i].win] /\ h[i] = Overlap(log[i].ts, e.ts, d)
  <2>1. /\ i \in MeasuredIn(longer, u) /\ longer[i].type = "Focus" /\ k \in KeysOf[longer[i].win]
        /\ Later(longer, u, i) # {}
    BY <1>7 DEF Ended
  <2>2. i \in 1 .. Len(log)
    <3>1. Later(longer, u, n) = {}
      <4>1. MeasuredIn(longer, u) \subseteq 1 .. n
        BY <1>1 DEF MeasuredIn
      <4> QED
        BY <1>1, <4>1 DEF Later
    <3>2. i # n
      BY <2>1, <3>1
    <3> QED
      BY <1>2, <2>1, <3>2
  <2>3. i \in MeasuredIn(log, u) /\ longer[i] = log[i]
    BY <1>1, <1>2, <2>1, <2>2
  <2>4. Later(log, u, i) = {}
    BY <1>7, <2>1, <2>3 DEF Ended
  <2>5. counts /\ Later(longer, u, i) = {n}
    BY <1>3, <2>1, <2>2, <2>4
  <2>6. IsLastMeasured(log, u, i)
    <3>1. \A j \in MeasuredIn(log, u) : j <= i
      BY <1>1, <1>2, <2>2, <2>4 DEF Later
    <3> QED
      BY <2>3, <3>1 DEF IsLastMeasured, MeasuredIn
  <2>7. Min({n}) = n
    BY <1>1, LeastOf
  <2>8. h[i] = Overlap(longer[i].ts, longer[Min(Later(longer, u, i))].ts, d)
    BY <1>7 DEF Shares
  <2> QED
    BY <1>1, <2>1, <2>2, <2>3, <2>5, <2>6, <2>7, <2>8
<1>8. IsFiniteSet(S) /\ IsFiniteSet(T)
  BY <1>1, EndedFinite
<1>9. PICK g : Adds(g, f, S) /\ Spent(log, u, k, d) = g[S]
  BY SpentAdds
<1>10. PICK q : Adds(q, h, T) /\ Spent(longer, u, k, d) = q[T]
  BY <1>1, SpentAdds
<1>11. q[S] = g[S] /\ Spent(log, u, k, d) \in Nat
  <2>1. Adds(q, h, S)
    <3> HIDE DEF S, T, h
    <3> QED
      BY <1>5, <1>10 DEF Adds
  <2>2. q[S] = g[S]
    <3> HIDE DEF S, T, h, f
    <3> QED
      BY <1>6, <1>8, <1>9, <2>1, SumAgrees
  <2> QED
    BY <2>2, SpentType
<1>12. CASE T = S
  <2>1. Spent(longer, u, k, d) = Spent(log, u, k, d)
    BY <1>9, <1>10, <1>11, <1>12
  <2>2. ASSUME counts PROVE Share(Focused(log, u), e.ts, k, d) = 0
    <3>1. CASE Focused(log, u) = NoFocus
      BY <3>1 DEF Share
    <3>2. CASE Focused(log, u) # NoFocus
      <4>1. PICK i \in DOMAIN log : /\ IsLastMeasured(log, u, i) /\ log[i].type = "Focus"
                                    /\ Focused(log, u) = AsFocus(log[i])
        BY <3>2, FocusedCases
      <4>2. i \in MeasuredIn(log, u) /\ i \in 1 .. Len(log) /\ longer[i] = log[i]
            /\ i \in MeasuredIn(longer, u)
        BY <1>1, <1>2, <4>1 DEF IsLastMeasured, MeasuredIn
      <4>3. Later(log, u, i) = {}
        <5>1. \A j \in MeasuredIn(log, u) : j <= i
          BY <4>1 DEF IsLastMeasured, MeasuredIn
        <5> QED
          BY <1>1, <1>2, <4>2, <5>1 DEF Later
      <4>4. i \notin S
        BY <4>3 DEF Ended
      <4>5. Later(longer, u, i) # {}
        BY <1>3, <2>2, <4>2
      <4>6. k \notin KeysOf[log[i].win]
        BY <1>12, <4>1, <4>2, <4>4, <4>5 DEF Ended
      <4> QED
        BY <4>1, <4>6 DEF Share, AsFocus
    <3> QED
      BY <3>1, <3>2
  <2> QED
    BY <1>11, <2>1, <2>2 DEF longer
<1>13. CASE T # S
  <2>1. PICK i \in T : i \notin S
    BY <1>5, <1>13
  <2>2. /\ counts /\ i \in 1 .. Len(log) /\ IsLastMeasured(log, u, i)
        /\ log[i].type = "Focus" /\ k \in KeysOf[log[i].win] /\ h[i] = Overlap(log[i].ts, e.ts, d)
    BY <1>7, <2>1
  <2>3. T \ {i} = S
    <3>1. \A j \in T : j \notin S => j = i
      <4> TAKE j \in T
      <4>1. ASSUME j \notin S PROVE j = i
        <5>1. IsLastMeasured(log, u, j) /\ j \in 1 .. Len(log)
          BY <1>7, <4>1
        <5>2. i <= j /\ j <= i
          BY <2>2, <5>1 DEF IsLastMeasured
        <5> QED
          BY <1>1, <2>2, <5>1, <5>2
      <4> QED
        BY <4>1
    <3> HIDE DEF S, T
    <3> QED
      BY <1>5, <2>1, <3>1
  <2>4. \A j \in T : h[j] \in Nat
    BY <1>1, SpentType
  <2>5. q[T] = h[i] + q[T \ {i}]
    <3> HIDE DEF T, h
    <3> QED
      BY <1>8, <1>10, <2>1, <2>4, SumTakesOut
  <2>6. Focused(log, u) = AsFocus(log[i]) /\ AsFocus(log[i]) # NoFocus
    <3>1. log[i] \in TimedEvent
      BY <1>1, <2>2, ElementOfSeq
    <3> QED
      BY <2>2, <3>1, FocusedWhen, FocusIsSomething
  <2>7. Share(Focused(log, u), e.ts, k, d) = h[i]
    BY <2>2, <2>6 DEF Share, AsFocus
  <2>8. h[i] \in Nat
    BY <2>1, <2>4
  <2> HIDE DEF T, h, S, f
  <2>10. q[S] = Spent(log, u, k, d) /\ q[T] = Spent(longer, u, k, d) /\ q[T \ {i}] = q[S]
    BY <1>9, <1>10, <1>11, <2>3
  <2>9. Spent(longer, u, k, d) = Spent(log, u, k, d) + h[i]
    BY <1>11, <2>5, <2>8, <2>10, SMT
  <2> QED
    BY <2>2, <2>7, <2>9 DEF longer
<1> QED
  BY <1>12, <1>13

\* A log without events has nothing to count.
LEMMA SpentNothing == \A u, k, d : Spent(<< >>, u, k, d) = 0
<1> SUFFICES ASSUME NEW u, NEW k, NEW d PROVE Spent(<< >>, u, k, d) = 0
  OBVIOUS
<1>1. << >> \in Seq(TimedEvent) /\ Ended(<< >>, u, k) = {}
  BY DEF Ended, MeasuredIn
<1>2. PICK g : /\ Adds(g, Shares(<< >>, u, k, d), {})
               /\ Spent(<< >>, u, k, d) = g[{}]
  BY <1>1, SpentAdds
<1> QED
  BY <1>2 DEF Adds, Added

-----------------------------------------------------------------------------
(* The totals count the events *)

\* A flush that walks an event.
LEMMA WalkUsage ==
    ASSUME LedgerInv, UsageInv, WalkEvent
    PROVE  UsageInv'
<1> DEFINE e == Head(todo)
           log == events \o done
<1>1. /\ job = "flushing" /\ todo # << >> /\ done' = Append(done, e)
      /\ job' = job /\ events' = events /\ closed' = closed
  BY DEF WalkEvent, database
<1>2. /\ e \in TimedEvent /\ e.uid \in Users /\ e.type \in EventType /\ log \in Seq(TimedEvent)
      /\ delta \in Tally /\ closed \in Tally /\ e.ts \in Nat
  BY <1>1, HeadFacts, ConcatProperties DEF LedgerInv, TypeOK, TimedEvent
<1>3. events' \o done' = Append(log, e)
  BY <1>1, WalkedLog DEF LedgerInv, TypeOK
<1>4. ASSUME NEW u \in Users, NEW k \in Keys, NEW d \in Days
      PROVE  /\ delta[u][k][d] \in Nat /\ closed[u][k][d] \in Nat
             /\ delta'[u][k][d] = delta[u][k][d] +
                    IF e.uid = u /\ e.type \notin Ignored
                    THEN Share(Focused(log, u), e.ts, k, d) ELSE 0
  <2>1. delta[u][k][d] \in Nat /\ closed[u][k][d] \in Nat
    BY <1>2 DEF Tally
  <2>2. focus[u] = Focused(log, u)
    BY <1>1 DEF LedgerInv, WalkInv
  <2>3. CASE e.type \in Ignored
    <3>1. delta' = delta
      BY <2>3 DEF WalkEvent, Ignored, Close
    <3> QED
      BY <2>1, <2>3, <3>1
  <2>4. CASE e.type \notin Ignored
    <3>1. CloseInterval(e.uid, focus[e.uid], e.ts)
      BY <2>4 DEF WalkEvent
    <3>2. delta' = [delta EXCEPT ![e.uid] =
                      [x \in Keys |-> [y \in Days |->
                          delta[e.uid][x][y] + Share(focus[e.uid], e.ts, x, y)]]]
      BY <3>1 DEF CloseInterval
    <3> HIDE DEF e, log
    <3>3. CASE e.uid = u
      BY <1>2, <2>2, <2>4, <3>2, <3>3 DEF Tally
    <3>4. CASE e.uid # u
      BY <1>2, <2>1, <3>2, <3>4 DEF Tally
    <3> QED
      BY <3>3, <3>4
  <2> QED
    BY <2>1, <2>3, <2>4
<1>5. ASSUME NEW u \in Users, NEW k \in Keys, NEW d \in Days
      PROVE  closed[u][k][d] + delta'[u][k][d] = Spent(Append(log, e), u, k, d)
  <2> DEFINE more == IF e.uid = u /\ e.type \notin Ignored
                     THEN Share(Focused(log, u), e.ts, k, d) ELSE 0
  <2>1. closed[u][k][d] + delta[u][k][d] = Spent(log, u, k, d)
    BY <1>1 DEF UsageInv
  <2>2. Spent(Append(log, e), u, k, d) = Spent(log, u, k, d) + more
    <3> HIDE DEF e, log
    <3> QED
      BY <1>2, SpentAppend DEF more
  <2>3. delta'[u][k][d] = delta[u][k][d] + more /\ delta[u][k][d] \in Nat /\ closed[u][k][d] \in Nat
    BY <1>4
  <2>4. more \in Nat
    <3> HIDE DEF e
    <3>1. Focused(log, u) \in OpenFocus \cup {NoFocus}
      <4> HIDE DEF log
      <4> QED
        BY <1>2, FocusedType
    <3>2. Share(Focused(log, u), e.ts, k, d) \in Nat
      BY <1>2, <3>1, TimesAreNaturals, DaysAreNaturals, OverlapType DEF Share, OpenFocus
    <3> QED
      BY <3>2
  <2> HIDE DEF more, e, log
  <2> QED
    BY <2>1, <2>2, <2>3, <2>4
<1> HIDE DEF e, log
<1>6. UsageMatchesEvents'
  BY <1>1 DEF UsageInv, UsageMatchesEvents
<1> QED
  BY <1>1, <1>3, <1>5, <1>6 DEF UsageInv

\* A flush that commits.
LEMMA CommitUsage ==
    ASSUME LedgerInv, UsageInv, CommitFlush
    PROVE  UsageInv'
<1>1. /\ job = "flushing" /\ job' = "idle" /\ events' = events \o done
      /\ closed' = [u \in Users |-> [k \in Keys |-> [d \in Days |->
                        closed[u][k][d] + delta[u][k][d]]]]
  BY DEF CommitFlush, EndFlush
<1>2. UsageMatchesEvents'
  BY <1>1 DEF UsageInv, UsageMatchesEvents
<1> QED
  BY <1>1, <1>2 DEF UsageInv

\* A flush that begins has accumulated nothing.
LEMMA BeginUsage ==
    ASSUME LedgerInv, UsageInv, NEW drained, BeginFlush(drained), UNCHANGED database
    PROVE  UsageInv'
<1>1. done' = << >> /\ delta' = Nothing /\ events' = events /\ closed' = closed
  BY DEF BeginFlush, database
<1>2. events \o << >> = events /\ closed \in Tally
  BY ConcatEmptySeq DEF LedgerInv, TypeOK
<1>3. ASSUME NEW u \in Users, NEW k \in Keys, NEW d \in Days
      PROVE  closed[u][k][d] + Nothing[u][k][d] = Spent(events, u, k, d)
  <2>1. closed[u][k][d] \in Nat /\ Nothing[u][k][d] = 0
    BY <1>2 DEF Nothing, Tally
  <2>2. closed[u][k][d] = Spent(events, u, k, d)
    BY DEF UsageInv, UsageMatchesEvents
  <2> QED
    BY <2>1, <2>2
<1>4. UsageMatchesEvents'
  BY <1>1 DEF UsageInv, UsageMatchesEvents
<1> QED
  BY <1>1, <1>2, <1>3, <1>4 DEF UsageInv

\* Between flushes, and while one waits, nothing is counted.
LEMMA QuietUsage ==
    ASSUME UsageInv, UNCHANGED database,
           job' # "flushing" \/ (job' = job /\ UNCHANGED << done, delta >>)
    PROVE  UsageInv'
BY DEF UsageInv, UsageMatchesEvents, database

LEMMA UsageInvStep ==
    ASSUME LedgerInv, UsageInv, [Next]_vars
    PROVE  UsageInv'
<1>1. ASSUME NEW u \in Users, NEW type \in Arrivals,
             NEW w \in Windows \cup {NoWindow}, HandleEvent(u, type, w)
      PROVE  UsageInv'
  <2>1. job = "idle" /\ UNCHANGED database
    BY <1>1 DEF HandleEvent, Ready
  <2>2. (\E drained : BeginFlush(drained)) \/ job' = "idle"
    BY <1>1, <2>1 DEF HandleEvent, LookupFails
  <2> QED
    BY <2>1, <2>2, BeginUsage, QuietUsage
<1>2. CASE FlushTick
  BY <1>2, BeginUsage DEF FlushTick
<1>3. CASE WalkEvent
  BY <1>3, WalkUsage
<1>4. CASE CommitFlush
  BY <1>4, CommitUsage
<1>5. CASE FailFlush
  BY <1>5, QuietUsage DEF FailFlush, EndFlush
<1>6. CASE Shutdown
  BY <1>6, QuietUsage DEF Shutdown
<1>7. ASSUME NEW u \in Users, ShutdownPush(u) PROVE UsageInv'
  BY <1>7, QuietUsage DEF ShutdownPush, flush
<1>8. CASE ShutdownFlush
  <2>1. UNCHANGED database /\ (BeginFlush(buffer) \/ job' = "idle")
    BY <1>8 DEF ShutdownFlush, LookupFails
  <2> QED
    BY <2>1, BeginUsage, QuietUsage
<1>9. ASSUME NEW u \in Users, Register(u) \/ Unregister(u) PROVE UsageInv'
  BY <1>9, QuietUsage DEF Register, Unregister, flush
<1>10. CASE Crash \/ Exit
  BY <1>10, QuietUsage DEF Crash, Exit, Die
<1>11. CASE Start \/ Tick \/ UNCHANGED vars
  BY <1>11, QuietUsage DEF Start, Tick, vars, flush
<1> QED
  BY <1>1, <1>2, <1>3, <1>4, <1>5, <1>6, <1>7, <1>8, <1>9, <1>10, <1>11 DEF Next

\* For any users, windows, rows, thresholds and capacity: each persisted focus
\* interval is counted once and in full in the closed time of its rows, whatever
\* flushes its events arrived in and whatever crashed, was rolled back or failed.
THEOREM TotalsCountEvents ==
    ASSUME ~ResumeTies
    PROVE  Spec => []UsageMatchesEvents
<1>1. Init => UsageInv
  BY SpentNothing DEF Init, UsageInv, UsageMatchesEvents, Nothing
<1>2. LedgerInv /\ UsageInv /\ [Next]_vars => UsageInv'
  BY UsageInvStep
<1>3. UsageInv => UsageMatchesEvents
  BY DEF UsageInv
<1> QED
  BY <1>1, <1>2, <1>3, LedgerInvHolds, PTL DEF Spec
=============================================================================
