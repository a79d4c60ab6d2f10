----------------------------- MODULE DayScreens -----------------------------
(***************************************************************************)
(* What the screens compute from the database: the timeline and the hourly *)
(* chart of the dashboard, from the events of a day and the focus that was *)
(* open when it began; the rankings and the bar chart, from the daily      *)
(* usage tables.                                                           *)
(*                                                                         *)
(* One user is modelled.  Events reach the table with the delay of the     *)
(* daemon's buffer, in the order of their times; a refresh reads the seed  *)
(* and the day's events in two queries that run side by side, and builds   *)
(* the timeline later still.                                               *)
(***************************************************************************)
EXTENDS Calendar, Metering, SequencesExt

CONSTANTS
    Viewer,      \* the user whose screens these are
    AppRows, TitleRows, CategoryRows,  \* the rows of the three usage tables
    Hours,       \* hours of a day (24)
    Top,         \* length of the dashboard's rankings (10)
    Kinds,       \* the kinds of events that are recorded
    Unread,      \* a query has not been answered yet
    MaxDelay,    \* bound: how long an event waits in the buffer
    MaxEvents    \* bound: events in the table

EventRow == [uid : {Viewer}, type : Kinds, win : Windows \cup {NoWindow}, ts : Nat]

\* Each window has one row in the table.
OneRowEach(rows) == \A w \in Windows : Cardinality(KeysOf[w] \cap rows) = 1

ASSUME ScreensAssumption ==
    /\ Viewer \in Users
    /\ IsFiniteSet(Keys) /\ AppRows \cup TitleRows \cup CategoryRows \subseteq Keys
    /\ KeysOf \in [Windows -> SUBSET Keys]
    /\ OneRowEach(AppRows) /\ OneRowEach(TitleRows)
    /\ NoWindow \notin Windows
    /\ NoFocus \notin Nat /\ NoFocus \notin [win : Windows, ts : Nat]
    /\ Unread \notin [win : Windows, ts : Nat] \cup {NoFocus} /\ Unread \notin Seq(EventRow)
    /\ Kinds \subseteq EventType
    /\ Hours \in Nat \ {0} /\ DayLen % Hours = 0
    /\ {Top, MaxTime, MaxDelay} \subseteq Nat

VARIABLES
    log,         \* the rows of the events table
    refresh      \* what the one refresh of the dashboard has read so far

HourLen == DayLen \div Hours
NoSeed  == NoFocus

\* rows: the table at the first query; torn: it had grown at the second.
NoRefresh == [day |-> -1, seed |-> Unread, events |-> Unread, built |-> -1,
              rows |-> 0, torn |-> FALSE]

Min2(a, b) == IF a < b THEN a ELSE b
Max2(a, b) == IF a > b THEN a ELSE b
-----------------------------------------------------------------------------
(* The queries *)

\* get_day_events (the table is in the order of its times, see Record, so that
\* the rows of a range of times are those of a range of places)
DayEvents(table, start, end) ==
    LET before(t) == Cardinality({i \in DOMAIN table : table[i].ts < t})
    IN  SubSeq(table, before(start) + 1, before(end))

\* get_pre_midnight_seed: the focus that is open when the day begins.
PreMidnightSeed(table, start) ==
    LET rows == DayEvents(table, 0, start)
        said == {i \in DOMAIN rows : rows[i].type # "Resume"}
    IN  IF said # {} /\ rows[Max(said)].type = "Focus"
        THEN [win |-> rows[Max(said)].win, ts |-> rows[Max(said)].ts] ELSE NoSeed
-----------------------------------------------------------------------------
(* The timeline *)

\* make_focus_block
Block(open, end) == [win |-> open.win, start |-> open.ts, end |-> end, gap |-> FALSE]

\* A variant with a bug: a Focus replaces the open one without closing it.
FoldFocusOnly(acc, e) ==
    CASE e.type = "Focus"  -> [acc EXCEPT !.open = [win |-> e.win, ts |-> e.ts]]
      [] e.type \in Close /\ acc.open # NoFocus
           -> [blocks |-> Append(acc.blocks, Block(acc.open, e.ts)), open |-> NoFocus]
      [] OTHER -> acc

\* A variant with a bug: a closed focus stays open.
FoldWithoutTake(acc, e) ==
    LET closed == IF acc.open = NoFocus THEN acc.blocks
                                        ELSE Append(acc.blocks, Block(acc.open, e.ts))
    IN  CASE e.type = "Focus"  -> [blocks |-> closed,
                                   open |-> [win |-> e.win, ts |-> e.ts]]
          [] e.type \in Close  -> [blocks |-> closed, open |-> acc.open]
          [] OTHER             -> acc

FoldEvent(acc, e) ==
    LET closed == IF acc.open = NoFocus THEN acc.blocks
                                        ELSE Append(acc.blocks, Block(acc.open, e.ts))
    IN  CASE e.type = "Focus"  -> [blocks |-> closed,
                                   open |-> [win |-> e.win, ts |-> e.ts]]
          [] e.type \in Close  -> [blocks |-> closed, open |-> NoFocus]
          [] OTHER             -> acc

\* sort_by_key: equal keys keep their order.
Stably(list, key) ==
    LET before(i) == {j \in DOMAIN list : key[j] < key[i] \/ (key[j] = key[i] /\ j < i)}
        at(n)     == CHOOSE i \in DOMAIN list : Cardinality(before(i)) = n - 1
    IN  [n \in DOMAIN list |-> list[at(n)]]

ByStart(blocks) == Stably(blocks, [i \in DOMAIN blocks |-> blocks[i].start])

\* fill_time_gaps: an open block is the last one and has no gap after it.
FillGaps(blocks) ==
    LET gap(i) == IF i < Len(blocks) /\ blocks[i].end # NoFocus
                        /\ blocks[i].end < blocks[i + 1].start
                  THEN << [win |-> NoWindow, start |-> blocks[i].end,
                           end |-> blocks[i + 1].start, gap |-> TRUE] >>
                  ELSE << >>
    IN  FlattenSeq([i \in DOMAIN blocks |-> << blocks[i] >> \o gap(i)])

\* build_day_timeline; NoFocus as the end of a block is "still open".
Timeline(day, seed, events) ==
    LET open0  == IF seed # NoSeed /\ seed.ts < DayStart(day)
                  THEN [win |-> seed.win, ts |-> DayStart(day)] ELSE NoFocus
        folded == FoldLeft(FoldEvent, [blocks |-> << >>, open |-> open0], events)
        last   == IF folded.open = NoFocus THEN << >>
                                           ELSE << Block(folded.open, NoFocus) >>
    IN  FillGaps(ByStart(folded.blocks \o last))

EndOf(block, at) == IF block.end = NoFocus THEN at ELSE block.end

\* total_focus_millis
TotalFocus(blocks, at) ==
    SumFunction([i \in DOMAIN blocks |->
        IF blocks[i].gap THEN 0 ELSE Max2(0, EndOf(blocks[i], at) - blocks[i].start)])
-----------------------------------------------------------------------------
(* The hourly chart *)

\* A variant with a bug: the last hour ends one short of midnight.
HourEndBeforeLast(day, h) ==
    DayStart(day) + (IF h = Hours - 1 THEN h ELSE h + 1) * HourLen

HourEnd(day, h) == DayStart(day) + (h + 1) * HourLen

\* compute_hourly_buckets: the part of a block that falls into an hour.
Fragment(day, block, h, at) ==
    LET end      == EndOf(block, Max2(at, block.start + 1))
        segments == SplitByUtcDay(block.start, end)
        ours     == {i \in DOMAIN segments : segments[i].day = DayStart(day)}
        from     == Max2(block.start, DayStart(day))
        to       == from + segments[CHOOSE i \in ours : TRUE].dur
        begin    == Max2(from, DayStart(day) + h * HourLen)
        millis   == Min2(to, HourEnd(day, h)) - begin
    IN  IF ours = {} \/ millis <= 0 THEN << >>
        ELSE << [win |-> block.win, gap |-> block.gap, millis |-> millis,
                 offset |-> begin - (DayStart(day) + h * HourLen)] >>

Bucket(day, blocks, h, at) ==
    LET found == FlattenSeq([i \in DOMAIN blocks |-> Fragment(day, blocks[i], h, at)])
    IN  Stably(found, [i \in DOMAIN found |-> found[i].offset])
-----------------------------------------------------------------------------
(* The rankings and the bar chart, from usage[day][row] *)

Used(usage, days, row) == SumFunction([d \in days |-> usage[d][row]])

\* SUM(total_millis) ... GROUP BY ... ORDER BY total DESC, of one usage table.  A
\* table has a row for a day only where an interval left time: split_by_utc_day
\* returns no empty segment, and closing an interval credits what was open.
Summary(rows, usage, first, last) ==
    LET total   == [r \in rows |-> Used(usage, first .. last, r)]
        found   == SetToSeq({r \in rows : total[r] > 0})
        ranking == Stably(found, [i \in DOMAIN found |-> -total[found[i]]])
    IN  [i \in DOMAIN found |-> [row |-> ranking[i], millis |-> total[ranking[i]]]]

AppSummary(usage, first, last)      == Summary(AppRows, usage, first, last)
TitleSummary(usage, first, last)    == Summary(TitleRows, usage, first, last)
CategorySummary(usage, first, last) == Summary(CategoryRows, usage, first, last)

Millis(rows) == SumFunction([i \in DOMAIN rows |-> rows[i].millis])

\* Every list gives a row its rank and its share of the whole summary.
Ranked(shown, summary) ==
    [i \in DOMAIN shown |-> [row |-> shown[i].row, rank |-> i, millis |-> shown[i].millis,
                             percent |-> (100 * shown[i].millis) \div Millis(summary)]]

\* build_app_slices, build_category_slices: the pies of the dashboard
AppSlices(summary)      == Ranked(summary, summary)
CategorySlices(summary) == Ranked(summary, summary)

\* A variant with a bug: shares of what the list shows.
TopRowsOfTheShown(summary) ==
    LET shown == SubSeq(summary, 1, Min2(Top, Len(summary))) IN Ranked(shown, shown)

\* build_top_apps_from_summary, build_top_titles_from_summary
TopRows(summary) == Ranked(SubSeq(summary, 1, Min2(Top, Len(summary))), summary)

\* recompute_derived of the reports: every app, and every title
ReportRows(summary) == Ranked(summary, summary)

\* compute_kpis
KpiTotal(summary) == Millis(TopRows(summary))

\* get_today_app_usage: what the enforcer compares with a time limit.
UsageToday(usage, app, today) == usage[today][app]

\* daily_bar_totals: grouped by date.
DailyTotals(usage, first, last) ==
    [d \in first .. last |-> SumFunction([r \in AppRows |-> usage[d][r]])]

\* recompute_derived of the reports: a bar for every day of the range.
Bars(totals, first, last) ==
    [i \in 1 .. last - first + 1 |->
        LET d == first + i - 1 IN IF d \in DOMAIN totals THEN totals[d] ELSE 0]
-----------------------------------------------------------------------------
(* The machine *)

InitScreens == Init /\ log = << >> /\ refresh = NoRefresh

Reading == (refresh.seed = Unread) # (refresh.events = Unread)

\* A flush brings an event to the table.  (Bound: not after the timeline is
\* built, which no later row can change.)
Record(type, w) ==
    /\ Len(log) < MaxEvents /\ now <= MaxTime /\ refresh.built = -1
    /\ type \in Windowed <=> w # NoWindow
    /\ \E ts \in Max2(0, now - MaxDelay) .. now :
           /\ log # << >> => ts >= Last(log).ts
           /\ log' = Append(log, [uid |-> Viewer, type |-> type, win |-> w, ts |-> ts])
    /\ refresh' = [refresh EXCEPT !.torn = @ \/ Reading]
    /\ UNCHANGED << now, date >>

Asked == [refresh EXCEPT !.day  = IF @ = -1 THEN DayOf(now) ELSE @,
                         !.rows = IF refresh.day = -1 THEN Len(log) ELSE @]

\* fetch_all: its queries are joined, in either order.
ReadSeed ==
    /\ refresh.seed = Unread /\ now <= MaxTime
    /\ refresh' = [Asked EXCEPT !.seed = PreMidnightSeed(log, DayStart(Asked.day))]
    /\ UNCHANGED << now, date, log >>

ReadEvents ==
    /\ refresh.events = Unread /\ now <= MaxTime
    /\ refresh' = [Asked EXCEPT !.events =
                       DayEvents(log, DayStart(Asked.day), DayStart(Asked.day + 1))]
    /\ UNCHANGED << now, date, log >>

\* recompute_derived of the dashboard
Rebuild ==
    /\ Unread \notin {refresh.seed, refresh.events} /\ refresh.built = -1
    /\ refresh' = [refresh EXCEPT !.built = now]
    /\ UNCHANGED << now, date, log >>

\* The clock leaves the first days only if nothing happened in them.
Pass ==
    /\ Tick
    /\ now' <= MaxTime \/ (log = << >> /\ refresh = NoRefresh)
    /\ UNCHANGED << log, refresh >>

NextScreens ==
    \/ Pass
    \/ \E type \in Kinds, w \in Windows \cup {NoWindow} : Record(type, w)
    \/ ReadSeed
    \/ ReadEvents
    \/ Rebuild

SpecScreens == InitScreens /\ [][NextScreens]_<< now, date, log, refresh >>
-----------------------------------------------------------------------------
(* What the usage tables hold when they are written from these rows at t *)
Metered(rows, t) ==
    LET m == FoldLeft(Observed, Zero, rows)
        end == [uid |-> Viewer, type |-> "Unfocus", win |-> NoWindow, ts |-> t]
    IN  [d \in Days |-> [r \in Keys |-> Observed(m, end).spent[Viewer][r][d]]]

Snapshot == SubSeq(log, 1, refresh.rows)

\* The screen shows a refresh that began and ended on one day, between two
\* writes of the table.
Shown == /\ refresh.built # -1 /\ DayOf(refresh.built) = refresh.day
         /\ ~refresh.torn

Blocks == Timeline(refresh.day, refresh.seed, refresh.events)
Chart  == [h \in 0 .. Hours - 1 |-> Bucket(refresh.day, Blocks, h, now)]

\* The timeline of a day adds up to what the usage tables say of that day,
\* although it is built from other rows by other code.
TimelineMatchesUsage ==
    Shown => TotalFocus(Blocks, refresh.built)
           = SumFunction([r \in AppRows |-> Metered(Snapshot, refresh.built)[refresh.day][r]])

\* The milliseconds a bucket shows of a row of a usage table
OfRow(bucket, r) ==
    SumFunction([i \in DOMAIN bucket |->
        IF ~bucket[i].gap /\ r \in KeysOf[bucket[i].win] THEN bucket[i].millis ELSE 0])

\* Drawn at any later time, even after midnight, the hourly chart gives each
\* app what the usage tables give it for that day, except the millisecond
\* it credits to a block that begins at the instant it is drawn.
ChartMatchesUsage ==
    Shown /\ now <= MaxTime /\ (\A i \in DOMAIN Blocks : Blocks[i].start < now)
    => \A r \in AppRows :
          SumFunction([h \in DOMAIN Chart |-> OfRow(Chart[h], r)])
          = Metered(Snapshot, now)[refresh.day][r]

\* The fragments of an hour are drawn one after the other inside the hour:
\* focus, gaps and the open block never cover each other.
FragmentsDoNotOverlap ==
    Shown => \A h \in DOMAIN Chart : \A i \in DOMAIN Chart[h] :
        /\ Chart[h][i].offset + Chart[h][i].millis <=
               (IF i = Len(Chart[h]) THEN HourLen ELSE Chart[h][i + 1].offset)
        /\ Chart[h][i].offset >= 0

Rows(list) == {list[i] : i \in DOMAIN list}

\* Over any range of days the bars and the rankings of the apps, of the titles
\* and, where every app has one category, of the categories say the same; the
\* dashboard's list gives an app the rank and the share its pie and the reports
\* give it, also when it is cut off; while it is not, its total is that of the
\* timeline; and the enforcer counts for an app what the dashboard shows.
\* (It does not depend on the refresh.)
ScreensAddUp ==
    now <= MaxTime /\ refresh = NoRefresh => LET usage == Metered(log, now) IN
    /\ \A first \in Days : \A last \in first .. DayOf(MaxTime) :
          LET bars == Bars(DailyTotals(usage, first, last), first, last)
              apps == AppSummary(usage, first, last)
              categories == CategorySummary(usage, first, last)
          IN  /\ SumFunction(bars) = Millis(apps)
              /\ Millis(TitleSummary(usage, first, last)) = Millis(apps)
              /\ OneRowEach(CategoryRows) =>
                     Millis(CategorySlices(categories)) = Millis(AppSlices(apps))
              /\ Rows(TopRows(apps)) \subseteq Rows(AppSlices(apps)) \cap Rows(ReportRows(apps))
    /\ LET today  == DayOf(now)
           apps   == AppSummary(usage, today, today)
           blocks == Timeline(today, PreMidnightSeed(log, DayStart(today)),
                              DayEvents(log, DayStart(today), DayStart(today + 1)))
       IN  /\ Len(apps) <= Top => KpiTotal(apps) = TotalFocus(blocks, now)
           /\ \A row \in Rows(TopRows(apps)) :
                  row.millis = UsageToday(usage, row.row, today)
=============================================================================
