---------------------------- MODULE UsageLedger ----------------------------
(***************************************************************************)
(* The usage ledger of the daemon: EnforcerActor's event buffer, the flush *)
(* that turns buffered focus events into daily totals, and the database    *)
(* rows it writes.                                                         *)
(*                                                                         *)
(*   - handle_event stamps every plugin event and appends it to a bounded  *)
(*     in-memory buffer; 100 buffered events or the minute ticker start a  *)
(*     flush;                                                              *)
(*   - a flush drains the buffer, reads each user's last persisted event,  *)
(*     walks the drained events to close focus intervals, and in ONE       *)
(*     transaction adds the closed milliseconds, overwrites the open       *)
(*     milliseconds and inserts the events;                                *)
(*   - the process can be told to shut down, can be killed at any moment,  *)
(*     and can be started again on the same database.                      *)
(*                                                                         *)
(* The walk is one action per event because process_all_deltas awaits the  *)
(* database inside its loop: the clock runs on, plugins come and go, and   *)
(* the process can die between two iterations.  The actor itself handles   *)
(* nothing else meanwhile.                                                 *)
(***************************************************************************)
EXTENDS Integers, Sequences, FiniteSetsExt, EventTypes, UtcDay

CONSTANTS
    Users,         \* uids
    Windows,       \* (app class, title) pairs
    Keys,          \* rows of the three daily_usage tables: apps, titles, categories
    KeysOf,        \* the rows a window is counted in: its app's, its title's, its category's
    NoWindow,      \* the payload of an event that names no window
    NoFocus,       \* open_focus == None
    FlushCount,    \* buffered events that trigger a flush (100)
    MaxCapacity,   \* EventBuffer's hard cap (10_000)
    MaxTime,       \* bound: the last value of the clock
    MaxEvents,     \* bound: no event is taken once this many exist
    Arrivals,      \* bound: the event kinds plugins send
    MayCrash,      \* the process can be killed
    MayFailFlush,  \* the flush transaction can fail
    MayFailLookup, \* uids_with_open_intervals can fail
    ResumeTies     \* a Resume can carry the millisecond of the event before it

ASSUME LedgerAssumption ==
    /\ KeysOf \in [Windows -> SUBSET Keys]
    /\ NoWindow \notin Windows
    /\ NoFocus \notin [win : Windows \cup {NoWindow}, ts : Nat]
    /\ FlushCount \in Nat /\ MaxCapacity \in Nat
    /\ MaxTime \in Nat /\ MaxEvents \in Nat
    /\ Arrivals \subseteq EventType
    /\ {MayCrash, MayFailFlush, MayFailLookup, ResumeTies} \subseteq BOOLEAN

VARIABLES
    clock,        \* the wall clock, in milliseconds
    proc,         \* life cycle of the daemon process
    job,          \* what the actor is doing: idle, closing (Shutdown pushes), flushing
    registered,   \* uids with a plugin in the registry
    toClose,      \* uids Shutdown has still to push an event for
    buffer,       \* event_buffer
    \* locals of a running flush
    todo, done,   \* drained events, not yet and already walked
    flushNow,     \* the clock when the flush began
    focus,        \* open_focus per uid
    delta,        \* agg_closed*: milliseconds closed by this flush
    \* the database
    events,       \* events table in id order
    closed, open, \* closed_millis and open_millis of the daily_usage tables
    \* history
    measuredAt    \* flushNow of the last committed flush

memory   == << registered, buffer, toClose >>
flush    == << todo, done, flushNow, focus, delta >>
database == << events, closed, open, measuredAt >>
vars     == << clock, proc, job, memory, flush, database >>

Days       == 0 .. DayOf(MaxTime)
Time       == 0 .. MaxTime
TimedEvent == [uid : Users, type : EventType,
               win : Windows \cup {NoWindow}, ts : Time]
OpenFocus  == [win : Windows \cup {NoWindow}, ts : Time]
Tally      == [Users -> [Keys -> [Days -> Nat]]]
Nothing    == [u \in Users |-> [k \in Keys |-> [d \in Days |-> 0]]]
Unfocused  == [u \in Users |-> NoFocus]

Alive == proc \in {"running", "closing", "stopping"}
Ready == Alive /\ job = "idle"      \* the actor is at its select!
-----------------------------------------------------------------------------
(* Queries on the events table *)

RowsOf(u)     == {i \in DOMAIN events : events[i].uid = u}
MeasuredOf(u) == {i \in RowsOf(u) : events[i].type \notin Ignored}

AsFocus(e) == [win |-> e.win, ts |-> e.ts]

\* A variant with a bug: looks at ignored events too.
LastEventAnyType(u, i) ==
    i \in RowsOf(u) /\ \A j \in RowsOf(u) : j <= i

\* get_last_events_for_uids: the rows of u at the largest timestamp of a
\* measured row.  The outer query keeps every row with that timestamp,
\* whatever its type, and the last one read stays in the map.  The query has no
\* ORDER BY: that it returns rows in the order of their ids is an assumption.
LastEvent(u, i) ==
    /\ i \in RowsOf(u)
    /\ \E m \in MeasuredOf(u) :
           /\ events[m].ts = events[i].ts
           /\ \A n \in MeasuredOf(u) : events[n].ts <= events[m].ts
    /\ \A j \in RowsOf(u) : events[j].ts = events[i].ts => j <= i

\* A variant with a bug: forgets the interval an earlier flush left open.
SeedAlwaysEmpty(u) == NoFocus

\* open_focus_from_row on that row
Seed(u) ==
    IF \E i \in DOMAIN events : LastEvent(u, i) /\ events[i].type = "Focus"
    THEN AsFocus(events[CHOOSE i \in DOMAIN events :
                            LastEvent(u, i) /\ events[i].type = "Focus"])
    ELSE NoFocus

\* get_uids_with_open_intervals: ordered by timestamp, then id
OpenUids ==
    {u \in Users : \E i \in MeasuredOf(u) :
        /\ events[i].type = "Focus"
        /\ \A j \in MeasuredOf(u) :
               events[j].ts < events[i].ts \/ (events[j].ts = events[i].ts /\ j <= i)}

BufferUids == {buffer[i].uid : i \in DOMAIN buffer}
-----------------------------------------------------------------------------
(* Buffer and flush *)

\* EventBuffer::push: silently rejected at capacity
Push(e) == IF Len(buffer) >= MaxCapacity THEN buffer ELSE Append(buffer, e)

Stamped(u, type, w) == [uid |-> u, type |-> type, win |-> w, ts |-> clock]

\* A variant with a bug: does not ask the database who is focused.
FlushedUidsInMemory(drained) ==
    registered \cup {drained[i].uid : i \in DOMAIN drained}

\* flush_buffer's all_uids: buffered, registered or open in the database
FlushedUids(drained) ==
    registered \cup OpenUids \cup {drained[i].uid : i \in DOMAIN drained}

\* flush_buffer up to the walk: drain, then seed every uid of the flush from
\* its last persisted event.
BeginFlush(drained) ==
    LET uids == FlushedUids(drained)
    IN  /\ job' = "flushing"
        /\ buffer' = << >>
        /\ todo' = drained
        /\ done' = << >>
        /\ flushNow' = clock
        /\ focus' = [u \in Users |-> IF u \in uids THEN Seed(u) ELSE NoFocus]
        /\ delta' = Nothing

\* A variant with a bug: drains the buffer before the lookup.
LookupFailsAfterDrain(kept) ==
    /\ MayFailLookup
    /\ job' = "idle"
    /\ buffer' = << >>
    /\ UNCHANGED flush

\* flush_buffer when uids_with_open_intervals fails: nothing is drained.
LookupFails(kept) ==
    /\ MayFailLookup
    /\ job' = "idle"
    /\ buffer' = kept
    /\ UNCHANGED flush

\* A variant with a bug: credits the whole interval to the day it began on.
ShareOnTheFirstDay(f, t, k, d) ==
    IF f # NoFocus /\ k \in KeysOf[f.win] /\ d = DayOf(f.ts) THEN t - f.ts ELSE 0

\* accumulate_range: what an interval of focus f up to t adds to row k on day d.
Share(f, t, k, d) ==
    IF f # NoFocus /\ k \in KeysOf[f.win] THEN Overlap(f.ts, t, d) ELSE 0

\* accumulate_closed: focus f of user u ended at t.
CloseInterval(u, f, t) ==
    delta' = [delta EXCEPT ![u] =
                [k \in Keys |-> [d \in Days |->
                    delta[u][k][d] + Share(f, t, k, d)]]]

\* One iteration of the event loop in process_all_deltas.
WalkEvent ==
    /\ job = "flushing" /\ todo # << >>
    /\ LET e == Head(todo) IN
        /\ done' = Append(done, e)
        /\ \/ /\ e.type = "Focus"
              /\ CloseInterval(e.uid, focus[e.uid], e.ts)
              /\ focus' = [focus EXCEPT ![e.uid] = AsFocus(e)]
           \/ /\ e.type \in Close
              /\ CloseInterval(e.uid, focus[e.uid], e.ts)
              /\ focus' = [focus EXCEPT ![e.uid] = NoFocus]
           \/ /\ e.type \in Ignored
              /\ UNCHANGED << focus, delta >>
    /\ todo' = Tail(todo)
    /\ UNCHANGED << clock, proc, job, memory, flushNow, database >>

\* The end of a flush that acknowledges no Shutdown.
EndFlushOfDaemonThatRuns ==
    /\ job' = "idle"
    /\ UNCHANGED proc
    /\ todo' = << >> /\ done' = << >> /\ flushNow' = 0
    /\ focus' = Unfocused /\ delta' = Nothing

\* The flush returns; Shutdown acknowledges whether it succeeded or not.
EndFlush ==
    /\ job' = "idle"
    /\ proc' = IF proc = "closing" THEN "stopping" ELSE proc
    /\ todo' = << >> /\ done' = << >> /\ flushNow' = 0
    /\ focus' = Unfocused /\ delta' = Nothing

\* A variant with a bug: leaves the open time of an interval it closes.
OpenWithoutReset(u, k, d) ==
    LET still == Share(focus[u], flushNow, k, d)
    IN  IF still > 0 THEN still ELSE open[u][k][d]

\* The open_millis a flush leaves in a row: the open upsert overwrites what the
\* closed upsert has reset to 0; a row in neither batch keeps its value.
OpenAfter(u, k, d) ==
    LET still == Share(focus[u], flushNow, k, d)
    IN  IF still > 0 THEN still
        ELSE IF delta[u][k][d] > 0 THEN 0 ELSE open[u][k][d]

\* The batch upserts, the event insert and the commit, in one transaction, in
\* which every lookup of an app and of its categories answers: the code counts a
\* failed one under app 0 or Uncategorized and commits all the same.
CommitFlush ==
    /\ job = "flushing" /\ todo = << >>
    /\ closed' = [u \in Users |-> [k \in Keys |-> [d \in Days |->
                    closed[u][k][d] + delta[u][k][d]]]]
    /\ open' = [u \in Users |-> [k \in Keys |-> [d \in Days |->
                    OpenAfter(u, k, d)]]]
    /\ events' = events \o done
    /\ measuredAt' = flushNow
    /\ EndFlush
    /\ UNCHANGED << clock, memory >>

\* A variant with a bug: returns the error before it acknowledges a Shutdown.
FailFlushUnheard ==
    /\ MayFailFlush
    /\ job = "flushing"
    /\ EndFlushOfDaemonThatRuns
    /\ UNCHANGED << clock, memory, database >>

\* The transaction fails: it is rolled back, and the drained events are gone.
FailFlush ==
    /\ MayFailFlush
    /\ job = "flushing"
    /\ EndFlush
    /\ UNCHANGED << clock, memory, database >>
-----------------------------------------------------------------------------
(* Messages the actor handles *)

Room == Len(events) + Len(buffer) < MaxEvents

\* A Resume normally comes later than the event before it.
Spaced(u, type) ==
    type = "Resume" /\ ~ResumeTies =>
        /\ \A i \in RowsOf(u) : events[i].ts < clock
        /\ \A i \in DOMAIN buffer : buffer[i].uid = u => buffer[i].ts < clock

\* handle_event: buffer the event, flush at FlushCount.  (What it does to
\* blocked_apps in between does not touch the ledger.)
HandleEvent(u, type, w) ==
    /\ Ready /\ proc \in {"running", "stopping"} /\ Room
    /\ type \in Windowed <=> w # NoWindow
    /\ Spaced(u, type)
    /\ LET pushed == Push(Stamped(u, type, w)) IN
        IF Len(pushed) >= FlushCount
        THEN BeginFlush(pushed) \/ LookupFails(pushed)
        ELSE /\ buffer' = pushed
             /\ UNCHANGED << job, flush >>
    /\ UNCHANGED << clock, proc, registered, toClose, database >>

\* A variant with a bug: skips the tick when nobody has a plugin.
FlushTickOfRegisteredUsers ==
    /\ Ready /\ proc \in {"running", "stopping"} /\ registered # {}
    /\ BeginFlush(buffer)
    /\ UNCHANGED << clock, proc, registered, toClose, database >>

\* InternalEvent::Flush from the minute ticker.
FlushTick ==
    /\ Ready /\ proc \in {"running", "stopping"}
    /\ BeginFlush(buffer)
    /\ UNCHANGED << clock, proc, registered, toClose, database >>

\* A variant with a bug: does not ask the database who is focused.
ShutdownOfKnownUsers ==
    /\ Ready /\ proc = "running" /\ Room
    /\ proc' = "closing" /\ job' = "closing"
    /\ toClose' = registered \cup BufferUids
    /\ UNCHANGED << clock, registered, buffer, flush, database >>

\* InternalEvent::Shutdown: who gets a ShutDown event.
Shutdown ==
    /\ Ready /\ proc = "running" /\ Room
    /\ proc' = "closing" /\ job' = "closing"
    /\ \/ toClose' = registered \cup BufferUids \cup OpenUids
       \/ MayFailLookup /\ toClose' = registered \cup BufferUids
    /\ UNCHANGED << clock, registered, buffer, flush, database >>

ShutdownPush(u) ==
    /\ job = "closing" /\ u \in toClose
    /\ buffer' = Push(Stamped(u, "ShutDown", NoWindow))
    /\ toClose' = toClose \ {u}
    /\ UNCHANGED << clock, proc, job, registered, flush, database >>

\* ... and the flush that follows; the acknowledgement when it does not start.
ShutdownFlush ==
    /\ job = "closing" /\ toClose = {}
    /\ \/ BeginFlush(buffer) /\ UNCHANGED proc
       \/ LookupFails(buffer) /\ proc' = "stopping"
    /\ UNCHANGED << clock, registered, toClose, database >>
-----------------------------------------------------------------------------
(* The rest of the process and the world *)

Register(u) ==
    /\ Alive /\ u \notin registered
    /\ registered' = registered \cup {u}
    /\ UNCHANGED << clock, proc, job, buffer, toClose, flush, database >>

Unregister(u) ==
    /\ Alive /\ u \in registered
    /\ registered' = registered \ {u}
    /\ UNCHANGED << clock, proc, job, buffer, toClose, flush, database >>

\* All memory is gone; an open transaction is rolled back.
Die(how) ==
    /\ proc' = how /\ job' = "idle"
    /\ registered' = {} /\ buffer' = << >> /\ toClose' = {}
    /\ todo' = << >> /\ done' = << >> /\ flushNow' = 0
    /\ focus' = Unfocused /\ delta' = Nothing
    /\ UNCHANGED << clock, database >>

Crash == MayCrash /\ Alive /\ Die("crashed")

\* main returns some time after the acknowledgement of Shutdown.  It does not
\* wait for the actor, which goes on handling events and ticks until then.
Exit == proc = "stopping" /\ Die("stopped")

Start ==
    /\ proc \in {"stopped", "crashed"}
    /\ proc' = "running"
    /\ UNCHANGED << clock, job, memory, flush, database >>

Tick ==
    /\ clock < MaxTime
    /\ clock' = clock + 1
    /\ UNCHANGED << proc, job, memory, flush, database >>
-----------------------------------------------------------------------------
Init ==
    /\ clock = 0 /\ proc = "running" /\ job = "idle"
    /\ registered = {} /\ buffer = << >> /\ toClose = {}
    /\ todo = << >> /\ done = << >> /\ flushNow = 0
    /\ focus = Unfocused /\ delta = Nothing
    /\ events = << >> /\ closed = Nothing /\ open = Nothing
    /\ measuredAt = 0

Next ==
    \/ \E u \in Users, type \in Arrivals, w \in Windows \cup {NoWindow} :
           HandleEvent(u, type, w)
    \/ FlushTick
    \/ WalkEvent
    \/ CommitFlush
    \/ FailFlush
    \/ Shutdown
    \/ \E u \in Users : ShutdownPush(u)
    \/ ShutdownFlush
    \/ \E u \in Users : Register(u) \/ Unregister(u)
    \/ Crash
    \/ Exit
    \/ Start
    \/ Tick

Spec == Init /\ [][Next]_vars

\* The ticker sends Flush every minute, and an actor that has started a job
\* finishes it: nothing in a flush or a shutdown waits for another actor.
Fairness ==
    /\ WF_vars(FlushTick)
    /\ WF_vars(WalkEvent)
    /\ WF_vars(CommitFlush)
    /\ WF_vars(\E u \in Users : ShutdownPush(u))
    /\ WF_vars(ShutdownFlush)
    /\ WF_vars(Exit)

FairSpec == Spec /\ Fairness
-----------------------------------------------------------------------------
(* Properties *)

\* Every variable has its type; the buffer never grows past its capacity.
TypeOK ==
    /\ clock \in Time
    /\ proc \in {"running", "closing", "stopping", "stopped", "crashed"}
    /\ job \in {"idle", "closing", "flushing"}
    /\ registered \subseteq Users /\ toClose \subseteq Users
    /\ buffer \in Seq(TimedEvent) /\ todo \in Seq(TimedEvent)
    /\ done \in Seq(TimedEvent) /\ events \in Seq(TimedEvent)
    /\ Len(buffer) <= MaxCapacity
    /\ flushNow \in Time /\ measuredAt \in Time
    /\ focus \in [Users -> OpenFocus \cup {NoFocus}]
    /\ delta \in Tally /\ closed \in Tally /\ open \in Tally

\* What the events of a log say is focused: the last measured event of u, when
\* it is a Focus.
IsLastMeasured(log, u, i) ==
    /\ i \in DOMAIN log /\ log[i].uid = u /\ log[i].type \notin Ignored
    /\ \A j \in DOMAIN log :
           log[j].uid = u /\ log[j].type \notin Ignored => j <= i

Focused(log, u) ==
    IF \E i \in DOMAIN log : IsLastMeasured(log, u, i) /\ log[i].type = "Focus"
    THEN AsFocus(log[CHOOSE i \in DOMAIN log :
                         IsLastMeasured(log, u, i) /\ log[i].type = "Focus"])
    ELSE NoFocus

MeasuredIn(log, u) == {i \in DOMAIN log : log[i].uid = u /\ log[i].type \notin Ignored}
Later(log, u, i)   == {j \in MeasuredIn(log, u) : j > i}

\* The focus intervals of u on row k that a log ends, and what they add up to
\* on day d: each lasts up to the next measured event of the user.
Ended(log, u, k) ==
    {i \in MeasuredIn(log, u) : /\ log[i].type = "Focus" /\ k \in KeysOf[log[i].win]
                                /\ Later(log, u, i) # {}}

Spent(log, u, k, d) ==
    MapThenSumSet(LAMBDA i : Overlap(log[i].ts, log[Min(Later(log, u, i))].ts, d),
                  Ended(log, u, k))

\* The closed milliseconds of every row of the daily usage tables are those of
\* the closed focus intervals in the events table: each persisted Focus counts
\* once, up to the next measured event of its user, on the days it spans,
\* whatever flushes the events arrived in and whatever crashed or failed.
UsageMatchesEvents ==
    \A u \in Users, k \in Keys, d \in Days : closed[u][k][d] = Spent(events, u, k, d)

\* The open milliseconds of every row are those of the interval that is open in
\* the events table, up to the last flush, and 0 in every other row: no row
\* keeps the open time of an interval that a later flush closed.
OpenMatchesEvents ==
    \A u \in Users, k \in Keys, d \in Days :
        open[u][k][d] = Share(Focused(events, u), measuredAt, k, d)

\* What get_today_app_usage reads, closed plus open milliseconds, never exceeds
\* the time that has passed on that day: no interval is counted twice, as closed
\* and open, by two flushes, or before and after a restart.
NeverMoreThanElapsed ==
    \A u \in Users, k \in Keys, d \in Days :
        closed[u][k][d] + open[u][k][d] <= Overlap(0, measuredAt, d)

\* When the flush of a Shutdown commits, no user, not even one whose plugin has
\* gone, is left with an open interval that the next start would extend over
\* the time the daemon was down.
ShutdownClosesEveryInterval ==
    [][proc = "closing" /\ CommitFlush
        => \A u \in Users : Focused(events', u) = NoFocus]_vars

\* A daemon that has shut down in an orderly way leaves no open interval.
ExitLeavesNothingOpen ==
    proc = "stopped" => \A u \in Users : Focused(events, u) = NoFocus

\* What was accepted and not lost: the table and, in the order of their arrival,
\* the events in memory.  Only a death or the rollback of a flush loses any, and
\* then all that are in memory and none of the table; no other step loses an
\* event, takes one twice or changes their order, a failing lookup included.
Accepted == ((events \o done) \o todo) \o buffer
OnlyFailuresLoseEvents ==
    [][IF Crash \/ Exit \/ FailFlush
       THEN Accepted' = events
       ELSE /\ Len(Accepted) <= Len(Accepted')
            /\ \A i \in DOMAIN Accepted : Accepted'[i] = Accepted[i]]_vars

\* Every event the actor accepts reaches the events table or is lost in such a
\* failure, unless the daemon has already closed its books: what comes between
\* the last flush and the exit is lost with the process.
EveryEventIsPersisted ==
    \A n \in 1 .. MaxEvents :
        Len(Accepted) >= n ~> \/ Len(events) >= n \/ Len(Accepted) < n
                             \/ proc \in {"stopping", "stopped"}

\* A daemon that is told to shut down does stop: main waits for the
\* acknowledgement without a timeout, and it comes also when the lookup or the
\* flush fails.
ShutdownCompletes == proc = "closing" ~> proc \in {"stopped", "crashed"}
=============================================================================
