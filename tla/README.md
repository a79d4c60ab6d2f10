# Digital Wellbeing in TLA+

Specifications of the digital-wellbeing program (a Rust daemon that measures and limits the
use of applications, a Hyprland plugin that watches windows, a GPUI front end), model
checked with TLC and, where it says so, proved with TLAPS. Every module is translated from
the source under `src/`; `PROJECT.json` maps each definition to the lines it stands for.

Contents: [1 The system](#1-the-system) · [2 Order of the work](#2-order-of-the-work) ·
[3 Modules](#3-modules) · [4 Properties](#4-properties) · [5 Runs](#5-runs) ·
[6 Fairness](#6-fairness) · [7 Proofs](#7-proofs) · [8 Abstractions](#8-abstractions) ·
[9 Not modelled](#9-not-modelled) · [10 Where code and documents part](#10-where-code-and-documents-part)

## 1 The system

One daemon process per machine or per session owns an SQL database file (turso) and a D-Bus
name. One plugin per compositor session reports what is focused and paints an overlay over
blocked windows. The front end reads reports and edits policies over D-Bus. Inside the daemon
one task, `EnforcerActor`, does all the work on usage and blocks, one message at a time; D-Bus
handlers, the minute ticker, signal forwarders and the watchdog run beside it.

| Component | State | Operations | Talks to | What is hard | What makes it correct | Module |
|---|---|---|---|---|---|---|
| **Usage ledger** (`blocking/core`, `store/daos/events.rs`, `store/daos/daily_usage/*`) | event buffer, locals of a flush; tables `events`, `daily_usage_*` | `handle_event`, `flush_buffer`, `process_all_deltas`, `Shutdown` | plugins, ticker, main | crash or rollback between drain and commit; an interval seen by many flushes; users without a plugin; midnight; the full buffer | the totals are those of the persisted events, once each, under their day; nothing is counted as open and closed | `UsageLedger` |
| **Enforcement** (`blocking/core`) | `blocked_apps`, `last_midnight_reset` | `evaluate_and_enforce`, `evaluate_single_uid`, `evaluate_and_apply`, `handle_policy_mutation`, `midnight_reset` | plugins (`GetFocusState`), policies, signal task | awaits between question, read and verdict; parallel evaluation; policies stored meanwhile; midnight during a tick | block list, signals, stored policies and usage agree; limits end with their day | `Enforcement` |
| **Policy evaluation** (`policy/core/evaluator.rs`, `store/daos/policies/queries.rs`) | none | `resolve_for_app`, `evaluate` | enforcement | order of the query against the order of the evaluator; categories of the user and of the system | categories reach what the charts count under them; more usage never unblocks | `PolicyEvaluation` |
| **Policy storage** (`policy/data/repo.rs`, `dbus/methods`, `up.sql`) | table `policies` | create, update, delete, list | callers, enforcement | CHECKs against partial updates; the owner is checked before the write; ids are reused; narrowing casts | what was accepted is stored, but for a category that does not exist; nobody writes another's row | `PolicyStore` |
| **Watchdog, life cycle** (`main/*`) | bus name, connections, shutdown token | serve, recover, shut down, emit signals | bus, actor | a name lost during recovery, or while nobody watches; exit without joining the actor | the name is recovered; books are closed at exit | `PolicyDesk`, `UsageLedger` |
| **Front-end flows** (`gui/dbus/bus.rs`, `gui/*/data/flow.rs`) | presence, subscriptions, view model | watch both buses, subscribe, fetch, draw | daemon, editor | two buses whose news overtake each other; streams that end; calls that time out | a screen comes to show what the daemon serves | `PolicyDesk` |
| **Policy editor** (`gui/policies`, `gui/appshell/data.rs`) | the open form | open, click, Save, Delete | policy storage, the flow's screen | five representations of one policy | a round trip changes what was clicked and nothing else | `PolicyEditor`, `PolicyDesk` |
| **Screens** (`gui/dashboard`, `gui/reports`, daemon's summaries) | view models | timeline, hourly chart, rankings, pies, bars | four queries over two tables | a refresh over midnight; two queries torn by a commit; an open interval | all of them say the same of the same day | `DayScreens` |
| **Hyprland plugin** (`plugins/hyprland/app`) | focused window, block list, idle; bus, registration | hooks, two threads, two bounded queues, bus selection, exit | daemon, logind | two threads, full queues, answers against signals, refusals, daemon restart on either bus | both threads and the daemon agree on focus and blocks | `HyprlandPlugin` |
| **Day arithmetic** (`clock.rs`, `accumulate.rs`) | none | `split_by_utc_day`, `daily_date_str` | ledger, reports | boundaries; two calendars | segments are overlaps; both calendars agree | `UtcDay`, `Calendar` |
| **Plugin registry, intake** (`platform/linux/*`, `dbus/methods`) | instances per uid, forwarders | `register`, `unregister_by_uid`, `subscribe_signals` | plugins, actor | an answer of a dead instance against a new registration | what the ledger and the enforcement need of it | inside these two |
| Categorization, pruning, migrations, app ids | tables | queries, a daily delete, a linear upgrade | ledger | see section 9 | | partly or not |
| Inhibitor, notifications, rendering | none of their own | per call | | | | not modelled |

`PROJECT.json` lists the hazards of this code line by line, with the properties that would
notice each, or the reason why none does.

## 2 Order of the work

Modules are written so that they can be proved about: parameters are constants with named
assumptions, one action per operation, invariants in named parts, no RECURSIVE operator. They
were written in this order, the most important behaviour first; all of it is done:

1. usage ledger, its meter and the refinement between them; day arithmetic;
2. enforcement;
3. policy evaluation and storage, as the part of a composition with the daemon's process, its
   watchdog, its signals and the front end (`PolicyDesk`, which implements `PolicyStore`);
4. the Hyprland plugin;
5. the computations of the screens over the ledger's tables, and the editor's round trip.

What a continuation would add, in this order: the pruning of old rows with a horizon that is a
constant; the cache of app ids under rollbacks; the registry with several live instances of one
user; a proof of `SignalsTellTheBlocks` composed with the plugin's `BlocksAgree`.

## 3 Modules

### Usage ledger

| Module | Content |
|---|---|
| `EventTypes` | the kinds of events and their classes (`event_types.rs`) |
| `UtcDay` | `SplitByUtcDay`, the loop of `split_by_utc_day`, and `Overlap`, its closed form |
| `Calendar` | a clock that passes every day of 130 years; `daily_date_str` against the Gregorian calendar |
| `Calendar_proofs` | the same for every day and every interval |
| `UsageLedger` | buffer, flush, tables, shutdown, crash, restart; all properties |
| `UsageLedgerInvariant` | the inductive invariants `LedgerInv`, `UsageInv` and `BooksInv` |
| `Metering`, `UsageMeter` | what the ledger promises: a meter that counts an event when it happens, and a snapshot of it |
| `UsageLedgerRefinement` | the mapping from ledger to meter |
| `UsageLedger_proofs` | theorems |
| `Induction_proofs` | induction, finite sums and joined sequences, for all theorems about folds and recursive functions |
| `MCUsageLedger`, `MCUsageLedgerRefinement` | instances |

State: `buffer` is `event_buffer`; `todo`, `done`, `focus`, `delta`, `flushNow` are the locals
of `flush_buffer` and `process_all_deltas` (`open_focus`, the `agg_closed` maps, `now`);
`events`, `closed`, `open` are the tables, with a row per app, title and category of a
window (`KeysOf`); `registered` is the registry; `toClose` the uids `Shutdown` has still to
push an event for; `proc` and `job` the life of the process and of the actor. `measuredAt` is
a history variable: the `now` of the last commit.

Actions: `HandleEvent` stamps and pushes an event and starts a flush at `FlushCount`;
`FlushTick` is the minute tick; `WalkEvent` is one iteration of `process_all_deltas`, an
action of its own because the loop awaits; `CommitFlush` is the transaction (batch upserts,
insert of the events, commit); `FailFlush` its rollback, after which the drained events are
gone; `LookupFails` is a flush that fails before it drains; `Shutdown`, `ShutdownPush`,
`ShutdownFlush` are `InternalEvent::Shutdown`; `Exit`, `Crash`, `Start` the process;
`Register`, `Unregister` the registry.

### Enforcement

| Module | Content |
|---|---|
| `Enforcement` | the evaluating half of the actor with what surrounds it; all properties |
| `EnforcementInvariant` | the inductive invariant `EnforcementInv` |
| `Enforcement_proofs` | theorems |
| `MCEnforcement` | interchangeable users and apps |

State: `blocked` is `blocked_apps`; `lastReset` is `last_midnight_reset`; `internal` the
actor's bounded channel, `inbox` the events on their way to it; `actor` the message it is
handling and `step[u]` how far the evaluation of user `u` has come (registry looked up,
plugin asked, policies to be read, verdict to be applied), which is one job for every user at
once in a minute tick; `today` is the `now` handed down through the evaluation. `registered`,
`listening` and `plugin`/`instance` are the registry, the event subscription and the plugin's
process. `rule` is what the policies say of an app and `used` the days on which it reached
its limit. `told`, `heard` and `firstCheck` are history: what the signals add up to, the app
the daemon last learned to be focused, and the day of the first tick.

Actions: `LookUp`, `Unreachable`, `Answered`, `ReadPolicies`, `Apply` are the stretches of
`evaluate_single_uid`, `evaluate_single_app` and `evaluate_and_apply` between awaits, and the
same code in `handle_policy_mutation`; `HandleEvent`/`EndEvent`, `HandlePolicyChanged`/
`EndMutation`, `HandleFlush`/`EndTick`/`MidnightReset` are the actor's messages;
`StorePolicy` and `AnnouncePolicy` the two halves of the D-Bus methods that change policies;
`MinuteTick` the ticker; `RegisterPlugin`, `Subscribe`, `Greet`, `SwitchFocus`, `PluginDies`
and `NextDay` the world.

### Policies and the desk

| Module | Content |
|---|---|
| `PolicyEvaluation` | a row, what create and update make of a request, the CHECKs, the categories of an app, the query's WHERE and ORDER BY, the evaluator |
| `PolicyStore` | the table and the D-Bus methods, calls of several callers at once |
| `PolicyDesk` | EXTENDS `PolicyStore`: the daemon's process and name, watchdog, signals, bus manager, flow of a screen, editor |
| `PolicyEditor` | the way of a row into the form and back |
| `PolicyStore_proofs`, `PolicyDesk_proofs` | theorems about the store; about the desk and the editor |
| `MCPolicyDesk` | one instance with four scenarios |

`PolicyStore`. `table[i]` is the row with id `i`; `call[c]` the call of caller `c` and where it
is: a create goes straight to its write, update and delete first read the owner
(`VerifyOwner`, `verify_policy_owner`) and write in a later step (`UpdatePolicy`,
`DeletePolicy`); `AnnounceChange` is the end of the handler. `births` is history: how many rows
an id has named, since the table gives the largest id plus one and therefore gives the id of a
deleted last row again. A request's numbers are `i64`, the columns 32 bits (`AsI32`); its category is a
name, which is looked up and may be no category's (`Unknown`, `Discriminant`).

`PolicyDesk`. `daemon` is the process: its bus, the newest connection `conn`, the connection
`serving` on which the signal task emits, and the watchdog (`watching`, `notices`, `retries`).
`owner[b]` is the connection that owns the name on a bus; `sender[c]` the connection a call
came in on. `wire[b]` are the `NameOwnerChanged` signals of a bus until the flow takes them;
`flow` is the loop of the flow (`top`: subscribe, `select`, `fetch` or `patch`, `show`),
`signals` its channel, `refresh` the requests to refresh, `fetched` and `vm` the answer and the
view model, `screen` what is drawn and what the receiver drew last, `editor` the task of Save
or Delete. Actions: `StartDaemon`, `Crash`, `LoseName`; `WatchEnds`, `WatchAgain`, `Notice`,
`Reacquire`, `Settle`, `ReacquireFails` (the watchdog's `run`, `attempt_recovery`,
`should_shutdown`); `Receive`, `Handle`, `Announce`, `Change`, `EmitSignal`; `Subscribe`,
`SkipSubscribe`, `OnPresence`, `OnSignal`, `OnRefresh`, `Read`, `ReadFails`, `Show`,
`ReceiveView`, `StreamEnds`; `Save`, `Answered`, `EditorFetch`, `EditorDraws`. A behaviour has
one screen, chosen in its first state: the flows of the three screens are separate tasks that
share the bus manager only, and differ in their subscription (the dashboard does not look for
the daemon), in the blocked-apps patch and in the editor.

`PolicyEditor` has no state of its own. `Served` is what `list_policies` says of a row,
`Opened` the form a click opens, `KindClicks` and `Steps` the clicks in it, `Sent` the request
that Save makes; `Merged` of `PolicyEvaluation` closes the circle.

### Screens

`DayScreens` EXTENDS `Calendar` and `Metering`: the events table `log`, written by `Record` with
the delay of the daemon's buffer, and one `refresh` of the dashboard, whose two queries
(`ReadSeed`, `ReadEvents`) and whose `Rebuild` are separate steps of a clock that advances.
`Timeline`, `Bucket`, `Ranked`, `TopRows`, `Bars` and the like are the computations, as
operators; what the usage tables hold is the abstract meter of the ledger (`Metering`), folded
over the rows, so that the screens are checked against what the ledger is shown to implement.
`MCDayScreens` gives the two windows their rows; `DayScreens_proofs` holds the inductive invariant
`ScreensInv` and the theorems.

Two definitions are written for the provers and say what the code says. `Stably` is
`sort_by_key`, which is stable: the n-th element is the one with n - 1 before it. `DayEvents` takes
the rows of a range of times as a range of places of the table, which is in the order of its times.

### Hyprland plugin

| Module | Content |
|---|---|
| `HyprlandPlugin` | both threads, their queues, the daemon on two buses; all properties |
| `HyprlandPluginInvariant` | the inductive invariant `PluginInv` |
| `HyprlandPlugin_proofs` | theorems |

Compositor thread: `focus`, `blocks`, `idle`, `handled` (how many commands of
the batch it has handled), `exit`. D-Bus thread: `current` (`m_focusedApp`), `registered`,
`bus`, `matches`, `select` (`m_selectStep`), `locked`, `shutdown`, `stopped`. Between them
`msgs` and `cmds`, each with its slots, the slot being written, the eventfd and the slots under
the reader. A push is two steps, as `WriteScope` does it: the slot is written and the eventfd
raised, and only the end of the scope commits; a read is two steps as well. Around them:
`daemon` and `blocked` on the other side, `calls` and `inbox` on each of two connections. A daemon
that lives can refuse a call: `RefuseRegister` and `RefuseBlockedApps` are the error replies of the two
handlers and the time-out of the call, after which the daemon may or may not have registered the plugin.
A batch of messages or commands is told apart by what it ends in (`LastFocus`, `LastEvent`,
`LastWord`): the focus that is remembered, the event the daemon hears last, the last command that
settles whether an app is blocked. `lostFocus`, `lostCmd`, `overtaken`, `crossed` and `refused` are history and mark what the code
loses: a report that found its queue full, a command that did or a list that was refused, a list of
blocked apps older than a signal that was handled before it, news of the two connections out of order,
and a registration that was refused.

In every module a definition whose comment begins "A variant with a bug" is not part of the
model. It stands before the definition it varies, and putting it in its place breaks a
property (`PROJECT.json`, "mutants"): the property can tell the code from a plausible error.

## 4 Properties

| Property | Says |
|---|---|
| `UsageMatchesEvents` | closed time per row and day is that of the closed intervals in `events`, whatever flushes they arrived in and whatever crashed |
| `OpenMatchesEvents` | open time per row and day is that of the one open interval up to the last flush, and 0 in all other rows |
| `NeverMoreThanElapsed` | reported usage of a day never exceeds the time passed on it |
| `LedgerImplementsMeter` | every step is a step of the meter (observe, save, lose) or invisible |
| `ShutdownClosesEveryInterval` | the commit of a shutdown leaves no user with an open interval, with or without a plugin |
| `EveryEventIsPersisted`, `OnlyFailuresLoseEvents` | accepted events reach the table, in the order in which they came, or are lost by a death or a rollback, which loses none of the table; nothing else loses any |
| `ShutdownCompletes` | a daemon told to shut down stops, also when the lookup or the flush fails |
| `WrittenDayIsReadDay`, `SegmentsAreOverlaps` | both calendars agree; an interval is split into its overlaps with the days |
| `SignalsTellTheBlocks` | the signals, added up, are the block list |
| `VerdictFollowsPolicy` | an actor with nothing of a user's left to do agrees with the stored policies about the app it last learned to be focused |
| `LimitBlocksEndWithTheirDay` | no limit of an earlier day outlives the first tick of a later one, but for blocks made before the very first tick |
| `EnforcementConverges` | once the world rests and queries and flushes stop failing, what is in front of each reachable user is blocked exactly when policy and usage say so |
| `LimitsOnlyTighten` | more usage never unblocks an app |
| `CategoryPoliciesFollowTheCharts` | a category policy reaches an app exactly when the usage tables book it under that category and some category was given to it |
| `OwnRowsOnly` | no call changes, takes or gives away somebody else's row, but for a row under an id that was given out again between check and write |
| `AcceptedMeansStored` | an accepted create or update leaves exactly the row of its request, and nothing of an earlier one, but for the category of an update that names none that exists |
| `EditorKeepsTheRest` | opening a policy, one click and Save change what was clicked and nothing else |
| `ScreenCatchesUp` | the screen comes to show what the daemon serves, and stays so, but for a signal that went out unheard with nothing fetched since, news of two buses out of order, or a drawing of the editor |
| `NameRecovers` | a lost name is taken back or the daemon dies, if its watchdog was watching when it was lost |
| `TimelineMatchesUsage`, `ChartMatchesUsage` | timeline and hourly chart of a day add up to the usage tables, although other code builds them from other rows |
| `FragmentsDoNotOverlap` | focus, gaps and the open block never cover each other in an hour |
| `ScreensAddUp` | bars, rankings, pies and the enforcer's usage agree over any range of days |
| `MailboxCarriesFocus` | the reports under way between the plugin's threads end in the focused window and whether it is blocked |
| `DaemonToldFocus` | a daemon that registered the plugin has been told its focus, in any order of registration, answers, refusals and changes |
| `BlocksAgree` | with everything under way handled, the plugin blocks what the daemon blocks |
| `RegisteredMeansServed`, `PluginRegisters` | a registered plugin has a daemon or will hear that it has not; it registers with every daemon that stays and does not refuse it |
| `RefusalIsRetried` | the plugin's log line that a refused registration will be retried; violated |

A property that exempts a state says so. Most exemptions are history variables, which the steps
of the model set: the behaviour is there and is reached by the runs, and the property says what
still holds around it.

## 5 Runs

| Run | Instance | Shows |
|---|---|---|
| `calendar` | days of 4 ms and two hours, 47 600 days, intervals of up to 7 ms; two windows, three events up to 3 ms into the second day, a ranking of one | 130 years cover each case of the leap rule (2000, 2100); an interval of 7 ms touches up to three days and each position in a day. Three events open, close and reopen an interval over a midnight; an event waits one step, so that a refresh can be torn; a ranking of one is cut off |
| `usage_ledger_one_user` | one user, two windows sharing a category row, days of 2 ms, buffer of 2, four events, every failure on | 1.1 M states. Four events allow an interval to be opened by one flush, extended by a second and closed by a third, over a midnight, with a crash or rollback before each; a buffer of 2 is full between ticks |
| `usage_ledger_refinement` | two users, three events, days of 1 ms, crashes and rollbacks | the ledger implements the meter; two users are needed for a flush that sees one of them only in the database |
| `usage_ledger_liveness` | two users, three events, every failure on | 63 000 states. Accepted events are persisted or lost by a failure; the acknowledgement of a shutdown also comes after a lookup that fails before the flush and after a flush that fails at any of its steps |
| `usage_ledger_exit` | violated | after the acknowledged shutdown flush the actor still takes a Focus and a tick before the exit (finding) |
| `enforcement` | two users, one app, one midnight, three changes of the world, channel of 1 | 4.9 M states up to symmetry. Three changes allow a policy edit or a death or a midnight between any two awaits of an evaluation and another before its correction arrives; a channel of 1 makes the handlers wait |
| `enforcement_liveness` | one user, two plugin processes, four changes, root creating policies, queries and flushes failing at any time | lost events, failed queries and flushes, misdirected announcements and early unblocking are made good by ticks |
| `enforcement_root` | violated | a policy created by root for a user is announced to root (finding) |
| `policy_desk` | root and two users, one app, six requests, two ids, columns of -3 to 2, one attempt of the watchdog, four scenarios | 380 000 states. *closed*: any three policy calls at once, enough for a check, a delete and a create that takes the id between check and write; one request names a category that does not exist. *policies*: a call of the editor and a death. *dashboard*: a change and a broken stream, time-out, death (on either bus) or lost name. *reports*: a change and two faults of name, watch or retry. The table starts with one row that no request makes, so that every target is stored |
| `hyprland_plugin` | one app, a window without a class, queues of 2 slots, three events from outside | 1.1 M states. A block, a change of focus, a refusal and a restart on the other bus, in any order, with queues that overflow. The code's queues have 64 and 2048 slots; two are enough to be full, to be half written and to be half read. The invariants hold with four events too (16.9 M states) |
| `hyprland_plugin_exit` | violated | `PLUGIN_EXIT` can wait for ever for a thread that sleeps (finding) |
| `hyprland_plugin_refused` | violated | one event: a daemon that stays refuses the registration, and is never asked again (finding) |

Bounds: `MaxTime`, `MaxEvents`, `Arrivals` cut the ledger's clock and history; `MaxDay`,
`MaxInstances`, `MaxMoves` and "one mutation of an owner at a time", "one Flush waits at a
time" cut enforcement; `MaxId`, `Inputs`, `Asked`, `MaxMoves`, `Faults`, `MaxFaults` and
`StartsOn` cut the desk; `MaxDelay` and `MaxEvents` the screens; `MaxEvents` the plugin. None is
part of the code. `MaxRetries` (5 in the code), `Top` (10), `Hours` (24), `Half` (2^31),
`Capacity` and the buffer's capacity are the code's own limits, made small. Symmetry is used
where windows or users differ only by name and the properties are safety properties. Deadlock
is off where the bounds make an instance stop, and for the plugin, which stops after its exit.

## 6 Fairness

Weak fairness only. The ledger: `FlushTick` (the ticker of `main/wiring.rs` sends a Flush at
every minute boundary, for as long as the daemon runs), the steps of a flush and of a shutdown
(the actor waits for the database only), and `Exit` (what `main` still waits for after
the acknowledgement is the cancelled watchdog and a task it gives two seconds). Enforcement: the
ticker, the actor's steps and intake (it has one receiver for each queue, which `select!` serves
in random order), and `AnnouncePolicy` (a handler that has stored a policy sends its message).
The desk: the watchdog, the signal task, the handlers of accepted calls, the flow's steps, its
intake of presence from each bus, the receiver of the view model, and the editor's task: tokio
and gpui tasks that wait only for what is already there. The plugin: each of the two threads,
and the answers of the buses. No fairness is assumed for plugins, users, callers, registration,
subscription, failures, starts of the daemon or the clock. Failures need not stop by a fairness
assumption: `EnforcementConverges` says what holds if they do (`<>[][~Failure]_vars` is its
premise), the ledger's liveness holds with
any number of them, and in the desk and the plugin they stop at their bound.

## 7 Proofs

All proofs are checked by `tlapm` for every value of the constants that satisfies the
assumptions (`LedgerAssumption`, `DayLenAssumption`, `CalendarAssumption`,
`EnforcementAssumption`, `EvaluationAssumption`, `StoreAssumption`, `DeskAssumption`,
`EditorAssumption`, `PluginAssumption`, `ScreensAssumption`), which type the constants and keep
the special values apart; for the store they let the daemon start from a legal table, and for the
screens each window has one row among the apps and one among the titles, and a day is a whole
number of hours.

**Induction.** The library's induction theorems take a predicate as an operator, which no
installed prover can instantiate. `Induction_proofs` states them of sets instead: a set that holds
0 and the successors of its elements up to `n` holds `0 .. n`, which follows from
`NatLessThanWellFounded` and `WFMin`. With it a recursive function or a fold of the community
modules is shown to exist (by building it up to each size) and to compute what it should. From the
same module come the facts about finite sums and sequences: a sum does not depend on the order in
which elements are taken out, on their names (`SumMoves`) or on the order of two summations
(`SumSwaps`); `FlattenSeq` joins sequences, and what a joined sequence is worth, or which relation
holds between any two of its elements, follows from its parts.

**Ledger.** `LedgerTypeOK` needs nothing else. `OpenRowsMatchEvents` and `UsageFitsTheDay` are
proved under `~ResumeTies`: a Resume carries a later millisecond than the event of its user before
it. Neither property is inductive, since what a commit writes depends on what the walk has
accumulated. `LedgerInv` adds: the persisted, walked and pending events form one log ordered by
time, in which a Resume is later than all its user did before (`LogInv`; the query for the last
event picks it by its timestamp); the walk knows what is focused after the events it has walked,
and has credited at least the open time it let go of (`WalkInv`; the reset of `open_millis`
happens only in rows with closed time); closed time ends where the open interval or the next event
begins (`RoomInv`, `WalkRoomInv`; otherwise the sum of both could exceed a day). `LedgerInvHolds`
is the theorem; its lemmas are about overlaps of adjacent intervals, `Seed` and the appended log.

`TotalsCountEvents` adds `UsageInv` on top: with what the flush has accumulated, the totals
are those of the walked log. Its step is `SpentAppend`: a measured event ends the interval that
`Focused` says is open, and no other event ends one.

`LedgerIsMeter` is the refinement, for any number of events in memory. `FoldAppend` and
`FoldHead` say that the meter of a log may be read from either end: a pushed event is observed
at the end of the log, a walked one at its beginning, where `Live` does not change. A commit is
`Save` because the tables then say what the walk knew (`WalkInv`), a rollback or a death is
`Lose`.

`BooksAreClosed` needs no assumption on Resumes, but that no lookup fails (the code closes fewer
books then) and `RoomToClose`: the buffer, which flushes at 100 events, has room for one more
event per user below its cap of 10 000. `BooksInv`: while the daemon closes its books, whoever
has something open in the log is still to be pushed an event for, and the pushes fit; in the
flush that follows nobody has.

`NoEventIsForgotten` needs no assumption. `MemoryInv`: the buffer is empty while a flush runs, and
nothing is drained otherwise, so that table, walked, drained and buffered events are one
sequence, to which a push appends and in which drain, walk and commit move only the borders.

**Enforcement.** `EnforcementTypeOK`, `SignalsHold` and `LimitBlocksExpire` need no further
assumption. For the last, `DayInv` adds: an evaluation runs only inside a job that began no
earlier than the last reset (`JobInv`), so that its verdict cannot carry a day before it, and
the remembered days are past and in order (`CheckInv`). `VerdictsFollowPolicies` is proved
under `~RootCreates` (the code is wrong otherwise, see `enforcement_root`) and `~MayFailRead`
(a failed query counts as no policy). The invariant behind it is `VerdictInv`: rules read by
an evaluation are the stored ones or an announcement for that user is with a handler or in
the queue; and the app the daemon knows to be focused is judged rightly, or is being judged,
or such an announcement is waiting or has just been taken. The queue lemmas (`QueuedAppend`,
`QueuedTail`) say that announcements are not lost on the way.

**Policy store.** `StoreTypeCorrect`, `OwnRowsKept` and `AcceptedStored`, for any users, requests,
initial tables and widths of the columns. The invariant is `StoreInv`: the types with the legality
of every row, `VerifyingOps` (a call that waits for the check is an update or a delete) and
`OwnerKnown` (between check and write, the row still has the owner that was found, or is gone, or
its id has had two rows). The last is what makes a check in one query good for a write in a later
one. `LegalMerge` carries `AcceptedStored`: an update that keeps the column of an earlier target
is one the CHECKs refuse, unless it is a category's and the request names none that exists.

The evaluation is proved of every table `StoreInv` allows. `UsageOnlyTightens`: a policy that
blocks at some usage blocks at any larger one, and a policy that does not leaves the decision to
the same next ones. `CategoriesReach`: the sub-query of a category policy and the grouping of the
charts find the same categories of an app that has one, and of an app without one the charts find
`Uncategorized` and the sub-query nothing.

**The desk implements the store.** `DeskImplementsStore` says `DeskSpec => StoreSpec`: of all
that daemon, watchdog, connections, flows and editor do, the table and its calls see only steps
of `PolicyStore`. Hence `DeskKeepsTable`, `DeskKeepsOwnRows` and `DeskStoresAccepted`: the
theorems of the store hold in the composition, across deaths and restarts.

**The editor.** `EditorKeepsRows` (in `PolicyDesk_proofs`): `EditorKeepsTheRest` for every row a
behaviour of the store can reach, from two facts about a legal row (`OpenedForm`: its form carries
the row's own target, effect and numbers) and about the casts on the way back.

**Plugin.** All invariants, for any apps, any capacity of the queues and any number of restarts of
the daemon on either bus. `PluginInv` is one conjunct per hand-over: types and the order of the
bus selection; where a life of the daemon stands on a connection (a name that was lost has a
disconnection, an acquisition or a reset on its way); the home bus, while no news of the two buses
crossed; the last report under way is the compositor's focus; what the daemon was told, or will be
told by a call under way, and that a daemon that accepted the plugin and no longer hears it has
its end on the way (`ToldInv`); that the block signals are subscribed before the list is asked
for; and, app by app, the block the plugin will hold when the answer, the signals and the commands
under way have been handled. The queue lemmas say what a batch ends in when it is appended to,
split or dropped. `MailboxHolds`, `ServedWhenRegistered`, `FocusIsTold` and `BlocksHold` read the
properties off.

**Calendar.** `DatesAgree` splits a day number into eras, centuries, fours and years that begin in
March (`Parts`), shows that `daily_date_str` finds exactly these parts, and that the next day's
parts are the next Gregorian date. `SplitIsOverlap` goes by induction on what is left of the
interval: the segments from any cut on are the overlaps of the rest with its days (`Covers`).
`CalendarOfScreens` carries both over to `SpecScreens`, the specification the run checks.

**Screens.** All four invariants, for any tables, windows, length of day, number of hours and
length of the rankings. The inductive invariant `ScreensInv` says that the table is in the order
of its times (`Table`) and that an answer which has arrived is the one the query gives of the rows
that were there when the refresh began, unless a flush has committed between the queries
(`AnswersOfSnapshot`), and that whatever is drawn has both answers (`BuiltFromSnapshot`). It is
needed because the properties speak of the answers and of the table at once, although query,
flush, query and drawing are separate steps. `ScreensHold` is the theorem; what remains are facts
about every such table.

- *Timeline.* The seed is the focus of the meter when the day begins (`SeedIs`). From there the
  fold of the timeline and the meter go through the same rows together (`FoldIs`): after each row
  the blocks hold what the meter has counted on this day, and the open block is the meter's focus,
  cut off at midnight. The blocks form a line (`Lined`): one after the other, only the last one
  open. The stable sort leaves a line alone (`StablyKeeps`), and filling the gaps keeps it one.
- *Chart.* A line that is cut at the borders of an hour stays in turn, so that the sort leaves the
  fragments of an hour alone. The hours of a day divide a block without rest (`PartsAddUp`);
  adding the hours of each block is adding the blocks of each hour.
- *Rankings and bars.* A sum over rows and days is the same in either order, a ranking renames the
  rows and omits those that are 0, and each interval counts once for the one app row, title row
  and category row of its window.

**Model-checked only.** The liveness properties (`EveryEventIsPersisted`, `ShutdownCompletes`,
`EnforcementConverges`, `ScreenCatchesUp`, `NameRecovers`, `PluginRegisters`): liveness under
fairness, and ENABLED, are out of the prover's reach. Every invariant and every action property
that a passing run checks is also a theorem, some of them under the assumptions named above. No
module uses a RECURSIVE operator.

## 8 Abstractions

Ledger: a flush triggered by the hundredth event happens at the push; the walk handles events in
buffer order, which is the code's order (per user, by time) because the state is per user and the
clock only advances; a window's rows are a constant, since the only operation that changes a
category (`upsert_app_category`) writes a column the table does not have and always fails; a
`FlushTick` whose lookup fails changes nothing and is not an action; `drain_remaining` does not
occur, as the event stream outlives the actor; the clock is not stepped back. A flush fails as a
whole: the transaction is rolled back. Lookups that fail without failing it are not modelled; the
code then commits under app 0 (`deltas.rs:116`) or `Uncategorized` (`store/daos/categories.rs:69`,
`95`), and `UsageMatchesEvents` is about flushes in which every lookup answers. Of rows with the
same timestamp the query for the last event has no order; the one with the highest id is taken as
the last one read.

Enforcement: one run of the daemon, whose block list starts empty; calling `RegisterPlugin`
and the plugin's receipt of the reply are one step; a plugin that is alive answers
`GetFocusState` (the code treats any failed call as a dead plugin); one live plugin per user;
what resolution and `evaluate` make of policies is what `rule` says, and `PolicyEvaluation`
says how they make it; usage reaches a limit in a flush, at any time; events other than Focus
and Block do not reach this half of the actor.

Policies and desk: names and schedules are left out (names are unchecked text; no request ever
stores a schedule, so that every policy is always active); a limit of 0 stands for NULL; all names
that name no category are one (`Unknown`); blocked apps and usage are version numbers; a fetch is
one step, although `fetch_all` joins several queries (`DayScreens` looks into it); a call that is
carried out by a daemon whose connection broke has lost its caller; the choice of a range is part
of a request to refresh. News of the name always reach the flow: the GUI's watchers run from its
start to its end without the second in which the code renews an ended subscription
(`gui/dbus/bus.rs:118`), the flow subscribes to them before the daemon changes, and it never lags
behind the broadcast's sixteen events.

Screens: one user; the usage tables are the meter's, up to date when they are read, and hold no
row that is 0 (no empty segment is ever written, and what is reset is credited); colours, labels
and the layout are left out.

Plugin: one user; both connections can be opened; a name passes through "no owner" when it changes
hands, since the daemon does not allow replacement, and no second daemon starts beside the first;
window titles, block reasons, domains and the `uid` of `AppBlocked`, which the plugin discards,
are left out; the model ends with the loop of the D-Bus thread. The block list changes and
`AppBlocked` goes out in one step (the code has a channel and a task between, which keep the
order). The focused window lives until the next callback: the code holds it weakly
(`hooks.cpp:38`), and a window without a class that follows one that is already gone is not
reported (`406`). What the daemon misses between a registration and its subscription to the plugin
is in `Enforcement`.

## 9 Not modelled

- **Pruning** of events older than 90 days: the horizon is far beyond the modelled clocks.
- **App ids and their cache**: apps are names in every module. That an id of a rolled-back insert
  stays cached is listed as a hazard without a property.
- **Registry** beyond one live plugin per user, duplicate forwarders, payload parsing.
- **Schedules** and their two filters: nothing stores one.
- **Migrations**: a linear sequence before anything else runs.
- **logind inhibitor, notifications**: external services whose results change no modelled state.
- **Rendering**: charts, theme, overlay, lists.
- **Which policy the editor's form shows** when a task of an earlier Save ends: it closes whatever
  was opened meanwhile (`actions.rs:97`).
- Code that nothing calls: `reports/core/aggregation.rs`, `categorization/core.rs`,
  `usage_updated` in `dbus/signals.rs`.

## 10 Where code and documents part

Four runs expect a violation and are findings in `PROJECT.json`: `usage_ledger_exit`,
`enforcement_root`, `hyprland_plugin_exit`, `hyprland_plugin_refused`. Further divergences met
while modelling, for which there is no run of their own because the model simply does what the
code does:

- Policies are ordered by target type and then by priority (`store/daos/policies/queries.rs:93`),
  so that a time limit on an app with priority 2 decides against an exception for everything with
  priority 1. The documents and comments say that the lowest priority number decides:
  `docs/persistence/01-database.md:170`, `180`, `251`, `docs/features/03-ui-design.md:103`,
  `README.md:119`, `policy/core/evaluator.rs:8`, `38`, `policy_types.rs:142`. No property states
  the order of the query for that reason.
- `docs/persistence/01-database.md:359` says of a last Idle that 'the interval is open but
  paused'. It closes the interval (`EventType::CLOSE`, `event_types.rs:84`), and the Resume after
  it opens none: a window that stays focused is not measured until the next Focus.
- `create` and `update` drop the schedule of the request (`policy/data/repo.rs:152`).
- An update cannot change an App or Category policy into one of another target: the old column is
  kept and a CHECK refuses the row.
- A policy on the category of apps without one reaches no app to which none was given.
- An update that names a category which does not exist is accepted and keeps the category of the
  row (`store/daos/policies/queries.rs:351`, `319`).
- A refused `GetBlockedApps` leaves the plugin registered with the list it had; it asks again only
  when it registers again (`dbus_thread.cpp:553`).
- `upsert_app_category` always fails, for want of a column `updated_at`.
- The plugin discards the `uid` of `AppBlocked`; `docs/architecture/04-plugin-ipc.md:303` says
  that it filters by it.
- After a stream of signals ended, a flow subscribes again without fetching; a failing fetch
  empties the screen.
