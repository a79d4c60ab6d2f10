--------------------------- MODULE HyprlandPlugin ---------------------------
(***************************************************************************)
(* The Hyprland plugin: two threads, two single-producer single-consumer   *)
(* queues with an eventfd each, and the daemon at the other end of two     *)
(* message buses.  (plugins/hyprland/app: main.cpp, hooks.cpp,             *)
(* dbus_thread.cpp, idle_tracker.cpp, lockdown.cpp)                        *)
(*                                                                         *)
(* The compositor thread owns the focused window, the blocked apps and the *)
(* idle flag, and reports focus and idleness through msgs.  The D-Bus      *)
(* thread owns the connection to the daemon, and hands block commands over *)
(* through cmds.  A message is handed over in two steps, as WriteScope     *)
(* does it: the slot is written and the eventfd raised, and only when the  *)
(* scope ends is the slot committed.                                       *)
(*                                                                         *)
(* Titles, block reasons, domains and the uid of AppBlocked (read and      *)
(* discarded) are left out; GetFocusState changes nothing and is left out. *)
(* A name handed directly from one owner to another does not occur: the    *)
(* daemon does not allow its name to be replaced.                          *)
(***************************************************************************)
EXTENDS Integers, Sequences, SequencesExt

CONSTANTS
    Apps,           \* window classes
    NoApp,          \* no focused window
    Bare,           \* a focused window without a class
    NoBus,          \* no daemon, or none known
    Capacity,       \* slots of each queue
    MaxEvents       \* bound: events from outside, of the user, the machine
                    \* and the daemon together

Buses == {"system", "session"}

ASSUME PluginAssumption ==
    /\ NoApp \notin Apps /\ Bare \notin Apps /\ NoApp # Bare
    /\ NoBus \notin Buses
    /\ Capacity \in Nat \ {0} /\ MaxEvents \in Nat

VARIABLES
    \* compositor thread
    focus,          \* g_focusedWindow: an app, Bare or NoApp
    blocks,         \* LockManager::m_blocks
    idle,           \* IdleTracker::m_idle
    handled,        \* commands of the batch under onCmdEventFd handled so far
    exit,           \* PLUGIN_EXIT: "no", "sending", "joining" or "done"
    \* D-Bus thread
    current,        \* m_focusedApp, as the message that set it
    registered,     \* m_registered
    bus,            \* m_daemonBus
    matches,        \* number of AppBlocked matches on each connection
    select,         \* m_selectStep
    locked,         \* m_screenLocked
    shutdown,       \* m_shutdownRequested
    stopped,        \* the event loop has returned
    \* between the threads
    msgs, cmds,
    \* the daemon and the buses
    daemon,         \* the bus on which the daemon owns its name, or NoBus
    blocked,        \* the apps the daemon blocks
    calls,          \* calls on their way to each bus
    inbox,          \* replies and signals on their way from each bus
    answer,         \* GetBlockedApps: the snapshot not yet sent as the reply
    told,           \* the last event this daemon got from the plugin
    \* history
    lostFocus,      \* the last focus report found the queue full
    lostCmd,        \* a command or the list was lost since the last SyncAll
    refused,        \* this daemon refused a registration
    overtaken,      \* AppBlocked was sent between the snapshot and the reply
    crossed,        \* the two connections told their news out of order
    used            \* events from outside so far

compositorVars == << focus, blocks, idle, handled, exit, lostFocus >>
dbusVars == << current, registered, bus, matches, select, locked, stopped,
               told, lostCmd, calls, inbox, crossed >>
daemonVars == << daemon, blocked, answer, overtaken, refused >>
vars == << compositorVars, dbusVars, daemonVars, msgs, cmds, shutdown, used >>

-----------------------------------------------------------------------------
(* Messages, commands and queues. *)

FocusUpdate(a) == [type |-> "FocusUpdate", app |-> a]
BlockedFocus(a) == [type |-> "BlockedFocus", app |-> a]
IdleChanged(i) == [type |-> "IdleChanged", idle |-> i]
ShutdownMsg == [type |-> "Shutdown"]
BlockCmd(a) == [type |-> "Block", app |-> a]
UnblockCmd(a) == [type |-> "Unblock", app |-> a]
SyncAllCmd(as) == [type |-> "SyncAll", apps |-> as]

\* a signal of the daemon, of its bus, or of the plugin, without arguments
Signal(t) == [type |-> t]

IsFocus(m) == m.type \in {"FocusUpdate", "BlockedFocus"}
IsEvent(m) == m # ShutdownMsg

\* Where the last of them stands among the messages ms, 0 if there is none.
LastFocus(ms) == SelectLastInSeq(ms, IsFocus)
LastEvent(ms) == SelectLastInSeq(ms, IsEvent)

\* The report on focused window a when bs are blocked.
Report(a, bs) == IF a \in bs THEN BlockedFocus(a)
                 ELSE FocusUpdate(IF a = Bare THEN NoApp ELSE a)

\* Variant: SyncAll adds to what is blocked and clears nothing.
AppliedWithoutClear(bs, c) ==
    CASE c.type = "Block"   -> bs \cup {c.app}
      [] c.type = "Unblock" -> bs \ {c.app}
      [] c.type = "SyncAll" -> bs \cup c.apps

\* LockManager::apply
Applied(bs, c) == CASE c.type = "Block"   -> bs \cup {c.app}
                    [] c.type = "Unblock" -> bs \ {c.app}
                    [] c.type = "SyncAll" -> c.apps

EmptyQueue == [queue |-> << >>, writing |-> << >>, wake |-> FALSE,
               reading |-> 0]

\* Variant: one slot too many.
HasRoomOrNone(q) == Len(q.queue) <= Capacity

HasRoom(q) == Len(q.queue) < Capacity

\* prepare_write, the slot and the eventfd; nothing at all when it is full
Written(q, m) == IF HasRoom(q)
                 THEN [q EXCEPT !.writing = << m >>, !.wake = TRUE] ELSE q

\* ~WriteScope
Committed(q) == [q EXCEPT !.queue = @ \o q.writing, !.writing = << >>]

\* The reader drains the eventfd and asks for everything that is ready.
Opened(q) == [q EXCEPT !.wake = FALSE, !.reading = Len(q.queue)]

\* ~ReadScope
Freed(q) == [q EXCEPT !.queue = SubSeq(@, q.reading + 1, Len(@)),
                      !.reading = 0]

\* What the reader will see, in order.
Pending(q) == q.queue \o q.writing

-----------------------------------------------------------------------------
(* Compositor thread. *)

CompositorFree == exit = "no" /\ msgs.writing = << >> /\ cmds.reading = 0

\* pushToDbus of a focus report
PushFocus(m) == /\ msgs' = Written(msgs, m)
                /\ lostFocus' = ~HasRoom(msgs)

PushNothing == UNCHANGED << msgs, lostFocus >>

\* window.active: focus moves to w.  A window without a class is reported as
\* no focus, once.  The code holds the focused window by a weak reference; here it
\* lives until the callback that tells of the next one.
WindowActive(w) ==
    /\ CompositorFree /\ used < MaxEvents
    /\ used' = used + 1
    /\ focus' = w
    /\ IF w = Bare /\ focus \in {NoApp, Bare}
       THEN PushNothing ELSE PushFocus(Report(w, blocks))
    /\ UNCHANGED << blocks, idle, handled, exit, dbusVars, daemonVars, cmds,
                    shutdown >>

\* window.title of the focused window
TitleChanges ==
    /\ CompositorFree /\ focus \in Apps /\ used < MaxEvents
    /\ used' = used + 1
    /\ PushFocus(Report(focus, blocks))
    /\ UNCHANGED << focus, blocks, idle, handled, exit, dbusVars, daemonVars,
                    cmds, shutdown >>

\* IdleTracker::tick beyond the threshold without an inhibitor, and
\* notifyActivity: a transition, pushed once and never again.
IdleTransition ==
    /\ CompositorFree /\ used < MaxEvents
    /\ used' = used + 1
    /\ idle' = ~idle
    /\ msgs' = Written(msgs, IdleChanged(~idle))
    /\ UNCHANGED << focus, blocks, handled, exit, lostFocus, dbusVars,
                    daemonVars, cmds, shutdown >>

\* onCmdEventFd: the eventfd is readable
OpenCommands ==
    /\ CompositorFree /\ cmds.wake
    /\ cmds' = Opened(cmds)
    /\ handled' = 0
    /\ UNCHANGED << focus, blocks, idle, exit, lostFocus, dbusVars,
                    daemonVars, msgs, shutdown, used >>

\* Variant: SyncAll reports a focused window it blocks, not one it unblocks.
ReportsNewBlocks(c) == /\ focus \in Apps
                       /\ IF c.type = "SyncAll"
                          THEN focus \notin blocks /\ focus \in c.apps
                          ELSE c.app = focus

\* Whether applying c makes the compositor report its focused window: always
\* for a Block or an Unblock of it, and for SyncAll when its status changed.
Reports(c) == /\ focus \in Apps
              /\ IF c.type = "SyncAll"
                 THEN (focus \in blocks) # (focus \in c.apps)
                 ELSE c.app = focus

HandleCommand ==
    /\ exit = "no" /\ msgs.writing = << >> /\ handled < cmds.reading
    /\ LET c == cmds.queue[handled + 1] IN
       /\ blocks' = Applied(blocks, c)
       /\ IF Reports(c) THEN PushFocus(Report(focus, Applied(blocks, c)))
          ELSE PushNothing
    /\ handled' = handled + 1
    /\ UNCHANGED << focus, idle, exit, dbusVars, daemonVars, cmds, shutdown,
                    used >>

CloseCommands ==
    /\ exit = "no" /\ msgs.writing = << >>
    /\ cmds.reading > 0 /\ handled = cmds.reading
    /\ cmds' = Freed(cmds)
    /\ handled' = 0
    /\ UNCHANGED << focus, blocks, idle, exit, lostFocus, dbusVars,
                    daemonVars, msgs, shutdown, used >>

CommitMessage ==
    /\ msgs.writing # << >>
    /\ msgs' = Committed(msgs)
    /\ UNCHANGED << compositorVars, dbusVars, daemonVars, cmds, shutdown,
                    used >>

\* PLUGIN_EXIT: the message, then requestShutdown, then join
ExitBegins ==
    /\ CompositorFree /\ used < MaxEvents
    /\ used' = used + 1
    /\ exit' = "sending"
    /\ msgs' = Written(msgs, ShutdownMsg)
    /\ UNCHANGED << focus, blocks, idle, handled, lostFocus, dbusVars,
                    daemonVars, cmds, shutdown >>

RequestShutdown ==
    /\ exit = "sending" /\ msgs.writing = << >>
    /\ exit' = "joining"
    /\ shutdown' = TRUE
    /\ UNCHANGED << focus, blocks, idle, handled, lostFocus, dbusVars,
                    daemonVars, msgs, cmds, used >>

Joined ==
    /\ exit = "joining" /\ stopped
    /\ exit' = "done"
    /\ UNCHANGED << focus, blocks, idle, handled, lostFocus, dbusVars,
                    daemonVars, msgs, cmds, shutdown, used >>

-----------------------------------------------------------------------------
(* D-Bus thread.  A handler runs to its end before the loop looks at       *)
(* m_shutdownRequested, then sleeps until the next message or eventfd.     *)

CallKinds == {"HasOwner", "Start", "Register", "GetBlocked"}

DbusFree == ~stopped /\ cmds.writing = << >> /\ msgs.reading = 0

\* The end of a handler: the loop condition.
LoopCondition == stopped' = shutdown

Receives(b, type) ==
    /\ DbusFree /\ inbox[b] # << >> /\ Head(inbox[b]).type = type
    /\ inbox' = [inbox EXCEPT ![b] = Tail(@)]

Calling(cs, b, kind) == [cs EXCEPT ![b][kind] = @ + 1]

\* A handler that pushes a command ends when the command is committed.
PushCmd(c) == /\ cmds' = Written(cmds, c)
              /\ stopped' = (shutdown /\ ~HasRoom(cmds))
              /\ lostCmd' = (~HasRoom(cmds) \/ (lostCmd /\ c.type # "SyncAll"))

\* canEmit, and a daemon that subscribed to this plugin hears it
Heard(reg, m) == IF reg /\ bus # NoBus /\ daemon = bus /\ told # Signal("unregistered")
                 THEN m ELSE told

\* Variant: no focus is not worth an event.
EmitFocusedOnly == told' = IF current = FocusUpdate(NoApp) THEN told
                           ELSE Heard(registered, current)

\* emitCurrentFocusEvent
EmitCurrentFocus == told' = Heard(registered, current)

\* setupDaemonProxy on bus b, after subscribeToBlockedApps when it is new
SetupDaemonProxy(b) == calls' = Calling(calls, b, "Register")
Subscribe(b) == matches' = [matches EXCEPT ![b] = @ + 1]

\* The steps of advanceBusSelection: where a success and a failure lead.
OnSuccess == [CheckSys |-> "system", CheckSess |-> "session",
              ActivateSys |-> "ReCheckSys", ReCheckSys |-> "system",
              ActivateSess |-> "ReCheckSess", ReCheckSess |-> "session"]
OnFailure == [CheckSys |-> "CheckSess", CheckSess |-> "ActivateSys",
              ActivateSys |-> "ActivateSess", ReCheckSys |-> "ActivateSess",
              ActivateSess |-> NoBus, ReCheckSess |-> NoBus]

\* The bus and the call of a step.
StepCall(s) ==
    << IF s \in {"CheckSys", "ActivateSys", "ReCheckSys"} THEN "system"
       ELSE "session",
       IF s \in {"ActivateSys", "ActivateSess"} THEN "Start" ELSE "HasOwner" >>

\* Variant: the selection leaves the registration to NameOwnerChanged.
FinishWithoutRegistering(b) ==
    /\ select' = "Idle"
    /\ bus' = b
    /\ crossed' = (crossed \/ (b = NoBus /\ daemon # NoBus))
    /\ IF b = NoBus THEN UNCHANGED matches ELSE Subscribe(b)
    /\ UNCHANGED calls

\* finishBusSelection
FinishBusSelection(b) ==
    /\ select' = "Idle"
    /\ bus' = b
    /\ crossed' = (crossed \/ (b = NoBus /\ daemon # NoBus))
    /\ IF b = NoBus THEN UNCHANGED << matches, calls >>
       ELSE Subscribe(b) /\ SetupDaemonProxy(b)

OnBusSelectReply(b) ==
    /\ Receives(b, "Select")
    /\ LET next == IF Head(inbox[b]).ok THEN OnSuccess[select]
                   ELSE OnFailure[select] IN
       IF next \in Buses \cup {NoBus} THEN FinishBusSelection(next)
       ELSE /\ select' = next
            /\ calls' = Calling(calls, StepCall(next)[1], StepCall(next)[2])
            /\ UNCHANGED << bus, matches, crossed >>
    /\ LoopCondition
    /\ UNCHANGED << compositorVars, current, registered, locked, told,
                    lostCmd, daemonVars, msgs, cmds, shutdown, used >>

\* onRegisterReply: an error leaves it to the next NameOwnerChanged
OnRegisterReply(b) ==
    /\ Receives(b, "Registered")
    /\ IF Head(inbox[b]).ok
       THEN /\ registered' = TRUE
            /\ calls' = IF bus = NoBus THEN calls
                        ELSE Calling(calls, bus, "GetBlocked")
       ELSE UNCHANGED << registered, calls >>
    /\ LoopCondition
    /\ UNCHANGED << compositorVars, current, bus, matches, select, locked,
                    told, lostCmd, crossed, daemonVars, msgs, cmds, shutdown,
                    used >>

\* onGetBlockedAppsReply: the whole list, or nothing instead of it; then the
\* focus as it is now
OnGetBlockedAppsReply(b) ==
    /\ Receives(b, "BlockedApps")
    /\ IF Head(inbox[b]).ok THEN PushCmd(SyncAllCmd(Head(inbox[b]).apps))
       ELSE lostCmd' = TRUE /\ UNCHANGED cmds /\ LoopCondition
    /\ EmitCurrentFocus
    /\ UNCHANGED << compositorVars, current, registered, bus, matches, select,
                    locked, calls, crossed, daemonVars, msgs, shutdown, used >>

OnAppBlocked(b) ==
    /\ Receives(b, "AppBlocked")
    /\ LET m == Head(inbox[b]) IN
       PushCmd(IF m.on THEN BlockCmd(m.app) ELSE UnblockCmd(m.app))
    /\ UNCHANGED << compositorVars, current, registered, bus, matches, select,
                    locked, told, calls, crossed, daemonVars, msgs, shutdown,
                    used >>

\* Variant: the blocks go, the registration stays.
DisappearedStaysRegistered(b) ==
    /\ Receives(b, "Disappeared")
    /\ PushCmd(SyncAllCmd({}))
    /\ UNCHANGED << compositorVars, current, registered, bus, matches, select,
                    locked, told, calls, crossed, daemonVars, msgs, shutdown,
                    used >>

\* handleNameOwnerChanged: the daemon is gone, and so are its blocks
OnDisappeared(b) ==
    /\ Receives(b, "Disappeared")
    /\ registered' = FALSE
    /\ PushCmd(SyncAllCmd({}))
    /\ UNCHANGED << compositorVars, current, bus, matches, select, locked,
                    told, calls, crossed, daemonVars, msgs, shutdown, used >>

\* handleNameOwnerChanged: it appeared on b
OnAppeared(b) ==
    /\ Receives(b, "Appeared")
    /\ IF registered THEN UNCHANGED << bus, matches, calls >>
       ELSE /\ bus' = b
            /\ IF bus # b THEN Subscribe(b) ELSE UNCHANGED matches
            /\ SetupDaemonProxy(b)
    /\ LoopCondition
    /\ UNCHANGED << compositorVars, current, registered, select, locked, told,
                    lostCmd, crossed, daemonVars, msgs, cmds, shutdown, used >>

CommitCommand ==
    /\ cmds.writing # << >>
    /\ cmds' = Committed(cmds)
    /\ LoopCondition
    /\ UNCHANGED << compositorVars, current, registered, bus, matches, select,
                    locked, told, lostCmd, calls, inbox, crossed, daemonVars,
                    msgs, shutdown, used >>

\* drainCompositorMessages, in two halves: what is ready when it looks, ...
OpenMessages ==
    /\ DbusFree /\ msgs.wake
    /\ msgs' = Opened(msgs)
    /\ stopped' = (shutdown /\ msgs.queue = << >>)
    /\ UNCHANGED << compositorVars, current, registered, bus, matches, select,
                    locked, told, lostCmd, calls, inbox, crossed, daemonVars,
                    cmds, shutdown, used >>

\* The event sent for message m when the plugin may send.
EventOf(m) == IF IsFocus(m) THEN m
              ELSE Signal(IF m.idle THEN "Idle" ELSE "Resume")

\* ... and the handling of these.
HandleMessages ==
    /\ msgs.reading > 0
    /\ LET batch == SubSeq(msgs.queue, 1, msgs.reading)
           report == LastFocus(batch)
           event == LastEvent(batch) IN
       /\ current' = IF report = 0 THEN current ELSE batch[report]
       /\ told' = IF event = 0 THEN told
                  ELSE Heard(registered, EventOf(batch[event]))
       /\ shutdown' = (shutdown \/ Contains(batch, ShutdownMsg))
    /\ msgs' = Freed(msgs)
    /\ stopped' = shutdown'
    /\ UNCHANGED << compositorVars, registered, bus, matches, select, locked,
                    lostCmd, calls, inbox, crossed, daemonVars, cmds, used >>

\* handleScreenSaverSignal
ScreenLock ==
    /\ DbusFree /\ used < MaxEvents
    /\ used' = used + 1
    /\ locked' = ~locked
    /\ told' = IF ~locked THEN Heard(registered, Signal("Locked"))
               ELSE IF current # FocusUpdate(NoApp)
               THEN Heard(registered, current) ELSE told
    /\ LoopCondition
    /\ UNCHANGED << compositorVars, current, registered, bus, matches, select,
                    lostCmd, calls, inbox, crossed, daemonVars, msgs, cmds,
                    shutdown >>

\* handleLogindSignal: about to sleep or to shut down, or awake again
PrepareForSleep ==
    /\ DbusFree /\ used < MaxEvents
    /\ used' = used + 1
    /\ \/ told' = Heard(registered, Signal("Power"))
       \/ told' = IF ~locked /\ current # FocusUpdate(NoApp)
                  THEN Heard(registered, current) ELSE told
    /\ LoopCondition
    /\ UNCHANGED << compositorVars, current, registered, bus, matches, select,
                    locked, lostCmd, calls, inbox, crossed, daemonVars, msgs,
                    cmds, shutdown >>

-----------------------------------------------------------------------------
(* The daemon and the two buses: what the D-Bus thread's calls and signals *)
(* meet.                                                                   *)

Send(b, ms) == inbox' = [inbox EXCEPT ![b] = @ \o ms]

Answers(b, kind) ==
    /\ calls[b][kind] > 0
    /\ calls' = [calls EXCEPT ![b][kind] = @ - 1]

threadVars == << compositorVars, current, registered, bus, matches, select,
                 locked, stopped, lostCmd, msgs, cmds, shutdown >>

\* Starting the daemon on b while the other connection still holds news of
\* its end: the plugin may hear of the start first.
Started(b) ==
    /\ daemon = NoBus /\ used < MaxEvents
    /\ used' = used + 1
    /\ daemon' = b
    /\ crossed' = (crossed \/ \E o \in Buses \ {b} :
                       \/ \E m \in ToSet(inbox[o]) : m.type # "Select"
                       \/ calls[o]["Register"] + calls[o]["GetBlocked"] > 0)

DaemonStarts(b) ==
    /\ Started(b)
    /\ Send(b, << Signal("Appeared") >>)
    /\ UNCHANGED << threadVars, blocked, answer, overtaken, refused, told, calls >>

DaemonDies ==
    /\ daemon # NoBus /\ used < MaxEvents
    /\ used' = used + 1
    /\ daemon' = NoBus /\ blocked' = {} /\ answer' = << >> /\ refused' = FALSE
    /\ told' = Signal("unregistered")
    /\ Send(daemon, << Signal("Disappeared") >> \o
               (IF answer = << >> THEN << >>
                ELSE << [type |-> "BlockedApps", ok |-> FALSE] >>))
    /\ UNCHANGED << threadVars, calls, overtaken, crossed >>

\* The enforcer blocks or unblocks a and broadcasts it: the channel to the task
\* that emits the signals keeps their order and is not modelled.
DaemonToggles(a) ==
    /\ daemon # NoBus /\ used < MaxEvents
    /\ used' = used + 1
    /\ blocked' = IF a \in blocked THEN blocked \ {a} ELSE blocked \cup {a}
    /\ Send(daemon, [i \in 1..matches[daemon] |->
                        [type |-> "AppBlocked", app |-> a,
                         on |-> a \notin blocked]])
    /\ overtaken' = (overtaken \/ answer # << >>)
    /\ UNCHANGED << threadVars, daemon, answer, refused, told, calls, crossed >>

AnswerHasOwner(b) ==
    /\ Answers(b, "HasOwner")
    /\ Send(b, << [type |-> "Select", ok |-> daemon = b] >>)
    /\ UNCHANGED << threadVars, daemonVars, told, crossed, used >>

\* StartServiceByName: running already, started now, or not installed
AnswerStart(b) ==
    /\ Answers(b, "Start")
    /\ \/ /\ Send(b, << [type |-> "Select", ok |-> daemon = b] >>)
          /\ UNCHANGED << daemon, crossed, used >>
       \/ /\ Started(b)
          /\ Send(b, << Signal("Appeared"), [type |-> "Select", ok |-> TRUE] >>)
    /\ UNCHANGED << threadVars, blocked, answer, overtaken, refused, told >>

\* From now on the daemon hears the plugin.
Subscribed == IF told = Signal("unregistered") THEN Signal("nothing") ELSE told

\* register_plugin, or the error of a bus without the daemon
AnswerRegister(b) ==
    /\ Answers(b, "Register")
    /\ Send(b, << [type |-> "Registered", ok |-> daemon = b] >>)
    /\ told' = IF daemon = b THEN Subscribed ELSE told
    /\ UNCHANGED << threadVars, daemonVars, crossed, used >>

\* register_plugin, its errors: the caller is not authenticated or its proxy not
\* built; or the answer takes too long, and the daemon registers it or does not.
RefuseRegister(b) ==
    /\ Answers(b, "Register") /\ daemon = b /\ used < MaxEvents
    /\ used' = used + 1
    /\ Send(b, << [type |-> "Registered", ok |-> FALSE] >>)
    /\ told' \in {told, Subscribed}
    /\ refused' = TRUE
    /\ UNCHANGED << threadVars, daemon, blocked, answer, overtaken, crossed >>

\* get_blocked_apps: the list is copied ...
CopyBlockedApps(b) ==
    /\ Answers(b, "GetBlocked")
    /\ IF daemon = b
       THEN /\ answer = << >>
            /\ answer' = << blocked >> /\ overtaken' = FALSE
            /\ UNCHANGED inbox
       ELSE /\ Send(b, << [type |-> "BlockedApps", ok |-> FALSE] >>)
            /\ UNCHANGED << answer, overtaken >>
    /\ UNCHANGED << threadVars, daemon, blocked, refused, told, crossed, used >>

\* ... and sent.
SendBlockedApps ==
    /\ answer # << >>
    /\ Send(daemon, << [type |-> "BlockedApps", ok |-> TRUE,
                        apps |-> answer[1]] >>)
    /\ answer' = << >>
    /\ UNCHANGED << threadVars, daemon, blocked, overtaken, refused, told, calls,
                    crossed, used >>

\* ... or it is not: the caller is not authenticated, or it takes too long.
RefuseBlockedApps(b) ==
    /\ Answers(b, "GetBlocked") /\ daemon = b /\ used < MaxEvents
    /\ used' = used + 1
    /\ Send(b, << [type |-> "BlockedApps", ok |-> FALSE] >>)
    /\ UNCHANGED << threadVars, daemonVars, told, crossed >>

-----------------------------------------------------------------------------
Init ==
    /\ focus = NoApp /\ blocks = {} /\ idle = FALSE
    /\ handled = 0 /\ exit = "no"
    /\ current = FocusUpdate(NoApp) /\ registered = FALSE /\ bus = NoBus
    /\ matches = [b \in Buses |-> 0] /\ select = "CheckSys"
    /\ locked = FALSE /\ shutdown = FALSE /\ stopped = FALSE
    /\ msgs = EmptyQueue /\ cmds = EmptyQueue
    /\ daemon \in Buses \cup {NoBus} /\ blocked = {} /\ answer = << >>
    /\ calls = [b \in Buses |-> [k \in CallKinds |->
                   IF b = "system" /\ k = "HasOwner" THEN 1 ELSE 0]]
    /\ inbox = [b \in Buses |-> << >>]
    /\ told = Signal("unregistered")
    /\ lostFocus = FALSE /\ lostCmd = FALSE /\ overtaken = FALSE
    /\ crossed = FALSE /\ refused = FALSE
    /\ used = 0

CompositorThread == OpenCommands \/ HandleCommand \/ CloseCommands \/
                    CommitMessage \/ RequestShutdown \/ Joined

DbusThread ==
    \/ \E b \in Buses :
          \/ OnBusSelectReply(b) \/ OnRegisterReply(b)
          \/ OnGetBlockedAppsReply(b) \/ OnAppBlocked(b)
          \/ OnDisappeared(b) \/ OnAppeared(b)
    \/ CommitCommand \/ OpenMessages \/ HandleMessages

\* Nobody listens any more once the loop has returned: the model ends there.
BusAnswers == ~stopped /\
  ( \/ \E b \in Buses : AnswerHasOwner(b) \/ AnswerStart(b)
                        \/ AnswerRegister(b) \/ CopyBlockedApps(b)
    \/ SendBlockedApps )

Environment == ~stopped /\
  ( \/ \E w \in Apps \cup {NoApp, Bare} : WindowActive(w)
    \/ TitleChanges \/ IdleTransition \/ ScreenLock \/ PrepareForSleep
    \/ ExitBegins
    \/ \E b \in Buses : DaemonStarts(b) \/ RefuseRegister(b) \/ RefuseBlockedApps(b)
    \/ DaemonDies
    \/ \E a \in Apps : DaemonToggles(a) )

Next == CompositorThread \/ DbusThread \/ BusAnswers \/ Environment

Spec == Init /\ [][Next]_vars

\* Both threads run and every call is answered; users, the machine and the
\* daemon's life are free.
FairSpec == Spec /\ WF_vars(CompositorThread) /\ WF_vars(DbusThread)
                 /\ WF_vars(BusAnswers)

-----------------------------------------------------------------------------
(* Properties. *)

Message == [type : {"FocusUpdate", "BlockedFocus"}, app : Apps \cup {NoApp}]
           \cup [type : {"IdleChanged"}, idle : BOOLEAN] \cup {ShutdownMsg}
Command == [type : {"Block", "Unblock"}, app : Apps]
           \cup [type : {"SyncAll"}, apps : SUBSET Apps]

\* The types, and the discipline of the queues: no more slots are taken,
\* written or committed, than a queue has, and a reader never holds more than
\* what was committed.
Slots(Item) == [queue : Seq(Item), writing : Seq(Item), wake : BOOLEAN,
                reading : Nat]
QueueOK(q, Item) ==
    /\ q \in Slots(Item)
    /\ Len(q.writing) <= 1
    /\ Len(q.queue) + Len(q.writing) <= Capacity
    /\ q.reading <= Len(q.queue)
TypeOK ==
    /\ focus \in Apps \cup {NoApp, Bare} /\ blocks \subseteq Apps
    /\ exit \in {"no", "sending", "joining", "done"}
    /\ current \in {m \in Message : IsFocus(m)}
    /\ bus \in Buses \cup {NoBus} /\ daemon \in Buses \cup {NoBus}
    /\ matches \in [Buses -> Nat] /\ calls \in [Buses -> [CallKinds -> Nat]]
    /\ select \in DOMAIN OnSuccess \cup {"Idle"}
    /\ blocked \subseteq Apps
    /\ QueueOK(msgs, Message) /\ QueueOK(cmds, Command)
    /\ handled <= cmds.reading /\ handled \in Nat
    /\ stopped => shutdown

\* The two mailboxes carry the focus: with the messages under way read and
\* handled in order, the D-Bus thread's m_focusedApp is the compositor's
\* focused window and whether it is blocked, unless the last report found the
\* queue full.  It ties the suppressed reports (a window without a class, a
\* SyncAll that changes nothing) to what was reported before.
FocusUnderWay == LET report == LastFocus(Pending(msgs)) IN
                 IF report = 0 THEN current ELSE Pending(msgs)[report]
MailboxCarriesFocus == ~lostFocus => FocusUnderWay = Report(focus, blocks)

\* A daemon that registered the plugin and answered its request for the
\* blocked apps has been told the focus as the D-Bus thread knows it, or of a
\* later idle, lock or power event: whatever the order of the registration,
\* the answers and the refusals, the focus changes and the daemon's restarts.
Disappeared == Signal("Disappeared")
Accepted == [type |-> "Registered", ok |-> TRUE]
GettingBlocked ==
    \/ answer # << >>
    \/ \E b \in Buses : \/ calls[b]["GetBlocked"] > 0
                        \/ \E m \in ToSet(inbox[b]) : m.type = "BlockedApps"
Served == /\ registered /\ bus # NoBus /\ daemon = bus
          /\ told # Signal("unregistered") /\ ~GettingBlocked
          /\ ToSet(inbox[daemon]) \cap {Accepted, Disappeared} = {}
DaemonToldFocus ==
    (Served /\ ~crossed) =>
    \/ told = current
    \/ told.type \in {"Idle", "Resume", "Locked", "Power"}

\* A command or message x that says whether app a is blocked, and what it says;
\* what is blocked once xs has been handled, starting from bs.
Settles(x, a) ==
    \/ x.type \in {"SyncAll", "Disappeared"}
    \/ x.type = "BlockedApps" /\ x.ok
    \/ x.type \in {"Block", "Unblock", "AppBlocked"} /\ x.app = a
Leaves(x, a) == CASE x.type = "Block" -> TRUE
                  [] x.type = "AppBlocked" -> x.on
                  [] x.type \in {"SyncAll", "BlockedApps"} -> a \in x.apps
                  [] OTHER -> FALSE
LastWord(xs, a) == SelectLastInSeq(xs, LAMBDA x : Settles(x, a))
Outcome(xs, bs) == {a \in Apps : LET i == LastWord(xs, a) IN
                       IF i = 0 THEN a \in bs ELSE Leaves(xs[i], a)}
\* The commands the compositor has not handled, then the messages the D-Bus
\* thread has not handled.
CommandsLeft == SubSeq(Pending(cmds), handled + 1, Len(Pending(cmds)))
BlocksUnderWay == Outcome(CommandsLeft \o inbox[daemon], blocks)
\* The compositor blocks what the daemon blocks: with the commands, replies
\* and signals under way handled in order, m_blocks is the daemon's list.
\* Exempt: a list not yet asked for or not yet answered, one overtaken by an
\* AppBlocked signal, one the daemon refused and the plugin never asks for
\* again, a command lost to a full queue, and news of the two connections out
\* of order.
BlocksAgree ==
    (Served /\ ~crossed /\ ~lostCmd /\ ~overtaken) =>
    BlocksUnderWay = blocked

\* A registered plugin has a daemon to talk to, or the news of its end is under
\* way.
RegisteredMeansServed ==
    (registered /\ ~crossed) =>
    \/ bus # NoBus /\ daemon = bus
    \/ \E b \in Buses : Disappeared \in ToSet(inbox[b])

\* The plugin registers with every daemon that stays and does not refuse it, on
\* whichever bus and during whichever step of the bus selection it appears.
PluginRegisters ==
    daemon # NoBus ~> (registered \/ daemon = NoBus \/ refused \/ crossed \/ stopped)

\* onRegisterReply: "RegisterPlugin failed — NameOwnerChanged will retry"
\* (dbus_thread.cpp:81), whether or not the daemon stays.
RefusalIsRetried ==
    refused ~> (registered \/ daemon = NoBus \/ crossed \/ stopped)

\* PLUGIN_EXIT: "The eventfd write above ensures the thread wakes and
\* processes the ShutdownMsg, which triggers loop exit" (main.cpp:242).
ExitCompletes == (exit # "no") ~> (exit = "done")
=============================================================================
