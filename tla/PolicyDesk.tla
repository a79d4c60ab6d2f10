----------------------------- MODULE PolicyDesk -----------------------------
(***************************************************************************)
(* A screen of the GUI in front of the daemon that feeds it: the policies  *)
(* screen, the dashboard or the reports.                                   *)
(*                                                                         *)
(* The daemon serves its data on one of two busses.  It can die and start  *)
(* again, on either bus, or lose its name, which its watchdog takes back   *)
(* on a fresh connection.  Signals say that something changed, never what; *)
(* they reach a screen that has subscribed, on the bus it subscribed to,   *)
(* while the connection that sends them owns the name.  The screen's flow  *)
(* fetches everything again after a signal, after the daemon appeared and  *)
(* on request.  The policy editor changes policies of the user and puts    *)
(* what it then fetches on the screen itself.                              *)
(***************************************************************************)
EXTENDS PolicyStore, TLC

CONSTANTS
    Viewer,      \* the user in front of the screen
    Busses,      \* in the order in which they are tried
    Screens,     \* the screens, of which a behaviour has one, or none: "closed"
    Asked,       \* bound: the calls that are made while a screen is open
    NoBus,       \* no bus; the daemon is unreachable
    Nothing,     \* what a failed call leaves on the screen
    MaxRetries,  \* attempts of the watchdog (5)
    MaxMoves,    \* bound: calls, changes and requests to refresh, per screen
    StartsOn,    \* bound: the busses the daemon is started on
    Faults,      \* bound: what can go wrong while a screen is open,
    MaxFaults    \* bound: and how often

Bus == {Busses[i] : i \in DOMAIN Busses}

ASSUME DeskAssumption ==
    \A name \in Screens : \A a \in Asked[name] :
        /\ a.caller \in Uids /\ a.op \in Ops
        /\ a.id \in IF a.op = "create" THEN {0} ELSE Ids
        /\ a.input \in IF a.op = "delete" THEN {Null} ELSE Inputs

VARIABLES
    \* the daemon
    daemon,      \* its process: life, bus, connection, the watchdog's state
    owner,       \* the connection that owns the name on each bus, 0 for none
    sender,      \* the connection each call came in on
    facts,       \* what else it serves: versions of blocked_apps and of usage
    outbox,      \* signals waiting for the signal task
    \* the GUI
    wire,        \* NameOwnerChanged signals of each bus, until the flow takes them
    flow,        \* the flow's loop
    signals,     \* its signal channel
    refresh,     \* a refresh was requested
    fetched,     \* the answer of the call it waits for
    vm,          \* its view model, and the watch channel it is sent through
    screen,      \* what is drawn, and the receiver's previous view model
    editor,      \* the task of the policy editor
    \* history
    moves, faults, history

gui  == << wire, flow, signals, refresh, fetched, vm, screen, editor >>
desk == << store, daemon, owner, sender, facts, outbox, gui, moves, faults, history >>

Up        == daemon.at # "down"
Present   == \E b \in Bus : owner[b] # 0
Move  == moves < MaxMoves[screen.name] /\ moves' = moves + 1 /\ UNCHANGED faults
Fault(kind) == /\ kind \in Faults[screen.name] /\ faults < MaxFaults[screen.name]
               /\ faults' = faults + 1 /\ UNCHANGED moves

\* The first bus on which the daemon is found.  (Where nobody owns the name the
\* bus may start the daemon first: see StartDaemon.)
DaemonBus == IF \E i \in DOMAIN Busses : owner[Busses[i]] # 0
             THEN Busses[CHOOSE i \in DOMAIN Busses :
                      /\ owner[Busses[i]] # 0
                      /\ \A j \in DOMAIN Busses : owner[Busses[j]] # 0 => i <= j]
             ELSE NoBus

\* What a screen shows, part by part.
Parts == [policies |-> {"rows"}, dashboard |-> {"blocked", "usage"},
          reports |-> {"usage"}, closed |-> {}]
Fact(part) == IF part = "rows" THEN Listed(Viewer) ELSE facts[part]
Serve(parts)  == [p \in parts |-> Fact(p)]
Failed(parts) == [p \in parts |-> Nothing]
Shown  == Parts[screen.name]
Closed == [at |-> "closed", op |-> "none", result |-> Nothing]
-----------------------------------------------------------------------------
(* The daemon's process and its name *)

\* The watcher of bus b, from the start of the GUI to its end: its subscription
\* never ends (the code renews one after a second) and no flow lags behind the
\* sixteen events of the broadcast.
Tell(b, event) == wire' = [wire EXCEPT ![b] = Append(@, event)]

\* The daemon starts and takes its name, by itself or because a bus activates it.
StartDaemon(b) ==
    /\ ~Up /\ b \in StartsOn[screen.name] /\ UNCHANGED << moves, faults >>
    /\ daemon' = [daemon EXCEPT !.at = "serving", !.bus = b, !.conn = @ + 1,
                      !.serving = daemon.conn + 1, !.notices = << >>, !.watching = TRUE]
    /\ owner' = [owner EXCEPT ![b] = daemon.conn + 1]
    /\ Tell(b, "Appeared")
    /\ UNCHANGED << store, sender, facts, outbox, flow, signals, refresh,
                    fetched, vm, screen, editor, history >>

Die ==
    /\ daemon' = [daemon EXCEPT !.at = "down", !.notices = << >>]
    /\ owner' = [owner EXCEPT ![daemon.bus] = 0]
    /\ IF owner[daemon.bus] # 0 THEN Tell(daemon.bus, "Disappeared") ELSE UNCHANGED wire
    /\ outbox' = << >>
    /\ AbandonCalls
    /\ history' = [history EXCEPT !.orphan = FALSE]
    /\ UNCHANGED << sender, facts, flow, signals, refresh, fetched, vm, screen,
                    editor >>

Crash == Up /\ Fault("death") /\ Die

\* The connection breaks.  Its calls are still carried out, and the watchdog
\* hears of the lost name if its own connection is there.
LoseName ==
    /\ owner[daemon.bus] # 0 /\ Fault("name")
    /\ owner' = [owner EXCEPT ![daemon.bus] = 0]
    /\ Tell(daemon.bus, "Disappeared")
    /\ daemon' = [daemon EXCEPT !.notices =
                      IF daemon.watching THEN Append(@, owner[daemon.bus]) ELSE @]
    /\ history' = [history EXCEPT !.orphan = @ \/ ~daemon.watching]
    /\ UNCHANGED << store, sender, facts, outbox, flow, signals, refresh,
                    fetched, vm, screen, editor >>

\* run: the watchdog's own connection ends, and is replaced a second later.
WatchEnds ==
    /\ Up /\ daemon.watching /\ Fault("watch")
    /\ daemon' = [daemon EXCEPT !.watching = FALSE, !.notices = << >>]
    /\ history' = [history EXCEPT !.orphan = @ \/ daemon.notices # << >>]
    /\ UNCHANGED << store, owner, sender, facts, outbox, gui >>

WatchAgain ==
    /\ Up /\ ~daemon.watching
    /\ daemon' = [daemon EXCEPT !.watching = TRUE]
    /\ UNCHANGED << store, owner, sender, facts, outbox, gui, moves, faults, history >>

\* A variant with a bug: compares with the connection that is lost last.
NoticeOfTheCurrent ==
    /\ daemon.at = "serving" /\ daemon.notices # << >>
    /\ daemon' = [daemon EXCEPT !.notices = Tail(@),
           !.at = IF Head(daemon.notices) # daemon.serving THEN "recovering" ELSE @,
           !.retries = 0]
    /\ UNCHANGED << store, owner, sender, facts, outbox, gui, moves, faults, history >>

\* attempt_recovery, its first check: was it our name?
Notice ==
    /\ daemon.at = "serving" /\ daemon.notices # << >>
    /\ daemon' = [daemon EXCEPT !.notices = Tail(@),
           !.at = IF Head(daemon.notices) = daemon.serving THEN "recovering" ELSE @,
           !.retries = 0]
    /\ UNCHANGED << store, owner, sender, facts, outbox, gui, moves, faults, history >>

\* ... a fresh connection requests the name,
Reacquire ==
    /\ daemon.at = "recovering"
    /\ daemon' = [daemon EXCEPT !.at = "settling", !.conn = @ + 1, !.retries = 0]
    /\ owner' = [owner EXCEPT ![daemon.bus] = daemon.conn + 1]
    /\ Tell(daemon.bus, "Appeared")
    /\ history' = [history EXCEPT !.orphan = FALSE]
    /\ UNCHANGED << store, sender, facts, outbox, flow, signals, refresh,
                    fetched, vm, screen, editor, moves, faults >>

\* ... and serves the signal task one second later.
Settle ==
    /\ daemon.at = "settling"
    /\ daemon' = [daemon EXCEPT !.at = "serving", !.serving = daemon.conn]
    /\ UNCHANGED << store, owner, sender, facts, outbox, gui, moves, faults, history >>

\* should_shutdown
ReacquireFails ==
    /\ daemon.at = "recovering" /\ Fault("retry")
    /\ IF daemon.retries + 1 = MaxRetries THEN Die
       ELSE /\ daemon' = [daemon EXCEPT !.retries = @ + 1]
            /\ UNCHANGED << store, owner, sender, facts, outbox, gui, history >>
-----------------------------------------------------------------------------
(* What the daemon serves, and its signals *)

\* A call of the user's editor, or of another caller, comes in.
Receive(a) ==
    /\ Present /\ Move
    /\ Submit(a.caller, a.op, a.id, a.input)
    /\ sender' = [sender EXCEPT ![a.caller] = owner[daemon.bus]]
    /\ UNCHANGED << daemon, owner, facts, outbox, history >>

\* A caller whose screen this is not.
OthersCall(a) ==
    /\ a.caller # Viewer \/ screen.name # "policies"
    /\ Receive(a) /\ UNCHANGED gui

Handle(c) == Work(c) /\ UNCHANGED << daemon, owner, sender, facts, outbox, gui, moves,
                                     faults, history >>

\* A signal leaves on a connection.  The screen hears it if it subscribed on the
\* bus where that connection owns the name.
Signal(conn, name) ==
    IF daemon.bus \in flow.streams /\ owner[daemon.bus] = conn
    THEN signals' = Append(signals, name) /\ UNCHANGED history
    ELSE UNCHANGED signals /\ history' = [history EXCEPT !.missed = TRUE]

Announce(c) ==
    /\ AnnounceChange(c)
    /\ Signal(sender[c], "PolicyChanged")
    /\ UNCHANGED << daemon, owner, sender, facts, outbox, wire, flow, refresh,
                    fetched, vm, screen, editor, moves, faults >>

\* The enforcer blocks or unblocks an app, or has flushed new usage.
Change(part) ==
    /\ Up /\ part \in Shown \ {"rows"} /\ Move
    /\ facts' = [facts EXCEPT ![part] = @ + 1]
    /\ outbox' = Append(outbox, IF part = "blocked" THEN "AppBlocked" ELSE "UsageUpdated")
    /\ UNCHANGED << store, daemon, owner, sender, gui, history >>

\* the signal task, emit_signal
EmitSignal ==
    /\ outbox # << >>
    /\ outbox' = Tail(outbox)
    /\ Signal(daemon.serving, Head(outbox))
    /\ UNCHANGED << store, daemon, owner, sender, facts, wire, flow, refresh,
                    fetched, vm, screen, editor, moves, faults >>
-----------------------------------------------------------------------------
(* The bus manager and the flow of the screen *)

Rest == << store, daemon, owner, sender, facts, outbox, screen, editor, moves, faults >>

\* create_proxy: on the bus last resolved; when that fails, on the other one or
\* where the daemon is found now.
Proxies ==
    LET status == flow.status
        found  == IF DaemonBus = NoBus THEN {} ELSE {[bus |-> DaemonBus, status |-> DaemonBus]}
    IN  IF status = NoBus THEN found
        ELSE {[bus |-> status, status |-> status]}
             \cup (IF owner[status] # 0 THEN {}
                   ELSE {[bus |-> b, status |-> status] : b \in Bus} \cup found)

\* try_proxy_conn, of the dashboard: it does not look for the daemon.
ProxyConn == IF flow.status = NoBus THEN Busses[1] ELSE flow.status

\* The top of the loop.  The reports and policies flows count themselves as
\* subscribed once they have a proxy, even if receiving the signals failed.
Subscribe ==
    /\ flow.at = "top" /\ ~flow.subscribed /\ flow.available
    /\ \/ /\ screen.name # "dashboard"
          /\ \E p \in Proxies :
                 \/ /\ flow' = [flow EXCEPT !.at = "select", !.subscribed = TRUE,
                                    !.status = p.status, !.streams = @ \cup {p.bus}]
                    /\ UNCHANGED << moves, faults >>
                 \/ /\ Fault("stream")
                    /\ flow' = [flow EXCEPT !.at = "select", !.subscribed = TRUE,
                                    !.status = p.status]
       \/ /\ screen.name = "dashboard"
          /\ flow' = [flow EXCEPT !.at = "select", !.subscribed = TRUE,
                          !.streams = @ \cup {ProxyConn}]
          /\ UNCHANGED << moves, faults >>
    /\ UNCHANGED << store, daemon, owner, sender, facts, outbox, wire, screen, editor,
                    wire, signals, refresh, fetched, vm, history >>

\* Nothing to subscribe, or no proxy (for the dashboard: the bus manager is in
\* use): tried again after the next event only.
SkipSubscribe ==
    /\ flow.at = "top"
    /\ flow.subscribed \/ ~flow.available \/ screen.name = "dashboard" \/ ~Present
    /\ flow' = [flow EXCEPT !.at = "select"]
    /\ UNCHANGED << Rest, wire, signals, refresh, fetched, vm, history >>

\* Each bus has a watcher of its own: news of one may be taken after newer news
\* of the other.
Overtaken(b) ==
    history' = [history EXCEPT !.crossed =
        IF Head(wire[b]) = "Appeared" THEN FALSE
        ELSE @ \/ (Present /\ daemon.bus # b /\ wire[daemon.bus] = << >>)]

\* A variant with a bug: fetches nothing when the daemon is back.
OnPresenceWithoutFetch(b) ==
    /\ flow.at = "select" /\ wire[b] # << >>
    /\ wire' = [wire EXCEPT ![b] = Tail(@)]
    /\ flow' = IF Head(wire[b]) = "Disappeared"
               THEN [flow EXCEPT !.at = "top", !.available = FALSE]
               ELSE [flow EXCEPT !.at = "top", !.available = DaemonBus # NoBus,
                                 !.subscribed = FALSE, !.status = DaemonBus]
    /\ Overtaken(b)
    /\ UNCHANGED << Rest, signals, refresh, fetched, vm >>

\* select!, biased: first the presence of the daemon; re_resolve
OnPresence(b) ==
    /\ flow.at = "select" /\ wire[b] # << >>
    /\ wire' = [wire EXCEPT ![b] = Tail(@)]
    /\ flow' = IF Head(wire[b]) = "Disappeared"
               THEN [flow EXCEPT !.at = "top", !.available = FALSE]
               ELSE [flow EXCEPT !.at = IF DaemonBus # NoBus THEN "fetch" ELSE "top",
                                 !.available = DaemonBus # NoBus,
                                 !.subscribed = FALSE, !.status = DaemonBus]
    /\ Overtaken(b)
    /\ UNCHANGED << Rest, signals, refresh, fetched, vm >>

\* ... then the signals,
OnSignal ==
    /\ flow.at = "select" /\ signals # << >>
    /\ signals' = Tail(signals)
    /\ flow' = CASE Head(signals) = "StreamEnded"
                     -> [flow EXCEPT !.at = "top", !.subscribed = FALSE]
                 [] Head(signals) # "StreamEnded" /\ ~flow.available
                     -> [flow EXCEPT !.at = "top"]
                 [] Head(signals) = "AppBlocked" /\ flow.available
                    /\ screen.name = "dashboard" -> [flow EXCEPT !.at = "patch"]
                 [] OTHER -> [flow EXCEPT !.at = "fetch"]
    /\ UNCHANGED << Rest, wire, refresh, fetched, vm, history >>

\* ... and then the requests to refresh.
OnRefresh ==
    /\ flow.at = "select" /\ signals = << >> /\ refresh
    /\ refresh' = FALSE
    /\ flow' = [flow EXCEPT !.at = "fetch"]
    /\ UNCHANGED << Rest, wire, signals, fetched, vm, history >>

Queried == IF flow.at = "patch" THEN {"blocked"} ELSE Shown

\* create_proxy and the calls of fetch_all, or get_blocked_apps.
Read ==
    /\ flow.at \in {"fetch", "patch"}
    /\ \E p \in Proxies :
           /\ owner[p.bus] # 0
           /\ fetched' = Serve(Queried)
           /\ flow' = [flow EXCEPT !.at = "show", !.status = p.status]
    /\ history' = [history EXCEPT !.missed = @ /\ flow.at = "patch"]
    /\ UNCHANGED << Rest, wire, signals, refresh, vm >>

\* The calls fail, or take longer than ten seconds.  fetch_all turns that into
\* an answer without data; the view keeps its blocked apps.
ReadFails ==
    /\ flow.at \in {"fetch", "patch"}
    /\ \/ /\ Proxies = {} \/ \E p \in Proxies : owner[p.bus] = 0
          /\ UNCHANGED << moves, faults, history >>
       \/ Fault("time-out") /\ history' = [history EXCEPT !.missed = TRUE]
    /\ fetched' = Failed(Queried)
    /\ flow' = [flow EXCEPT !.at = IF @ = "patch" THEN "top" ELSE "show"]
    /\ UNCHANGED << store, daemon, owner, sender, facts, outbox, wire, screen, editor,
                    wire, signals, refresh, vm >>

\* do_full_fetch, or the patch of the blocked apps: the view model is sent.
Show ==
    /\ flow.at = "show"
    /\ flow' = [flow EXCEPT !.at = "top"]
    /\ vm' = IF DOMAIN fetched # Shown /\ vm.data = Nothing THEN vm
             ELSE [data |-> IF DOMAIN fetched = Shown THEN fetched ELSE fetched @@ vm.data,
                   unseen |-> TRUE]
    /\ fetched' = Failed({})
    /\ UNCHANGED << Rest, wire, signals, refresh, history >>

\* The receiver of the window draws a view model unless it equals the last one.
ReceiveView ==
    /\ vm.unseen
    /\ vm' = [vm EXCEPT !.unseen = FALSE]
    /\ screen' = IF vm.data = screen.prev THEN screen
                 ELSE [screen EXCEPT !.prev = vm.data, !.drawn = vm.data]
    /\ UNCHANGED << store, daemon, owner, sender, facts, outbox, wire, flow,
                    signals, refresh, fetched, editor, moves, faults, history >>

RequestRefresh ==
    /\ flow.at # "off" /\ ~refresh /\ Move
    /\ refresh' = TRUE
    /\ UNCHANGED << store, daemon, owner, sender, facts, outbox, wire, flow,
                    signals, fetched, vm, screen, editor, history >>

\* A stream of signals ends.
StreamEnds(b) ==
    /\ b \in flow.streams /\ Fault("stream")
    /\ flow' = [flow EXCEPT !.streams = @ \ {b}]
    /\ signals' = Append(signals, "StreamEnded")
    /\ UNCHANGED << store, daemon, owner, sender, facts, outbox, wire, refresh,
                    fetched, vm, screen, editor, history >>
-----------------------------------------------------------------------------
(* The policy editor *)

World == << wire, flow, signals, refresh, fetched, vm >>

\* Save or delete: a task calls the daemon.  One that is still running is dropped,
\* and the call it made is carried out all the same.
Save(a) ==
    /\ screen.name = "policies" /\ a.caller = Viewer
    /\ Receive(a)
    /\ editor' = [editor EXCEPT !.at = "saving", !.op = a.op]
    /\ UNCHANGED << World, screen >>

\* The answer, or the error of a broken connection.  A delete that failed is
\* followed by a fetch all the same.
Answered ==
    /\ editor.at = "saving"
    /\ LET lost == owner[daemon.bus] # sender[Viewer] IN
        /\ lost \/ call[Viewer].at = "idle"
        /\ editor' = [editor EXCEPT !.at = IF editor.op = "delete"
                                             \/ (~lost /\ call[Viewer].ok)
                                          THEN "fetching" ELSE "closed"]
    /\ UNCHANGED << store, daemon, owner, sender, facts, outbox, World, screen, moves,
                    faults, history >>

EditorFetch ==
    /\ editor.at = "fetching"
    /\ editor' = [editor EXCEPT !.at = "arrived",
                      !.result = IF Present THEN Serve(Shown) ELSE Failed(Shown)]
    /\ UNCHANGED << store, daemon, owner, sender, facts, outbox, World, screen, moves,
                    faults, history >>

\* It draws what it fetched, past the flow and the receiver.
EditorDraws ==
    /\ editor.at = "arrived"
    /\ screen' = [screen EXCEPT !.drawn = editor.result]
    /\ editor' = Closed
    /\ UNCHANGED << store, daemon, owner, sender, facts, outbox, World, moves, faults, history >>
-----------------------------------------------------------------------------
InitDesk ==
    /\ InitStore
    /\ \E name \in Screens : screen = [name |-> name, prev |-> Nothing, drawn |-> Nothing]
    /\ \E b \in StartsOn[screen.name], up \in BOOLEAN :
           /\ ~up => b = Busses[1] /\ "death" \in Faults[screen.name]
           /\ daemon = [at |-> IF up THEN "serving" ELSE "down", bus |-> b, conn |-> 1,
                        serving |-> 1, notices |-> << >>, watching |-> TRUE, retries |-> 0]
           /\ owner = [c \in Bus |-> IF up /\ c = b THEN 1 ELSE 0]
           /\ flow = [at |-> IF screen.name = "closed" THEN "off" ELSE "top",
                      available |-> TRUE, subscribed |-> FALSE, streams |-> {},
                      status |-> IF up THEN b ELSE NoBus]
    /\ sender = [c \in Uids |-> 0]
    /\ facts = [blocked |-> 0, usage |-> 0] /\ outbox = << >>
    /\ wire = [b \in Bus |-> << >>] /\ signals = << >>
    /\ refresh = TRUE /\ fetched = Failed({})
    /\ vm = [data |-> Nothing, unseen |-> FALSE]
    /\ editor = Closed
    /\ moves = 0 /\ faults = 0
    /\ history = [missed |-> FALSE, crossed |-> FALSE, orphan |-> FALSE]

Watchdog == WatchAgain \/ Notice \/ Reacquire \/ ReacquireFails \/ Settle
FlowStep == Subscribe \/ SkipSubscribe \/ OnSignal \/ OnRefresh
            \/ Read \/ ReadFails \/ Show
CallStep == \E c \in Uids : Handle(c) \/ Announce(c)
EditorStep == Answered \/ EditorFetch \/ EditorDraws

NextDesk ==
    \/ \E b \in Bus : StartDaemon(b) \/ OnPresence(b) \/ StreamEnds(b)
    \/ Crash \/ LoseName \/ WatchEnds \/ Watchdog
    \/ \E a \in Asked[screen.name] : OthersCall(a) \/ Save(a)
    \/ CallStep
    \/ \E part \in Shown : Change(part)
    \/ EmitSignal
    \/ FlowStep \/ ReceiveView \/ RequestRefresh
    \/ EditorStep

DeskSpec == InitDesk /\ [][NextDesk]_desk

\* Tasks that can run do; nobody has to call, and nothing has to break.
Fairness ==
    /\ WF_desk(Watchdog) /\ WF_desk(EmitSignal) /\ WF_desk(FlowStep)
    /\ WF_desk(ReceiveView) /\ WF_desk(EditorStep)
    /\ \A b \in Bus : WF_desk(OnPresence(b))
    /\ WF_desk(CallStep)

FairDesk == DeskSpec /\ Fairness
-----------------------------------------------------------------------------
(* Properties *)

\* The screen comes to show what the daemon serves and stays there, through
\* deaths, moves to another bus, lost names and broken streams: except when a
\* signal went out that the screen could not hear and nothing was fetched since,
\* when the two watchers' news overtook each other, or when the editor has drawn
\* over what the flow had shown.
ScreenCatchesUp ==
    <>[](Present /\ ~history.missed /\ ~history.crossed /\ screen.drawn = screen.prev
         /\ screen.name # "closed" => screen.drawn = Serve(Shown))

\* A daemon that loses its name gets it back or dies, if its watchdog was
\* watching at the time.
NameRecovers == (Up /\ ~Present) ~> (Present \/ ~Up \/ history.orphan)
=============================================================================
