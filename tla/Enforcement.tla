---------------------------- MODULE Enforcement ----------------------------
(***************************************************************************)
(* The enforcing half of EnforcerActor: which app of which user is in      *)
(* blocked_apps, and the AppBlocked signals that tell the plugins.         *)
(*                                                                         *)
(* The actor handles one message at a time: a Focus or Block event, a      *)
(* PolicyChanged, or the Flush of the minute ticker, which evaluates every *)
(* registered user at once and then resets the time limits of past days.   *)
(* An evaluation is a chain of awaits (the plugin is asked what is         *)
(* focused, the policies are read, the verdict is applied); between any    *)
(* two of them the user switches windows, D-Bus handlers store policies    *)
(* and register plugins, midnight passes, and the evaluations of the other *)
(* users of a minute tick go on.                                           *)
(*                                                                         *)
(* A policy is what it says of each app: nothing (or Allow), Block, or a   *)
(* time limit.  Usage is the set of days on which an app has reached its   *)
(* limit.  One run of the daemon is modelled: blocked_apps starts empty.   *)
(***************************************************************************)
EXTENDS Integers, Sequences

CONSTANTS
    Users,         \* uids with a compositor session
    Root,          \* the administrator, who has none
    Apps,          \* app classes
    NoApp,         \* no window is focused
    NoEntry,       \* the app is not in blocked_apps
    QueueCap,      \* capacity of the internal channel (32)
    MaxDay,        \* bound: the last day
    MaxInstances,  \* bound: plugin processes per user
    MaxMoves,      \* bound: focus switches, policy edits, plugin deaths, midnights
    RootCreates,   \* root creates policies for other users
    MayFailRead,   \* a query of an evaluation can fail
    MayFailFlush   \* the flush of a minute tick can fail

ASSUME EnforcementAssumption ==
    /\ Root \notin Users /\ NoApp \notin Apps
    /\ QueueCap \in Nat \ {0} /\ MaxDay \in Nat
    /\ MaxInstances \in Nat /\ MaxMoves \in Nat
    /\ {RootCreates, MayFailRead, MayFailFlush} \subseteq BOOLEAN
    /\ NoEntry \notin [reason : {"AppBlock", "AppTimeLimit"}, day : Nat]

VARIABLES
    \* the world
    day, moves,   \* UTC day; changes so far
    focused,      \* what each plugin answers to GetFocusState
    plugin,       \* life of each plugin: dead, registered, greeted
    instance,     \* its latest process
    \* the database
    rule,         \* what the policies of a user say of an app
    used,         \* the days on which an app's recorded usage reached its limit
    \* the daemon around the actor
    registered,   \* the instance in the registry, 0 for none
    listening,    \* the Event subscription of the latest instance is in place
    handlers,     \* owners whose policy is stored and not yet announced
    inbox,        \* Focus and Block events for the actor
    internal,     \* its internal channel
    \* the actor
    actor,        \* idle, event, mutation, tick or reset
    step,         \* how far the evaluation of each user is
    today,        \* the day of the `now` of the running evaluation
    blocked,      \* blocked_apps
    lastReset,    \* last_midnight_reset, -1 for None
    \* history
    told,         \* what the AppBlocked signals so far add up to
    heard,        \* the app the daemon last learned to be focused
    firstCheck    \* the day of the first maybe_midnight_reset

world    == << day, moves, focused, plugin, instance >>
database == << rule, used >>
intake   == << registered, listening, handlers, inbox, internal >>
work     == << actor, step, today >>
blocks   == << blocked, lastReset, told, firstCheck >>
vars     == << world, database, intake, work, blocks, heard >>

Days    == 0 .. MaxDay
Rules   == {"none", "block", "limit"}
Entries == [reason : {"AppBlock", "AppTimeLimit"}, day : Days]
Flush   == [kind |-> "Flush", uid |-> Root]
Messages == [kind : {"Flush", "PolicyChanged"}, uid : Users \cup {Root}]
Events   == [uid : Users, app : Apps]
Changed(owner) == [kind |-> "PolicyChanged", uid |-> owner]
Queued(m) == \E i \in DOMAIN internal : internal[i] = m
Done    == [at |-> "done", inst |-> 0, app |-> NoApp, rule |-> "none"]
Steps   == [at : {"done", "lookup", "ask", "read", "apply"}, inst : 0 .. MaxInstances,
            app : Apps \cup {NoApp}, rule : Rules]

Alive(u) == plugin[u] # "dead"
Idle     == actor = "idle"
AllDone  == \A u \in Users : step[u] = Done
-----------------------------------------------------------------------------
(* An evaluation *)

\* evaluate_single_uid, handle_policy_mutation: the registry gives a proxy.
LookUp(u) ==
    /\ step[u].at = "lookup"
    /\ IF registered[u] = 0
       THEN step' = [step EXCEPT ![u] = Done] /\ heard' = [heard EXCEPT ![u] = NoApp]
       ELSE /\ step' = [step EXCEPT ![u].at = "ask", ![u].inst = registered[u]]
            /\ UNCHANGED heard
    /\ UNCHANGED << world, database, intake, actor, today, blocks >>

\* GetFocusState on that proxy.  When the call fails, whatever the registry
\* then holds for the user is removed.
Unreachable(u) ==
    /\ step[u].at = "ask" /\ ~(Alive(u) /\ instance[u] = step[u].inst)
    /\ registered' = [registered EXCEPT ![u] = 0]
    /\ step' = [step EXCEPT ![u] = Done]
    /\ heard' = [heard EXCEPT ![u] = NoApp]
    /\ UNCHANGED << world, database, listening, handlers, inbox, internal,
                    actor, today, blocks >>

\* A variant with a bug: takes an answer without an app for an app.
AnsweredWithAnApp(u) ==
    /\ step[u].at = "ask" /\ Alive(u) /\ instance[u] = step[u].inst
    /\ step' = [step EXCEPT ![u].at = "read", ![u].app = focused[u]]
    /\ heard' = [heard EXCEPT ![u] = focused[u]]
    /\ UNCHANGED << world, database, intake, actor, today, blocks >>

\* The plugin answers; when it names no app there is nothing to evaluate.
Answered(u) ==
    /\ step[u].at = "ask" /\ Alive(u) /\ instance[u] = step[u].inst
    /\ step' = [step EXCEPT ![u] =
                   IF focused[u] = NoApp THEN Done
                   ELSE [@ EXCEPT !.at = "read", !.app = focused[u]]]
    /\ heard' = [heard EXCEPT ![u] = focused[u]]
    /\ UNCHANGED << world, database, intake, actor, today, blocks >>

\* evaluate_single_app up to its last query.  A query that fails counts as no
\* policy, or as no usage.
ReadPolicies(u) ==
    /\ step[u].at = "read"
    /\ \E read \in {rule[u][step[u].app]} \cup (IF MayFailRead THEN {"none"} ELSE {}) :
           step' = [step EXCEPT ![u].at = "apply", ![u].rule = read]
    /\ UNCHANGED << world, database, intake, actor, today, blocks, heard >>

Verdict(u) ==
    CASE step[u].rule = "block" -> [reason |-> "AppBlock", day |-> today]
      [] step[u].rule = "limit" /\ today \in used[u][step[u].app]
                                -> [reason |-> "AppTimeLimit", day |-> today]
      [] OTHER                  -> NoEntry

\* evaluate_and_apply: insert or remove the entry; a signal when the app was
\* not blocked before, or no longer is.
Apply(u) ==
    /\ step[u].at = "apply"
    /\ LET app == step[u].app IN
        /\ blocked' = [blocked EXCEPT ![u][app] = Verdict(u)]
        /\ told' = [told EXCEPT ![u] =
               IF Verdict(u) # NoEntry THEN @ \cup {app}
               ELSE IF blocked[u][app] # NoEntry THEN @ \ {app}
               ELSE @]
    /\ step' = [step EXCEPT ![u] = Done]
    /\ UNCHANGED << world, database, intake, actor, today, lastReset, firstCheck, heard >>
-----------------------------------------------------------------------------
(* Messages of the actor *)

\* What a flush adds to the usage tables: an app may reach its limit.
RecordUsage ==
    \/ UNCHANGED used
    \/ \E u \in Users, a \in Apps : used' = [used EXCEPT ![u][a] = @ \cup {day}]

\* handle_event, Focus or Block: the payload names the app.
HandleEvent ==
    /\ Idle /\ inbox # << >>
    /\ LET e == Head(inbox) IN
        /\ step' = [step EXCEPT ![e.uid] = [Done EXCEPT !.at = "read", !.app = e.app]]
        /\ heard' = [heard EXCEPT ![e.uid] = e.app]
    /\ inbox' = Tail(inbox)
    /\ actor' = "event" /\ today' = day
    /\ UNCHANGED << world, database, registered, listening, handlers, internal, blocks >>

\* ... and the flush when that was the 100th event in the buffer.
EndEvent ==
    /\ actor = "event" /\ AllDone
    /\ RecordUsage
    /\ actor' = "idle"
    /\ UNCHANGED << world, rule, intake, step, today, blocks, heard >>

\* InternalEvent::PolicyChanged; its owner may have no session.
HandlePolicyChanged ==
    /\ Idle /\ internal # << >> /\ Head(internal).kind = "PolicyChanged"
    /\ internal' = Tail(internal)
    /\ actor' = "mutation" /\ today' = day
    /\ step' = [u \in Users |-> IF u = Head(internal).uid
                                THEN [Done EXCEPT !.at = "lookup"] ELSE Done]
    /\ UNCHANGED << world, database, registered, listening, handlers, inbox, blocks, heard >>

EndMutation ==
    /\ actor = "mutation" /\ AllDone
    /\ actor' = "idle"
    /\ UNCHANGED << world, database, intake, step, today, blocks, heard >>

\* A variant with a bug: flushes, and evaluates nobody.
HandleFlushOfTheBuffer ==
    /\ Idle /\ internal # << >> /\ Head(internal) = Flush
    /\ internal' = Tail(internal)
    /\ today' = day
    /\ RecordUsage
    /\ actor' = "tick"
    /\ UNCHANGED << world, rule, registered, listening, handlers, inbox, step, blocks, heard >>

\* InternalEvent::Flush: flush, then evaluate every registered user.
HandleFlush ==
    /\ Idle /\ internal # << >> /\ Head(internal) = Flush
    /\ internal' = Tail(internal)
    /\ today' = day
    /\ \/ /\ RecordUsage
          /\ actor' = "tick"
          /\ step' = [u \in Users |-> IF registered[u] # 0
                                      THEN [Done EXCEPT !.at = "lookup"] ELSE Done]
       \/ /\ MayFailFlush
          /\ actor' = "reset"
          /\ UNCHANGED << used, step >>
    /\ UNCHANGED << world, rule, registered, listening, handlers, inbox, blocks, heard >>

EndTick ==
    /\ actor = "tick" /\ AllDone
    /\ actor' = "reset"
    /\ UNCHANGED << world, database, intake, step, today, blocks, heard >>

Outlived(e) == e # NoEntry /\ e.reason = "AppTimeLimit"

Forgotten == [u \in Users |-> [a \in Apps |->
                 IF Outlived(blocked[u][a]) THEN NoEntry ELSE blocked[u][a]]]

\* A variant with a bug: sends no signal for the blocks it removes.
MidnightResetInSilence ==
    /\ actor = "reset"
    /\ actor' = "idle"
    /\ blocked' = IF lastReset # -1 /\ lastReset < day THEN Forgotten ELSE blocked
    /\ lastReset' = IF lastReset < day THEN day ELSE lastReset
    /\ firstCheck' = IF firstCheck = -1 THEN day ELSE firstCheck
    /\ UNCHANGED << world, database, intake, step, today, told, heard >>

\* A variant with a bug: compares days off by one.
MidnightResetEverySecondDay ==
    /\ actor = "reset"
    /\ actor' = "idle"
    /\ IF lastReset # -1 /\ lastReset + 1 < day
       THEN /\ blocked' = Forgotten
            /\ told' = [u \in Users |-> told[u] \ {a \in Apps : Outlived(blocked[u][a])}]
       ELSE UNCHANGED << blocked, told >>
    /\ lastReset' = IF lastReset < day THEN day ELSE lastReset
    /\ firstCheck' = IF firstCheck = -1 THEN day ELSE firstCheck
    /\ UNCHANGED << world, database, intake, step, today, heard >>

\* maybe_midnight_reset, midnight_reset
MidnightReset ==
    /\ actor = "reset"
    /\ actor' = "idle"
    /\ IF lastReset # -1 /\ lastReset < day
       THEN /\ blocked' = Forgotten
            /\ told' = [u \in Users |-> told[u] \ {a \in Apps : Outlived(blocked[u][a])}]
       ELSE UNCHANGED << blocked, told >>
    /\ lastReset' = IF lastReset < day THEN day ELSE lastReset
    /\ firstCheck' = IF firstCheck = -1 THEN day ELSE firstCheck
    /\ UNCHANGED << world, database, intake, step, today, heard >>
-----------------------------------------------------------------------------
(* D-Bus handlers, ticker, plugins, users *)

\* A variant with a bug: does not announce that the last policy is gone.
StorePolicyUnlessDeleted(u, says, owner) ==
    /\ moves < MaxMoves /\ moves' = moves + 1
    /\ owner \notin handlers
    /\ owner = u \/ (RootCreates /\ owner = Root)
    /\ says # rule[u]
    /\ rule' = [rule EXCEPT ![u] = says]
    /\ handlers' = IF \A a \in Apps : says[a] = "none" THEN handlers
                   ELSE handlers \cup {owner}
    /\ UNCHANGED << day, focused, plugin, instance, used, registered, listening,
                    inbox, internal, work, blocks, heard >>

\* create_policy, update_policy, delete_policy: stored, and then announced to
\* the owner of the policy, or to its creator.
StorePolicy(u, says, owner) ==
    /\ moves < MaxMoves /\ moves' = moves + 1
    /\ owner \notin handlers      \* bound: one mutation of an owner at a time
    /\ owner = u \/ (RootCreates /\ owner = Root)
    /\ says # rule[u]
    /\ rule' = [rule EXCEPT ![u] = says]
    /\ handlers' = handlers \cup {owner}
    /\ UNCHANGED << day, focused, plugin, instance, used, registered, listening,
                    inbox, internal, work, blocks, heard >>

AnnouncePolicy(owner) ==
    /\ owner \in handlers /\ Len(internal) < QueueCap
    /\ internal' = Append(internal, Changed(owner))
    /\ handlers' = handlers \ {owner}
    /\ UNCHANGED << world, database, registered, listening, inbox, work, blocks, heard >>

\* the minute ticker; bound: one Flush waits at a time
MinuteTick ==
    /\ Len(internal) < QueueCap /\ ~Queued(Flush)
    /\ internal' = Append(internal, Flush)
    /\ UNCHANGED << world, database, registered, listening, handlers, inbox, work,
                    blocks, heard >>

Emit(u, app) ==
    inbox' = IF listening[u] /\ app # NoApp
             THEN Append(inbox, [uid |-> u, app |-> app]) ELSE inbox

\* The user switches windows: the plugin reports it, and the daemon hears it
\* once it has subscribed.
SwitchFocus(u, app) ==
    /\ Alive(u) /\ app # focused[u]
    /\ moves < MaxMoves /\ moves' = moves + 1
    /\ focused' = [focused EXCEPT ![u] = app]
    /\ Emit(u, app)
    /\ UNCHANGED << day, plugin, instance, database, registered, listening, handlers,
                    internal, work, blocks, heard >>

\* A plugin process starts and calls register_plugin; the subscription to its
\* events is left to a task of its own.
RegisterPlugin(u) ==
    /\ ~Alive(u) /\ instance[u] < MaxInstances
    /\ plugin' = [plugin EXCEPT ![u] = "registered"]
    /\ instance' = [instance EXCEPT ![u] = @ + 1]
    /\ registered' = [registered EXCEPT ![u] = instance'[u]]
    /\ UNCHANGED << day, moves, focused, database, listening, handlers, inbox,
                    internal, work, blocks, heard >>

Subscribe(u) ==
    /\ Alive(u) /\ ~listening[u]
    /\ listening' = [listening EXCEPT ![u] = TRUE]
    /\ UNCHANGED << world, database, registered, handlers, inbox, internal, work, blocks,
                    heard >>

\* onRegisterReply, onGetBlockedAppsReply: the plugin reports what is focused.
Greet(u) ==
    /\ plugin[u] = "registered"
    /\ plugin' = [plugin EXCEPT ![u] = "greeted"]
    /\ Emit(u, focused[u])
    /\ UNCHANGED << day, moves, focused, instance, database, registered, listening,
                    handlers, internal, work, blocks, heard >>

PluginDies(u) ==
    /\ Alive(u)
    /\ moves < MaxMoves /\ moves' = moves + 1
    /\ plugin' = [plugin EXCEPT ![u] = "dead"]
    /\ focused' = [focused EXCEPT ![u] = NoApp]
    /\ listening' = [listening EXCEPT ![u] = FALSE]
    /\ UNCHANGED << day, instance, database, registered, handlers, inbox, internal, work,
                    blocks, heard >>

NextDay ==
    /\ day < MaxDay
    /\ moves < MaxMoves /\ moves' = moves + 1
    /\ day' = day + 1
    /\ UNCHANGED << focused, plugin, instance, database, intake, work, blocks, heard >>
-----------------------------------------------------------------------------
Init ==
    /\ day = 0 /\ moves = 0
    /\ focused = [u \in Users |-> NoApp]
    /\ plugin = [u \in Users |-> "dead"] /\ instance = [u \in Users |-> 0]
    /\ rule = [u \in Users |-> [a \in Apps |-> "none"]]
    /\ used = [u \in Users |-> [a \in Apps |-> {}]]
    /\ registered = [u \in Users |-> 0] /\ listening = [u \in Users |-> FALSE]
    /\ handlers = {} /\ inbox = << >> /\ internal = << >>
    /\ actor = "idle" /\ step = [u \in Users |-> Done] /\ today = 0
    /\ blocked = [u \in Users |-> [a \in Apps |-> NoEntry]]
    /\ lastReset = -1 /\ firstCheck = -1
    /\ told = [u \in Users |-> {}] /\ heard = [u \in Users |-> NoApp]

Evaluate(u) ==
    LookUp(u) \/ Unreachable(u) \/ Answered(u) \/ ReadPolicies(u) \/ Apply(u)

Next ==
    \/ \E u \in Users : Evaluate(u)
    \/ HandleEvent \/ EndEvent
    \/ HandlePolicyChanged \/ EndMutation
    \/ HandleFlush \/ EndTick \/ MidnightReset
    \/ \E u \in Users, says \in [Apps -> Rules], owner \in Users \cup {Root} :
           StorePolicy(u, says, owner)
    \/ \E owner \in Users \cup {Root} : AnnouncePolicy(owner)
    \/ MinuteTick
    \/ \E u \in Users, app \in Apps \cup {NoApp} : SwitchFocus(u, app)
    \/ \E u \in Users :
           RegisterPlugin(u) \/ Subscribe(u) \/ Greet(u) \/ PluginDies(u)
    \/ NextDay

Spec == Init /\ [][Next]_vars

\* The ticker ticks every minute, the actor finishes what it has begun and
\* takes what waits for it, and a D-Bus handler announces what it has stored.
Fairness ==
    /\ \A u \in Users : WF_vars(Evaluate(u))
    /\ WF_vars(HandleEvent) /\ WF_vars(EndEvent)
    /\ WF_vars(HandlePolicyChanged) /\ WF_vars(EndMutation)
    /\ WF_vars(HandleFlush) /\ WF_vars(EndTick) /\ WF_vars(MidnightReset)
    /\ \A owner \in Users \cup {Root} : WF_vars(AnnouncePolicy(owner))
    /\ WF_vars(MinuteTick)

FairSpec == Spec /\ Fairness
-----------------------------------------------------------------------------
(* Properties *)

\* Every variable has its type.
TypeOK ==
    /\ day \in Days /\ moves \in 0 .. MaxMoves
    /\ focused \in [Users -> Apps \cup {NoApp}]
    /\ plugin \in [Users -> {"dead", "registered", "greeted"}]
    /\ instance \in [Users -> 0 .. MaxInstances]
    /\ rule \in [Users -> [Apps -> Rules]]
    /\ used \in [Users -> [Apps -> SUBSET Days]]
    /\ registered \in [Users -> 0 .. MaxInstances]
    /\ listening \in [Users -> BOOLEAN]
    /\ handlers \subseteq Users \cup {Root}
    /\ inbox \in Seq(Events) /\ internal \in Seq(Messages)
    /\ Len(internal) <= QueueCap
    /\ actor \in {"idle", "event", "mutation", "tick", "reset"}
    /\ step \in [Users -> Steps]
    /\ \A u \in Users : step[u].at \in {"read", "apply"} => step[u].app \in Apps
    /\ today \in Days
    /\ blocked \in [Users -> [Apps -> Entries \cup {NoEntry}]]
    /\ lastReset \in Days \cup {-1} /\ firstCheck \in Days \cup {-1}
    /\ told \in [Users -> SUBSET Apps]
    /\ heard \in [Users -> Apps \cup {NoApp}]

HardBlocked(u, a) == blocked[u][a] # NoEntry /\ blocked[u][a].reason = "AppBlock"

\* A listener that has followed the AppBlocked signals from the start knows
\* exactly what is in blocked_apps, for every user.
SignalsTellTheBlocks ==
    \A u \in Users : told[u] = {a \in Apps : blocked[u][a] # NoEntry}

\* When the actor has nothing of a user's left to do, the app it last learned to
\* be focused is hard-blocked exactly when the stored policies say so, whatever
\* was edited, asked, read and applied in whatever order before.
VerdictFollowsPolicy ==
    Idle => \A u \in Users :
        /\ heard[u] # NoApp
        /\ u \notin handlers /\ ~Queued(Changed(u))
        => (HardBlocked(u, heard[u]) <=> rule[u][heard[u]] = "block")

\* A time-limit block of an earlier day does not survive the first minute tick
\* of a new one, except when it was made before the very first tick.
LimitBlocksEndWithTheirDay ==
    \A u \in Users, a \in Apps :
        Outlived(blocked[u][a]) =>
            blocked[u][a].day >= lastReset \/ blocked[u][a].day < firstCheck

\* A query that fails and changes what an evaluation knows, or a flush of a
\* minute tick that fails.
Failure ==
    \/ \E u \in Users : /\ step[u].at = "read" /\ step'[u].at = "apply"
                       /\ step'[u].rule # rule[u][step[u].app]
    \/ actor = "idle" /\ actor' = "reset"

\* Once windows, policies and plugins are left alone and nothing fails any more,
\* every user the daemon can reach has the app in front of him blocked exactly
\* when policy and usage say so: lost events, failed queries and flushes, policies
\* announced to somebody else and blocks removed by a reset are all made good by
\* the minute tick.
Settled(u) ==
    LET a == focused[u]
    IN  /\ Alive(u) /\ registered[u] = instance[u] /\ a # NoApp
        => /\ HardBlocked(u, a) <=> rule[u][a] = "block"
           /\ blocked[u][a] # NoEntry
              <=> rule[u][a] = "block" \/ (rule[u][a] = "limit" /\ day \in used[u][a])

EnforcementConverges == <>[][~Failure]_vars => <>[](\A u \in Users : Settled(u))
=============================================================================
