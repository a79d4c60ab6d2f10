----------------------- MODULE HyprlandPluginInvariant -----------------------
(***************************************************************************)
(* The inductive invariant behind RegisteredMeansServed, DaemonToldFocus   *)
(* and BlocksAgree: what the order of the messages on one connection says  *)
(* of the daemon that sent them, and why only one connection matters while *)
(* the news of the two is not crossed.                                     *)
(***************************************************************************)
EXTENDS HyprlandPlugin

Appeared == Signal("Appeared")

\* What the buses deliver.
News == [type : {"Select", "Registered"}, ok : BOOLEAN]
        \cup [type : {"BlockedApps"}, ok : {TRUE}, apps : SUBSET Apps]
        \cup [type : {"BlockedApps"}, ok : {FALSE}]
        \cup [type : {"AppBlocked"}, app : Apps, on : BOOLEAN]
        \cup {Appeared, Disappeared}

WireInv ==
    /\ inbox \in [Buses -> Seq(News)]
    /\ answer \in Seq(SUBSET Apps) /\ Len(answer) <= 1
    /\ answer # << >> => daemon # NoBus
    /\ daemon = NoBus => told = Signal("unregistered")
    /\ { idle, registered, locked, shutdown, stopped, lostFocus, lostCmd,
         overtaken, crossed } \subseteq BOOLEAN

-----------------------------------------------------------------------------
(* The bus selection has one call or reply under way, on the bus of its    *)
(* step, until it is over.                                                 *)

SelectKinds == {"HasOwner", "Start"}

SelectInv ==
    /\ \A b \in Buses : \A i \in DOMAIN inbox[b] : inbox[b][i].type = "Select" =>
           /\ select # "Idle" /\ StepCall(select)[1] = b
           /\ \A o \in Buses, k \in SelectKinds : calls[o][k] = 0
           /\ \A j \in DOMAIN inbox[b] : inbox[b][j].type = "Select" => j = i
    /\ \A b \in Buses, k \in SelectKinds : calls[b][k] > 0 =>
           select # "Idle" /\ StepCall(select) = << b, k >> /\ calls[b][k] = 1

-----------------------------------------------------------------------------
(* The life of the daemon, as the messages s of its connection tell it.    *)

\* A daemon that was there when message i was sent is there still, or its end
\* is told, and told before a next daemon appears.
Lasts(s, i, alive) ==
    /\ \A j \in i + 1 .. Len(s) :
           s[j] = Appeared => \E k \in i + 1 .. j - 1 : s[k] = Disappeared
    /\ alive \/ \E k \in i + 1 .. Len(s) : s[k] = Disappeared

\* Only a daemon grants anything.
Granted(m) == m.type \in {"Select", "Registered", "BlockedApps"} /\ m.ok

LifeOK(s, alive) == \A i \in DOMAIN s : Granted(s[i]) => Lasts(s, i, alive)

LifeInv == \A b \in Buses : LifeOK(inbox[b], daemon = b)

\* Nobody hears the plugin: then the end of the daemon that accepted its
\* registration, in force or under way, is under way too.
Ended(s, i) == \E j \in i + 1 .. Len(s) : s[j] = Disappeared

ToldInv ==
    told = Signal("unregistered") =>
        /\ registered => \E b \in Buses : Ended(inbox[b], 0)
        /\ \A b \in Buses : \A i \in DOMAIN inbox[b] :
               inbox[b][i] = Accepted => Ended(inbox[b], i)

-----------------------------------------------------------------------------
(* Without crossed news one bus is the daemon's home: the other carries    *)
(* nothing but the bus selection.                                          *)

Quiet(o) ==
    /\ \A i \in DOMAIN inbox[o] : inbox[o][i].type = "Select"
    /\ calls[o]["Register"] = 0 /\ calls[o]["GetBlocked"] = 0

Has(s, m) == \E i \in DOMAIN s : s[i] = m

\* The plugin speaks to the daemon that accepted its registration, or hears of
\* its start before or of its end after it hears of the acceptance.
Expected(s, here) ==
    \A i \in DOMAIN s : s[i] = Accepted =>
        \/ here
        \/ \E j \in 1 .. i - 1 : s[j] = Appeared
        \/ \E j \in i + 1 .. Len(s) : s[j] = Disappeared

Registering(h) == \/ calls[h]["Register"] > 0
                  \/ \E i \in DOMAIN inbox[h] : inbox[h][i].type = "Registered"

\* A registration is known to the daemon at home h, or the end of that daemon
\* is under way; and the plugin speaks to h, or will when it hears of the start.
Registration(h) ==
    /\ registered => Lasts(inbox[h], 0, daemon = h)
    /\ registered => bus = h \/ Has(inbox[h], Disappeared)
    /\ Expected(inbox[h], bus = h)
    /\ calls[h]["Register"] > 0 /\ daemon = h => bus = h \/ Has(inbox[h], Appeared)
    /\ Registering(h) => bus \in {h, NoBus}

Home(h) == /\ daemon \in {h, NoBus}
           /\ \A o \in Buses \ {h} : Quiet(o)
           /\ Registration(h)

HomeInv == ~crossed => \E h \in Buses : Home(h)

-----------------------------------------------------------------------------
(* The list of blocked apps. *)

\* Whoever asks for the list on a bus has subscribed to the changes there.
SubscribedInv ==
    \A b \in Buses :
        \/ bus = b \/ calls[b]["GetBlocked"] > 0
        \/ answer # << >> /\ daemon = b
        \/ \E i \in DOMAIN inbox[b] : inbox[b][i].type = "BlockedApps"
        => matches[b] > 0

AnswerInv == answer # << >> /\ ~overtaken => answer[1] = blocked

\* The list of the daemon that is alive is under way.
ListUnderWay ==
    \E i \in DOMAIN inbox[daemon] :
        /\ inbox[daemon][i].type = "BlockedApps" /\ inbox[daemon][i].ok
        /\ \A k \in i + 1 .. Len(inbox[daemon]) : inbox[daemon][k] # Disappeared

Synced == /\ daemon # NoBus /\ answer = << >>
          /\ ~crossed /\ ~overtaken
          /\ ListUnderWay \/ (Served /\ ~lostCmd)

ListInv == Synced => BlocksUnderWay = blocked

WiresInv == TypeOK /\ WireInv /\ SelectInv /\ LifeInv /\ HomeInv
PluginInv == /\ WiresInv /\ ToldInv /\ DaemonToldFocus
             /\ SubscribedInv /\ AnswerInv /\ ListInv
=============================================================================
