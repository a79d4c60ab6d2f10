------------------------ MODULE UsageLedgerInvariant ------------------------
(***************************************************************************)
(* The inductive invariants behind OpenMatchesEvents and                   *)
(* NeverMoreThanElapsed (LedgerInv), on top of it behind                   *)
(* UsageMatchesEvents (UsageInv), behind ShutdownClosesEveryInterval       *)
(* (BooksInv) and behind OnlyFailuresLoseEvents (MemoryInv).  The totals   *)
(* are not inductive: what a commit writes depends on what the walk has    *)
(* accumulated, and that on the order and the age of the events it drained. *)
(***************************************************************************)
EXTENDS UsageLedger, FiniteSets

\* Every event that may still count: the table, what the running flush has
\* walked, and what is still to be walked.
Pending == IF job = "flushing" THEN todo ELSE buffer
Log     == (events \o done) \o Pending

\* Rows are in the order of their timestamps, and a Resume is strictly later
\* than what its user did before.
Ordered(log) ==
    \A i, j \in DOMAIN log : i < j =>
        /\ log[i].ts <= log[j].ts
        /\ log[j].type = "Resume" /\ log[i].uid = log[j].uid
           => log[i].ts < log[j].ts

NotBefore(log, t) == \A i \in DOMAIN log : t <= log[i].ts
NotAfter(log, t)  == \A i \in DOMAIN log : log[i].ts <= t

LogInv ==
    /\ Ordered(Log) /\ NotAfter(Log, clock)
    /\ NotAfter(events, measuredAt) /\ NotBefore(Pending, measuredAt)
    /\ measuredAt <= clock
    /\ job = "flushing" => /\ buffer = << >>
                           /\ measuredAt <= flushNow /\ flushNow <= clock
                           /\ NotAfter(done, flushNow) /\ NotAfter(todo, flushNow)
    /\ job # "flushing" => todo = << >> /\ done = << >>

\* The walk knows what is focused after the events it has walked, and has
\* credited what was open in the tables before it let go of it.
WalkInv ==
    job = "flushing" => \A u \in Users :
        /\ focus[u] = Focused(events \o done, u)
        /\ focus[u] # NoFocus => focus[u].ts <= flushNow /\ NotBefore(todo, focus[u].ts)
        /\ \/ focus[u] = Focused(events, u)
           \/ \A k \in Keys, d \in Days :
                  Share(Focused(events, u), measuredAt, k, d) <= delta[u][k][d]

\* Closed time fits before the open interval, and before what is still to come.
RoomInv ==
    \A u \in Users, k \in Keys, d \in Days :
        /\ closed[u][k][d] <= Overlap(0, measuredAt, d)
        /\ Focused(events, u) # NoFocus
           => closed[u][k][d] <= Overlap(0, Focused(events, u).ts, d)

WalkRoomInv ==
    job = "flushing" => \A u \in Users, k \in Keys, d \in Days :
        LET total == closed[u][k][d] + delta[u][k][d]
        IN  /\ total <= Overlap(0, flushNow, d)
            /\ focus[u] # NoFocus => total <= Overlap(0, focus[u].ts, d)
            /\ \A i \in DOMAIN todo : total <= Overlap(0, todo[i].ts, d)

LedgerInv ==
    TypeOK /\ LogInv /\ WalkInv /\ OpenMatchesEvents /\ RoomInv /\ WalkRoomInv

\* The totals count the events table, and with what the flush has accumulated
\* also the events it has walked.
UsageInv ==
    /\ UsageMatchesEvents
    /\ job = "flushing" => \A u \in Users, k \in Keys, d \in Days :
           closed[u][k][d] + delta[u][k][d] = Spent(events \o done, u, k, d)

\* The buffer fills between flushes, the drained events are there in one.
MemoryInv == IF job = "flushing" THEN buffer = << >> ELSE todo = << >> /\ done = << >>

-----------------------------------------------------------------------------
(* Shutdown *)

InTime(log) == \A i, j \in DOMAIN log : i < j => log[i].ts <= log[j].ts

\* Every user can be given a ShutDown event: what the buffer holds without
\* having started a flush (fewer than 100 events) and one event per user are
\* within its cap (10_000).
RoomToClose == IsFiniteSet(Users) /\ FlushCount + Cardinality(Users) <= MaxCapacity

\* Whoever has something open is to be given a ShutDown event, until all are
\* in the flush that closes the books; and no push of one is rejected.
BooksInv ==
    /\ InTime(Log) /\ NotAfter(Log, clock)
    /\ MemoryInv
    /\ job # "closing" => buffer = << >> \/ Len(buffer) < FlushCount
    /\ job = "closing" =>
           /\ Len(buffer) + Cardinality(toClose) <= MaxCapacity
           /\ \A u \in Users : Focused(Log, u) # NoFocus => u \in toClose
    /\ job = "flushing" /\ proc = "closing" =>
           \A u \in Users : Focused(Log, u) = NoFocus
=============================================================================
