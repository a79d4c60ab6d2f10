----------------------------- MODULE PolicyStore ----------------------------
(***************************************************************************)
(* The daemon's policies table and the D-Bus methods that change it.       *)
(* Calls of different callers run concurrently; update and delete first    *)
(* read the owner of the row and write in a later step.  A change that was *)
(* stored is announced last.                                               *)
(***************************************************************************)
EXTENDS PolicyEvaluation

CONSTANTS
    MaxId,     \* bound: ids that are given out
    Inputs,    \* bound: the requests that are made
    NoRow,     \* no row has this id
    Initially  \* the tables the daemon may find

Ids == 1 .. MaxId

ASSUME StoreAssumption ==
    /\ MaxId \in Nat /\ Inputs \subseteq Requests
    /\ NoRow \notin Rows
    /\ Initially \subseteq [Ids -> Rows \cup {NoRow}]
    /\ \A t \in Initially, i \in Ids : t[i] # NoRow => Legal(t[i])

VARIABLES
    table,  \* the row of each id
    call,   \* the call each caller has in progress
    births  \* history: how many rows have had an id

store == << table, call, births >>

NoCall(ok) == [at |-> "idle", op |-> "none", id |-> 0, input |-> Null,
               owner |-> Root, ok |-> ok]
Calls == [at : {"idle", "verify", "write", "announce"},
          op : {"none", "create", "update", "delete"}, id : {0} \cup Ids,
          input : Inputs \cup {Null}, owner : Uids, ok : BOOLEAN]

Stored == {i \in Ids : table[i] # NoRow}

\* INTEGER PRIMARY KEY without AUTOINCREMENT: one more than the largest id.
NextId == IF Stored = {} THEN 1 ELSE 1 + (CHOOSE i \in Stored : \A j \in Stored : j <= i)

\* list_policies
Listed(caller) ==
    {[id |-> i, row |-> table[i]] :
        i \in {j \in Stored : caller = Root \/ table[j].user = caller}}
-----------------------------------------------------------------------------
Finish(c, ok)  == call' = [call EXCEPT ![c] = NoCall(ok)]
Advance(c, at) == call' = [call EXCEPT ![c].at = at]

\* A method call arrives at the daemon.
Submit(c, op, id, input) ==
    /\ call[c].at = "idle"
    /\ call' = [call EXCEPT ![c] =
           [at |-> IF op = "create" THEN "write" ELSE "verify", op |-> op,
            id |-> id, input |-> input, owner |-> c, ok |-> FALSE]]
    /\ UNCHANGED << table, births >>

Ops == {"create", "update", "delete"}

Request(c, op) ==
    \E id    \in (IF op = "create" THEN {0} ELSE Ids),
       input \in (IF op = "delete" THEN {Null} ELSE Inputs) : Submit(c, op, id, input)

\* A variant with a bug: a table without the CHECKs.
CreateUnchecked(c) ==
    /\ call[c].at = "write" /\ call[c].op = "create"
    /\ NextId \in Ids
    /\ IF c = Root \/ call[c].input.user = c
       THEN /\ table' = [table EXCEPT ![NextId] = Created(call[c].input, c)]
            /\ births' = [births EXCEPT ![NextId] = @ + 1]
            /\ call' = [call EXCEPT ![c].at = "announce", ![c].id = NextId]
       ELSE Finish(c, FALSE) /\ UNCHANGED << table, births >>

\* create_policy
CreatePolicy(c) ==
    /\ call[c].at = "write" /\ call[c].op = "create"
    /\ NextId \in Ids
    /\ LET input == call[c].input
           row   == Created(input, c)
       IN  IF (c = Root \/ input.user = c) /\ Legal(row)
           THEN /\ table' = [table EXCEPT ![NextId] = row]
                /\ births' = [births EXCEPT ![NextId] = @ + 1]
                /\ call' = [call EXCEPT ![c].at = "announce", ![c].id = NextId]
           ELSE Finish(c, FALSE) /\ UNCHANGED << table, births >>

\* A variant with a bug: every caller may write every row.
VerifyNobody(c) ==
    /\ call[c].at = "verify"
    /\ IF table[call[c].id] # NoRow
       THEN call' = [call EXCEPT ![c].at = "write", ![c].owner = table[call[c].id].user]
       ELSE Finish(c, FALSE)
    /\ UNCHANGED << table, births >>

\* verify_policy_owner, of update_policy and delete_policy
VerifyOwner(c) ==
    /\ call[c].at = "verify"
    /\ LET row == table[call[c].id]
       IN  IF row # NoRow /\ (c = Root \/ row.user = c)
           THEN call' = [call EXCEPT ![c].at = "write", ![c].owner = row.user]
           ELSE Finish(c, FALSE)
    /\ UNCHANGED << table, births >>

\* update_policy, once the owner is verified
UpdatePolicy(c) ==
    /\ call[c].at = "write" /\ call[c].op = "update"
    /\ LET id  == call[c].id
           row == Merged(table[id], call[c].input)
       IN  IF table[id] # NoRow /\ Legal(row)
           THEN table' = [table EXCEPT ![id] = row] /\ Advance(c, "announce")
           ELSE Finish(c, FALSE) /\ UNCHANGED table
    /\ UNCHANGED births

\* delete_policy, once the owner is verified
DeletePolicy(c) ==
    /\ call[c].at = "write" /\ call[c].op = "delete"
    /\ IF table[call[c].id] # NoRow
       THEN table' = [table EXCEPT ![call[c].id] = NoRow] /\ Advance(c, "announce")
       ELSE Finish(c, FALSE) /\ UNCHANGED table
    /\ UNCHANGED births

\* The PolicyChanged signal and the message to the enforcer.
AnnounceChange(c) ==
    /\ call[c].at = "announce"
    /\ Finish(c, TRUE)
    /\ UNCHANGED << table, births >>

\* The daemon dies: nobody answers its calls any more.
AbandonCalls == call' = [c \in Uids |-> NoCall(FALSE)] /\ UNCHANGED << table, births >>

Work(c) == CreatePolicy(c) \/ VerifyOwner(c) \/ UpdatePolicy(c) \/ DeletePolicy(c)
-----------------------------------------------------------------------------
InitStore ==
    /\ table \in Initially
    /\ call = [c \in Uids |-> NoCall(FALSE)]
    /\ births = [i \in Ids |-> IF table[i] = NoRow THEN 0 ELSE 1]

NextStore ==
    \/ \E c \in Uids :
           \/ \E op \in Ops : Request(c, op)
           \/ Work(c)
           \/ AnnounceChange(c)
    \/ AbandonCalls

StoreSpec == InitStore /\ [][NextStore]_store
-----------------------------------------------------------------------------
(* Properties *)

\* Every variable of the store has its type, and every row is legal.
StoreTypeOK ==
    /\ table \in [Ids -> Rows \cup {NoRow}]
    /\ call \in [Uids -> Calls]
    /\ births \in [Ids -> Nat]
    /\ \A i \in Stored : births[i] > 0 /\ Legal(table[i])
    /\ \A c \in Uids : call[c].at # "idle" =>
           /\ call[c].op \in {"create", "update"} => call[c].input \in Inputs
           /\ call[c].op # "create" \/ call[c].at = "announce" => call[c].id \in Ids

\* No call of a user changes, takes or gives away a row of somebody else,
\* although the owner is checked before the row is written: except when the
\* row was deleted in between and its id given to a new one.
OwnRowsOnly ==
    [][\A i \in Ids : table'[i] # table[i] /\ births[i] <= 1 /\ births'[i] <= 1 =>
           \E c \in Uids :
               /\ call[c].at = "write"
               /\ c # Root => /\ table[i] = NoRow \/ table[i].user = c
                              /\ table'[i] = NoRow \/ table'[i].user = c]_store

\* The request is for a category, and no category has the name it gives.
Misnamed(input) == input.target = "Category" /\ input.category \notin Categories

\* A create or update that is accepted leaves exactly the row of its request,
\* with the owner the row had: what an update does not name is never what an
\* earlier request left there.  The one exception is what the daemon takes from
\* an update whose category does not exist: everything else, with the category
\* the row had; a create is refused.  A time limit keeps its value if it fits.
AcceptedMeansStored ==
    [][\A c \in Uids :
          /\ call[c].at = "write" /\ call'[c].at = "announce"
          /\ call[c].op \in {"create", "update"}
          => LET input == call[c].input
                 row   == table'[call'[c].id]
             IN  /\ Misnamed(input) => call[c].op = "update"
                 /\ row = [Created(input, row.by) EXCEPT !.user = row.user,
                        !.category = IF Misnamed(input) THEN table[call[c].id].category ELSE @]
                 /\ input.effect \in Timed /\ input.limit < Half => row.limit = input.limit]_store

Policies == {table[i] : i \in Stored}

\* More usage never unblocks an app, however limits, blocks and exceptions of
\* different targets are combined.
LimitsOnlyTighten ==
    \A u \in Uids, app \in Apps, usage \in 0 .. Half :
        LET now   == Terminating(Policies, u, app, usage)
            later == Terminating(Policies, u, app, usage + 1)
        IN  now # {} /\ (\A p \in now : Blocking(p)) => \A p \in later : Blocking(p)

\* A policy on a category applies to exactly the apps whose usage the charts book
\* under it, with the user's categories or else the system's: but for the apps
\* that have neither, which the charts book as uncategorized and no policy on a
\* category reaches.
CategoryPoliciesFollowTheCharts ==
    \A p \in Policies, app \in Apps :
        p.target = "Category" =>
            (Matches(p, p.user, app)
             <=> /\ p.category \in BookedUnder(p.user, app)
                 /\ AppCategories[p.user][app] # {} \/ AppCategories[Root][app] # {})
=============================================================================
