-------------------------- MODULE PolicyEvaluation --------------------------
(***************************************************************************)
(* A policy row, what a request makes of it, and what the rows of a user   *)
(* say about an app: the columns create and update write, the CHECKs of    *)
(* the table, the query that resolves the policies of an app and the       *)
(* evaluator that takes the first match.                                   *)
(*                                                                         *)
(* Left out: names, and schedules, which no request stores (every policy   *)
(* is always active).                                                      *)
(***************************************************************************)
EXTENDS Integers, FiniteSets, Sequences

CONSTANTS
    Root,           \* uid 0: the administrator, and the owner of system rows
    Users,          \* the other uids
    Apps,
    Categories,
    Uncategorized,  \* the category the charts give to an app without one
    Unknown,        \* a category name that names no category, or is empty
    Domains,
    Null,           \* SQL NULL
    Half,           \* 2^31: a request's numbers are i64, the columns i32
    AppCategories   \* app_categories: the categories each uid gives an app

Uids    == Users \cup {Root}
Effects == {"Allow", "Block", "TimeLimit", "Notify"}
Timed   == {"TimeLimit", "Notify"}

\* TargetType, with the order of its discriminants; the column each one uses.
Rank   == [App |-> 0, Category |-> 1, Domain |-> 2, Any |-> 3]
Column == [App |-> "app", Category |-> "category", Domain |-> "domain"]

ASSUME EvaluationAssumption ==
    /\ Root \notin Users /\ Null \notin Apps \cup Categories \cup Domains
    /\ Uncategorized \in Categories /\ Unknown \notin Categories
    /\ Half \in Nat \ {0}
    /\ AppCategories \in [Uids -> [Apps -> SUBSET Categories]]

\* The columns are 32 bits wide.
I32 == -Half .. Half - 1

\* A time limit of 0 stands for NULL: only a positive one is ever written.
Rows == [user : Uids, by : Uids, target : DOMAIN Rank, app : Apps \cup {Null},
         category : Categories \cup {Null}, domain : Domains \cup {Null},
         effect : Effects, limit : I32, priority : I32]

\* PolicyInput
Requests == [user : Uids, target : DOMAIN Rank, app : Apps,
             category : Categories \cup {Unknown}, domain : Domains, effect : Effects, limit : Int,
             priority : Int]
-----------------------------------------------------------------------------
(* Writing *)

\* `as i32`
AsI32(n) == ((n + Half) % (2 * Half)) - Half

\* resolve_category_name_to_discriminant
Discriminant(name) == IF name \in Categories THEN name ELSE Null

\* Only the column of the target is asked for.
Wanted(input, target, value) == IF input.target = target THEN value ELSE Null

TimeLimit(input) ==
    IF input.effect \in Timed /\ input.limit > 0 THEN AsI32(input.limit) ELSE 0

\* PolicyRepo::create
Created(input, caller) ==
    [user |-> input.user, by |-> caller, target |-> input.target,
     app |-> Wanted(input, "App", input.app),
     category |-> Wanted(input, "Category", Discriminant(input.category)),
     domain |-> Wanted(input, "Domain", input.domain),
     effect |-> input.effect, limit |-> TimeLimit(input),
     priority |-> AsI32(input.priority)]

\* A variant with a bug: a request without a time limit keeps the old one.
MergedKeepingLimit(row, input) ==
    [Created(input, row.by) EXCEPT
        !.user     = row.user,
        !.app      = IF @ = Null THEN row.app ELSE @,
        !.category = IF @ = Null THEN row.category ELSE @,
        !.limit    = IF @ = 0 THEN row.limit ELSE @]

\* PolicyRepo::update: an app or a category that the request does not name, or
\* does not name properly, is left as it was.
Merged(row, input) ==
    [Created(input, row.by) EXCEPT
        !.user     = row.user,
        !.app      = IF @ = Null THEN row.app ELSE @,
        !.category = IF @ = Null THEN row.category ELSE @]

\* The CHECKs of the table.
Legal(row) ==
    /\ \A t \in DOMAIN Column : row[Column[t]] # Null <=> row.target = t
    /\ IF row.effect \in Timed THEN row.limit > 0 ELSE row.limit = 0
    /\ row.priority >= 0
-----------------------------------------------------------------------------
(* Reading *)

\* A variant with a bug: the system rows are not consulted.
OwnCategories(user, app) == AppCategories[user][app]

\* resolve_categories_for_app: the enforcer's categories of an app.
CategoriesOf(user, app) ==
    IF AppCategories[user][app] # {} THEN AppCategories[user][app]
                                     ELSE AppCategories[Root][app]

\* resolve_category_map: the categories the usage tables book an app under.
BookedUnder(user, app) ==
    CASE AppCategories[user][app] # {} -> AppCategories[user][app]
      [] AppCategories[user][app] = {} /\ AppCategories[Root][app] # {}
                                       -> AppCategories[Root][app]
      [] OTHER                         -> {Uncategorized}

\* resolve_policies_for_app_full, its WHERE clause.
Matches(row, user, app) ==
    /\ row.user = user
    /\ \/ row.target = "App" /\ row.app = app
       \/ row.target = "Any"
       \/ row.target = "Category" /\ row.category \in CategoriesOf(user, app)

\* ... its ORDER BY: the target type first, then the priority.
Before(p, q) ==
    \/ Rank[p.target] < Rank[q.target]
    \/ p.target = q.target /\ p.priority < q.priority

\* A variant with a bug: a limit decides until it is reached.
DecidesUntilReached(p, usage) ==
    CASE p.effect \in {"Allow", "Block"} -> TRUE
      [] p.effect = "TimeLimit"          -> usage < p.limit
      [] OTHER                           -> FALSE

\* evaluate: does this policy end the evaluation at this usage?
Decides(p, usage) ==
    CASE p.effect \in {"Allow", "Block"} -> TRUE
      [] p.effect = "TimeLimit"          -> usage >= p.limit
      [] OTHER                           -> FALSE

\* The policies that can be the terminating one: the order of policies with
\* equal target types and priorities is the database's.
Terminating(rows, user, app, usage) ==
    LET decisive == {p \in rows : Matches(p, user, app) /\ Decides(p, usage)}
    IN  {p \in decisive : \A q \in decisive : ~Before(q, p)}

\* evaluate_single_app: Block and TimeLimit produce an entry in blocked_apps.
Blocking(p) == p.effect # "Allow"
=============================================================================
