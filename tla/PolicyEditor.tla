---------------------------- MODULE PolicyEditor ----------------------------
(***************************************************************************)
(* The way of a policy from its row through the daemon's answer into the   *)
(* form of the GUI's editor, and back through Save into its row.           *)
(*                                                                         *)
(* Left out: names and schedules, as in PolicyEvaluation; the text of the  *)
(* number inputs, which is that of a number.                               *)
(***************************************************************************)
EXTENDS PolicyStore

CONSTANTS
    SomeApp,    \* what stands for the app or
    SomeDomain  \* the domain of a policy without one: "?" or "_"

ASSUME EditorAssumption == SomeApp \in Apps /\ SomeDomain \in Domains

OrElse(value, default) == IF value = Null THEN default ELSE value

\* row_to_policy, PolicyData::from: what list_policies says of a row.
Served(row) ==
    [target   |-> row.target,
     app      |-> IF row.target = "App" THEN OrElse(row.app, SomeApp) ELSE SomeApp,
     category |-> IF row.target = "Category" THEN OrElse(row.category, Uncategorized) ELSE Null,
     domain   |-> IF row.target = "Domain" THEN OrElse(row.domain, SomeDomain) ELSE SomeDomain,
     kind     |-> row.effect,
     limit    |-> CASE row.effect \notin Timed -> 0
                    [] row.effect \in Timed    -> IF row.limit = 0 THEN 1 ELSE row.limit,
     priority |-> row.priority]

\* A variant with a bug: every target that is neither a category nor "Any" is an app.
OpenedDomainAsApp(p) == [p EXCEPT !.category = OrElse(@, Uncategorized),
                                  !.target = IF @ = "Domain" THEN "App" ELSE @]

\* A click on a policy of the list opens the form, with the policy's values.
Opened(p) == [p EXCEPT !.category = OrElse(@, Uncategorized)]

AtLeast(low, n) == IF n < low THEN low ELSE n

\* The buttons for the effect, and the steps of the two number inputs.
KindClicks(form) == {[form EXCEPT !.kind = k] : k \in Effects}
Steps(form) ==
    {[form EXCEPT !.limit = n] : n \in {form.limit + 1, AtLeast(0, form.limit - 1)}}
    \cup {[form EXCEPT !.priority = n] : n \in {form.priority + 1, AtLeast(1, form.priority - 1)}}

\* policy_input_from: the request that Save makes.
Sent(user, form) ==
    [user |-> user, target |-> form.target,
     app      |-> IF form.target = "App" THEN form.app ELSE SomeApp,
     category |-> IF form.target = "Category" THEN form.category ELSE Uncategorized,
     domain   |-> IF form.target = "Domain" THEN form.domain ELSE SomeDomain,
     effect   |-> form.kind, limit |-> form.limit, priority |-> form.priority]

\* The row with what a form says of its effect, limit and priority.
FormLimit(form) == IF form.kind \in Timed THEN form.limit ELSE 0
Edited(row, form) ==
    [row EXCEPT !.effect = form.kind, !.limit = FormLimit(form), !.priority = form.priority]

\* Opening a policy in the editor, one click, and Save: the row changes in what
\* was clicked and in nothing else, on its way through five representations and
\* four widths of integers; and the daemon takes it, unless the click asked for a
\* limit of nothing.  (A number that outgrows its column is exempt.)
EditorKeepsTheRest ==
    \A i \in Stored, user \in Uids :
        LET form == Opened(Served(table[i])) IN
        \A edited \in KindClicks(form) \cup Steps(form) :
            LET row == Merged(table[i], Sent(user, edited)) IN
            edited.limit < Half /\ edited.priority < Half =>
                /\ row = Edited(table[i], edited)
                /\ Legal(row) <=> (edited.kind \in Timed => edited.limit > 0)
=============================================================================
