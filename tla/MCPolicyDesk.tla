---------------------------- MODULE MCPolicyDesk ----------------------------
(* One app in a category of the system's, two users, and few requests. *)
EXTENDS PolicyDesk, PolicyEditor

CONSTANTS root, viewer, other, game, fun, none, site

OneCategory == [u \in {root, viewer, other} |-> [a \in {game} |->
                   IF u = root THEN {fun} ELSE {}]]

Input(user, target, effect, limit, priority) ==
    [user |-> user, target |-> target, app |-> game, category |-> fun, domain |-> site,
     effect |-> effect, limit |-> limit, priority |-> priority]

FewInputs ==
    {Input(viewer, "App", "TimeLimit", 1, 2), Input(viewer, "Any", "Allow", 0, 1),
     Input(viewer, "Category", "Block", 1, 1), Input(other, "App", "Block", 0, 1),
     Input(viewer, "App", "TimeLimit", 0, 1),
     [Input(viewer, "Category", "Allow", 0, 1) EXCEPT !.category = Unknown]}

OneTable == {[i \in Ids |-> IF i = 1 THEN Created(Input(viewer, "Domain", "Notify", 1, 0), root)
                                      ELSE NoRow]}

Ask(c, op, id, input) == [caller |-> c, op |-> op, id |-> id, input |-> input]

AnyCall == {Ask(c, "create", 0, i) : c \in Uids, i \in Inputs}
           \cup {Ask(c, "update", id, i) : c \in Uids, id \in Ids, i \in Inputs}
           \cup {Ask(c, "delete", id, Null) : c \in Uids, id \in Ids}

Block == Input(viewer, "Any", "Allow", 0, 1)

Calls2 == {Ask(viewer, "create", 0, Block), Ask(viewer, "delete", 1, Null),
           Ask(root, "delete", 1, Null)}

CallsOf == [closed |-> AnyCall, policies |-> Calls2, dashboard |-> {}, reports |-> {}]
MovesOf  == [closed |-> 3, policies |-> 1, dashboard |-> 1, reports |-> 1]
MaxFaultsOf == [closed |-> 0, policies |-> 1, dashboard |-> 1, reports |-> 2]
FaultsOf == [closed |-> {}, policies |-> {"death"},
             dashboard |-> {"stream", "time-out", "death", "name"}, reports |-> {"name", "watch", "retry"}]
StartsOnOf == [closed |-> {"system"}, policies |-> {"system"},
               dashboard |-> {"system", "session"}, reports |-> {"system"}]

TwoBusses == << "system", "session" >>
=============================================================================
