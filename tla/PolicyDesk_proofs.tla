------------------------- MODULE PolicyDesk_proofs --------------------------
(***************************************************************************)
(* The desk implements the store: whatever the daemon's process, its name, *)
(* its signals and the screens do, the policies table only sees the steps  *)
(* of PolicyStore.  So what is proved of the store holds in the presence   *)
(* of deaths, restarts, lost names and a GUI.  And the editor's round trip *)
(* loses no value and no width, for every row the table can hold.          *)
(***************************************************************************)
EXTENDS PolicyDesk, PolicyEditor, PolicyStore_proofs

\* The screen of a behaviour is one of Screens, and stays the same.
ScreenKnown ==
    /\ screen = [name |-> screen.name, prev |-> screen.prev, drawn |-> screen.drawn]
    /\ screen.name \in Screens

\* A step that leaves the store alone, and keeps the screen.
SameStore  == UNCHANGED store
SameScreen == ScreenKnown => ScreenKnown'
-----------------------------------------------------------------------------
LEMMA ScreenStands == ASSUME UNCHANGED screen PROVE SameScreen
  BY DEF SameScreen, ScreenKnown

\* The daemon's process and its name.
LEMMA ProcessSteps ==
  /\ \A b \in Bus : StartDaemon(b) => SameStore /\ UNCHANGED screen
  /\ Crash => AbandonCalls /\ UNCHANGED screen
  /\ LoseName \/ WatchEnds => SameStore /\ UNCHANGED screen
  <1>1. ASSUME NEW b \in Bus, StartDaemon(b) PROVE SameStore /\ UNCHANGED screen
    BY <1>1 DEF StartDaemon, SameStore
  <1>2. Crash => AbandonCalls /\ UNCHANGED screen
    BY DEF Crash, Die
  <1>3. LoseName => SameStore /\ UNCHANGED screen
    BY DEF LoseName, SameStore
  <1>4. WatchEnds => SameStore /\ UNCHANGED screen
    BY DEF WatchEnds, SameStore, gui
  <1> QED
    BY <1>1, <1>2, <1>3, <1>4

LEMMA WatchdogSteps ==
  Watchdog => (SameStore \/ AbandonCalls) /\ UNCHANGED screen
  <1>1. WatchAgain \/ Notice \/ Settle => SameStore /\ UNCHANGED screen
    BY DEF WatchAgain, Notice, Settle, SameStore, gui
  <1>2. Reacquire => SameStore /\ UNCHANGED screen
    BY DEF Reacquire, SameStore
  <1>3. ReacquireFails => (SameStore \/ AbandonCalls) /\ UNCHANGED screen
    BY DEF ReacquireFails, Die, SameStore, gui
  <1> QED
    BY <1>1, <1>2, <1>3 DEF Watchdog

\* A call that comes in is a request of the store.
LEMMA ReceiveRequests ==
  ASSUME ScreenKnown, NEW a \in Asked[screen.name], Receive(a)
  PROVE  \E c \in Uids, op \in Ops : Request(c, op)
  <1>1. /\ a.caller \in Uids /\ a.op \in Ops
        /\ a.id \in IF a.op = "create" THEN {0} ELSE Ids
        /\ a.input \in IF a.op = "delete" THEN {Null} ELSE Inputs
    BY DeskAssumption DEF ScreenKnown
  <1>2. Submit(a.caller, a.op, a.id, a.input)
    BY DEF Receive
  <1>3. Request(a.caller, a.op)
    BY <1>1, <1>2 DEF Request
  <1> QED
    BY <1>1, <1>3

LEMMA CallSteps ==
  ASSUME ScreenKnown
  PROVE  /\ \A a \in Asked[screen.name] : OthersCall(a) \/ Save(a) =>
                (\E c \in Uids, op \in Ops : Request(c, op)) /\ UNCHANGED screen
         /\ CallStep => (\E c \in Uids : Work(c) \/ AnnounceChange(c)) /\ UNCHANGED screen
  <1>1. ASSUME NEW a \in Asked[screen.name], OthersCall(a) \/ Save(a)
        PROVE  Receive(a) /\ UNCHANGED screen
    BY <1>1 DEF OthersCall, Save, gui
  <1>2. ASSUME NEW c \in Uids, Handle(c) \/ Announce(c)
        PROVE  (Work(c) \/ AnnounceChange(c)) /\ UNCHANGED screen
    BY <1>2 DEF Handle, Announce, gui
  <1> QED
    BY <1>1, <1>2, ReceiveRequests DEF CallStep

\* The flow, the signals and the editor leave the store alone.
LEMMA FlowSteps ==
  /\ \A b \in Bus : OnPresence(b) \/ StreamEnds(b) => SameStore /\ UNCHANGED screen
  /\ FlowStep \/ RequestRefresh \/ EmitSignal => SameStore /\ UNCHANGED screen
  /\ \A part \in Shown : Change(part) => SameStore /\ UNCHANGED screen
  <1>1. ASSUME NEW b \in Bus, OnPresence(b) \/ StreamEnds(b)
        PROVE  SameStore /\ UNCHANGED screen
    BY <1>1 DEF OnPresence, StreamEnds, SameStore, Rest
  <1>2. Subscribe \/ SkipSubscribe => SameStore /\ UNCHANGED screen
    BY DEF Subscribe, SkipSubscribe, SameStore, Rest
  <1>3. OnSignal \/ OnRefresh \/ Show => SameStore /\ UNCHANGED screen
    BY DEF OnSignal, OnRefresh, Show, SameStore, Rest
  <1>4. Read \/ ReadFails => SameStore /\ UNCHANGED screen
    BY DEF Read, ReadFails, SameStore, Rest
  <1>5. RequestRefresh \/ EmitSignal => SameStore /\ UNCHANGED screen
    BY DEF RequestRefresh, EmitSignal, SameStore
  <1>6. ASSUME NEW part \in Shown, Change(part) PROVE SameStore /\ UNCHANGED screen
    BY <1>6 DEF Change, SameStore, gui
  <1> QED
    BY <1>1, <1>2, <1>3, <1>4, <1>5, <1>6 DEF FlowStep

LEMMA DrawingSteps ==
  ReceiveView \/ EditorStep => SameStore /\ SameScreen
  <1>1. ReceiveView => SameStore /\ SameScreen
    BY DEF ReceiveView, SameStore, SameScreen, ScreenKnown
  <1>2. Answered \/ EditorFetch => SameStore /\ UNCHANGED screen
    BY DEF Answered, EditorFetch, SameStore
  <1>3. EditorDraws => SameStore /\ SameScreen
    BY DEF EditorDraws, SameStore, SameScreen, ScreenKnown
  <1> QED
    BY <1>1, <1>2, <1>3, ScreenStands DEF EditorStep
-----------------------------------------------------------------------------
LEMMA InitScreenKnown == InitDesk => ScreenKnown
  BY DEF InitDesk, ScreenKnown

\* Every step of the desk is one of the store, or leaves it alone.
LEMMA DeskStep == ScreenKnown /\ [NextDesk]_desk => [NextStore]_store /\ ScreenKnown'
  <1> SUFFICES ASSUME ScreenKnown, [NextDesk]_desk
               PROVE  [NextStore]_store /\ ScreenKnown'
    OBVIOUS
  <1> USE DEF SameStore
  <1>1. ASSUME NEW b \in Bus, StartDaemon(b) \/ OnPresence(b) \/ StreamEnds(b)
        PROVE  [NextStore]_store /\ ScreenKnown'
    BY <1>1, ProcessSteps, FlowSteps, ScreenStands DEF SameScreen
  <1>2. CASE Crash \/ LoseName \/ WatchEnds
    BY <1>2, ProcessSteps, ScreenStands DEF SameScreen, NextStore
  <1>3. CASE Watchdog
    BY <1>3, WatchdogSteps, ScreenStands DEF SameScreen, NextStore
  <1>4. ASSUME NEW a \in Asked[screen.name], OthersCall(a) \/ Save(a)
        PROVE  [NextStore]_store /\ ScreenKnown'
    BY <1>4, CallSteps, ScreenStands DEF SameScreen, NextStore
  <1>5. CASE CallStep
    BY <1>5, CallSteps, ScreenStands DEF SameScreen, NextStore
  <1>6. ASSUME NEW part \in Shown, Change(part) PROVE [NextStore]_store /\ ScreenKnown'
    BY <1>6, FlowSteps, ScreenStands DEF SameScreen
  <1>7. CASE FlowStep \/ RequestRefresh \/ EmitSignal
    BY <1>7, FlowSteps, ScreenStands DEF SameScreen
  <1>8. CASE ReceiveView \/ EditorStep
    BY <1>8, DrawingSteps DEF SameScreen
  <1>9. CASE UNCHANGED desk
    BY <1>9, ScreenStands DEF SameScreen, desk, gui
  <1> QED
    BY <1>1, <1>2, <1>3, <1>4, <1>5, <1>6, <1>7, <1>8, <1>9 DEF NextDesk

\* The daemon with its process, its busses and the GUI in front of it implements
\* the store: a death is the end of all calls (the pool and the connection go
\* with the process), and nothing else that happens touches the table.
THEOREM DeskImplementsStore == DeskSpec => StoreSpec
  <1>1. InitDesk => InitStore
    BY DEF InitDesk
  <1> QED
    BY <1>1, InitScreenKnown, DeskStep, PTL DEF DeskSpec, StoreSpec

\* Therefore the desk keeps the table legal, whatever it is asked.
THEOREM DeskKeepsTable == DeskSpec => []StoreTypeOK
  BY DeskImplementsStore, StoreTypeCorrect, PTL

\* Nobody writes a row of somebody else, also when the daemon dies or loses its
\* name between the check of the owner and the write.
THEOREM DeskKeepsOwnRows == DeskSpec => OwnRowsOnly
  BY DeskImplementsStore, OwnRowsKept

\* An accepted request leaves exactly its row, whoever listens.
THEOREM DeskStoresAccepted == DeskSpec => AcceptedMeansStored
  BY DeskImplementsStore, AcceptedStored

-----------------------------------------------------------------------------
(* The editor *)

\* A form as a click on a policy opens it: its target is the row's.
FormOf(form, row) ==
    /\ form.target = row.target
    /\ row.target = "App" => form.app = row.app
    /\ row.target = "Category" => form.category = row.category
    /\ row.target = "Domain" => form.domain = row.domain

LEMMA OpenedForm ==
  ASSUME NEW row \in Rows, Legal(row)
  PROVE  LET form == Opened(Served(row)) IN
         /\ FormOf(form, row)
         /\ form.kind = row.effect /\ form.limit \in Nat /\ form.priority = row.priority
  <1> DEFINE served == Served(row)
  <1>1. /\ row.target = "App" => row.app # Null
        /\ row.target = "Category" => row.category # Null
        /\ row.target = "Domain" => row.domain # Null
    BY DEF Legal, Column
  <1>2. Opened(served) = [served EXCEPT !.category = OrElse(served.category, Uncategorized)]
    BY DEF Opened
  <1>3. /\ served.target = row.target /\ served.kind = row.effect
        /\ served.priority = row.priority /\ served.limit \in Nat
        /\ row.target = "App" => served.app = row.app
        /\ row.target = "Category" => served.category = row.category
        /\ row.target = "Domain" => served.domain = row.domain
    BY <1>1 DEF Served, OrElse, Rows, I32, Legal
  <1>4. LET form == Opened(served) IN
        /\ form.target = served.target /\ form.app = served.app /\ form.domain = served.domain
        /\ form.category = OrElse(served.category, Uncategorized)
        /\ form.kind = served.kind /\ form.limit = served.limit
        /\ form.priority = served.priority
    BY <1>2 DEF Served
  <1> QED
    BY <1>1, <1>3, <1>4 DEF FormOf, OrElse

\* A click changes the effect, the limit or the priority, within its bounds.
LEMMA ClickedForm ==
  ASSUME NEW row \in Rows, Legal(row),
         NEW edited \in LET form == Opened(Served(row)) IN KindClicks(form) \cup Steps(form)
  PROVE  /\ FormOf(edited, row)
         /\ edited.kind \in Effects
         /\ edited.limit \in Nat
         /\ edited.priority \in Nat
  <1> DEFINE form == Opened(Served(row))
  <1>1. /\ FormOf(form, row) /\ form.kind = row.effect
        /\ form.limit \in Nat /\ form.priority = row.priority
    BY OpenedForm
  <1>2. row.effect \in Effects /\ row.priority \in Nat
    BY DEF Rows, Legal, I32
  <1>3. form = [Served(row) EXCEPT !.category = OrElse(@, Uncategorized)]
    BY DEF Opened
  <1>4. CASE edited \in KindClicks(form)
    <2>1. PICK k \in Effects : edited = [form EXCEPT !.kind = k]
      BY <1>4 DEF KindClicks
    <2>2. /\ edited.target = form.target /\ edited.app = form.app
          /\ edited.category = form.category /\ edited.domain = form.domain
          /\ edited.kind = k /\ edited.limit = form.limit /\ edited.priority = form.priority
      BY <1>3, <2>1 DEF Served
    <2> QED
      BY <1>1, <1>2, <2>2 DEF FormOf
  <1>5. CASE edited \in Steps(form)
    <2>1. \/ \E n \in Nat : edited = [form EXCEPT !.limit = n]
          \/ \E n \in Nat : edited = [form EXCEPT !.priority = n]
      BY <1>1, <1>2, <1>5 DEF Steps, AtLeast
    <2>2. /\ edited.target = form.target /\ edited.app = form.app
          /\ edited.category = form.category /\ edited.domain = form.domain
          /\ edited.kind = form.kind /\ edited.limit \in Nat /\ edited.priority \in Nat
      BY <1>1, <1>2, <1>3, <2>1 DEF Served
    <2> QED
      BY <1>1, <1>2, <2>2 DEF FormOf
  <1> QED
    BY <1>4, <1>5

LEMMA EditedRow ==
  ASSUME NEW row \in Rows, NEW form, form.kind \in Effects, form.limit \in Nat,
         form.priority \in Nat, form.limit < Half, form.priority < Half
  PROVE  LET new == Edited(row, form) IN
         /\ new \in Rows
         /\ new.user = row.user /\ new.by = row.by /\ new.target = row.target
         /\ new.app = row.app /\ new.category = row.category /\ new.domain = row.domain
         /\ new.effect = form.kind /\ new.limit = FormLimit(form)
         /\ new.priority = form.priority
  <1>1. Half \in Nat \ {0}
    BY EvaluationAssumption
  <1>2. FormLimit(form) \in I32 /\ form.priority \in I32
    BY <1>1 DEF FormLimit, I32
  <1> QED
    BY <1>2 DEF Edited, Rows

LEMMA SameRow ==
  ASSUME NEW r \in Rows, NEW s \in Rows,
         r.user = s.user, r.by = s.by, r.target = s.target, r.app = s.app,
         r.category = s.category, r.domain = s.domain, r.effect = s.effect,
         r.limit = s.limit, r.priority = s.priority
  PROVE  r = s
  BY DEF Rows

\* The request of a form makes the row of the policy again.
LEMMA SentForm ==
  ASSUME NEW row \in Rows, Legal(row), NEW user \in Uids, NEW form, FormOf(form, row),
         form.kind \in Effects, form.limit \in Nat, form.priority \in Nat,
         form.limit < Half, form.priority < Half
  PROVE  Merged(row, Sent(user, form)) = Edited(row, form)
  <1> DEFINE input == Sent(user, form)
             made == Created(input, row.by)
             kept == Merged(row, input)
  <1>1. /\ input.target = row.target /\ input.effect = form.kind
        /\ input.limit = form.limit /\ input.priority = form.priority
        /\ row.target = "App" => input.app = row.app
        /\ row.target = "Category" => input.category = row.category
        /\ row.target = "Domain" => input.domain = row.domain
    BY DEF Sent, FormOf
  <1>2. /\ row.target # "App" <=> row.app = Null
        /\ row.target # "Category" <=> row.category = Null
        /\ row.target # "Domain" <=> row.domain = Null
    BY DEF Legal, Column
  <1>3. input \in Requests
    BY <1>1, <1>2, EditorAssumption, EvaluationAssumption DEF Sent, FormOf, Requests, Rows
  <1>4. TimeLimit(input) = FormLimit(form)
    BY <1>1, CastKeeps DEF TimeLimit, FormLimit
  <1>5. AsI32(input.priority) = form.priority
    BY <1>1, CastKeeps
  <1>6. /\ Wanted(input, "App", input.app) = row.app
        /\ Wanted(input, "Category", Discriminant(input.category)) = row.category
        /\ Wanted(input, "Domain", input.domain) = row.domain
    BY <1>1, <1>2 DEF Wanted, Discriminant, Rows
  <1>7. made \in Rows /\ row.by \in Uids
    BY <1>3, CreatedType DEF Rows
  <1>8. /\ made.by = row.by /\ made.target = row.target /\ made.app = row.app
        /\ made.category = row.category /\ made.domain = row.domain
        /\ made.effect = form.kind /\ made.limit = FormLimit(form)
        /\ made.priority = form.priority
    BY <1>1, <1>4, <1>5, <1>6 DEF Created
  <1>9. kept \in Rows /\ kept.user = row.user /\ kept.by = row.by
    BY <1>3, MergedType
  <1>10. /\ kept.target = made.target /\ kept.domain = made.domain
         /\ kept.effect = made.effect /\ kept.limit = made.limit
         /\ kept.priority = made.priority
         /\ kept.app = (IF made.app = Null THEN row.app ELSE made.app)
         /\ kept.category = (IF made.category = Null THEN row.category ELSE made.category)
    BY <1>7 DEF Merged, Rows
  <1> HIDE DEF kept, made
  <1>11. kept = Edited(row, form)
    BY <1>8, <1>9, <1>10, EditedRow, SameRow
  <1> QED
    BY <1>11 DEF kept

\* ... and the CHECKs accept it, but for a limit of nothing.
LEMMA SentLegal ==
  ASSUME NEW row \in Rows, Legal(row), NEW form, form.kind \in Effects,
         form.limit \in Nat, form.priority \in Nat, form.limit < Half, form.priority < Half
  PROVE  Legal(Edited(row, form)) <=> (form.kind \in Timed => form.limit > 0)
  <1> DEFINE new == Edited(row, form)
  <1>1. /\ new.target = row.target /\ new.app = row.app /\ new.category = row.category
        /\ new.domain = row.domain /\ new.effect = form.kind /\ new.priority = form.priority
        /\ new.limit = FormLimit(form)
    BY EditedRow
  <1>2. /\ row.target = "App" <=> row.app # Null
        /\ row.target = "Category" <=> row.category # Null
        /\ row.target = "Domain" <=> row.domain # Null
    BY DEF Legal, Column
  <1> HIDE DEF new
  <1>3. Legal(new) <=> /\ new.target = "App" <=> new.app # Null
                       /\ new.target = "Category" <=> new.category # Null
                       /\ new.target = "Domain" <=> new.domain # Null
                       /\ IF new.effect \in Timed THEN new.limit > 0 ELSE new.limit = 0
                       /\ new.priority >= 0
    <2>1. (\A t \in DOMAIN Column : new[Column[t]] # Null <=> new.target = t)
          <=> /\ new.target = "App" <=> new.app # Null
              /\ new.target = "Category" <=> new.category # Null
              /\ new.target = "Domain" <=> new.domain # Null
      BY DEF Column
    <2> QED
      BY <2>1 DEF Legal
  <1>4. Legal(new) <=> (form.kind \in Timed => form.limit > 0)
    BY <1>1, <1>2, <1>3 DEF FormLimit
  <1> QED
    BY <1>4 DEF new

\* One row of the table, one user, one edited form.
LEMMA KeptTheRest ==
  ASSUME StoreTypeOK
  PROVE  EditorKeepsTheRest
  <1> SUFFICES ASSUME NEW i \in Stored, NEW user \in Uids,
                      NEW edited \in LET form == Opened(Served(table[i]))
                                     IN  KindClicks(form) \cup Steps(form),
                      edited.limit < Half, edited.priority < Half
               PROVE  LET row == Merged(table[i], Sent(user, edited)) IN
                      /\ row = Edited(table[i], edited)
                      /\ Legal(row) <=> (edited.kind \in Timed => edited.limit > 0)
    BY DEF EditorKeepsTheRest
  <1>1. table[i] \in Rows /\ Legal(table[i])
    BY DEF StoreTypeOK, Stored
  <1>2. /\ FormOf(edited, table[i]) /\ edited.kind \in Effects
        /\ edited.limit \in Nat /\ edited.priority \in Nat
    BY <1>1, ClickedForm
  <1> QED
    BY <1>1, <1>2, SentForm, SentLegal

\* Whatever the table holds, editing one value of a policy in the form and saving
\* it changes that value and no other (row_to_policy, PolicyData::from, the click
\* of PolListDelegate, policy_input_from and PolicyRepo::update together).
THEOREM EditorKeepsRows == StoreSpec => []EditorKeepsTheRest
  BY StoreTypeCorrect, KeptTheRest, PTL
=============================================================================
