------------------------- MODULE Enforcement_proofs -------------------------
(***************************************************************************)
(* Theorems about the enforcing half of the actor, for every set of users  *)
(* and apps, every queue capacity and every bound.                         *)
(***************************************************************************)
EXTENDS EnforcementInvariant, SequenceTheorems, TLAPS

-----------------------------------------------------------------------------
(* Types *)

\* The steps of an evaluation: it has ended, it has just begun, ...
LEMMA DoneType == Done \in Steps /\ Done.at = "done"
<1>1. 0 \in 0 .. MaxInstances
  BY EnforcementAssumption
<1> QED
  BY <1>1 DEF Done, Rules, Steps

LEMMA StartTypes ==
    /\ [Done EXCEPT !.at = "lookup"] \in Steps
    /\ [Done EXCEPT !.at = "lookup"].at = "lookup"
    /\ \A a \in Apps : /\ [Done EXCEPT !.at = "read", !.app = a] \in Steps
                       /\ [Done EXCEPT !.at = "read", !.app = a].at = "read"
                       /\ [Done EXCEPT !.at = "read", !.app = a].app = a
<1> USE DoneType
<1>1. [Done EXCEPT !.at = "lookup"] \in Steps
      /\ [Done EXCEPT !.at = "lookup"].at = "lookup"
  BY DEF Steps
<1>2. ASSUME NEW a \in Apps
      PROVE  /\ [Done EXCEPT !.at = "read", !.app = a] \in Steps
             /\ [Done EXCEPT !.at = "read", !.app = a].at = "read"
             /\ [Done EXCEPT !.at = "read", !.app = a].app = a
  BY DEF Steps
<1> QED
  BY <1>1, <1>2

\* Which step each action of an evaluation takes.
LEMMA EvaluationSteps ==
    ASSUME TypeOK, NEW u \in Users
    PROVE  /\ LookUp(u) => \/ step' = [step EXCEPT ![u] = Done]
                           \/ \E i \in 0 .. MaxInstances :
                                  step' = [step EXCEPT ![u] =
                                              [step[u] EXCEPT !.at = "ask", !.inst = i]]
           /\ Unreachable(u) \/ Apply(u) => step' = [step EXCEPT ![u] = Done]
           /\ Answered(u) => \/ /\ focused[u] = NoApp
                                /\ step' = [step EXCEPT ![u] = Done]
                             \/ /\ focused[u] \in Apps
                                /\ step' = [step EXCEPT ![u] =
                                      [step[u] EXCEPT !.at = "read", !.app = focused[u]]]
           /\ ReadPolicies(u) => \E r \in Rules :
                  step' = [step EXCEPT ![u] = [step[u] EXCEPT !.at = "apply", !.rule = r]]
<1>1. step \in [Users -> Steps] /\ registered[u] \in 0 .. MaxInstances
      /\ focused[u] \in Apps \cup {NoApp}
  BY DEF TypeOK
<1>2. ASSUME LookUp(u)
      PROVE  \/ step' = [step EXCEPT ![u] = Done]
             \/ step' = [step EXCEPT ![u] =
                            [step[u] EXCEPT !.at = "ask", !.inst = registered[u]]]
  BY <1>1, <1>2 DEF LookUp
<1>3. ASSUME Unreachable(u) \/ Apply(u) PROVE step' = [step EXCEPT ![u] = Done]
  BY <1>3 DEF Unreachable, Apply
<1>4. ASSUME Answered(u)
      PROVE  step' = IF focused[u] = NoApp THEN [step EXCEPT ![u] = Done]
                     ELSE [step EXCEPT ![u] =
                              [step[u] EXCEPT !.at = "read", !.app = focused[u]]]
  BY <1>1, <1>4 DEF Answered
<1>5. ASSUME ReadPolicies(u)
      PROVE  \E r \in Rules :
                 step' = [step EXCEPT ![u] = [step[u] EXCEPT !.at = "apply", !.rule = r]]
  <2>1. rule[u] \in [Apps -> Rules] /\ step[u].app \in Apps
    BY <1>5 DEF TypeOK, ReadPolicies
  <2>2. PICK r \in {rule[u][step[u].app]} \cup (IF MayFailRead THEN {"none"} ELSE {}) :
               step' = [step EXCEPT ![u].at = "apply", ![u].rule = r]
    BY <1>5 DEF ReadPolicies
  <2>3. r \in Rules
    BY <2>1, <2>2 DEF Rules
  <2>4. step' = [step EXCEPT ![u] = [step[u] EXCEPT !.at = "apply", !.rule = r]]
    BY <1>1, <2>2
  <2> QED
    BY <2>3, <2>4
<1> QED
  BY <1>1, <1>2, <1>3, <1>4, <1>5

\* A verdict is an entry of the day of the evaluation, or none at all.
LEMMA VerdictType ==
    ASSUME NEW u \in Users, today \in Days
    PROVE  Verdict(u) \in Entries \cup {NoEntry}
BY DEF Verdict, Entries

\* Taking a message from a queue, and putting one there.
LEMMA QueueTypes ==
    ASSUME NEW S, NEW q \in Seq(S)
    PROVE  /\ \A x \in S : Append(q, x) \in Seq(S) /\ Len(Append(q, x)) = Len(q) + 1
           /\ q # << >> => Head(q) \in S /\ Tail(q) \in Seq(S) /\ Len(Tail(q)) = Len(q) - 1
OBVIOUS

LEMMA TypeInit == Init => TypeOK
<1> SUFFICES ASSUME Init PROVE TypeOK
  OBVIOUS
<1>1. 0 \in Days /\ 0 \in 0 .. MaxMoves /\ 0 \in 0 .. MaxInstances
  BY EnforcementAssumption DEF Days
<1>2. inbox \in Seq(Events) /\ internal \in Seq(Messages) /\ Len(internal) <= QueueCap
  BY EnforcementAssumption DEF Init
<1>3. step \in [Users -> Steps] /\ \A u \in Users : step[u].at = "done"
  BY DoneType DEF Init
<1>4. rule \in [Users -> [Apps -> Rules]] /\ used \in [Users -> [Apps -> SUBSET Days]]
      /\ blocked \in [Users -> [Apps -> Entries \cup {NoEntry}]]
  BY DEF Init, Rules
<1> QED
  BY <1>1, <1>2, <1>3, <1>4 DEF Init, TypeOK

\* The steps of an evaluation keep the types ...
LEMMA TypeEvaluate ==
    ASSUME TypeOK, NEW u \in Users, Evaluate(u)
    PROVE  TypeOK'
<1>1. /\ step' \in [Users -> Steps]
      /\ \A v \in Users : step'[v].at \in {"read", "apply"} => step'[v].app \in Apps
  <2>0. step \in [Users -> Steps] /\ step[u] \in Steps
        /\ \A v \in Users : step[v].at \in {"read", "apply"} => step[v].app \in Apps
    BY DEF TypeOK
  <2>1. CASE step' = [step EXCEPT ![u] = Done]
    BY <2>0, <2>1, DoneType
  <2>2. CASE LookUp(u) \/ Answered(u)
    <3>1. ASSUME NEW i \in 0 .. MaxInstances
          PROVE  LET s == [step[u] EXCEPT !.at = "ask", !.inst = i]
                 IN  s \in Steps /\ s.at = "ask"
      BY <2>0, EnforcementAssumption DEF Steps
    <3>2. ASSUME NEW a \in Apps
          PROVE  LET s == [step[u] EXCEPT !.at = "read", !.app = a]
                 IN  s \in Steps /\ s.app = a
      BY <2>0 DEF Steps
    <3>3. ASSUME NEW s \in Steps, s.at \in {"read", "apply"} => s.app \in Apps,
                 step' = [step EXCEPT ![u] = s]
          PROVE  /\ step' \in [Users -> Steps]
                 /\ \A v \in Users : step'[v].at \in {"read", "apply"} => step'[v].app \in Apps
      BY <2>0, <3>3
    <3> QED
      BY <2>1, <2>2, <3>1, <3>2, <3>3, EvaluationSteps
  <2>3. CASE ReadPolicies(u)
    <3>1. step[u].app \in Apps
      BY <2>0, <2>3 DEF ReadPolicies
    <3>2. PICK r \in Rules :
              step' = [step EXCEPT ![u] = [step[u] EXCEPT !.at = "apply", !.rule = r]]
      BY <2>3, EvaluationSteps
    <3>3. /\ [step[u] EXCEPT !.at = "apply", !.rule = r] \in Steps
          /\ [step[u] EXCEPT !.at = "apply", !.rule = r].app = step[u].app
      BY <2>0 DEF Steps
    <3> QED
      BY <2>0, <3>1, <3>2, <3>3
  <2> QED
    BY <2>1, <2>2, <2>3, EvaluationSteps DEF Evaluate
<1>2. CASE LookUp(u)
  BY <1>1, <1>2 DEF TypeOK, LookUp, world, database, intake, blocks
<1>3. CASE Unreachable(u)
  <2>1. 0 \in 0 .. MaxInstances
    BY EnforcementAssumption
  <2> QED
    BY <1>1, <1>3, <2>1 DEF TypeOK, Unreachable, world, database, blocks
<1>4. CASE Answered(u)
  BY <1>1, <1>4 DEF TypeOK, Answered, world, database, intake, blocks
<1>5. CASE ReadPolicies(u)
  BY <1>1, <1>5 DEF TypeOK, ReadPolicies, world, database, intake, blocks
<1>6. CASE Apply(u)
  <2>1. step[u].app \in Apps
    BY <1>6 DEF TypeOK, Apply
  <2>2. blocked' \in [Users -> [Apps -> Entries \cup {NoEntry}]]
    BY <1>6, <2>1, VerdictType DEF TypeOK, Apply
  <2>3. told' \in [Users -> SUBSET Apps]
    BY <1>6, <2>1 DEF TypeOK, Apply
  <2> QED
    BY <1>1, <1>6, <2>2, <2>3 DEF TypeOK, Apply, world, database, intake
<1> QED
  BY <1>2, <1>3, <1>4, <1>5, <1>6 DEF Evaluate

\* ... and so do the jobs of the actor.
LEMMA TypeJob ==
    ASSUME TypeOK,
           \/ HandleEvent \/ EndEvent \/ HandlePolicyChanged \/ EndMutation
           \/ HandleFlush \/ EndTick \/ MidnightReset
    PROVE  TypeOK'
<1> USE EnforcementAssumption
<1>0. ASSUME RecordUsage PROVE used' \in [Users -> [Apps -> SUBSET Days]]
  <2>1. used \in [Users -> [Apps -> SUBSET Days]] /\ day \in Days
    BY DEF TypeOK
  <2>2. CASE UNCHANGED used
    BY <2>1, <2>2
  <2>3. ASSUME NEW u \in Users, NEW a \in Apps,
               used' = [used EXCEPT ![u][a] = @ \cup {day}]
        PROVE  used' \in [Users -> [Apps -> SUBSET Days]]
    BY <2>1, <2>3
  <2> QED
    BY <1>0, <2>2, <2>3 DEF RecordUsage
<1>1. CASE HandleEvent
  <2>1. Head(inbox).uid \in Users /\ Head(inbox).app \in Apps /\ inbox' \in Seq(Events)
    <3>1. inbox \in Seq(Events) /\ inbox # << >> /\ inbox' = Tail(inbox)
      BY <1>1 DEF TypeOK, HandleEvent
    <3>2. Head(inbox) \in Events /\ inbox' \in Seq(Events)
      BY <3>1, QueueTypes
    <3> QED
      BY <3>2 DEF Events
  <2>2. step' \in [Users -> Steps]
    BY <1>1, <2>1, StartTypes, DoneType DEF TypeOK, HandleEvent
  <2>3. \A v \in Users : step'[v].at \in {"read", "apply"} => step'[v].app \in Apps
    BY <1>1, <2>1, StartTypes, DoneType DEF TypeOK, HandleEvent
  <2> QED
    BY <1>1, <2>1, <2>2, <2>3 DEF TypeOK, HandleEvent, world, database, blocks
<1>2. CASE EndEvent
  BY <1>0, <1>2 DEF TypeOK, EndEvent, world, intake, blocks
<1>3. CASE HandlePolicyChanged
  <2>1. internal' \in Seq(Messages) /\ Len(internal') <= QueueCap
    BY <1>3, QueueTypes DEF TypeOK, HandlePolicyChanged
  <2>2. step' \in [Users -> Steps]
    BY <1>3, StartTypes, DoneType DEF HandlePolicyChanged
  <2>3. \A v \in Users : step'[v].at \in {"done", "lookup"}
    BY <1>3, StartTypes, DoneType DEF HandlePolicyChanged
  <2> QED
    BY <1>3, <2>1, <2>2, <2>3 DEF TypeOK, HandlePolicyChanged, world, database, blocks
<1>4. CASE EndMutation
  BY <1>4 DEF TypeOK, EndMutation, world, database, intake, blocks
<1>5. CASE HandleFlush
  <2>1. internal' \in Seq(Messages) /\ Len(internal') <= QueueCap
    BY <1>5, QueueTypes DEF TypeOK, HandleFlush
  <2>0. \/ step' = [u \in Users |-> IF registered[u] # 0
                                    THEN [Done EXCEPT !.at = "lookup"] ELSE Done]
        \/ step' = step
    BY <1>5 DEF HandleFlush
  <2>2. /\ step' \in [Users -> Steps]
        /\ \A v \in Users : step'[v].at \in {"read", "apply"} => step'[v].app \in Apps
    <3>1. ASSUME step' = [u \in Users |-> IF registered[u] # 0
                                          THEN [Done EXCEPT !.at = "lookup"] ELSE Done]
          PROVE  /\ step' \in [Users -> Steps]
                 /\ \A v \in Users : step'[v].at \in {"done", "lookup"}
      BY <3>1, StartTypes, DoneType
    <3>2. CASE step' = step
      BY <3>2 DEF TypeOK
    <3> QED
      BY <2>0, <3>1, <3>2
  <2>4. used' \in [Users -> [Apps -> SUBSET Days]]
    BY <1>0, <1>5 DEF HandleFlush, TypeOK
  <2> QED
    BY <1>5, <2>1, <2>2, <2>4 DEF TypeOK, HandleFlush, world, blocks
<1>6. CASE EndTick
  BY <1>6 DEF TypeOK, EndTick, world, database, intake, blocks
<1>7. CASE MidnightReset
  BY <1>7 DEF TypeOK, MidnightReset, Forgotten, world, database, intake
<1> QED
  BY <1>1, <1>2, <1>3, <1>4, <1>5, <1>6, <1>7

LEMMA TypeNext == TypeOK /\ [Next]_vars => TypeOK'
<1> SUFFICES ASSUME TypeOK, [Next]_vars PROVE TypeOK'
  OBVIOUS
<1> USE EnforcementAssumption
<1>1. ASSUME NEW u \in Users, NEW says \in [Apps -> Rules],
             NEW owner \in Users \cup {Root}, StorePolicy(u, says, owner)
      PROVE  TypeOK'
  BY <1>1 DEF TypeOK, StorePolicy, work, blocks
<1>2. ASSUME NEW owner \in Users \cup {Root}, AnnouncePolicy(owner) PROVE TypeOK'
  <2>1. Changed(owner) \in Messages
    BY DEF Changed, Messages
  <2> QED
    BY <1>2, <2>1, QueueTypes
    DEF TypeOK, AnnouncePolicy, world, database, work, blocks
<1>3. CASE MinuteTick
  <2>1. Flush \in Messages
    BY DEF Flush, Messages
  <2> QED
    BY <1>3, <2>1, QueueTypes DEF TypeOK, MinuteTick, world, database, work, blocks
<1>4. ASSUME NEW u \in Users, NEW app \in Apps \cup {NoApp}, SwitchFocus(u, app)
      PROVE  TypeOK'
  <2>1. inbox' \in Seq(Events)
    BY <1>4, QueueTypes DEF TypeOK, SwitchFocus, Emit, Events
  <2> QED
    BY <1>4, <2>1 DEF TypeOK, SwitchFocus, database, work, blocks
<1>5. ASSUME NEW u \in Users, RegisterPlugin(u) PROVE TypeOK'
  BY <1>5 DEF TypeOK, RegisterPlugin, database, work, blocks
<1>6. ASSUME NEW u \in Users, Subscribe(u) PROVE TypeOK'
  BY <1>6 DEF TypeOK, Subscribe, world, database, work, blocks
<1>7. ASSUME NEW u \in Users, Greet(u) PROVE TypeOK'
  <2>1. inbox' \in Seq(Events)
    BY <1>7, QueueTypes DEF TypeOK, Greet, Emit, Events
  <2> QED
    BY <1>7, <2>1 DEF TypeOK, Greet, database, work, blocks
<1>8. ASSUME NEW u \in Users, PluginDies(u) PROVE TypeOK'
  BY <1>8 DEF TypeOK, PluginDies, database, work, blocks
<1>9. CASE NextDay
  BY <1>9 DEF TypeOK, NextDay, Days, database, intake, work, blocks
<1>10. CASE UNCHANGED vars
  BY <1>10 DEF TypeOK, vars, world, database, intake, work, blocks
<1> QED
  BY <1>1, <1>2, <1>3, <1>4, <1>5, <1>6, <1>7, <1>8, <1>9, <1>10,
     TypeEvaluate, TypeJob DEF Next

\* Every variable keeps its type.
THEOREM EnforcementTypeOK == Spec => []TypeOK
<1>1. Init => TypeOK
  BY TypeInit
<1>2. TypeOK /\ [Next]_vars => TypeOK'
  BY TypeNext
<1> QED
  BY <1>1, <1>2, PTL DEF Spec
-----------------------------------------------------------------------------
(* Signals *)

\* Only an evaluation and the midnight reset touch the entries; the queries of
\* an evaluation and the world do not.
LEMMA WhoBlocks ==
    [Next]_vars => \/ \E u \in Users : Apply(u)
                   \/ MidnightReset
                   \/ UNCHANGED << blocked, told >>
<1> SUFFICES ASSUME [Next]_vars,
                    ~(\E u \in Users : Apply(u)), ~MidnightReset
             PROVE  UNCHANGED blocks \/ UNCHANGED << blocked, told >>
  BY DEF blocks
<1>1. ASSUME NEW u \in Users, Evaluate(u) PROVE UNCHANGED blocks
  BY <1>1 DEF Evaluate, LookUp, Unreachable, Answered, ReadPolicies
<1>2. ASSUME \/ HandleEvent \/ EndEvent \/ HandlePolicyChanged \/ EndMutation
             \/ HandleFlush \/ EndTick
      PROVE  UNCHANGED blocks
  BY <1>2 DEF HandleEvent, EndEvent, HandlePolicyChanged, EndMutation, HandleFlush, EndTick
<1>3. ASSUME NEW u \in Users, NEW says \in [Apps -> Rules],
             NEW owner \in Users \cup {Root}, StorePolicy(u, says, owner)
      PROVE  UNCHANGED blocks
  BY <1>3 DEF StorePolicy
<1>4. ASSUME NEW owner \in Users \cup {Root}, AnnouncePolicy(owner)
      PROVE  UNCHANGED blocks
  BY <1>4 DEF AnnouncePolicy
<1>5. ASSUME NEW u \in Users, NEW app \in Apps \cup {NoApp}, SwitchFocus(u, app)
      PROVE  UNCHANGED blocks
  BY <1>5 DEF SwitchFocus
<1>6. ASSUME NEW u \in Users,
             RegisterPlugin(u) \/ Subscribe(u) \/ Greet(u) \/ PluginDies(u)
      PROVE  UNCHANGED blocks
  BY <1>6 DEF RegisterPlugin, Subscribe, Greet, PluginDies
<1>7. ASSUME MinuteTick \/ NextDay PROVE UNCHANGED blocks
  BY <1>7 DEF MinuteTick, NextDay
<1>8. ASSUME UNCHANGED vars PROVE UNCHANGED blocks
  BY <1>8 DEF vars
<1> QED
  BY <1>1, <1>2, <1>3, <1>4, <1>5, <1>6, <1>7, <1>8 DEF Next

LEMMA SignalsNext ==
    TypeOK /\ SignalsTellTheBlocks /\ [Next]_vars => SignalsTellTheBlocks'
<1> SUFFICES ASSUME TypeOK, SignalsTellTheBlocks, [Next]_vars
             PROVE  SignalsTellTheBlocks'
  OBVIOUS
<1>1. ASSUME NEW u \in Users, Apply(u) PROVE SignalsTellTheBlocks'
  <2> DEFINE app == step[u].app
  <2>1. app \in Apps /\ blocked \in [Users -> [Apps -> Entries \cup {NoEntry}]]
        /\ told \in [Users -> SUBSET Apps]
    BY <1>1 DEF TypeOK, Apply
  <2>2. blocked' = [blocked EXCEPT ![u][app] = Verdict(u)]
    BY <1>1 DEF Apply
  <2>3. told' = [told EXCEPT ![u] = IF Verdict(u) # NoEntry THEN @ \cup {app}
                                    ELSE IF blocked[u][app] # NoEntry THEN @ \ {app}
                                    ELSE @]
    BY <1>1 DEF Apply
  <2>4. \A v \in Users : told[v] = {a \in Apps : blocked[v][a] # NoEntry}
    BY DEF SignalsTellTheBlocks
  <2> HIDE DEF app
  <2>5. ASSUME NEW v \in Users PROVE told'[v] = {a \in Apps : blocked'[v][a] # NoEntry}
    <3>1. CASE v # u
      BY <2>1, <2>2, <2>3, <2>4, <3>1
    <3>2. CASE v = u
      <4>1. \A a \in Apps : blocked'[u][a] = IF a = app THEN Verdict(u) ELSE blocked[u][a]
        BY <2>1, <2>2
      <4>2. told'[u] = IF Verdict(u) # NoEntry THEN told[u] \cup {app}
                       ELSE IF blocked[u][app] # NoEntry THEN told[u] \ {app}
                       ELSE told[u]
        BY <2>1, <2>3
      <4> QED
        BY <2>1, <2>4, <3>2, <4>1, <4>2
    <3> QED
      BY <3>1, <3>2
  <2> QED
    BY <2>5 DEF SignalsTellTheBlocks
<1>2. CASE MidnightReset
  <2>1. CASE blocked' = Forgotten
             /\ told' = [u \in Users |-> told[u] \ {a \in Apps : Outlived(blocked[u][a])}]
    BY <2>1 DEF SignalsTellTheBlocks, Forgotten, Outlived
  <2>2. CASE UNCHANGED << blocked, told >>
    BY <2>2 DEF SignalsTellTheBlocks
  <2> QED
    BY <1>2, <2>1, <2>2 DEF MidnightReset
<1>3. CASE UNCHANGED << blocked, told >>
  BY <1>3 DEF SignalsTellTheBlocks
<1> QED
  BY <1>1, <1>2, <1>3, WhoBlocks

\* The AppBlocked signals add up to blocked_apps, for any number of users and
\* apps: whoever has followed them from the start needs no snapshot.
THEOREM SignalsHold == Spec => []SignalsTellTheBlocks
<1>1. Init => SignalsTellTheBlocks
  <2> SUFFICES ASSUME Init, NEW u \in Users
               PROVE  told[u] = {a \in Apps : blocked[u][a] # NoEntry}
    BY DEF SignalsTellTheBlocks
  <2>1. told[u] = {} /\ \A a \in Apps : blocked[u][a] = NoEntry
    BY DEF Init
  <2> QED
    BY <2>1
<1>2. TypeOK /\ SignalsTellTheBlocks /\ [Next]_vars => SignalsTellTheBlocks'
  BY SignalsNext
<1> QED
  BY <1>1, <1>2, EnforcementTypeOK, PTL DEF Spec
-----------------------------------------------------------------------------
(* Days *)

LEMMA DaysAreNaturals == Days \subseteq Nat
BY EnforcementAssumption DEF Days

\* An evaluation under way: the actor is at work.
LEMMA AtWork ==
    ASSUME TypeOK, JobInv, NEW u \in Users, step[u].at # "done"
    PROVE  actor \in {"event", "mutation", "tick"} /\ lastReset <= today
<1>1. step[u] # Done
  BY DoneType
<1>2. ~AllDone
  BY <1>1 DEF AllDone
<1> QED
  BY <1>2 DEF JobInv, TypeOK

LEMMA DayInvInit == Init => DayInv
<1> SUFFICES ASSUME Init PROVE DayInv
  OBVIOUS
<1>1. JobInv
  BY DEF Init, JobInv, AllDone
<1>2. CheckInv
  BY DEF Init, CheckInv
<1>3. LimitBlocksEndWithTheirDay
  BY DEF Init, LimitBlocksEndWithTheirDay, Outlived
<1> QED
  BY <1>1, <1>2, <1>3, TypeInit DEF DayInv

\* The days and the job of the actor through the steps of an evaluation ...
LEMMA DayInvEvaluate ==
    ASSUME DayInv, NEW u \in Users, Evaluate(u)
    PROVE  DayInv'
<1>1. TypeOK'
  BY TypeEvaluate DEF DayInv
<1>2. step[u].at # "done"
  BY DEF Evaluate, LookUp, Unreachable, Answered, ReadPolicies, Apply
<1>3. actor \in {"event", "mutation", "tick"} /\ lastReset <= today
  BY <1>2, AtWork DEF DayInv
<1>4. UNCHANGED << actor, today, day, lastReset, firstCheck >>
  BY DEF Evaluate, LookUp, Unreachable, Answered, ReadPolicies, Apply, world, blocks
<1>5. JobInv'
  BY <1>3, <1>4 DEF JobInv
<1>6. CheckInv'
  BY <1>4 DEF DayInv, CheckInv
<1>7. LimitBlocksEndWithTheirDay'
  <2>1. CASE Apply(u)
    <3>1. step[u].app \in Apps /\ blocked \in [Users -> [Apps -> Entries \cup {NoEntry}]]
      BY <2>1 DEF DayInv, TypeOK, Apply
    <3>2. blocked' = [blocked EXCEPT ![u][step[u].app] = Verdict(u)]
      BY <2>1 DEF Apply
    <3>3. Outlived(Verdict(u)) => Verdict(u).day = today
      BY DEF Outlived, Verdict
    <3>4. SUFFICES ASSUME NEW v \in Users, NEW a \in Apps, Outlived(blocked'[v][a])
                   PROVE  blocked'[v][a].day >= lastReset \/ blocked'[v][a].day < firstCheck
      BY <1>4 DEF LimitBlocksEndWithTheirDay
    <3>5. CASE v = u /\ a = step[u].app
      <4>1. blocked'[v][a] = Verdict(u)
        BY <3>1, <3>2, <3>5
      <4>2. blocked'[v][a].day = today
        BY <3>3, <3>4, <4>1
      <4>3. today \in Int /\ lastReset \in Int
        BY DaysAreNaturals DEF DayInv, TypeOK
      <4> QED
        BY <1>3, <4>2, <4>3
    <3>6. CASE ~(v = u /\ a = step[u].app)
      <4>1. blocked'[v][a] = blocked[v][a]
        BY <3>1, <3>2, <3>6
      <4> QED
        BY <3>4, <4>1 DEF DayInv, LimitBlocksEndWithTheirDay
    <3> QED
      BY <3>5, <3>6
  <2>2. CASE UNCHANGED blocks
    BY <2>2 DEF DayInv, LimitBlocksEndWithTheirDay, blocks
  <2> QED
    BY <2>1, <2>2 DEF Evaluate, LookUp, Unreachable, Answered, ReadPolicies
<1> QED
  BY <1>1, <1>5, <1>6, <1>7 DEF DayInv

\* ... through the jobs of the actor ...
LEMMA DayInvJob ==
    ASSUME DayInv,
           \/ HandleEvent \/ EndEvent \/ HandlePolicyChanged \/ EndMutation
           \/ HandleFlush \/ EndTick \/ MidnightReset
    PROVE  DayInv'
<1>0. TypeOK' /\ TypeOK /\ JobInv /\ CheckInv /\ LimitBlocksEndWithTheirDay
  BY TypeJob DEF DayInv
<1>1. day \in Nat /\ {lastReset, today, firstCheck} \subseteq Int
  BY <1>0, DaysAreNaturals DEF TypeOK
<1>2. CASE HandleEvent \/ HandlePolicyChanged \/ HandleFlush
  <2>1. /\ actor' \in {"event", "mutation", "tick"} \/ (actor' = "reset" /\ UNCHANGED step)
        /\ Idle /\ today' = day /\ UNCHANGED << day, blocks >>
    BY <1>2 DEF HandleEvent, HandlePolicyChanged, HandleFlush, world
  <2>2. JobInv'
    BY <1>0, <1>1, <2>1 DEF JobInv, CheckInv, Idle, AllDone, blocks
  <2>3. CheckInv'
    BY <1>0, <1>1, <2>1 DEF CheckInv, blocks
  <2> QED
    BY <1>0, <2>1, <2>2, <2>3 DEF DayInv, LimitBlocksEndWithTheirDay, blocks
<1>3. CASE EndEvent \/ EndMutation \/ EndTick
  <2>1. AllDone /\ actor' \in {"idle", "reset"}
        /\ UNCHANGED << step, today, day, blocks >>
    BY <1>3 DEF EndEvent, EndMutation, EndTick, world
  <2> QED
    BY <1>0, <2>1 DEF DayInv, JobInv, CheckInv, LimitBlocksEndWithTheirDay, AllDone, blocks
<1>4. CASE MidnightReset
  <2>1. JobInv'
    BY <1>0, <1>4 DEF JobInv, MidnightReset, AllDone, work
  <2>2. CheckInv'
    BY <1>0, <1>1, <1>4 DEF CheckInv, MidnightReset, world
  <2>3. SUFFICES ASSUME NEW u \in Users, NEW a \in Apps, Outlived(blocked'[u][a])
                 PROVE  blocked'[u][a].day >= lastReset' \/ blocked'[u][a].day < firstCheck'
    BY <1>0, <2>1, <2>2 DEF DayInv, LimitBlocksEndWithTheirDay
  <2>4. CASE lastReset # -1 /\ lastReset < day
    <3>1. blocked'[u][a] = IF Outlived(blocked[u][a]) THEN NoEntry ELSE blocked[u][a]
      BY <1>4, <2>4 DEF MidnightReset, Forgotten
    <3> QED
      BY <2>3, <3>1 DEF Outlived
  <2>5. CASE lastReset = day
    <3>1. UNCHANGED << blocked, lastReset, firstCheck >>
      BY <1>0, <1>1, <1>4, <2>5 DEF MidnightReset, CheckInv
    <3> QED
      BY <1>0, <2>3, <3>1 DEF LimitBlocksEndWithTheirDay
  <2>6. CASE lastReset = -1
    <3>1. blocked' = blocked /\ lastReset' = day /\ firstCheck' = day
      BY <1>0, <1>1, <1>4, <2>6 DEF MidnightReset, CheckInv
    <3>2. blocked[u][a] \in Entries
      BY <1>0, <2>3, <3>1 DEF TypeOK, Outlived
    <3>3. blocked[u][a].day \in Nat
      BY <3>2, DaysAreNaturals DEF Entries
    <3> QED
      BY <1>1, <3>1, <3>3
  <2> QED
    BY <1>0, <1>1, <2>4, <2>5, <2>6 DEF CheckInv
<1> QED
  BY <1>2, <1>3, <1>4

\* ... and through everything else.
LEMMA DayInvNext == DayInv /\ [Next]_vars => DayInv'
<1> SUFFICES ASSUME DayInv, [Next]_vars PROVE DayInv'
  OBVIOUS
<1>0. TypeOK' /\ TypeOK /\ JobInv /\ CheckInv /\ LimitBlocksEndWithTheirDay
  BY TypeNext DEF DayInv
<1>1. ASSUME UNCHANGED << work, blocks, day >> PROVE DayInv'
  BY <1>0, <1>1 DEF DayInv, JobInv, CheckInv, LimitBlocksEndWithTheirDay, AllDone, work, blocks
<1>2. ASSUME NEW u \in Users, NEW says \in [Apps -> Rules],
             NEW owner \in Users \cup {Root}, StorePolicy(u, says, owner)
      PROVE  DayInv'
  BY <1>1, <1>2 DEF StorePolicy
<1>3. ASSUME NEW owner \in Users \cup {Root}, AnnouncePolicy(owner) PROVE DayInv'
  BY <1>1, <1>3 DEF AnnouncePolicy, world
<1>4. ASSUME NEW u \in Users, NEW app \in Apps \cup {NoApp}, SwitchFocus(u, app)
      PROVE  DayInv'
  BY <1>1, <1>4 DEF SwitchFocus
<1>5. ASSUME NEW u \in Users,
             RegisterPlugin(u) \/ Subscribe(u) \/ Greet(u) \/ PluginDies(u)
      PROVE  DayInv'
  BY <1>1, <1>5 DEF RegisterPlugin, Subscribe, Greet, PluginDies, world
<1>6. CASE MinuteTick
  BY <1>1, <1>6 DEF MinuteTick, world
<1>7. CASE NextDay
  <2>1. day' = day + 1 /\ UNCHANGED << work, blocks >>
    BY <1>7 DEF NextDay
  <2>2. day \in Int /\ lastReset \in Int /\ today \in Int
    BY <1>0, DaysAreNaturals DEF TypeOK
  <2>3. CheckInv'
    BY <1>0, <2>1, <2>2 DEF CheckInv, work, blocks
  <2> QED
    BY <1>0, <2>1, <2>3
    DEF DayInv, JobInv, LimitBlocksEndWithTheirDay, AllDone, work, blocks
<1>8. CASE UNCHANGED vars
  BY <1>1, <1>8 DEF vars, world
<1> QED
  BY <1>2, <1>3, <1>4, <1>5, <1>6, <1>7, <1>8, DayInvEvaluate, DayInvJob DEF Next

\* The remembered days, the job of the actor and the days of the time-limit
\* entries fit together.
THEOREM DayInvHolds == Spec => []DayInv
<1> QED
  BY DayInvInit, DayInvNext, PTL DEF Spec

\* A minute tick on a new day leaves no time-limit block of an earlier one,
\* but for those made before the very first tick.
THEOREM LimitBlocksExpire == Spec => []LimitBlocksEndWithTheirDay
<1>1. DayInv => LimitBlocksEndWithTheirDay
  BY DEF DayInv
<1> QED
  BY <1>1, DayInvHolds, PTL
-----------------------------------------------------------------------------
(* Verdicts *)

\* Announcements are distinct from each other and from the ticks.
LEMMA AnnouncementsDiffer ==
    ASSUME NEW u, NEW v
    PROVE  /\ Changed(u).uid = u /\ Changed(u) # Flush
           /\ Changed(u) = Changed(v) => u = v
BY DEF Changed, Flush

\* A message put in the queue joins those that are there; taking one leaves the
\* others there.
LEMMA QueuedAppend ==
    ASSUME internal \in Seq(Messages), NEW m, NEW n,
           internal' = Append(internal, n)
    PROVE  Queued(m)' <=> Queued(m) \/ m = n
<1>1. /\ DOMAIN internal = 1 .. Len(internal) /\ Len(internal) \in Nat
      /\ DOMAIN internal' = 1 .. Len(internal) + 1
      /\ \A i \in 1 .. Len(internal) : internal'[i] = internal[i]
      /\ internal'[Len(internal) + 1] = n
  OBVIOUS
<1> QED
  BY <1>1 DEF Queued

LEMMA QueuedTail ==
    ASSUME internal \in Seq(Messages), internal # << >>, NEW m, Queued(m),
           internal' = Tail(internal)
    PROVE  Queued(m)' \/ m = Head(internal)
<1>1. /\ DOMAIN internal = 1 .. Len(internal) /\ Len(internal) \in Nat
      /\ DOMAIN internal' = 1 .. Len(internal) - 1
      /\ \A i \in 1 .. Len(internal) - 1 : internal'[i] = internal[i + 1]
      /\ Head(internal) = internal[1]
  OBVIOUS
<1>2. PICK i \in 1 .. Len(internal) : internal[i] = m
  BY <1>1 DEF Queued
<1>3. CASE i = 1
  BY <1>1, <1>2, <1>3
<1>4. CASE i # 1
  <2>1. i - 1 \in 1 .. Len(internal) - 1 /\ internal'[i - 1] = m
    BY <1>1, <1>2, <1>4
  <2> QED
    BY <1>1, <2>1 DEF Queued
<1> QED
  BY <1>3, <1>4
\* A user whose evaluation, policies and entries are left alone, and whose
\* announcements are not lost, is as well off as before.
LEMMA UserVerdictFrame ==
    ASSUME NEW u \in Users, UserVerdict(u), heard[u] \in Apps \cup {NoApp},
           step'[u] = step[u], heard'[u] = heard[u], rule'[u] = rule[u],
           \A a \in Apps : HardBlocked(u, a)' <=> HardBlocked(u, a),
           Announced(u) => Announced(u)',
           Pending(u) => Pending(u)'
    PROVE  UserVerdict(u)'
<1>1. heard[u] # NoApp /\ Agrees(u, heard[u]) => Agrees(u, heard[u])'
  BY DEF Agrees
<1> QED
  BY <1>1 DEF UserVerdict

LEMMA VerdictInvInit == Init => VerdictInv
BY DoneType DEF Init, VerdictInv, UserVerdict

\* The steps of an evaluation.
LEMMA VerdictInvEvaluate ==
    ASSUME DayInv, VerdictInv, ~MayFailRead, NEW u \in Users, Evaluate(u)
    PROVE  VerdictInv'
<1>0. TypeOK /\ step \in [Users -> Steps] /\ step[u] \in Steps
      /\ heard \in [Users -> Apps \cup {NoApp}]
  BY DEF DayInv, TypeOK
<1>1. UNCHANGED << rule, handlers, internal, actor >>
  BY DEF Evaluate, LookUp, Unreachable, Answered, ReadPolicies, Apply,
         database, intake
<1>2. \A v \in Users : Announced(v)' <=> Announced(v)
  BY <1>1 DEF Announced, Queued
<1>3. ASSUME NEW v \in Users, v # u PROVE UserVerdict(v)'
  <2>1. step'[v] = step[v]
    BY <1>0, <1>3, EvaluationSteps DEF Evaluate
  <2>2. heard'[v] = heard[v]
    BY <1>0, <1>3 DEF Evaluate, LookUp, Unreachable, Answered, ReadPolicies, Apply
  <2>3. blocked'[v] = blocked[v]
    <3>1. CASE Apply(u)
      BY <1>3, <3>1 DEF Apply, TypeOK, DayInv
    <3>2. CASE UNCHANGED blocks
      BY <3>2 DEF blocks
    <3> QED
      BY <3>1, <3>2 DEF Evaluate, LookUp, Unreachable, Answered, ReadPolicies
  <2>4. Pending(v) => Pending(v)'
    BY <1>1, <1>2, <2>1 DEF Pending
  <2>5. \A a \in Apps : HardBlocked(v, a)' <=> HardBlocked(v, a)
    BY <2>3 DEF HardBlocked
  <2>6. UserVerdict(v) /\ heard[v] \in Apps \cup {NoApp} /\ rule'[v] = rule[v]
    BY <1>0, <1>1 DEF VerdictInv
  <2> QED
    BY <1>2, <2>1, <2>2, <2>4, <2>5, <2>6, UserVerdictFrame
<1>4. UserVerdict(u)'
  <2>0. UserVerdict(u)
    BY DEF VerdictInv
  <2>1. CASE LookUp(u)
    <3>1. CASE registered[u] = 0
      <4>1. step'[u] = Done /\ heard'[u] = NoApp
        BY <1>0, <2>1, <3>1 DEF LookUp
      <4> QED
        BY <4>1, DoneType DEF UserVerdict
    <3>2. CASE registered[u] # 0
      <4>1. step'[u].at = "ask"
        BY <1>0, <2>1, <3>2 DEF LookUp, Steps
      <4>2. UNCHANGED << heard, blocked >> /\ step[u].at = "lookup"
        BY <2>1, <3>2 DEF LookUp, blocks
      <4>3. Pending(u) => Pending(u)'
        BY <1>1, <1>2, <4>1 DEF Pending
      <4>4. Agrees(u, heard[u]) => Agrees(u, heard[u])'
        BY <1>1, <4>2 DEF Agrees, HardBlocked
      <4> QED
        BY <2>0, <4>1, <4>2, <4>3, <4>4 DEF UserVerdict
    <3> QED
      BY <3>1, <3>2
  <2>2. CASE Unreachable(u)
    <3>1. step'[u] = Done /\ heard'[u] = NoApp
      BY <1>0, <2>2 DEF Unreachable
    <3> QED
      BY <3>1, DoneType DEF UserVerdict
  <2>3. CASE Answered(u)
    <3>1. heard'[u] = focused[u]
      BY <1>0, <2>3 DEF Answered
    <3>2. CASE focused[u] = NoApp
      <4>1. step'[u] = Done
        BY <1>0, <2>3, <3>2 DEF Answered
      <4> QED
        BY <3>1, <3>2, <4>1, DoneType DEF UserVerdict
    <3>3. CASE focused[u] # NoApp
      <4>1. step'[u] = [step[u] EXCEPT !.at = "read", !.app = focused[u]]
        BY <1>0, <2>3, <3>3 DEF Answered
      <4>2. step'[u].at = "read" /\ step'[u].app = focused[u]
        BY <1>0, <4>1 DEF Steps
      <4> QED
        BY <3>1, <4>2 DEF UserVerdict
    <3> QED
      BY <3>2, <3>3
  <2>4. CASE ReadPolicies(u)
    <3>1. PICK r : r = rule[u][step[u].app]
                   /\ step' = [step EXCEPT ![u].at = "apply", ![u].rule = r]
      BY <2>4 DEF ReadPolicies
    <3>2. step'[u] = [step[u] EXCEPT !.at = "apply", !.rule = r]
      BY <1>0, <3>1
    <3>3. step'[u].at = "apply" /\ step'[u].rule = r /\ step'[u].app = step[u].app
      BY <1>0, <3>2 DEF Steps
    <3>4. heard' = heard /\ heard[u] = step[u].app
      BY <2>0, <2>4 DEF ReadPolicies, UserVerdict
    <3> QED
      BY <1>1, <3>1, <3>3, <3>4 DEF UserVerdict
  <2>5. CASE Apply(u)
    <3>1. step'[u] = Done /\ UNCHANGED heard
      BY <1>0, <2>5 DEF Apply
    <3>2. step[u].app \in Apps /\ heard[u] = step[u].app
          /\ (step[u].rule = rule[u][step[u].app] \/ Announced(u))
      BY <1>0, <2>0, <2>5 DEF TypeOK, Apply, UserVerdict
    <3>3. blocked'[u][heard[u]] = Verdict(u)
      BY <1>0, <2>5, <3>2 DEF Apply, TypeOK
    <3>4. HardBlocked(u, heard[u])' <=> step[u].rule = "block"
      <4>1. today \in Nat
        BY <1>0, DaysAreNaturals DEF TypeOK
      <4>2. step[u].rule = "block" => Verdict(u) # NoEntry /\ Verdict(u).reason = "AppBlock"
        BY <4>1, EnforcementAssumption DEF Verdict
      <4>3. step[u].rule # "block"
            => Verdict(u) = NoEntry \/ Verdict(u).reason = "AppTimeLimit"
        BY DEF Verdict
      <4> QED
        BY <3>1, <3>3, <4>2, <4>3 DEF HardBlocked
    <3>5. CASE step[u].rule = rule[u][step[u].app]
      <4>1. Agrees(u, heard[u])'
        BY <1>1, <3>1, <3>2, <3>4, <3>5 DEF Agrees
      <4> QED
        BY <3>1, <4>1, DoneType DEF UserVerdict
    <3>6. CASE Announced(u)
      BY <1>2, <3>1, <3>6, DoneType DEF UserVerdict, Pending
    <3> QED
      BY <3>2, <3>5, <3>6
  <2> QED
    BY <2>1, <2>2, <2>3, <2>4, <2>5 DEF Evaluate
<1> QED
  BY <1>3, <1>4 DEF VerdictInv

\* The jobs of the actor.
LEMMA VerdictInvJob ==
    ASSUME DayInv, VerdictInv,
           \/ HandleEvent \/ EndEvent \/ HandlePolicyChanged \/ EndMutation
           \/ HandleFlush \/ EndTick \/ MidnightReset
    PROVE  VerdictInv'
<1>0. /\ TypeOK /\ JobInv /\ step \in [Users -> Steps]
      /\ heard \in [Users -> Apps \cup {NoApp}] /\ internal \in Seq(Messages)
      /\ \A v \in Users : UserVerdict(v) /\ heard[v] \in Apps \cup {NoApp}
  BY DEF DayInv, TypeOK, VerdictInv
<1>1. ASSUME NEW v \in Users, UNCHANGED << step, heard, rule >>,
             \A a \in Apps : HardBlocked(v, a)' <=> HardBlocked(v, a),
             Announced(v) => Announced(v)', AllDone
      PROVE  UserVerdict(v)'
  <2>1. step[v].at = "done"
    BY <1>1, DoneType DEF AllDone
  <2>2. Pending(v) => Pending(v)'
    BY <1>1, <2>1 DEF Pending
  <2> QED
    BY <1>0, <1>1, <2>2, UserVerdictFrame
<1>2. CASE HandleEvent
  <2>1. PICK e \in Events :
            /\ step' = [step EXCEPT ![e.uid] = [Done EXCEPT !.at = "read", !.app = e.app]]
            /\ heard' = [heard EXCEPT ![e.uid] = e.app]
    <3>1. Head(inbox) \in Events
      BY <1>2, QueueTypes DEF DayInv, TypeOK, HandleEvent
    <3> QED
      BY <1>2, <3>1 DEF HandleEvent
  <2>2. e.uid \in Users /\ e.app \in Apps
    BY DEF Events
  <2>3. actor = "idle" /\ UNCHANGED << rule, handlers, internal, blocked >> /\ AllDone
    BY <1>0, <1>2 DEF HandleEvent, Idle, JobInv, database, blocks
  <2>4. ASSUME NEW v \in Users, v = e.uid PROVE UserVerdict(v)'
    <3>1. step'[v] = [Done EXCEPT !.at = "read", !.app = e.app] /\ heard'[v] = e.app
      BY <1>0, <2>1, <2>4
    <3>2. step'[v].at = "read" /\ step'[v].app = e.app
      BY <2>2, <3>1, StartTypes
    <3> QED
      BY <3>1, <3>2 DEF UserVerdict
  <2>5. ASSUME NEW v \in Users, v # e.uid PROVE UserVerdict(v)'
    <3>1. step'[v] = step[v] /\ heard'[v] = heard[v] /\ rule'[v] = rule[v]
      BY <1>0, <2>1, <2>3, <2>5
    <3>2. \A a \in Apps : HardBlocked(v, a)' <=> HardBlocked(v, a)
      BY <2>3 DEF HardBlocked
    <3>3. Announced(v)' <=> Announced(v)
      BY <2>3 DEF Announced, Queued
    <3>4. Pending(v) => Pending(v)'
      BY <2>3, <3>3 DEF Pending
    <3> QED
      BY <1>0, <3>1, <3>2, <3>3, <3>4, UserVerdictFrame
  <2> QED
    BY <2>4, <2>5 DEF VerdictInv
<1>3. CASE EndEvent \/ EndMutation \/ EndTick
  <2>1. AllDone /\ UNCHANGED << step, heard, rule, handlers, internal, blocked >>
    BY <1>3 DEF EndEvent, EndMutation, EndTick, database, intake, blocks
  <2>2. \A v \in Users : Announced(v)' <=> Announced(v)
    BY <2>1 DEF Announced, Queued
  <2>3. \A v \in Users, a \in Apps : HardBlocked(v, a)' <=> HardBlocked(v, a)
    BY <2>1 DEF HardBlocked
  <2> QED
    BY <1>1, <2>1, <2>2, <2>3 DEF VerdictInv
<1>4. CASE HandlePolicyChanged
  <2> DEFINE owner == Head(internal).uid
  <2>1. /\ internal # << >> /\ internal' = Tail(internal) /\ actor' = "mutation"
        /\ Head(internal).kind = "PolicyChanged"
        /\ UNCHANGED << rule, handlers, blocked, heard >> /\ AllDone
        /\ step' = [v \in Users |-> IF v = owner THEN [Done EXCEPT !.at = "lookup"]
                                                 ELSE Done]
    BY <1>0, <1>4 DEF HandlePolicyChanged, Idle, JobInv, database, blocks
  <2>2. ASSUME NEW v \in Users, v = owner PROVE UserVerdict(v)'
    <3>1. step'[v].at = "lookup"
      BY <2>1, <2>2, StartTypes
    <3> QED
      BY <2>1, <3>1 DEF UserVerdict, Pending
  <2>3. ASSUME NEW v \in Users, v # owner PROVE UserVerdict(v)'
    <3>1. step'[v] = Done /\ step[v] = Done
      BY <2>1, <2>3 DEF AllDone
    <3>2. Changed(v) # Head(internal)
      BY <2>3, AnnouncementsDiffer
    <3>3. Announced(v) => Announced(v)'
      BY <1>0, <2>1, <3>2, QueuedTail DEF Announced
    <3>4. Pending(v) => Pending(v)'
      BY <3>1, <3>3, DoneType DEF Pending
    <3>5. \A a \in Apps : HardBlocked(v, a)' <=> HardBlocked(v, a)
      BY <2>1 DEF HardBlocked
    <3> QED
      BY <1>0, <2>1, <3>1, <3>3, <3>4, <3>5, UserVerdictFrame
  <2> QED
    BY <2>2, <2>3 DEF VerdictInv
<1>5. CASE HandleFlush
  <2>1. /\ internal # << >> /\ internal' = Tail(internal) /\ Head(internal) = Flush
        /\ UNCHANGED << rule, handlers, blocked, heard >> /\ AllDone /\ actor = "idle"
        /\ \/ step' = [v \in Users |-> IF registered[v] # 0
                                       THEN [Done EXCEPT !.at = "lookup"] ELSE Done]
           \/ step' = step
    BY <1>0, <1>5 DEF HandleFlush, Idle, JobInv, world, blocks
  <2>2. SUFFICES ASSUME NEW v \in Users PROVE UserVerdict(v)'
    BY DEF VerdictInv
  <2>3. Changed(v) # Head(internal)
    BY <2>1, AnnouncementsDiffer
  <2>4. Announced(v) => Announced(v)'
    BY <1>0, <2>1, <2>3, QueuedTail DEF Announced
  <2>5. step[v].at = "done"
    BY <2>1, DoneType DEF AllDone
  <2>6. step'[v].at \in {"done", "lookup"}
    <3>1. CASE step' = step
      BY <2>5, <3>1
    <3>2. CASE step' = [w \in Users |-> IF registered[w] # 0
                                        THEN [Done EXCEPT !.at = "lookup"] ELSE Done]
      BY <3>2, StartTypes, DoneType
    <3> QED
      BY <2>1, <3>1, <3>2
  <2>7. heard[v] # NoApp => Agrees(v, heard[v])' \/ Announced(v)'
    <3>1. Pending(v) => Announced(v)
      BY <2>1 DEF Pending
    <3>2. Agrees(v, heard[v]) => Agrees(v, heard[v])'
      BY <2>1 DEF Agrees, HardBlocked
    <3> QED
      BY <1>0, <2>4, <2>5, <3>1, <3>2 DEF UserVerdict
  <2> QED
    BY <2>1, <2>6, <2>7 DEF UserVerdict, Pending
<1>6. CASE MidnightReset
  <2>1. AllDone /\ UNCHANGED << step, heard, rule, handlers, internal >>
    BY <1>0, <1>6 DEF MidnightReset, JobInv, database, intake
  <2>2. \A v \in Users : Announced(v)' <=> Announced(v)
    BY <2>1 DEF Announced, Queued
  <2>3. \A v \in Users, a \in Apps : HardBlocked(v, a)' <=> HardBlocked(v, a)
    <3>1. CASE blocked' = blocked
      BY <3>1 DEF HardBlocked
    <3>2. CASE blocked' = Forgotten
      BY <3>2 DEF HardBlocked, Forgotten, Outlived
    <3> QED
      BY <1>6, <3>1, <3>2 DEF MidnightReset
  <2> QED
    BY <1>1, <2>1, <2>2, <2>3 DEF VerdictInv
<1> QED
  BY <1>2, <1>3, <1>4, <1>5, <1>6

\* Everything else: a policy is announced to the user it is about.
LEMMA VerdictInvNext ==
    ASSUME ~RootCreates, ~MayFailRead, DayInv, VerdictInv, [Next]_vars
    PROVE  VerdictInv'
<1>0. /\ TypeOK /\ internal \in Seq(Messages)
      /\ \A v \in Users : UserVerdict(v) /\ heard[v] \in Apps \cup {NoApp}
  BY DEF DayInv, TypeOK, VerdictInv
<1>1. ASSUME NEW v \in Users, UNCHANGED << work, blocks, heard >>, rule'[v] = rule[v],
             Announced(v) => Announced(v)'
      PROVE  UserVerdict(v)'
  <2>1. \A a \in Apps : HardBlocked(v, a)' <=> HardBlocked(v, a)
    BY <1>1 DEF HardBlocked, blocks
  <2>2. Pending(v) => Pending(v)'
    BY <1>1 DEF Pending, work
  <2>3. step' = step
    BY <1>1 DEF work
  <2> QED
    BY <1>0, <1>1, <2>1, <2>2, <2>3, UserVerdictFrame
<1>2. ASSUME UNCHANGED << work, blocks, heard, rule, handlers, internal >>
      PROVE  VerdictInv'
  <2>1. \A v \in Users : Announced(v)' <=> Announced(v)
    BY <1>2 DEF Announced, Queued
  <2> QED
    BY <1>1, <1>2, <2>1 DEF VerdictInv
<1>3. ASSUME NEW u \in Users, NEW says \in [Apps -> Rules],
             NEW owner \in Users \cup {Root}, StorePolicy(u, says, owner)
      PROVE  VerdictInv'
  <2>1. /\ owner = u /\ handlers' = handlers \cup {owner}
        /\ UNCHANGED << internal, work, blocks, heard >>
        /\ \A v \in Users : v # u => rule'[v] = rule[v]
    BY <1>0, <1>3 DEF StorePolicy, TypeOK
  <2>2. ASSUME NEW v \in Users, v # u PROVE UserVerdict(v)'
    <3>1. Announced(v) => Announced(v)'
      BY <2>1 DEF Announced, Queued
    <3> QED
      BY <1>1, <2>1, <2>2, <3>1
  <2>3. UserVerdict(u)'
    <3>1. Announced(u)'
      BY <2>1 DEF Announced
    <3>2. step' = step /\ heard' = heard /\ UserVerdict(u)
      BY <1>0, <2>1 DEF work
    <3> QED
      BY <3>1, <3>2 DEF UserVerdict, Pending
  <2> QED
    BY <2>2, <2>3 DEF VerdictInv
<1>4. ASSUME NEW owner \in Users \cup {Root}, AnnouncePolicy(owner) PROVE VerdictInv'
  <2>1. /\ internal' = Append(internal, Changed(owner))
        /\ handlers' = handlers \ {owner}
        /\ UNCHANGED << work, blocks, heard, rule >>
    BY <1>4 DEF AnnouncePolicy, database
  <2>2. ASSUME NEW v \in Users PROVE Announced(v) => Announced(v)'
    BY <1>0, <2>1, QueuedAppend DEF Announced
  <2> QED
    BY <1>1, <2>1, <2>2 DEF VerdictInv
<1>5. CASE MinuteTick
  <2>1. /\ internal' = Append(internal, Flush)
        /\ UNCHANGED << work, blocks, heard, rule, handlers >>
    BY <1>5 DEF MinuteTick, database
  <2>2. ASSUME NEW v \in Users PROVE Announced(v) => Announced(v)'
    BY <1>0, <2>1, QueuedAppend DEF Announced
  <2> QED
    BY <1>1, <2>1, <2>2 DEF VerdictInv
<1>6. ASSUME NEW u \in Users, NEW app \in Apps \cup {NoApp}, SwitchFocus(u, app)
      PROVE  VerdictInv'
  BY <1>2, <1>6 DEF SwitchFocus, database
<1>7. ASSUME NEW u \in Users,
             RegisterPlugin(u) \/ Subscribe(u) \/ Greet(u) \/ PluginDies(u)
      PROVE  VerdictInv'
  BY <1>2, <1>7 DEF RegisterPlugin, Subscribe, Greet, PluginDies, database
<1>8. CASE NextDay
  BY <1>2, <1>8 DEF NextDay, database, intake
<1>9. CASE UNCHANGED vars
  BY <1>2, <1>9 DEF vars, database, intake
<1> QED
  BY <1>3, <1>4, <1>5, <1>6, <1>7, <1>8, <1>9, VerdictInvEvaluate, VerdictInvJob DEF Next

\* Where root does not create policies for others and no query fails, an actor
\* with nothing of a user's left to do has hard-blocked the app it last learned
\* to be focused exactly when the stored policies say so, however evaluations,
\* policy edits, ticks and registrations interleave.
THEOREM VerdictsFollowPolicies ==
    ASSUME ~RootCreates, ~MayFailRead
    PROVE  Spec => []VerdictFollowsPolicy
<1>1. Init => VerdictInv
  BY VerdictInvInit
<1>2. DayInv /\ VerdictInv /\ [Next]_vars => VerdictInv'
  BY VerdictInvNext
<1>3. DayInv /\ VerdictInv => VerdictFollowsPolicy
  <2> SUFFICES ASSUME DayInv, VerdictInv, Idle, NEW u \in Users,
                      heard[u] # NoApp, u \notin handlers, ~Queued(Changed(u))
               PROVE  HardBlocked(u, heard[u]) <=> rule[u][heard[u]] = "block"
    BY DEF VerdictFollowsPolicy
  <2>1. actor = "idle" /\ step[u].at = "done"
    BY DoneType DEF Idle, DayInv, JobInv, AllDone
  <2> QED
    BY <2>1 DEF VerdictInv, UserVerdict, Agrees, Pending, Announced
<1> QED
  BY <1>1, <1>2, <1>3, DayInvHolds, PTL DEF Spec
=============================================================================
