------------------------- MODULE PolicyStore_proofs -------------------------
(***************************************************************************)
(* Proofs about the policies table, for every set of users, requests and   *)
(* initial tables: its rows stay legal, nobody writes a row of somebody    *)
(* else, an accepted request leaves its row, and what the rows say about   *)
(* an app does not loosen with more usage and follows the categories the   *)
(* charts show.                                                            *)
(*                                                                         *)
(* The invariant behind the second: between the check of the owner and the *)
(* write, the row of the call is still there with that owner, or deleted,  *)
(* or its id has had two rows.                                             *)
(***************************************************************************)
EXTENDS PolicyStore, TLAPS

\* A call that waits for the check of an owner is an update or a delete.
VerifyingOps == \A c \in Uids : call[c].at = "verify" => call[c].op \in {"update", "delete"}

\* What the check of the owner found, as far as it lasts.
OwnerKnown ==
    \A c \in Uids : call[c].at = "write" /\ call[c].op \in {"update", "delete"} =>
        /\ births[call[c].id] > 0
        /\ c # Root /\ births[call[c].id] <= 1 =>
               table[call[c].id] = NoRow \/ table[call[c].id].user = c

StoreInv == StoreTypeOK /\ VerifyingOps /\ OwnerKnown
-----------------------------------------------------------------------------
(* Rows *)

\* The narrowing casts yield 32 bits, and keep what fits.
LEMMA CastType == ASSUME NEW n \in Int PROVE AsI32(n) \in I32
  <1>1. 2 * Half \in Nat \ {0} /\ n + Half \in Int
    BY EvaluationAssumption
  <1>2. (n + Half) % (2 * Half) \in 0 .. 2 * Half - 1
    BY <1>1
  <1> QED
    BY <1>1, <1>2, EvaluationAssumption DEF AsI32, I32

LEMMA CastKeeps == ASSUME NEW n \in Nat, n < Half PROVE AsI32(n) = n
  <1>1. Half \in Nat \ {0}
    BY EvaluationAssumption
  <1>2. (n + Half) % (2 * Half) = n + Half
    BY <1>1
  <1> QED
    BY <1>1, <1>2 DEF AsI32

\* A created row has the types of the table.
LEMMA CreatedType == ASSUME NEW input \in Requests, NEW c \in Uids
                     PROVE  Created(input, c) \in Rows
  <1>1. TimeLimit(input) \in I32 /\ AsI32(input.priority) \in I32
    BY CastType, EvaluationAssumption DEF TimeLimit, Requests, I32
  <1>2. /\ Wanted(input, "App", input.app) \in Apps \cup {Null}
        /\ Wanted(input, "Category", Discriminant(input.category)) \in Categories \cup {Null}
        /\ Wanted(input, "Domain", input.domain) \in Domains \cup {Null}
    BY DEF Wanted, Discriminant, Requests
  <1> QED
    BY <1>1, <1>2 DEF Created, Rows, Requests

\* So has an updated one, which keeps its owner and its creator.
LEMMA MergedType == ASSUME NEW input \in Requests, NEW row \in Rows
                    PROVE  /\ Merged(row, input) \in Rows
                           /\ Merged(row, input).user = row.user
                           /\ Merged(row, input).by = row.by
  <1>1. row.by \in Uids /\ row.user \in Uids /\ row.app \in Apps \cup {Null}
        /\ row.category \in Categories \cup {Null}
    BY DEF Rows
  <1>2. Created(input, row.by) \in Rows
    BY <1>1, CreatedType
  <1>3. Created(input, row.by).by = row.by
    BY DEF Created
  <1> QED
    BY <1>1, <1>2, <1>3 DEF Merged, Rows

\* A legal merge is the row of the request: the columns it did not name were
\* empty, or the CHECKs would refuse the row; but for the category of a request
\* whose category does not exist, which is the one the row had.
LEMMA LegalMerge ==
  ASSUME NEW input \in Requests, NEW row \in Rows, Legal(Merged(row, input))
  PROVE  Merged(row, input) =
             [Created(input, row.by) EXCEPT !.user = row.user,
                  !.category = IF Misnamed(input) THEN row.category ELSE @]
  <1> DEFINE made == Created(input, row.by)
             kept == Merged(row, input)
  <1>1. made \in Rows /\ kept \in Rows
    BY CreatedType, MergedType DEF Rows
  <1>2. /\ kept.target = input.target
        /\ kept.app = IF made.app = Null THEN row.app ELSE made.app
        /\ kept.category = IF made.category = Null THEN row.category ELSE made.category
    BY <1>1 DEF Merged, Created, Rows
  <1>3. /\ kept.app # Null <=> kept.target = "App"
        /\ kept.category # Null <=> kept.target = "Category"
    BY DEF Legal, Column
  <1>4. /\ made.app = IF input.target = "App" THEN input.app ELSE Null
        /\ made.category = IF input.target = "Category" /\ ~Misnamed(input)
                           THEN input.category ELSE Null
        /\ input.app # Null
        /\ input.target = "Category" /\ ~Misnamed(input) => input.category # Null
    BY EvaluationAssumption DEF Created, Wanted, Discriminant, Misnamed, Requests
  <1>5. kept.app = made.app
    BY <1>2, <1>3, <1>4
  <1>6. kept.category = IF Misnamed(input) THEN row.category ELSE made.category
    BY <1>2, <1>3, <1>4 DEF Misnamed
  <1>7. kept = [made EXCEPT !.user = row.user, !.app = kept.app, !.category = kept.category]
    BY <1>1, <1>2 DEF Merged, Rows
  <1> QED
    BY <1>1, <1>5, <1>6, <1>7 DEF Rows

\* The limit of a legal row is the one asked for, if it fits.
LEMMA LegalLimit ==
  ASSUME NEW input \in Requests, TimeLimit(input) > 0, input.limit < Half
  PROVE  TimeLimit(input) = input.limit
  <1>1. input.limit \in Int /\ Half \in Nat
    BY EvaluationAssumption DEF Requests
  <1>2. input.limit > 0
    BY <1>1 DEF TimeLimit
  <1>3. AsI32(input.limit) = input.limit
    BY <1>1, <1>2, CastKeeps
  <1>4. input.effect \in Timed
    BY DEF TimeLimit
  <1> QED
    BY <1>2, <1>3, <1>4 DEF TimeLimit
-----------------------------------------------------------------------------
(* Steps of a call *)

\* What the invariant says of one call, against tables t and b.
CallOK(x, c, t, b) ==
    /\ x.at # "idle" =>
           /\ x.op \in {"create", "update"} => x.input \in Inputs
           /\ x.op # "create" \/ x.at = "announce" => x.id \in Ids
    /\ x.at = "verify" => x.op \in {"update", "delete"}
    /\ x.at = "write" /\ x.op \in {"update", "delete"} =>
           /\ b[x.id] > 0
           /\ c # Root /\ b[x.id] <= 1 => t[x.id] = NoRow \/ t[x.id].user = c

\* The tables keep the owner of a row, unless its id was given out again.
TablesOK == /\ table \in [Ids -> Rows \cup {NoRow}]
            /\ births \in [Ids -> Nat]
            /\ \A i \in Ids : table[i] # NoRow => births[i] > 0 /\ Legal(table[i])
OwnersKept ==
    \A i \in Ids : \/ births'[i] > births[i]
                   \/ /\ births'[i] = births[i]
                      /\ \/ table'[i] = NoRow
                         \/ table[i] # NoRow /\ table'[i].user = table[i].user

LEMMA InvParts ==
  StoreInv <=> /\ TablesOK
               /\ call \in [Uids -> Calls]
               /\ \A c \in Uids : CallOK(call[c], c, table, births)
  BY DEF StoreInv, StoreTypeOK, VerifyingOps, OwnerKnown, TablesOK, CallOK, Stored

\* The steps of other calls do not spoil what a call knows.
LEMMA CallStands ==
  ASSUME TablesOK, TablesOK', OwnersKept, NEW c \in Uids, NEW x \in Calls,
         CallOK(x, c, table, births)
  PROVE  CallOK(x, c, table', births')
  <1> SUFFICES ASSUME x.at = "write", x.op \in {"update", "delete"}
               PROVE  /\ births'[x.id] > 0
                      /\ c # Root /\ births'[x.id] <= 1 =>
                             table'[x.id] = NoRow \/ table'[x.id].user = c
    BY DEF CallOK
  <1> DEFINE i == x.id
  <1>1. /\ i \in Ids /\ births[i] > 0
        /\ c # Root /\ births[i] <= 1 => table[i] = NoRow \/ table[i].user = c
    BY DEF CallOK
  <1>2. births[i] \in Nat /\ births'[i] \in Nat
    BY <1>1 DEF TablesOK
  <1>3. \/ births'[i] > births[i]
        \/ /\ births'[i] = births[i]
           /\ table'[i] = NoRow \/ (table[i] # NoRow /\ table'[i].user = table[i].user)
    BY <1>1 DEF OwnersKept
  <1> QED
    BY <1>1, <1>2, <1>3

\* One call moves on, and the tables with it.
LEMMA StepKeepsInv ==
  ASSUME StoreInv, TablesOK', OwnersKept, NEW c \in Uids, NEW x \in Calls,
         call' = [call EXCEPT ![c] = x], CallOK(x, c, table', births')
  PROVE  StoreInv'
  <1>1. /\ TablesOK /\ call \in [Uids -> Calls]
        /\ \A d \in Uids : CallOK(call[d], d, table, births)
    BY InvParts
  <1>2. call' \in [Uids -> Calls]
    BY <1>1
  <1>3. ASSUME NEW d \in Uids PROVE CallOK(call'[d], d, table', births')
    <2>1. CASE d = c
      BY <1>1, <2>1
    <2>2. CASE d # c
      <3>1. call'[d] = call[d] /\ call[d] \in Calls
        BY <1>1, <2>2
      <3> QED
        BY <1>1, <3>1, CallStands
    <2> QED
      BY <2>1, <2>2
  <1>4. StoreInv' <=> /\ TablesOK'
                      /\ call' \in [Uids -> Calls]
                      /\ \A d \in Uids : CallOK(call'[d], d, table', births')
    BY DEF StoreInv, StoreTypeOK, VerifyingOps, OwnerKnown, TablesOK, CallOK, Stored
  <1> QED
    BY <1>2, <1>3, <1>4

\* Tables that do not change keep everything.
LEMMA SameTables ==
  ASSUME TablesOK, UNCHANGED << table, births >>
  PROVE  TablesOK' /\ OwnersKept
  BY DEF TablesOK, OwnersKept

LEMMA NoCallOK ==
  ASSUME NEW ok \in BOOLEAN, NEW c \in Uids, NEW t, NEW b
  PROVE  NoCall(ok) \in Calls /\ CallOK(NoCall(ok), c, t, b)
  BY DEF NoCall, Calls, CallOK, Uids
-----------------------------------------------------------------------------
(* The actions *)

LEMMA CallParts ==
  ASSUME StoreInv, NEW c \in Uids
  PROVE  /\ TablesOK /\ call[c] \in Calls /\ CallOK(call[c], c, table, births)
         /\ call \in [Uids -> Calls]
  BY InvParts

\* A call that ends or only moves on leaves the tables alone.
LEMMA FinishInv ==
  ASSUME StoreInv, NEW c \in Uids, NEW ok \in BOOLEAN, Finish(c, ok),
         TablesOK', OwnersKept
  PROVE  StoreInv'
  <1>1. NoCall(ok) \in Calls /\ CallOK(NoCall(ok), c, table', births')
    BY NoCallOK
  <1>2. call' = [call EXCEPT ![c] = NoCall(ok)]
    BY DEF Finish
  <1> QED
    BY <1>1, <1>2, StepKeepsInv

LEMMA SubmitInv ==
  ASSUME StoreInv, NEW c \in Uids, NEW op \in Ops, Request(c, op)
  PROVE  StoreInv'
  <1>1. PICK id \in (IF op = "create" THEN {0} ELSE Ids),
             input \in (IF op = "delete" THEN {Null} ELSE Inputs) : Submit(c, op, id, input)
    BY DEF Request
  <1> DEFINE x == [at |-> IF op = "create" THEN "write" ELSE "verify", op |-> op,
                   id |-> id, input |-> input, owner |-> c, ok |-> FALSE]
  <1>2. call' = [call EXCEPT ![c] = x] /\ UNCHANGED << table, births >>
    BY <1>1 DEF Submit
  <1>3. x \in Calls
    BY DEF Calls, Ops
  <1>4. CallOK(x, c, table', births')
    BY DEF CallOK, Ops
  <1>5. TablesOK' /\ OwnersKept
    BY <1>2, CallParts, SameTables
  <1> QED
    BY <1>2, <1>3, <1>4, <1>5, StepKeepsInv

LEMMA CreateInv ==
  ASSUME StoreInv, NEW c \in Uids, CreatePolicy(c)
  PROVE  StoreInv'
  <1> DEFINE input == call[c].input
             row == Created(input, c)
             n == NextId
  <1>1. /\ call[c].at = "write" /\ call[c].op = "create" /\ n \in Ids
        /\ TablesOK /\ call[c] \in Calls /\ CallOK(call[c], c, table, births)
    BY CallParts DEF CreatePolicy
  <1>2. CASE (c = Root \/ input.user = c) /\ Legal(row)
    <2>1. /\ table' = [table EXCEPT ![n] = row]
          /\ births' = [births EXCEPT ![n] = @ + 1]
          /\ call' = [call EXCEPT ![c].at = "announce", ![c].id = n]
      BY <1>2 DEF CreatePolicy
    <2>2. row \in Rows
      <3>1. input \in Requests
        BY <1>1, StoreAssumption DEF CallOK
      <3> QED
        BY <3>1, CreatedType
    <2> DEFINE x == [call[c] EXCEPT !.at = "announce", !.id = n]
    <2>3. x \in Calls /\ CallOK(x, c, table', births')
      BY <1>1 DEF Calls, CallOK
    <2>4. call' = [call EXCEPT ![c] = x]
      BY <2>1, CallParts
    <2>5. /\ table' \in [Ids -> Rows \cup {NoRow}] /\ births' \in [Ids -> Nat]
          /\ births'[n] = births[n] + 1 /\ births[n] \in Nat /\ table'[n] = row
          /\ \A i \in Ids \ {n} : table'[i] = table[i] /\ births'[i] = births[i]
      BY <1>1, <2>1, <2>2 DEF TablesOK
    <2>6. TablesOK'
      <3>1. ASSUME NEW i \in Ids, table'[i] # NoRow
            PROVE  births'[i] > 0 /\ Legal(table'[i])
        BY <1>1, <1>2, <2>5, <3>1 DEF TablesOK
      <3> QED
        BY <2>5, <3>1 DEF TablesOK
    <2>7. OwnersKept
      <3>1. ASSUME NEW i \in Ids PROVE
              \/ births'[i] > births[i]
              \/ births'[i] = births[i] /\ table'[i] = table[i]
        BY <2>5
      <3> QED
        BY <3>1 DEF OwnersKept
    <2> QED
      BY <2>3, <2>4, <2>6, <2>7, StepKeepsInv
  <1>3. CASE ~((c = Root \/ input.user = c) /\ Legal(row))
    BY <1>1, <1>3, SameTables, FinishInv DEF CreatePolicy
  <1> QED
    BY <1>2, <1>3

LEMMA VerifyInv ==
  ASSUME StoreInv, NEW c \in Uids, VerifyOwner(c)
  PROVE  StoreInv'
  <1> DEFINE id == call[c].id
             row == table[id]
  <1>1. /\ call[c].at = "verify" /\ UNCHANGED << table, births >>
        /\ TablesOK /\ call[c] \in Calls /\ CallOK(call[c], c, table, births)
    BY CallParts DEF VerifyOwner
  <1>2. id \in Ids /\ call[c].op \in {"update", "delete"}
    BY <1>1 DEF CallOK
  <1>3. CASE row # NoRow /\ (c = Root \/ row.user = c)
    <2> DEFINE x == [call[c] EXCEPT !.at = "write", !.owner = row.user]
    <2>1. call' = [call EXCEPT ![c].at = "write", ![c].owner = row.user]
      BY <1>3 DEF VerifyOwner
    <2>2. call' = [call EXCEPT ![c] = x]
      BY <2>1, CallParts
    <2>3. row \in Rows /\ births[id] > 0
      BY <1>1, <1>2, <1>3 DEF TablesOK
    <2>4. row.user \in Uids
      BY <2>3 DEF Rows
    <2>5. x \in Calls
      BY <1>1, <2>4 DEF Calls
    <2>6. CallOK(x, c, table, births)
      BY <1>1, <1>2, <1>3, <2>3 DEF CallOK, Calls
    <2> QED
      BY <1>1, <2>2, <2>5, <2>6, SameTables, StepKeepsInv
  <1>4. CASE ~(row # NoRow /\ (c = Root \/ row.user = c))
    BY <1>1, <1>4, SameTables, FinishInv DEF VerifyOwner
  <1> QED
    BY <1>3, <1>4

LEMMA AdvanceInv ==
  ASSUME StoreInv, NEW c \in Uids, Advance(c, "announce"), TablesOK', OwnersKept,
         call[c].id \in Ids, call[c].op \in {"create", "update"} => call[c].input \in Inputs
  PROVE  StoreInv'
  <1> DEFINE x == [call[c] EXCEPT !.at = "announce"]
  <1>1. call[c] \in Calls /\ call \in [Uids -> Calls]
    BY CallParts
  <1>2. call' = [call EXCEPT ![c] = x]
    BY <1>1 DEF Advance
  <1>3. x \in Calls /\ CallOK(x, c, table', births')
    BY <1>1 DEF Calls, CallOK
  <1> QED
    BY <1>2, <1>3, StepKeepsInv

LEMMA UpdateInv ==
  ASSUME StoreInv, NEW c \in Uids, UpdatePolicy(c)
  PROVE  StoreInv'
  <1> DEFINE id == call[c].id
             row == Merged(table[id], call[c].input)
  <1>1. /\ call[c].at = "write" /\ call[c].op = "update" /\ births' = births
        /\ TablesOK /\ call[c] \in Calls /\ CallOK(call[c], c, table, births)
    BY CallParts DEF UpdatePolicy
  <1>2. id \in Ids /\ call[c].input \in Inputs
    BY <1>1 DEF CallOK
  <1>3. CASE table[id] # NoRow /\ Legal(row)
    <2>1. table' = [table EXCEPT ![id] = row] /\ Advance(c, "announce")
      BY <1>3 DEF UpdatePolicy
    <2>2. table[id] \in Rows
      BY <1>1, <1>2, <1>3 DEF TablesOK
    <2>3. row \in Rows /\ row.user = table[id].user
      BY <1>2, <2>2, StoreAssumption, MergedType
    <2>4. /\ table' \in [Ids -> Rows \cup {NoRow}] /\ table'[id] = row
          /\ \A i \in Ids \ {id} : table'[i] = table[i]
      BY <1>1, <1>2, <2>1, <2>3 DEF TablesOK
    <2>5. TablesOK'
      BY <1>1, <1>2, <1>3, <2>4 DEF TablesOK
    <2>6. OwnersKept
      <3>1. ASSUME NEW i \in Ids PROVE
              table'[i] = NoRow \/ (table[i] # NoRow /\ table'[i].user = table[i].user)
        BY <1>3, <2>3, <2>4
      <3> QED
        BY <1>1, <3>1 DEF OwnersKept
    <2> QED
      BY <1>2, <2>1, <2>5, <2>6, AdvanceInv
  <1>4. CASE ~(table[id] # NoRow /\ Legal(row))
    <2>1. Finish(c, FALSE) /\ UNCHANGED << table, births >>
      BY <1>1, <1>4 DEF UpdatePolicy
    <2> QED
      BY <1>1, <2>1, SameTables, FinishInv
  <1> QED
    BY <1>3, <1>4

LEMMA DeleteInv ==
  ASSUME StoreInv, NEW c \in Uids, DeletePolicy(c)
  PROVE  StoreInv'
  <1> DEFINE id == call[c].id
  <1>1. /\ call[c].at = "write" /\ call[c].op = "delete" /\ births' = births
        /\ TablesOK /\ call[c] \in Calls /\ CallOK(call[c], c, table, births)
    BY CallParts DEF DeletePolicy
  <1>2. id \in Ids
    BY <1>1 DEF CallOK
  <1>3. CASE table[id] # NoRow
    <2>1. table' = [table EXCEPT ![id] = NoRow] /\ Advance(c, "announce")
      BY <1>3 DEF DeletePolicy
    <2>2. /\ table' \in [Ids -> Rows \cup {NoRow}] /\ table'[id] = NoRow
          /\ \A i \in Ids \ {id} : table'[i] = table[i]
      BY <1>1, <1>2, <2>1 DEF TablesOK
    <2>3. TablesOK'
      BY <1>1, <2>2 DEF TablesOK
    <2>4. OwnersKept
      BY <1>1, <2>2 DEF OwnersKept
    <2> QED
      BY <1>1, <1>2, <2>1, <2>3, <2>4, AdvanceInv
  <1>4. CASE table[id] = NoRow
    <2>1. Finish(c, FALSE) /\ UNCHANGED << table, births >>
      BY <1>1, <1>4 DEF DeletePolicy
    <2> QED
      BY <1>1, <2>1, SameTables, FinishInv
  <1> QED
    BY <1>3, <1>4

LEMMA AnnounceInv ==
  ASSUME StoreInv, NEW c \in Uids, AnnounceChange(c)
  PROVE  StoreInv'
  <1>1. Finish(c, TRUE) /\ UNCHANGED << table, births >> /\ TablesOK
    BY CallParts DEF AnnounceChange
  <1> QED
    BY <1>1, SameTables, FinishInv

LEMMA AbandonInv ==
  ASSUME StoreInv, AbandonCalls
  PROVE  StoreInv'
  <1>1. call' = [c \in Uids |-> NoCall(FALSE)] /\ UNCHANGED << table, births >>
    BY DEF AbandonCalls
  <1>2. TablesOK'
    BY <1>1, InvParts, SameTables
  <1>3. \A c \in Uids : NoCall(FALSE) \in Calls /\ CallOK(NoCall(FALSE), c, table', births')
    BY NoCallOK
  <1>4. StoreInv' <=> /\ TablesOK'
                      /\ call' \in [Uids -> Calls]
                      /\ \A c \in Uids : CallOK(call'[c], c, table', births')
    BY DEF StoreInv, StoreTypeOK, VerifyingOps, OwnerKnown, TablesOK, CallOK, Stored
  <1> QED
    BY <1>1, <1>2, <1>3, <1>4

LEMMA InitStoreInv == InitStore => StoreInv
  <1> SUFFICES ASSUME InitStore PROVE StoreInv
    OBVIOUS
  <1>1. /\ table \in Initially /\ call = [c \in Uids |-> NoCall(FALSE)]
        /\ births = [i \in Ids |-> IF table[i] = NoRow THEN 0 ELSE 1]
    BY DEF InitStore
  <1>2. /\ table \in [Ids -> Rows \cup {NoRow}]
        /\ \A i \in Ids : table[i] # NoRow => Legal(table[i])
    BY <1>1, StoreAssumption
  <1>3. TablesOK
    BY <1>1, <1>2 DEF TablesOK
  <1>4. \A c \in Uids : NoCall(FALSE) \in Calls /\ CallOK(NoCall(FALSE), c, table, births)
    BY NoCallOK
  <1> QED
    BY <1>1, <1>3, <1>4, InvParts

LEMMA NextStoreInv == StoreInv /\ [NextStore]_store => StoreInv'
  <1> SUFFICES ASSUME StoreInv, [NextStore]_store PROVE StoreInv'
    OBVIOUS
  <1>1. ASSUME NEW c \in Uids, NEW op \in Ops, Request(c, op) PROVE StoreInv'
    BY <1>1, SubmitInv
  <1>2. ASSUME NEW c \in Uids, Work(c) PROVE StoreInv'
    BY <1>2, CreateInv, VerifyInv, UpdateInv, DeleteInv DEF Work
  <1>3. ASSUME NEW c \in Uids, AnnounceChange(c) PROVE StoreInv'
    BY <1>3, AnnounceInv
  <1>4. CASE AbandonCalls
    BY <1>4, AbandonInv
  <1>5. CASE UNCHANGED store
    BY <1>5 DEF store, StoreInv, StoreTypeOK, VerifyingOps, OwnerKnown, Stored
  <1> QED
    BY <1>1, <1>2, <1>3, <1>4, <1>5 DEF NextStore
-----------------------------------------------------------------------------
(* The theorems *)

\* The store keeps its types, and every row passes the CHECKs of the table:
\* nothing a request contains, no cast and no merge with an older row stores one
\* that does not (PolicyRepo::create, update).
THEOREM StoreTypeCorrect == StoreSpec => []StoreTypeOK
  <1>1. StoreInv => StoreTypeOK
    BY DEF StoreInv
  <1> QED
    BY <1>1, InitStoreInv, NextStoreInv, PTL DEF StoreSpec

\* A step of the calls that is neither a write nor an end of one.
LEMMA OnlyWritersWrite ==
  ASSUME StoreInv, [NextStore]_store,
         NEW i \in Ids, table'[i] # table[i]
  PROVE  \E c \in Uids : CreatePolicy(c) \/ UpdatePolicy(c) \/ DeletePolicy(c)
  <1>1. ASSUME NEW c \in Uids, NEW op \in Ops, Request(c, op) PROVE UNCHANGED table
    BY <1>1 DEF Request, Submit
  <1>2. ASSUME NEW c \in Uids, VerifyOwner(c) PROVE UNCHANGED table
    BY <1>2 DEF VerifyOwner
  <1>3. ASSUME NEW c \in Uids, AnnounceChange(c) PROVE UNCHANGED table
    BY <1>3 DEF AnnounceChange
  <1>4. AbandonCalls \/ UNCHANGED store => UNCHANGED table
    BY DEF AbandonCalls, store
  <1> QED
    BY <1>1, <1>2, <1>3, <1>4 DEF NextStore, Work

\* One row that a call may change.
OwnRow(i) ==
    table'[i] # table[i] /\ births[i] <= 1 /\ births'[i] <= 1 =>
        \E c \in Uids :
            /\ call[c].at = "write"
            /\ c # Root => /\ table[i] = NoRow \/ table[i].user = c
                           /\ table'[i] = NoRow \/ table'[i].user = c

LEMMA OwnRowStep ==
  ASSUME StoreInv, [NextStore]_store, NEW i \in Ids
  PROVE  OwnRow(i)
  <1> SUFFICES ASSUME table'[i] # table[i], births[i] <= 1, births'[i] <= 1
               PROVE  \E c \in Uids :
                        /\ call[c].at = "write"
                        /\ c # Root => /\ table[i] = NoRow \/ table[i].user = c
                                       /\ table'[i] = NoRow \/ table'[i].user = c
    BY DEF OwnRow
  <1>1. PICK c \in Uids : CreatePolicy(c) \/ UpdatePolicy(c) \/ DeletePolicy(c)
    BY OnlyWritersWrite
  <1>2. /\ TablesOK /\ call[c] \in Calls /\ CallOK(call[c], c, table, births)
    BY CallParts
  <1>3. CASE CreatePolicy(c)
    <2> DEFINE row == Created(call[c].input, c)
    <2>1. /\ call[c].at = "write"
          /\ table' # table => c = Root \/ call[c].input.user = c
          /\ table' # table => /\ table' = [table EXCEPT ![NextId] = row]
                              /\ births' = [births EXCEPT ![NextId] = @ + 1]
          /\ NextId \in Ids
      BY <1>3 DEF CreatePolicy
    <2>2. i = NextId /\ table'[i] = row /\ births'[i] = births[i] + 1
      BY <1>2, <2>1 DEF TablesOK
    <2>3. births[i] = 0
      BY <1>2, <2>2 DEF TablesOK
    <2>4. table[i] = NoRow
      BY <1>2, <2>3 DEF TablesOK
    <2>5. row.user = call[c].input.user
      BY DEF Created
    <2>6. table' # table
      OBVIOUS
    <2>7. c # Root => row.user = c
      BY <2>1, <2>5, <2>6
    <2> QED
      BY <2>1, <2>2, <2>4, <2>7
  <1>4. CASE UpdatePolicy(c)
    <2> DEFINE row == Merged(table[call[c].id], call[c].input)
    <2>1. /\ call[c].at = "write" /\ call[c].op = "update"
          /\ table' = table \/ (table' = [table EXCEPT ![call[c].id] = row]
                               /\ table[call[c].id] # NoRow)
      BY <1>4 DEF UpdatePolicy
    <2>2. call[c].id \in Ids /\ call[c].input \in Inputs
      BY <1>2, <2>1 DEF CallOK
    <2>3. i = call[c].id /\ table'[i] = row /\ table[i] # NoRow
      BY <1>2, <2>1, <2>2 DEF TablesOK
    <2>4. c # Root => table[i].user = c
      BY <1>2, <2>1, <2>3 DEF CallOK
    <2>5. table[i] \in Rows
      BY <1>2, <2>3 DEF TablesOK
    <2>6. row.user = table[i].user
      BY <2>2, <2>3, <2>5, MergedType, StoreAssumption
    <2> QED
      BY <2>1, <2>3, <2>4, <2>6
  <1>5. CASE DeletePolicy(c)
    <2>1. /\ call[c].at = "write" /\ call[c].op = "delete"
          /\ table' = table \/ table' = [table EXCEPT ![call[c].id] = NoRow]
      BY <1>5 DEF DeletePolicy
    <2>2. call[c].id \in Ids
      BY <1>2, <2>1 DEF CallOK
    <2>3. i = call[c].id /\ table'[i] = NoRow
      BY <1>2, <2>1, <2>2 DEF TablesOK
    <2>4. c # Root => table[i] = NoRow \/ table[i].user = c
      BY <1>2, <2>1, <2>3 DEF CallOK
    <2> QED
      BY <2>1, <2>3, <2>4
  <1> QED
    BY <1>1, <1>3, <1>4, <1>5

\* No user changes, takes or gives away a row of somebody else, for any number
\* of callers and calls in progress (verify_policy_owner runs before the write,
\* in a step of its own), unless the id was given to a second row.
THEOREM OwnRowsKept == StoreSpec => OwnRowsOnly
  <1>1. StoreInv /\ [NextStore]_store => \A i \in Ids : OwnRow(i)
    BY OwnRowStep
  <1> QED
    BY <1>1, InitStoreInv, NextStoreInv, PTL DEF StoreSpec, OwnRowsOnly, OwnRow

\* A request that is being accepted.
Accepting(c) == /\ call[c].at = "write" /\ call'[c].at = "announce"
                /\ call[c].op \in {"create", "update"}
RowOfRequest(c) ==
    LET input == call[c].input
        row   == table'[call'[c].id]
    IN  /\ Misnamed(input) => call[c].op = "update"
        /\ row = [Created(input, row.by) EXCEPT !.user = row.user,
               !.category = IF Misnamed(input) THEN table[call[c].id].category ELSE @]
        /\ input.effect \in Timed /\ input.limit < Half => row.limit = input.limit

\* Only its own write accepts it.
LEMMA AcceptedBy ==
  ASSUME StoreInv, [NextStore]_store, NEW c \in Uids, Accepting(c)
  PROVE  CreatePolicy(c) \/ UpdatePolicy(c)
  <1>1. call \in [Uids -> Calls]
    BY CallParts
  <1>2. ASSUME NEW d \in Uids, NEW op \in Ops, Request(d, op) PROVE FALSE
    BY <1>1, <1>2 DEF Request, Submit, Accepting
  <1>3. ASSUME NEW d \in Uids, d # c, Work(d) PROVE call'[c] = call[c]
    BY <1>1, <1>3 DEF Work, CreatePolicy, VerifyOwner, UpdatePolicy, DeletePolicy, Finish, Advance
  <1>4. ASSUME NEW d \in Uids, AnnounceChange(d) PROVE FALSE
    <2>1. call[d].at = "announce" /\ call' = [call EXCEPT ![d] = NoCall(TRUE)]
      BY <1>4 DEF AnnounceChange, Finish
    <2>2. NoCall(TRUE).at = "idle"
      BY DEF NoCall
    <2>3. call'[c] = IF c = d THEN NoCall(TRUE) ELSE call[c]
      BY <1>1, <2>1
    <2> QED
      BY <2>1, <2>2, <2>3 DEF Accepting
  <1>5. AbandonCalls => FALSE
    BY DEF AbandonCalls, NoCall, Accepting
  <1>6. UNCHANGED store => FALSE
    BY DEF store, Accepting
  <1>7. VerifyOwner(c) \/ DeletePolicy(c) => FALSE
    BY DEF VerifyOwner, DeletePolicy, Accepting
  <1>8. ASSUME NEW d \in Uids, Work(d) PROVE CreatePolicy(c) \/ UpdatePolicy(c)
    <2>1. d = c
      BY <1>3, <1>8 DEF Accepting
    <2> QED
      BY <1>7, <1>8, <2>1 DEF Work
  <1> QED
    BY <1>2, <1>4, <1>5, <1>6, <1>8 DEF NextStore

LEMMA AcceptedRow ==
  ASSUME StoreInv, [NextStore]_store, NEW c \in Uids, Accepting(c)
  PROVE  RowOfRequest(c)
  <1> DEFINE input == call[c].input
             row == table'[call'[c].id]
  <1>1. /\ TablesOK /\ call[c] \in Calls /\ CallOK(call[c], c, table, births)
        /\ call \in [Uids -> Calls]
    BY CallParts
  <1>2. input \in Requests
    BY <1>1, StoreAssumption DEF CallOK, Accepting
  <1>3. /\ Misnamed(input) => call[c].op = "update"
        /\ row = [Created(input, row.by) EXCEPT !.user = row.user,
               !.category = IF Misnamed(input) THEN table[call[c].id].category ELSE @]
        /\ row.effect = input.effect /\ row.limit = TimeLimit(input)
        /\ Legal(row)
    <2>1. CASE CreatePolicy(c)
      <3> DEFINE made == Created(input, c)
      <3>1. /\ table' = [table EXCEPT ![NextId] = made] /\ Legal(made)
            /\ call' = [call EXCEPT ![c].at = "announce", ![c].id = NextId]
            /\ NextId \in Ids
        <4>1. ~Finish(c, FALSE)
          BY <1>1 DEF Finish, NoCall, Accepting
        <4> QED
          BY <2>1, <4>1 DEF CreatePolicy
      <3>2. call'[c].id = NextId
        BY <1>1, <3>1 DEF Calls
      <3>3. row = made
        BY <1>1, <3>1, <3>2 DEF TablesOK
      <3>4. made \in Rows /\ made.by = c /\ made.effect = input.effect
            /\ made.limit = TimeLimit(input)
        BY <1>2, CreatedType DEF Created
      <3>5. ~Misnamed(input)
        <4>1. made.target = input.target
          BY DEF Created
        <4>2. Misnamed(input) => made.category = Null
          BY DEF Created, Wanted, Discriminant, Misnamed
        <4> QED
          BY <3>1, <4>1, <4>2 DEF Legal, Column, Misnamed
      <3>6. made = [made EXCEPT !.user = made.user, !.category = made.category]
        BY <3>4 DEF Rows
      <3> QED
        BY <3>1, <3>3, <3>4, <3>5, <3>6
    <2>2. CASE UpdatePolicy(c)
      <3> DEFINE id == call[c].id
                 made == Merged(table[id], input)
      <3>1. /\ table' = [table EXCEPT ![id] = made] /\ Legal(made)
            /\ Advance(c, "announce") /\ table[id] # NoRow
        <4>1. ~Finish(c, FALSE)
          BY <1>1 DEF Finish, NoCall, Accepting
        <4> QED
          BY <2>2, <4>1 DEF UpdatePolicy
      <3>2. id \in Ids
        BY <1>1, <2>2 DEF CallOK, UpdatePolicy
      <3>3. call'[c].id = id
        BY <1>1, <3>1 DEF Advance, Calls
      <3>4. row = made
        BY <1>1, <3>1, <3>2, <3>3 DEF TablesOK
      <3>5. table[id] \in Rows
        BY <1>1, <3>1, <3>2 DEF TablesOK
      <3>6. /\ made.by = table[id].by /\ made.user = table[id].user
            /\ made = [Created(input, table[id].by) EXCEPT !.user = table[id].user,
                   !.category = IF Misnamed(input) THEN table[id].category ELSE @]
        BY <1>2, <3>1, <3>5, MergedType, LegalMerge
      <3>7. Created(input, table[id].by).effect = input.effect
            /\ Created(input, table[id].by).limit = TimeLimit(input)
        BY DEF Created
      <3>8. made.effect = input.effect /\ made.limit = TimeLimit(input)
        BY <3>6, <3>7 DEF Created
      <3> QED
        BY <2>2, <3>1, <3>4, <3>6, <3>8 DEF UpdatePolicy
    <2> QED
      BY <2>1, <2>2, AcceptedBy
  <1>4. ASSUME input.effect \in Timed, input.limit < Half PROVE row.limit = input.limit
    <2>1. TimeLimit(input) > 0
      BY <1>3, <1>4 DEF Legal
    <2> QED
      BY <1>2, <1>3, <1>4, <2>1, LegalLimit
  <1> QED
    BY <1>3, <1>4 DEF RowOfRequest

\* An accepted create or update leaves exactly the row of its request, for every
\* request and every row an update may meet: the columns PolicyRepo::update does
\* not write are empty whenever the CHECKs accept the result; only a category
\* that does not exist is taken, and is the category the row had.
THEOREM AcceptedStored == StoreSpec => AcceptedMeansStored
  <1>1. StoreInv /\ [NextStore]_store => \A c \in Uids : Accepting(c) => RowOfRequest(c)
    BY AcceptedRow
  <1>2. StoreInv /\ [NextStore]_store =>
          (\A c \in Uids :
              /\ call[c].at = "write" /\ call'[c].at = "announce"
              /\ call[c].op \in {"create", "update"}
              => LET input == call[c].input
                     row   == table'[call'[c].id]
                 IN  /\ Misnamed(input) => call[c].op = "update"
                     /\ row = [Created(input, row.by) EXCEPT !.user = row.user,
                            !.category = IF Misnamed(input) THEN table[call[c].id].category ELSE @]
                     /\ input.effect \in Timed /\ input.limit < Half => row.limit = input.limit)
    BY <1>1 DEF Accepting, RowOfRequest
  <1> QED
    BY <1>2, InitStoreInv, NextStoreInv, PTL DEF StoreSpec, AcceptedMeansStored
-----------------------------------------------------------------------------
(* What the stored rows say about an app *)

\* A stored row has the columns of a policy.
LEMMA PolicyType ==
  ASSUME StoreTypeOK, NEW p \in Policies
  PROVE  /\ p \in Rows /\ Legal(p)
         /\ p.limit \in Int /\ p.priority \in Int
  <1>1. PICK i \in Stored : p = table[i]
    BY DEF Policies
  <1>2. i \in Ids /\ table[i] # NoRow
    BY <1>1 DEF Stored
  <1>3. p \in Rows /\ Legal(p)
    BY <1>1, <1>2 DEF StoreTypeOK
  <1>4. Half \in Nat
    BY EvaluationAssumption
  <1> QED
    BY <1>3, <1>4 DEF Rows, I32

\* A policy that decides goes on deciding as the usage grows, and an Allow
\* decides at every usage.
LEMMA StillDecides ==
  ASSUME StoreTypeOK, NEW p \in Policies, NEW usage \in Int
  PROVE  /\ Decides(p, usage) => Decides(p, usage + 1)
         /\ ~Blocking(p) => Decides(p, usage)
  <1>1. p.limit \in Int
    BY PolicyType
  <1>2. CASE p.effect \in {"Allow", "Block"}
    BY <1>2 DEF Decides
  <1>3. CASE p.effect = "TimeLimit"
    BY <1>1, <1>3 DEF Decides, Blocking
  <1>4. CASE p.effect \notin {"Allow", "Block", "TimeLimit"}
    BY <1>4 DEF Decides, Blocking
  <1> QED
    BY <1>2, <1>3, <1>4

\* An Allow that ends the evaluation at the later usage was ready to end it
\* before; whatever came before it then still does.
LEMMA NoLateAllow ==
  ASSUME StoreTypeOK, NEW u, NEW app, NEW usage \in Int,
         NEW r \in Terminating(Policies, u, app, usage + 1), ~Blocking(r)
  PROVE  r \in Terminating(Policies, u, app, usage)
  <1>1. /\ r \in Policies /\ Matches(r, u, app)
        /\ \A q \in Policies : Matches(q, u, app) /\ Decides(q, usage + 1) => ~Before(q, r)
    BY DEF Terminating
  <1>2. Decides(r, usage)
    BY <1>1, StillDecides
  <1>3. \A q \in Policies : Matches(q, u, app) /\ Decides(q, usage) => ~Before(q, r)
    BY <1>1, StillDecides
  <1> QED
    BY <1>1, <1>2, <1>3 DEF Terminating

\* Evaluation is monotone in the usage: an app that every terminating policy
\* blocks stays blocked when it is used longer, for any mixture of limits,
\* blocks and exceptions in the table.
THEOREM UsageOnlyTightens == StoreSpec => []LimitsOnlyTighten
  <1>1. ASSUME StoreTypeOK, NEW u \in Uids, NEW app \in Apps, NEW usage \in 0 .. Half,
               \A p \in Terminating(Policies, u, app, usage) : Blocking(p),
               NEW r \in Terminating(Policies, u, app, usage + 1)
        PROVE  Blocking(r)
    <2>1. usage \in Int
      OBVIOUS
    <2> QED
      BY <1>1, <2>1, NoLateAllow
  <1>2. StoreTypeOK => LimitsOnlyTighten
    BY <1>1 DEF LimitsOnlyTighten
  <1> QED
    BY <1>2, StoreTypeCorrect, PTL

\* The enforcer's categories of an app (resolve_categories_for_app) are those its
\* usage is booked under (resolve_category_map), unless it has none at all: a
\* stored policy on a category reaches exactly the apps booked under it that have
\* a category, whether it is "uncategorized" or any other.
THEOREM CategoriesReach == StoreSpec => []CategoryPoliciesFollowTheCharts
  <1>1. ASSUME StoreTypeOK, NEW p \in Policies, NEW app \in Apps, p.target = "Category"
        PROVE  Matches(p, p.user, app)
               <=> /\ p.category \in BookedUnder(p.user, app)
                   /\ AppCategories[p.user][app] # {} \/ AppCategories[Root][app] # {}
    <2>1. CASE AppCategories[p.user][app] # {} \/ AppCategories[Root][app] # {}
      <3>1. BookedUnder(p.user, app) = CategoriesOf(p.user, app)
        BY <2>1 DEF BookedUnder, CategoriesOf
      <3> QED
        BY <1>1, <2>1, <3>1 DEF Matches
    <2>2. CASE AppCategories[p.user][app] = {} /\ AppCategories[Root][app] = {}
      <3>1. CategoriesOf(p.user, app) = {}
        BY <2>2 DEF CategoriesOf
      <3> QED
        BY <1>1, <2>2, <3>1 DEF Matches
    <2> QED
      BY <2>1, <2>2
  <1>2. StoreTypeOK => CategoryPoliciesFollowTheCharts
    BY <1>1 DEF CategoryPoliciesFollowTheCharts
  <1> QED
    BY <1>2, StoreTypeCorrect, PTL
=============================================================================
