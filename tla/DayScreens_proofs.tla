------------------------- MODULE DayScreens_proofs -------------------------
(***************************************************************************)
(* What the screens show agrees with the usage tables, for every table of  *)
(* events, every day and every set of users, windows and rows.             *)
(*                                                                         *)
(* The timeline and the meter read the same rows: after each row the       *)
(* blocks of the day hold what the meter has counted on the day, and the   *)
(* open block is the meter's focus (FoldIs).  Sorting and filling the gaps *)
(* keep that, the hours of the chart divide it, and the rankings add it up *)
(* in another order.                                                       *)
(***************************************************************************)
EXTENDS Calendar_proofs

-----------------------------------------------------------------------------
(* The two folds: the events of the timeline, the rows of the meter *)

After(metering, acc, e) == IF metering THEN Observed(acc, e) ELSE FoldEvent(acc, e)

\* The values a fold passes through.
Passes(metering, t, base, list) ==
    /\ t[0] = base
    /\ \A i \in 1 .. Len(list) : t[i] = After(metering, t[i - 1], list[i])

Folded(metering, g, base, list, s) ==
    IF s = {} THEN base ELSE After(metering, g[s \ {Max(s)}], list[Max(s)])
Folder(metering, g, base, list, n) ==
    g = [s \in SUBSET (1 .. n) |-> Folded(metering, g, base, list, s)]

\* The function by which the library defines a fold exists.
LEMMA FolderExists ==
    ASSUME NEW metering, NEW base, NEW list, NEW n \in Nat
    PROVE  \E g : Folder(metering, g, base, list, n)
<1> DEFINE P == {k \in Nat : \E g : Folder(metering, g, base, list, k)}
<1>1. 0 \in P
  <2> DEFINE g == [s \in SUBSET (1 .. 0) |-> base]
  <2>1. \A s \in SUBSET (1 .. 0) : s = {}
    OBVIOUS
  <2>2. g = [s \in SUBSET (1 .. 0) |-> Folded(metering, g, base, list, s)]
    BY <2>1 DEF Folded
  <2> QED
    BY <2>2 DEF Folder
<1>2. ASSUME NEW k \in Nat, k \in P PROVE k + 1 \in P
  <2>1. PICK g : Folder(metering, g, base, list, k)
    BY <1>2
  <2> DEFINE h == [s \in SUBSET (1 .. k + 1) |-> Folded(metering, g, base, list, s)]
  <2>2. ASSUME NEW s \in SUBSET (1 .. k + 1), s # {}
        PROVE  h[s \ {Max(s)}] = g[s \ {Max(s)}]
    <3>1. s \ {Max(s)} \in SUBSET (1 .. k) /\ s \ {Max(s)} \in SUBSET (1 .. k + 1)
      BY MaxOut
    <3> DEFINE r == s \ {Max(s)}
    <3> HIDE DEF r
    <3>2. g[r] = Folded(metering, g, base, list, r)
      BY <2>1, <3>1 DEF Folder, r
    <3>3. h[r] = Folded(metering, g, base, list, r)
      BY <3>1 DEF r
    <3> QED
      BY <3>2, <3>3 DEF r
  <2>3. \A s \in SUBSET (1 .. k + 1) : h[s] = Folded(metering, h, base, list, s)
    <3> TAKE s \in SUBSET (1 .. k + 1)
    <3>1. h[s] = Folded(metering, g, base, list, s)
      OBVIOUS
    <3> HIDE DEF h
    <3> QED
      BY <2>2, <3>1 DEF Folded
  <2>4. h = [s \in SUBSET (1 .. k + 1) |-> Folded(metering, h, base, list, s)]
    <3>1. h = [s \in SUBSET (1 .. k + 1) |-> h[s]]
      OBVIOUS
    <3> HIDE DEF h
    <3> QED
      BY <2>3, <3>1
  <2>5. \E f : Folder(metering, f, base, list, k + 1)
    <3> HIDE DEF h
    <3> QED
      BY <2>4 DEF Folder
  <2> QED
    BY <2>5
<1> HIDE DEF P
<1>3. 0 .. n \subseteq P
  BY <1>1, <1>2, Induction
<1> QED
  BY <1>3 DEF P

\* What the function of a fold says of the first elements
OnPrefixes(g, list) == [i \in 0 .. Len(list) |-> g[1 .. i]]

\* That function passes through the values of the fold, one element after the other.
LEMMA FolderPasses ==
    ASSUME NEW metering, NEW base, NEW list, Len(list) \in Nat, DOMAIN list = 1 .. Len(list),
           NEW g, Folder(metering, g, base, list, Len(list))
    PROVE  /\ Passes(metering, OnPrefixes(g, list), base, list)
           /\ g[DOMAIN list] = OnPrefixes(g, list)[Len(list)]
<1> DEFINE n == Len(list)
<1>1. n \in Nat /\ DOMAIN list = 1 .. n
  OBVIOUS
<1>3. Folder(metering, g, base, list, n)
  OBVIOUS
<1> DEFINE t == [i \in 0 .. n |-> g[1 .. i]]
<1>5. t[0] = base
  <2>1. 0 \in 0 .. n /\ 1 .. 0 = {} /\ {} \in SUBSET (1 .. n)
    BY <1>1
  <2> QED
    BY <1>3, <2>1 DEF Folder, Folded
<1>6. ASSUME NEW i \in 1 .. n PROVE t[i] = After(metering, t[i - 1], list[i])
  <2>1. /\ i \in 0 .. n /\ i - 1 \in 0 .. n /\ i - 1 \in Nat /\ (i - 1) + 1 = i
        /\ 1 .. i \in SUBSET (1 .. n) /\ i \in 1 .. i
    BY <1>1
  <2>2. Max(1 .. i) = i
    BY <2>1, MaxOut
  <2>3. (1 .. i) \ {i} = 1 .. i - 1 /\ 1 .. i # {}
    <3>1. \A y : y \in (1 .. i) \ {i} <=> y \in 1 .. i - 1
      BY <2>1
    <3> QED
      BY <2>1, <3>1
  <2>4. g[1 .. i] = After(metering, g[1 .. i - 1], list[i])
    BY <1>3, <2>1, <2>2, <2>3 DEF Folder, Folded
  <2> QED
    BY <2>1, <2>4
<1>7. t[n] = g[1 .. n]
  BY <1>1
<1> HIDE DEF t
<1>8. Passes(metering, t, base, list)
  BY <1>5, <1>6 DEF Passes
<1>9. t = OnPrefixes(g, list)
  BY DEF t, OnPrefixes
<1> QED
  BY <1>1, <1>7, <1>8, <1>9

\* The fold of the timeline (build_day_timeline) handles one event after the other.
LEMMA EventsPass ==
    ASSUME NEW base, NEW R, NEW list \in Seq(R)
    PROVE  \E t : Passes(FALSE, t, base, list) /\ FoldLeft(FoldEvent, base, list) = t[Len(list)]
<1> DEFINE n == Len(list)
           Body(g, s) == IF s = {} THEN base ELSE FoldEvent(g[s \ {Max(s)}], list[Max(s)])
           C == CHOOSE g : g = [s \in SUBSET DOMAIN list |-> Body(g, s)]
<1>1. n \in Nat /\ DOMAIN list = 1 .. n
  BY LenProperties
<1>2. FoldLeft(FoldEvent, base, list) = C[DOMAIN list]
  BY Zenon DEF FoldLeft, MapThenFoldSet
<1>3. \A g : (g = [s \in SUBSET DOMAIN list |-> Body(g, s)]) <=> Folder(FALSE, g, base, list, n)
  <2> TAKE g
  <2>1. \A s : Folded(FALSE, g, base, list, s) = Body(g, s)
    BY DEF Folded, After
  <2> HIDE DEF Body, n
  <2>2. [s \in SUBSET DOMAIN list |-> Body(g, s)]
        = [s \in SUBSET (1 .. n) |-> Folded(FALSE, g, base, list, s)]
    BY <1>1, <2>1
  <2> QED
    BY <2>2, Zenon DEF Folder
<1>4. C = [s \in SUBSET DOMAIN list |-> Body(C, s)]
  <2> HIDE DEF Body, n
  <2>1. PICK g : Folder(FALSE, g, base, list, n)
    BY <1>1, FolderExists
  <2>2. g = [s \in SUBSET DOMAIN list |-> Body(g, s)]
    BY <1>3, <2>1, Zenon
  <2> QED
    BY <2>2, Zenon
<1>5. Folder(FALSE, C, base, list, n)
  <2> HIDE DEF C
  <2> QED
    BY <1>3, <1>4
<1> HIDE DEF C
<1>6. \E t : Passes(FALSE, t, base, list) /\ C[DOMAIN list] = t[n]
  <2>1. PICK g : g = C /\ Folder(FALSE, g, base, list, Len(list))
    BY <1>5
  <2>2. Len(list) \in Nat /\ DOMAIN list = 1 .. Len(list)
    BY <1>1
  <2> HIDE DEF n
  <2>3. PICK t : Passes(FALSE, t, base, list) /\ g[DOMAIN list] = t[Len(list)]
    <3>1. /\ Passes(FALSE, OnPrefixes(g, list), base, list)
          /\ g[DOMAIN list] = OnPrefixes(g, list)[Len(list)]
      BY <2>1, <2>2, FolderPasses
    <3> QED
      BY <3>1
  <2> QED
    BY <2>1, <2>3 DEF n
<1> QED
  BY <1>2, <1>6

\* The fold of the meter handles one row after the other.
LEMMA RowsPass ==
    ASSUME NEW base, NEW R, NEW list \in Seq(R)
    PROVE  \E t : Passes(TRUE, t, base, list) /\ FoldLeft(Observed, base, list) = t[Len(list)]
<1> DEFINE n == Len(list)
           Body(g, s) == IF s = {} THEN base ELSE Observed(g[s \ {Max(s)}], list[Max(s)])
           C == CHOOSE g : g = [s \in SUBSET DOMAIN list |-> Body(g, s)]
<1>1. n \in Nat /\ DOMAIN list = 1 .. n
  BY LenProperties
<1>2. FoldLeft(Observed, base, list) = C[DOMAIN list]
  BY Zenon DEF FoldLeft, MapThenFoldSet
<1>3. \A g : (g = [s \in SUBSET DOMAIN list |-> Body(g, s)]) <=> Folder(TRUE, g, base, list, n)
  <2> TAKE g
  <2>1. \A s : Folded(TRUE, g, base, list, s) = Body(g, s)
    BY DEF Folded, After
  <2> HIDE DEF Body, n
  <2>2. [s \in SUBSET DOMAIN list |-> Body(g, s)]
        = [s \in SUBSET (1 .. n) |-> Folded(TRUE, g, base, list, s)]
    BY <1>1, <2>1
  <2> QED
    BY <2>2, Zenon DEF Folder
<1>4. C = [s \in SUBSET DOMAIN list |-> Body(C, s)]
  <2> HIDE DEF Body, n
  <2>1. PICK g : Folder(TRUE, g, base, list, n)
    BY <1>1, FolderExists
  <2>2. g = [s \in SUBSET DOMAIN list |-> Body(g, s)]
    BY <1>3, <2>1, Zenon
  <2> QED
    BY <2>2, Zenon
<1>5. Folder(TRUE, C, base, list, n)
  <2> HIDE DEF C
  <2> QED
    BY <1>3, <1>4
<1> HIDE DEF C
<1>6. \E t : Passes(TRUE, t, base, list) /\ C[DOMAIN list] = t[n]
  <2>1. PICK g : g = C /\ Folder(TRUE, g, base, list, Len(list))
    BY <1>5
  <2>2. Len(list) \in Nat /\ DOMAIN list = 1 .. Len(list)
    BY <1>1
  <2> HIDE DEF n
  <2>3. PICK t : Passes(TRUE, t, base, list) /\ g[DOMAIN list] = t[Len(list)]
    <3>1. /\ Passes(TRUE, OnPrefixes(g, list), base, list)
          /\ g[DOMAIN list] = OnPrefixes(g, list)[Len(list)]
      BY <2>1, <2>2, FolderPasses
    <3> QED
      BY <3>1
  <2> QED
    BY <2>1, <2>3 DEF n
<1> QED
  BY <1>2, <1>6

-----------------------------------------------------------------------------
(* Sorting: the stable sort of the timeline, the chart and the rankings *)

\* There are n numbers from 1 to n.
LEMMA IntervalCount == ASSUME NEW n \in Nat PROVE IsFiniteSet(1 .. n) /\ Cardinality(1 .. n) = n
  BY FS_Interval

\* The stable sort (sort_by_key) leaves a list alone that is in order.
LEMMA StablyKeeps ==
    ASSUME NEW R, NEW list \in Seq(R), NEW key, \A i \in DOMAIN list : key[i] \in Int,
           \A i, j \in DOMAIN list : i < j => key[i] <= key[j]
    PROVE  Stably(list, key) = list
<1> DEFINE n == Len(list)
           before(i) == {j \in DOMAIN list : key[j] < key[i] \/ (key[j] = key[i] /\ j < i)}
           at(m) == CHOOSE i \in DOMAIN list : Cardinality(before(i)) = m - 1
<1>1. n \in Nat /\ DOMAIN list = 1 .. n /\ list = [i \in 1 .. n |-> list[i]]
  BY LenProperties
<1>2. ASSUME NEW i \in 1 .. n PROVE Cardinality(before(i)) = i - 1
  <2>1. i - 1 \in Nat
    OBVIOUS
  <2>2. ASSUME NEW j \in 1 .. n PROVE j \in before(i) <=> j < i
    <3>1. /\ j \in DOMAIN list /\ i \in DOMAIN list /\ j \in Int /\ i \in Int
          /\ key[i] \in Int /\ key[j] \in Int
          /\ (j < i => key[j] <= key[i]) /\ (i < j => key[i] <= key[j])
      BY <1>1
    <3> QED
      BY <3>1
  <2>3. before(i) = 1 .. i - 1
    <3>1. \A j : j \in 1 .. i - 1 <=> j \in 1 .. n /\ j < i
      BY <1>1
    <3>2. \A j : j \in before(i) => j \in 1 .. n
      BY <1>1
    <3> HIDE DEF before
    <3> QED
      BY <2>2, <3>1, <3>2
  <2> HIDE DEF before
  <2> QED
    BY <2>1, <2>3, IntervalCount
<1> HIDE DEF before
<1>3. ASSUME NEW m \in 1 .. n PROVE at(m) = m
  <2>1. m \in DOMAIN list /\ Cardinality(before(m)) = m - 1
    BY <1>1, <1>2
  <2>2. at(m) \in DOMAIN list /\ Cardinality(before(at(m))) = m - 1
    BY <2>1
  <2> HIDE DEF at
  <2>3. at(m) \in 1 .. n /\ at(m) - 1 = m - 1
    BY <1>1, <1>2, <2>2
  <2> QED
    BY <2>3
<1>4. Stably(list, key) = [m \in DOMAIN list |-> list[at(m)]]
  BY Zenon DEF Stably, before
<1> HIDE DEF at
<1>5. [m \in DOMAIN list |-> list[at(m)]] = [m \in DOMAIN list |-> list[m]]
  BY <1>1, <1>3
<1> QED
  BY <1>1, <1>4, <1>5

\* The stable sort loses and repeats nothing.
LEMMA StablyPermutes ==
    ASSUME NEW R, NEW list \in Seq(R), NEW key, \A i \in DOMAIN list : key[i] \in Int
    PROVE  \E b : Lists(b, 1 .. Len(list), 1 .. Len(list))
                  /\ Stably(list, key) = [m \in DOMAIN list |-> list[b[m]]]
<1> DEFINE n == Len(list)
           Comes(j, i) == key[j] < key[i] \/ (key[j] = key[i] /\ j < i)
           before(i) == {j \in DOMAIN list : Comes(j, i)}
           at(m) == CHOOSE i \in DOMAIN list : Cardinality(before(i)) = m - 1
           rank == [i \in 1 .. n |-> Cardinality(before(i)) + 1]
           b == [m \in 1 .. n |-> at(m)]
<1>1. n \in Nat /\ DOMAIN list = 1 .. n
  BY LenProperties
<1>2. /\ \A i, j \in 1 .. n : i = j \/ Comes(i, j) \/ Comes(j, i)
      /\ \A i \in 1 .. n : ~Comes(i, i)
      /\ \A i, j, k \in 1 .. n : Comes(i, j) /\ Comes(j, k) => Comes(i, k)
  <2>1. \A i \in 1 .. n : key[i] \in Int /\ i \in Int
    BY <1>1
  <2> QED
    BY <2>1
<1>3. Stably(list, key) = [m \in DOMAIN list |-> list[at(m)]]
  BY Zenon DEF Stably
<1> HIDE DEF Comes
<1>4. ASSUME NEW i \in 1 .. n
      PROVE  IsFiniteSet(before(i)) /\ Cardinality(before(i)) \in 0 .. n - 1
  <2>1. before(i) \subseteq 1 .. n /\ i \notin before(i) /\ before(i) \cup {i} \subseteq 1 .. n
    BY <1>1, <1>2
  <2> HIDE DEF before
  <2>2. IsFiniteSet(before(i)) /\ Cardinality(before(i)) \in Nat
    BY <1>1, <2>1, IntervalCount, FS_Subset, FS_CardinalityType
  <2>3. Cardinality(before(i) \cup {i}) = Cardinality(before(i)) + 1
    BY <2>1, <2>2, FS_AddElement
  <2>4. Cardinality(before(i) \cup {i}) <= n
    BY <1>1, <2>1, IntervalCount, FS_Subset
  <2> QED
    BY <1>1, <2>2, <2>3, <2>4
<1>5. ASSUME NEW i \in 1 .. n, NEW j \in 1 .. n, Comes(i, j)
      PROVE  Cardinality(before(i)) < Cardinality(before(j))
  <2>1. before(i) \cup {i} \subseteq before(j) /\ i \notin before(i)
    BY <1>1, <1>2, <1>5
  <2>2. /\ IsFiniteSet(before(i)) /\ Cardinality(before(i)) \in Nat
        /\ IsFiniteSet(before(j)) /\ Cardinality(before(j)) \in Nat
    <3> HIDE DEF before
    <3> QED
      BY <1>1, <1>4
  <2> HIDE DEF before
  <2>3. Cardinality(before(i) \cup {i}) = Cardinality(before(i)) + 1
    BY <2>1, <2>2, FS_AddElement
  <2>4. Cardinality(before(i) \cup {i}) <= Cardinality(before(j))
    BY <2>1, <2>2, FS_Subset
  <2> QED
    BY <2>2, <2>3, <2>4
<1> HIDE DEF before
<1>6. rank \in [1 .. n -> 1 .. n]
  <2>1. ASSUME NEW i \in 1 .. n PROVE Cardinality(before(i)) + 1 \in 1 .. n
    BY <1>1, <1>4
  <2> QED
    BY <2>1
<1>7. ASSUME NEW i \in 1 .. n, NEW j \in 1 .. n, rank[i] = rank[j] PROVE i = j
  <2>1. Cardinality(before(i)) \in Int /\ Cardinality(before(j)) \in Int
    BY <1>1, <1>4
  <2>2. Cardinality(before(i)) = Cardinality(before(j))
    BY <1>7, <2>1
  <2>3. ~Comes(i, j) /\ ~Comes(j, i)
    BY <1>5, <2>1, <2>2
  <2> QED
    BY <1>2, <2>3
<1>8. \A m \in 1 .. n : \E i \in 1 .. n : rank[i] = m
  <2>1. rank \in Injection(1 .. n, 1 .. n)
    <3> HIDE DEF rank
    <3> QED
      BY <1>6, <1>7 DEF Injection, IsInjective
  <2> HIDE DEF rank
  <2>2. rank \in Surjection(1 .. n, 1 .. n)
    BY <1>1, <2>1, IntervalCount, FS_Injection
  <2> QED
    BY <2>2 DEF Surjection
<1>9. ASSUME NEW m \in 1 .. n PROVE at(m) \in 1 .. n /\ rank[at(m)] = m
  <2>1. PICK i \in 1 .. n : rank[i] = m
    BY <1>8
  <2>2. Cardinality(before(i)) = m - 1
    <3>1. rank[i] = Cardinality(before(i)) + 1 /\ Cardinality(before(i)) \in Int /\ m \in Int
      BY <1>1, <1>4
    <3> HIDE DEF rank, at
    <3> QED
      BY <2>1, <3>1
  <2>3. at(m) \in 1 .. n /\ Cardinality(before(at(m))) = m - 1
    BY <1>1, <2>2
  <2> HIDE DEF at
  <2> QED
    BY <1>1, <2>3
<1> HIDE DEF at, rank
<1>10. b \in [1 .. n -> 1 .. n] /\ \A m \in 1 .. n : b[m] = at(m)
  BY <1>9
<1> HIDE DEF b
<1>11. \A x, y \in 1 .. n : b[x] = b[y] => x = y
  BY <1>9, <1>10
<1>12. ASSUME NEW z \in 1 .. n PROVE \E x \in 1 .. n : b[x] = z
  <2>1. rank[z] \in 1 .. n /\ rank[b[rank[z]]] = rank[z] /\ b[rank[z]] \in 1 .. n
    BY <1>6, <1>9, <1>10
  <2>2. b[rank[z]] = z
    BY <1>7, <2>1
  <2> QED
    BY <2>1, <2>2
<1>13. Lists(b, 1 .. n, 1 .. n)
  BY <1>10, <1>11, <1>12 DEF Lists
<1>14. Stably(list, key) = [m \in DOMAIN list |-> list[b[m]]]
  BY <1>1, <1>3, <1>10
<1> QED
  BY <1>13, <1>14

\* An enumeration of a finite set.
LEMMA SetToSeqIs ==
    ASSUME NEW S, IsFiniteSet(S)
    PROVE  /\ Cardinality(S) \in Nat
           /\ Lists(SetToSeq(S), 1 .. Cardinality(S), S)
<1> DEFINE n == Cardinality(S)
           q == SetToSeq(S)
<1>1. n \in Nat /\ ExistsBijection(1 .. n, S)
  BY FS_CardinalityType
<1>2. PICK f \in [1 .. n -> S] : IsInjective(f)
  BY <1>1 DEF ExistsBijection, Bijection, Injection
<1>3. q \in [1 .. n -> S] /\ IsInjective(q)
  BY <1>2, Zenon DEF SetToSeq
<1> HIDE DEF q
<1>4. q \in Injection(1 .. n, S)
  BY <1>3 DEF Injection
<1>5. q \in Surjection(1 .. n, S)
  BY <1>1, <1>4, IntervalCount, FS_Injection
<1>6. \A x, y \in 1 .. n : q[x] = q[y] => x = y
  BY <1>3 DEF IsInjective
<1>7. \A z \in S : \E x \in 1 .. n : q[x] = z
  BY <1>5 DEF Surjection
<1>8. Lists(q, 1 .. n, S)
  BY <1>3, <1>6, <1>7 DEF Lists
<1> QED
  BY <1>1, <1>8 DEF q

-----------------------------------------------------------------------------
(* The summary of one usage table *)

\* The use of a row over some days is a natural number.
LEMMA UsedType ==
    ASSUME NEW usage, NEW days, IsFiniteSet(days), NEW r, \A d \in days : usage[d][r] \in Nat
    PROVE  Used(usage, days, r) \in Nat
<1>1. [d \in days |-> usage[d][r]] \in [days -> Nat]
  OBVIOUS
<1> QED
  BY <1>1, SumType DEF Used

\* Sorted, a list is still one.
LEMMA StablyLists ==
    ASSUME NEW n \in Nat, NEW S, NEW q, Lists(q, 1 .. n, S), NEW key, \A i \in 1 .. n : key[i] \in Int
    PROVE  Lists(Stably(q, key), 1 .. n, S)
<1>1. q \in Seq(S) /\ Len(q) = n /\ DOMAIN q = 1 .. n
  <2>1. q \in [1 .. n -> S]
    BY DEF Lists
  <2> QED
    BY <2>1, IsASeq, LenProperties
<1>2. PICK b : Lists(b, 1 .. n, 1 .. n) /\ Stably(q, key) = [m \in 1 .. n |-> q[b[m]]]
  <2>1. PICK list \in Seq(S) : list = q
    BY <1>1
  <2>2. \A i \in DOMAIN list : key[i] \in Int
    BY <1>1, <2>1
  <2>3. \E b : Lists(b, 1 .. Len(list), 1 .. Len(list))
              /\ Stably(list, key) = [m \in DOMAIN list |-> list[b[m]]]
    BY <2>2, StablyPermutes
  <2> QED
    BY <1>1, <2>1, <2>3
<1>3. PICK rank : rank = [m \in 1 .. n |-> q[b[m]]]
  OBVIOUS
<1>4. b \in [1 .. n -> 1 .. n] /\ \A x, y \in 1 .. n : b[x] = b[y] => x = y
  BY <1>2 DEF Lists
<1>5. rank \in [1 .. n -> S]
  <2>1. \A m \in 1 .. n : q[b[m]] \in S
    BY <1>4 DEF Lists
  <2> QED
    BY <1>3, <2>1
<1>6. ASSUME NEW x \in 1 .. n, NEW y \in 1 .. n, rank[x] = rank[y] PROVE x = y
  <2>1. b[x] \in 1 .. n /\ b[y] \in 1 .. n /\ q[b[x]] = q[b[y]]
    BY <1>3, <1>4, <1>6
  <2>2. b[x] = b[y]
    BY <2>1 DEF Lists
  <2> QED
    BY <1>4, <2>2
<1>7. ASSUME NEW z \in S PROVE \E x \in 1 .. n : rank[x] = z
  <2>1. PICK y \in 1 .. n : q[y] = z
    BY DEF Lists
  <2>2. PICK x \in 1 .. n : b[x] = y
    BY <1>2 DEF Lists
  <2> QED
    BY <1>3, <2>1, <2>2
<1> QED
  <2>1. Lists(rank, 1 .. n, S)
    BY <1>5, <1>6, <1>7 DEF Lists
  <2> QED
    BY <1>2, <1>3, <2>1

\* A summary lists the rows that were used, each once, with its total.
Found(rows, total) == {r \in rows : total[r] > 0}
SummaryLists(summary, rows, total) ==
    \E n \in Nat : \E rank :
        /\ Lists(rank, 1 .. n, Found(rows, total))
        /\ summary = [i \in 1 .. n |-> [row |-> rank[i], millis |-> total[rank[i]]]]

\* A summary lists every row that was used once, with its use.
LEMMA SummaryIs ==
    ASSUME NEW rows, IsFiniteSet(rows), NEW usage, NEW first \in Int, NEW last \in Int,
           \A d \in first .. last, r \in rows : usage[d][r] \in Nat
    PROVE  LET total == [r \in rows |-> Used(usage, first .. last, r)]
           IN  /\ total \in [rows -> Nat]
               /\ SummaryLists(Summary(rows, usage, first, last), rows, total)
<1> DEFINE total == [r \in rows |-> Used(usage, first .. last, r)]
           found == {r \in rows : total[r] > 0}
           q     == SetToSeq(found)
           key   == [i \in DOMAIN q |-> -total[q[i]]]
           rank  == Stably(q, key)
<1>1. total \in [rows -> Nat]
  <2>1. IsFiniteSet(first .. last)
    BY FS_Interval
  <2>2. \A r \in rows : Used(usage, first .. last, r) \in Nat
    BY <2>1, UsedType
  <2> QED
    BY <2>2
<1>2. Summary(rows, usage, first, last) =
        [i \in DOMAIN q |-> [row |-> rank[i], millis |-> total[rank[i]]]]
  BY Zenon DEF Summary
<1> HIDE DEF total
<1>3. found \in SUBSET rows /\ found = Found(rows, total)
  BY Zenon DEF Found
<1> HIDE DEF found
<1>4. IsFiniteSet(found)
  BY <1>3, FS_Subset
<1>5. PICK n \in Nat : n = Cardinality(found)
  BY <1>4, FS_CardinalityType
<1>6. Lists(q, 1 .. n, found)
  BY <1>4, <1>5, SetToSeqIs
<1> HIDE DEF q
<1>7. DOMAIN q = 1 .. n
  BY <1>6 DEF Lists
<1>8. \A i \in 1 .. n : key[i] \in Int
  <2> TAKE i \in 1 .. n
  <2>1. q[i] \in rows
    BY <1>3, <1>6 DEF Lists
  <2>2. total[q[i]] \in Int
    BY <1>1, <2>1
  <2>3. key[i] = -total[q[i]]
    BY <1>7
  <2> HIDE DEF key
  <2> QED
    BY <2>2, <2>3
<1> HIDE DEF key
<1>9. Lists(rank, 1 .. n, found)
  BY <1>6, <1>8, StablyLists
<1> HIDE DEF rank
<1>10. Summary(rows, usage, first, last) =
         [i \in 1 .. n |-> [row |-> rank[i], millis |-> total[rank[i]]]]
  BY <1>2, <1>7
<1>11. Lists(rank, 1 .. n, Found(rows, total))
  BY <1>3, <1>9
<1>12. SummaryLists(Summary(rows, usage, first, last), rows, total)
  BY <1>10, <1>11, Zenon DEF SummaryLists
<1> QED
  BY <1>1, <1>12 DEF total

\* Its total is that of all rows.
LEMMA SummaryTotal ==
    ASSUME NEW rows, IsFiniteSet(rows), NEW total \in [rows -> Nat],
           NEW summary, SummaryLists(summary, rows, total)
    PROVE  Millis(summary) = SumFunction(total)
<1>7. PICK n \in Nat : \E rank :
        /\ Lists(rank, 1 .. n, Found(rows, total))
        /\ summary = [i \in 1 .. n |-> [row |-> rank[i], millis |-> total[rank[i]]]]
  BY DEF SummaryLists
<1>9. PICK rank :
        /\ Lists(rank, 1 .. n, Found(rows, total))
        /\ summary = [i \in 1 .. n |-> [row |-> rank[i], millis |-> total[rank[i]]]]
  BY <1>7
<1>8. PICK found \in SUBSET rows : found = Found(rows, total)
  BY DEF Found
<1>1. /\ Lists(rank, 1 .. n, found)
      /\ summary = [i \in 1 .. n |-> [row |-> rank[i], millis |-> total[rank[i]]]]
  BY <1>8, <1>9
<1>2. PICK g \in [found -> Nat] : g = [r \in found |-> total[r]]
  <2>1. [r \in found |-> total[r]] \in [found -> Nat]
    OBVIOUS
  <2> QED
    BY <2>1
<1>3. /\ rank \in [1 .. n -> found]
      /\ \A x, y \in 1 .. n : rank[x] = rank[y] => x = y
      /\ \A z \in found : \E x \in 1 .. n : rank[x] = z
  BY <1>1 DEF Lists
<1>4. Millis(summary) = SumFunction([i \in 1 .. n |-> g[rank[i]]])
  <2>1. DOMAIN summary = 1 .. n /\ \A i \in 1 .. n : summary[i].millis = total[rank[i]]
    BY <1>1
  <2>2. \A i \in 1 .. n : g[rank[i]] = total[rank[i]]
    BY <1>2, <1>3
  <2>3. [i \in DOMAIN summary |-> summary[i].millis] = [i \in 1 .. n |-> g[rank[i]]]
    BY <2>1, <2>2
  <2> QED
    BY <2>3 DEF Millis
<1>5. SumFunction([i \in 1 .. n |-> g[rank[i]]]) = SumFunction(g)
  <2>1. IsFiniteSet(1 .. n)
    BY FS_Interval
  <2>2. Lists(rank, 1 .. n, found)
    BY <1>1
  <2> QED
    BY <2>1, <2>2, SumMoves
<1>6. SumFunction(total) = SumFunction([x \in found |-> total[x]])
  <2>1. \A x \in rows \ found : total[x] = 0
    <3>1. \A x \in rows : total[x] \in Nat
      OBVIOUS
    <3> QED
      BY <1>8, <3>1 DEF Found
  <2> QED
    BY <2>1, SumWithin
<1> QED
  BY <1>2, <1>4, <1>5, <1>6

-----------------------------------------------------------------------------
(* The table of events *)

AsFocus == [win : Windows, ts : Nat]

\* Rows in the order of their times, none later than t.
Table(rows, t) ==
    /\ rows \in Seq(EventRow)
    /\ \A i \in DOMAIN rows : /\ rows[i].ts <= t
                              /\ rows[i].type \in Windowed => rows[i].win \in Windows
    /\ \A i, j \in DOMAIN rows : i < j => rows[i].ts <= rows[j].ts

\* What a table of events is made of.
LEMMA TableIs ==
    ASSUME NEW rows, NEW t, Table(rows, t)
    PROVE  /\ rows \in Seq(EventRow) /\ Len(rows) \in Nat /\ DOMAIN rows = 1 .. Len(rows)
           /\ \A i \in 1 .. Len(rows) :
                  /\ rows[i] \in EventRow /\ rows[i].ts \in Nat /\ rows[i].ts <= t
                  /\ rows[i].type \in Windowed => rows[i].win \in Windows
           /\ \A i, j \in 1 .. Len(rows) : i <= j => rows[i].ts <= rows[j].ts
<1>1. rows \in Seq(EventRow) /\ Len(rows) \in Nat /\ DOMAIN rows = 1 .. Len(rows)
  BY LenProperties DEF Table
<1>2. \A i \in 1 .. Len(rows) :
         /\ rows[i] \in EventRow /\ rows[i].ts <= t
         /\ rows[i].type \in Windowed => rows[i].win \in Windows
  BY <1>1, ElementOfSeq DEF Table
<1>3. \A i \in 1 .. Len(rows) : rows[i].ts \in Nat
  BY <1>2 DEF EventRow
<1>4. \A i, j \in 1 .. Len(rows) : i <= j => rows[i].ts <= rows[j].ts
  <2> TAKE i, j \in 1 .. Len(rows)
  <2>1. i < j => rows[i].ts <= rows[j].ts
    BY <1>1 DEF Table
  <2>2. rows[i].ts \in Nat /\ rows[j].ts \in Nat /\ i \in Int /\ j \in Int
    BY <1>1, <1>3
  <2> QED
    BY <2>1, <2>2
<1> QED
  BY <1>1, <1>2, <1>3, <1>4

\* The rows before a time are the first ones.
Before(rows, t) == Cardinality({i \in DOMAIN rows : rows[i].ts < t})

\* The rows before a time are those at the places up to Before.
LEMMA BeforeIs ==
    ASSUME NEW rows, NEW t, Table(rows, t), NEW s \in Int
    PROVE  /\ Before(rows, s) \in 0 .. Len(rows)
           /\ \A i \in 1 .. Len(rows) : rows[i].ts < s <=> i <= Before(rows, s)
<1> DEFINE n == Len(rows)
           B == {i \in DOMAIN rows : rows[i].ts < s}
           C == {j \in Nat : j + 1 \notin B}
<1>1. /\ n \in Nat /\ DOMAIN rows = 1 .. n /\ \A i \in 1 .. n : rows[i].ts \in Nat
      /\ \A i, j \in 1 .. n : i <= j => rows[i].ts <= rows[j].ts
  BY TableIs
<1> HIDE DEF n
<1>2. \A i \in 1 .. n : i \in B <=> rows[i].ts < s
  BY <1>1
<1>3. B \subseteq 1 .. n
  BY <1>1
<1> HIDE DEF B
<1>4. n \in C
  BY <1>1, <1>3
<1>5. PICK k \in C : \A m \in C : k <= m
  <2>1. C \in SUBSET Nat /\ C # {}
    BY <1>4
  <2> HIDE DEF C
  <2> QED
    BY <2>1, LeastNatural
<1>6. k \in 0 .. n /\ k + 1 \notin B
  BY <1>1, <1>4, <1>5
<1>7. ASSUME NEW i \in 1 .. n, i <= k PROVE i \in B
  <2>1. i - 1 \in Nat /\ i - 1 < k /\ (i - 1) + 1 = i
    BY <1>1, <1>6, <1>7
  <2>2. i - 1 \notin C
    <3> HIDE DEF C
    <3> QED
      BY <1>5, <1>6, <2>1
  <2> QED
    BY <2>1, <2>2
<1>8. ASSUME NEW i \in 1 .. n, i > k PROVE i \notin B
  <2>1. k + 1 \in 1 .. n /\ k + 1 <= i
    BY <1>1, <1>6, <1>8
  <2>2. rows[k + 1].ts \in Nat /\ rows[i].ts \in Nat /\ rows[k + 1].ts <= rows[i].ts
    BY <1>1, <2>1
  <2>3. ~(rows[k + 1].ts < s)
    BY <1>2, <1>6, <2>1
  <2>4. ~(rows[i].ts < s)
    BY <2>2, <2>3
  <2> QED
    BY <1>2, <2>4
<1>9. \A i \in 1 .. n : i \in B <=> i <= k
  BY <1>1, <1>6, <1>7, <1>8
<1>10. B = 1 .. k
  <2>1. \A i : i \in 1 .. k => i \in 1 .. n
    BY <1>1, <1>6
  <2>2. \A i : i \in 1 .. n /\ i <= k <=> i \in 1 .. k
    BY <1>1, <1>6
  <2> QED
    BY <1>3, <1>9, <2>1, <2>2
<1>11. Cardinality(B) = k
  BY <1>6, <1>10, IntervalCount
<1>12. Before(rows, s) = k
  BY <1>11 DEF Before, B
<1> QED
  BY <1>2, <1>6, <1>9, <1>12 DEF n

\* There are more rows before a later time, none before 0, and all are before the future.
LEMMA BeforeGrows ==
    ASSUME NEW rows, NEW t \in Int, Table(rows, t), NEW a \in Int, NEW b \in Int, a <= b
    PROVE  /\ Before(rows, a) <= Before(rows, b)
           /\ a <= 0 => Before(rows, a) = 0
           /\ t < b => Before(rows, b) = Len(rows)
<1> DEFINE n == Len(rows)
           k == Before(rows, a)
           m == Before(rows, b)
<1>1. /\ n \in Nat /\ \A i \in 1 .. n : rows[i].ts \in Nat /\ rows[i].ts <= t
      /\ k \in 0 .. n /\ \A i \in 1 .. n : rows[i].ts < a <=> i <= k
      /\ m \in 0 .. n /\ \A i \in 1 .. n : rows[i].ts < b <=> i <= m
  BY TableIs, BeforeIs
<1> HIDE DEF n, k, m
<1>2. k <= m
  <2>1. CASE k = 0
    BY <1>1, <2>1
  <2>2. CASE k > 0
    <3>1. k \in 1 .. n
      BY <1>1, <2>2
    <3>2. rows[k].ts < a /\ rows[k].ts \in Nat
      BY <1>1, <3>1
    <3>3. rows[k].ts < b
      BY <3>2
    <3> QED
      BY <1>1, <3>1, <3>3
  <2> QED
    BY <1>1, <2>1, <2>2
<1>3. ASSUME a <= 0 PROVE k = 0
  <2> SUFFICES ASSUME k > 0 PROVE FALSE
    BY <1>1
  <2>1. k \in 1 .. n
    BY <1>1
  <2>2. rows[k].ts < a /\ rows[k].ts \in Nat
    BY <1>1, <2>1
  <2> QED
    BY <1>3, <2>2
<1>4. ASSUME t < b PROVE m = n
  <2> SUFFICES ASSUME n > 0 PROVE m = n
    BY <1>1
  <2>1. n \in 1 .. n
    BY <1>1
  <2>2. rows[n].ts <= t /\ rows[n].ts \in Nat
    BY <1>1, <2>1
  <2>3. n <= m
    <3>1. rows[n].ts < b => n <= m
      BY <1>1, <2>1
    <3> QED
      BY <1>4, <2>2, <3>1
  <2> QED
    BY <1>1, <2>3
<1> QED
  BY <1>2, <1>3, <1>4 DEF n, k, m

\* get_day_events reads the rows between two places of the table.
LEMMA DayEventsAre ==
    ASSUME NEW rows, NEW start, NEW end
    PROVE  DayEvents(rows, start, end) = SubSeq(rows, Before(rows, start) + 1, Before(rows, end))
  BY Zenon DEF DayEvents, Before

\* Part of a table.
LEMMA PartOf ==
    ASSUME NEW rows, NEW t, Table(rows, t), NEW k \in 0 .. Len(rows),
           NEW m \in 0 .. Len(rows), k <= m
    PROVE  /\ SubSeq(rows, k + 1, m) \in Seq(EventRow)
           /\ Len(SubSeq(rows, k + 1, m)) = m - k
           /\ \A i \in 1 .. m - k : SubSeq(rows, k + 1, m)[i] = rows[k + i]
<1>1. Len(rows) \in Nat /\ rows \in Seq(EventRow)
  BY TableIs
<1>2. k + 1 \in Int /\ m \in Int /\ \A i \in k + 1 .. m : rows[i] \in EventRow
  BY <1>1, TableIs
<1>3. /\ SubSeq(rows, k + 1, m) \in Seq(EventRow)
      /\ Len(SubSeq(rows, k + 1, m)) = IF k + 1 <= m THEN m - (k + 1) + 1 ELSE 0
      /\ \A i \in 1 .. m - (k + 1) + 1 : SubSeq(rows, k + 1, m)[i] = rows[(k + 1) + i - 1]
  BY <1>2, SubSeqProperties
<1>4. m - (k + 1) + 1 = m - k /\ \A i \in 1 .. m - k : (k + 1) + i - 1 = k + i
  BY <1>1
<1> QED
  BY <1>1, <1>3, <1>4

\* What the proofs use of the assumption on the constants.
LEMMA Assumed ==
    /\ Viewer \in Users /\ IsFiniteSet(Keys)
    /\ AppRows \subseteq Keys /\ TitleRows \subseteq Keys /\ CategoryRows \subseteq Keys
    /\ KeysOf \in [Windows -> SUBSET Keys]
    /\ NoFocus \notin Nat /\ NoFocus \notin AsFocus
    /\ Unread \notin AsFocus /\ Unread # NoFocus /\ Unread \notin Seq(EventRow)
    /\ Kinds \subseteq EventType
    /\ MaxTime \in Nat
  BY ScreensAssumption DEF AsFocus

\* A row of the table, or the one that ends an open focus at a given time.
AnyRow == [uid : {Viewer}, type : EventType, win : Windows \cup {NoWindow}, ts : Nat]
Readable(e) == e \in AnyRow /\ (e.type = "Focus" => e.win \in Windows)

\* The meter can read every row of a table.
LEMMA RowsReadable ==
    ASSUME NEW rows, NEW t, Table(rows, t), NEW i \in 1 .. Len(rows)
    PROVE  Readable(rows[i])
<1>1. rows[i] \in EventRow /\ (rows[i].type \in Windowed => rows[i].win \in Windows)
  BY TableIs
<1>2. rows[i] \in AnyRow
  BY <1>1, Assumed DEF EventRow, AnyRow
<1>3. "Focus" \in Windowed
  BY DEF Windowed
<1> QED
  BY <1>1, <1>2, <1>3 DEF Readable

EndRow(t) == [uid |-> Viewer, type |-> "Unfocus", win |-> NoWindow, ts |-> t]

\* The meter can read the event that ends the measurement at t.
LEMMA EndReadable ==
    ASSUME NEW t \in Nat
    PROVE  Readable(EndRow(t)) /\ EndRow(t).type \notin Ignored /\ EndRow(t).ts = t
           /\ EndRow(t).type # "Focus"
  BY DEF Readable, EndRow, AnyRow, EventType, Ignored

-----------------------------------------------------------------------------
(* The meter of the viewer *)

Cur(m) == m.cur[Viewer]
MeterType(m) ==
    /\ m.cur \in [Users -> AsFocus \cup {NoFocus}]
    /\ m.spent \in [Users -> [Keys -> [Days -> Nat]]]

\* Rows of which a window has at most one, and what the meter counts on them.
Single(A) == A \subseteq Keys /\ \A w \in Windows : \A x, y \in KeysOf[w] \cap A : x = y
Meets(w, A) == KeysOf[w] \cap A # {}
Spent(A, m, d) == SumFunction([r \in A |-> m.spent[Viewer][r][d]])

\* What an interval has of a day is a natural number.
LEMMA OverlapType ==
    ASSUME NEW a \in Nat, NEW b \in Nat, NEW d \in Nat
    PROVE  Overlap(a, b, d) \in Nat
<1>1. DayStart(d) \in Int /\ DayStart(d + 1) \in Int
  BY Midnights
<1> QED
  BY <1>1 DEF Overlap

\* The meter begins with no focus and no time.
LEMMA ZeroIs ==
    /\ MeterType(Zero) /\ Cur(Zero) = NoFocus
    /\ \A A \in SUBSET Keys, d \in Days : Spent(A, Zero, d) = 0
<1>1. MeterType(Zero) /\ Cur(Zero) = NoFocus
  BY Assumed DEF MeterType, Cur, Zero
<1>2. ASSUME NEW A \in SUBSET Keys, NEW d \in Days PROVE Spent(A, Zero, d) = 0
  <2>1. \A r \in A : Zero.spent[Viewer][r][d] = 0
    BY Assumed DEF Zero
  <2>2. IsFiniteSet(A)
    BY Assumed, FS_Subset
  <2>3. PICK f : f = [r \in A |-> Zero.spent[Viewer][r][d]]
    OBVIOUS
  <2>4. f \in [A -> Nat] /\ \A r \in A : f[r] = 0
    BY <2>1, <2>3
  <2>5. SumFunction(f) = 0
    BY <2>2, <2>4, SumOfZeros
  <2> QED
    BY <2>3, <2>5 DEF Spent
<1> QED
  BY <1>1, <1>2

\* Milliseconds of a window are counted once on rows of which it has one.
LEMMA CountedOnce ==
    ASSUME NEW A, Single(A), NEW f \in [A -> Nat], NEW w \in Windows, NEW o \in Nat
    PROVE  SumFunction([r \in A |-> f[r] + (IF r \in KeysOf[w] THEN o ELSE 0)])
           = SumFunction(f) + (IF Meets(w, A) THEN o ELSE 0)
<1>1. PICK g \in [A -> Nat] : g = [r \in A |-> IF r \in KeysOf[w] THEN o ELSE 0]
  <2>1. [r \in A |-> IF r \in KeysOf[w] THEN o ELSE 0] \in [A -> Nat]
    OBVIOUS
  <2> QED
    BY <2>1
<1>2. IsFiniteSet(A)
  BY Assumed, FS_Subset DEF Single
<1>3. SumFunction(g) = IF Meets(w, A) THEN o ELSE 0
  <2>1. CASE Meets(w, A)
    <3>1. PICK x \in A : x \in KeysOf[w]
      BY <2>1 DEF Meets
    <3>2. \A y \in A : y # x => g[y] = 0
      BY <1>1, <3>1 DEF Single
    <3>3. SumFunction(g) = g[x]
      BY <1>2, <3>2, SumOfOne
    <3> QED
      BY <1>1, <2>1, <3>1, <3>3
  <2>2. CASE ~Meets(w, A)
    <3>1. \A y \in A : g[y] = 0
      BY <1>1, <2>2 DEF Meets
    <3> QED
      BY <1>2, <2>2, <3>1, SumOfZeros
  <2> QED
    BY <2>1, <2>2
<1>4. SumFunction([r \in A |-> f[r] + g[r]]) = SumFunction(f) + SumFunction(g)
  BY <1>2, SumOfSums
<1>5. [r \in A |-> f[r] + g[r]] = [r \in A |-> f[r] + (IF r \in KeysOf[w] THEN o ELSE 0)]
  BY <1>1
<1> QED
  BY <1>3, <1>4, <1>5

\* What a row adds.
Adding(A, m, t, d) ==
    IF Cur(m) # NoFocus /\ Meets(Cur(m).win, A) THEN Overlap(Cur(m).ts, t, d) ELSE 0

\* The focus of the meter, if there is one, is a window and a time.
LEMMA CurIs ==
    ASSUME NEW m, MeterType(m)
    PROVE  Cur(m) = NoFocus \/ (Cur(m) \in AsFocus /\ Cur(m) # NoFocus
                                /\ Cur(m).win \in Windows /\ Cur(m).ts \in Nat)
<1>1. Cur(m) \in AsFocus \cup {NoFocus}
  BY Assumed DEF Cur, MeterType
<1> QED
  BY <1>1, Assumed DEF AsFocus

\* What a row does to the focus of the meter and to the time of the rows in A.
LEMMA ObservedIs ==
    ASSUME NEW m, MeterType(m), NEW e, Readable(e)
    PROVE  /\ MeterType(Observed(m, e))
           /\ e.type \in Ignored => Observed(m, e) = m
           /\ e.type \notin Ignored =>
                  Cur(Observed(m, e)) = IF e.type = "Focus" THEN [win |-> e.win, ts |-> e.ts]
                                                            ELSE NoFocus
           /\ e.type \notin Ignored => \A d \in Days : \A A : Single(A) =>
                  Spent(A, Observed(m, e), d) = Spent(A, m, d) + Adding(A, m, e.ts, d)
<1> DEFINE was == m.cur[e.uid]
           counts(k) == was # NoFocus /\ k \in KeysOf[was.win]
           earned(k, d) == IF counts(k) THEN Overlap(was.ts, e.ts, d) ELSE 0
           next == IF e.type = "Focus" THEN [win |-> e.win, ts |-> e.ts] ELSE NoFocus
           o == Observed(m, e)
<1>1. e.uid = Viewer /\ e.ts \in Nat /\ (e.type = "Focus" => e.win \in Windows)
  BY DEF Readable, AnyRow
<1>2. e.type \in Ignored => o = m
  BY DEF Observed
<1> SUFFICES ASSUME e.type \notin Ignored
             PROVE  /\ MeterType(o) /\ Cur(o) = next
                    /\ \A d \in Days : \A A : Single(A) =>
                           Spent(A, o, d) = Spent(A, m, d) + Adding(A, m, e.ts, d)
  BY <1>2
<1>3. /\ o.cur = [m.cur EXCEPT ![e.uid] = next]
      /\ o.spent = [m.spent EXCEPT ![e.uid] =
                       [k \in Keys |-> [d \in Days |-> m.spent[e.uid][k][d] + earned(k, d)]]]
  BY DEF Observed
<1>4. next \in AsFocus \cup {NoFocus}
  BY <1>1 DEF AsFocus
<1>5. ASSUME NEW k \in Keys, NEW d \in Days
      PROVE  earned(k, d) \in Nat
  <2>1. was \in AsFocus \cup {NoFocus} /\ d \in Nat
    BY <1>1, Assumed DEF MeterType, Days
  <2>2. counts(k) => was.ts \in Nat
    BY <2>1 DEF AsFocus
  <2> HIDE DEF was
  <2> QED
    BY <1>1, <2>1, <2>2, OverlapType
<1> HIDE DEF next, o
<1>6. Cur(o) = next /\ o.cur \in [Users -> AsFocus \cup {NoFocus}]
  BY <1>1, <1>3, <1>4, Assumed DEF Cur, MeterType
<1> DEFINE new == [k \in Keys |-> [d \in Days |-> m.spent[Viewer][k][d] + earned(k, d)]]
<1>7. new \in [Keys -> [Days -> Nat]]
  <2>1. ASSUME NEW k \in Keys, NEW d \in Days PROVE m.spent[Viewer][k][d] + earned(k, d) \in Nat
    <3>1. m.spent[Viewer][k][d] \in Nat
      BY Assumed DEF MeterType
    <3> HIDE DEF earned
    <3> QED
      BY <1>5, <3>1
  <2> HIDE DEF earned
  <2> QED
    BY <2>1
<1>8. o.spent[Viewer] = new /\ o.spent \in [Users -> [Keys -> [Days -> Nat]]]
  <2>1. o.spent = [m.spent EXCEPT ![Viewer] = new]
    BY <1>1, <1>3
  <2> HIDE DEF new
  <2> QED
    BY <1>7, <2>1, Assumed DEF MeterType
<1>9. ASSUME NEW A, NEW d \in Days, Single(A)
      PROVE  Spent(A, o, d) = Spent(A, m, d) + Adding(A, m, e.ts, d)
  <2>1. PICK f \in [A -> Nat] : f = [r \in A |-> m.spent[Viewer][r][d]]
    <3>1. \A r \in A : m.spent[Viewer][r][d] \in Nat
      BY <1>9, Assumed DEF MeterType, Single
    <3> QED
      BY <3>1
  <2>2. \A r \in A : o.spent[Viewer][r][d] = f[r] + earned(r, d)
    <3>1. A \subseteq Keys
      BY <1>9 DEF Single
    <3> HIDE DEF earned
    <3> QED
      BY <1>8, <2>1, <3>1
  <2>3. was = Cur(m)
    BY <1>1 DEF Cur
  <2>4. CASE Cur(m) = NoFocus
    <3>1. \A r \in A : earned(r, d) = 0
      BY <2>3, <2>4
    <3> HIDE DEF earned
    <3>2. \A r \in A : o.spent[Viewer][r][d] = f[r]
      BY <2>2, <3>1
    <3>3. [r \in A |-> o.spent[Viewer][r][d]] = [r \in A |-> m.spent[Viewer][r][d]]
      BY <2>1, <3>2
    <3>4. Spent(A, o, d) = Spent(A, m, d)
      BY <3>3 DEF Spent
    <3>5. Spent(A, m, d) \in Nat
      <4>1. IsFiniteSet(A)
        BY <1>9, Assumed, FS_Subset DEF Single
      <4> QED
        BY <2>1, <4>1, SumType DEF Spent
    <3> QED
      BY <2>4, <3>4, <3>5 DEF Adding
  <2>5. CASE Cur(m) # NoFocus
    <3>1. PICK w \in Windows, v \in Nat : w = Cur(m).win /\ v = Overlap(Cur(m).ts, e.ts, d)
      <4>1. Cur(m).win \in Windows /\ Cur(m).ts \in Nat
        BY <2>5, CurIs
      <4>2. d \in Nat
        BY Assumed DEF Days
      <4> QED
        BY <1>1, <4>1, <4>2, OverlapType
    <3>2. \A r \in A : earned(r, d) = IF r \in KeysOf[w] THEN v ELSE 0
      BY <2>3, <2>5, <3>1
    <3> HIDE DEF earned
    <3>3. [r \in A |-> o.spent[Viewer][r][d]]
          = [r \in A |-> f[r] + (IF r \in KeysOf[w] THEN v ELSE 0)]
      BY <2>2, <3>2
    <3>4. Spent(A, o, d) = SumFunction(f) + (IF Meets(w, A) THEN v ELSE 0)
      BY <1>9, <3>3, CountedOnce DEF Spent
    <3>5. Adding(A, m, e.ts, d) = IF Meets(w, A) THEN v ELSE 0
      BY <2>5, <3>1 DEF Adding
    <3> QED
      BY <2>1, <3>4, <3>5 DEF Spent
  <2> QED
    BY <2>4, <2>5
<1> QED
  BY <1>6, <1>8, <1>9 DEF MeterType

-----------------------------------------------------------------------------
(* The meter along the rows of a table *)

Runs(m, rows) == Passes(TRUE, m, Zero, rows)

\* The meter after a row is the one before it that has observed the row.
LEMMA RunStep ==
    ASSUME NEW rows, NEW m, Runs(m, rows), NEW i \in 1 .. Len(rows)
    PROVE  m[i] = Observed(m[i - 1], rows[i])
  BY DEF Runs, Passes, After

\* The meter is well typed after every row.
LEMMA RunType ==
    ASSUME NEW rows, NEW t, Table(rows, t), NEW m, Runs(m, rows), NEW i \in 0 .. Len(rows)
    PROVE  MeterType(m[i])
<1> DEFINE n == Len(rows)
           P == {k \in 0 .. n : MeterType(m[k])}
<1>1. n \in Nat
  BY TableIs
<1>2. 0 \in P
  <2>1. m[0] = Zero
    BY DEF Runs, Passes
  <2> QED
    BY <1>1, <2>1, ZeroIs
<1>3. ASSUME NEW k \in 0 .. n, k \in P, k < n PROVE k + 1 \in P
  <2>1. k + 1 \in 1 .. n /\ (k + 1) - 1 = k /\ k + 1 \in 0 .. n
    BY <1>1, <1>3
  <2>2. m[k + 1] = Observed(m[k], rows[k + 1]) /\ Readable(rows[k + 1])
    BY <2>1, RunStep, RowsReadable
  <2>3. MeterType(m[k])
    BY <1>3
  <2>4. MeterType(m[k + 1])
    BY <2>2, <2>3, ObservedIs
  <2> QED
    BY <2>1, <2>4
<1>4. 0 .. n \subseteq P
  <2> HIDE DEF P, n
  <2> QED
    BY <1>1, <1>2, <1>3, Induction
<1> QED
  BY <1>4

\* One row: nothing, or the end of a focus and perhaps the begin of the next.
LEMMA RunIs ==
    ASSUME NEW rows, NEW t, Table(rows, t), NEW m, Runs(m, rows), NEW i \in 1 .. Len(rows)
    PROVE  /\ MeterType(m[i - 1])
           /\ rows[i].type \in Ignored => m[i] = m[i - 1]
           /\ rows[i].type \notin Ignored =>
                  Cur(m[i]) = IF rows[i].type = "Focus"
                              THEN [win |-> rows[i].win, ts |-> rows[i].ts] ELSE NoFocus
<1>1. i - 1 \in 0 .. Len(rows)
  BY TableIs
<1>2. m[i] = Observed(m[i - 1], rows[i]) /\ Readable(rows[i]) /\ MeterType(m[i - 1])
  BY <1>1, RunStep, RowsReadable, RunType
<1> QED
  BY <1>2, ObservedIs

\* A row that ends the focus adds its time to the rows of its window.
LEMMA RunSpends ==
    ASSUME NEW rows, NEW t, Table(rows, t), NEW m, Runs(m, rows), NEW i \in 1 .. Len(rows),
           rows[i].type \notin Ignored, NEW A, Single(A), NEW d \in Days
    PROVE  Spent(A, m[i], d) = Spent(A, m[i - 1], d) + Adding(A, m[i - 1], rows[i].ts, d)
<1>1. i - 1 \in 0 .. Len(rows)
  BY TableIs
<1>2. PICK p, e : p = m[i - 1] /\ e = rows[i]
  OBVIOUS
<1>3. m[i] = Observed(p, e) /\ Readable(e) /\ MeterType(p)
  BY <1>1, <1>2, RunStep, RowsReadable, RunType
<1>4. \A x \in Days : \A B : Single(B) =>
          Spent(B, Observed(p, e), x) = Spent(B, p, x) + Adding(B, p, e.ts, x)
  BY <1>2, <1>3, ObservedIs
<1> QED
  BY <1>2, <1>3, <1>4

\* The focus is as old as one of the rows.
LEMMA CurOfRow ==
    ASSUME NEW rows, NEW t, Table(rows, t), NEW m, Runs(m, rows), NEW i \in 0 .. Len(rows),
           Cur(m[i]) # NoFocus
    PROVE  /\ Cur(m[i]) \in AsFocus /\ Cur(m[i]).win \in Windows /\ Cur(m[i]).ts \in Nat
           /\ \E j \in 1 .. i : Cur(m[i]).ts = rows[j].ts
<1> DEFINE n == Len(rows)
           P == {k \in 0 .. n : Cur(m[k]) # NoFocus => \E j \in 1 .. k : Cur(m[k]).ts = rows[j].ts}
<1>1. n \in Nat
  BY TableIs
<1>2. 0 \in P
  <2>1. m[0] = Zero
    BY DEF Runs, Passes
  <2> QED
    BY <1>1, <2>1, ZeroIs
<1>3. ASSUME NEW k \in 0 .. n, k \in P, k < n PROVE k + 1 \in P
  <2>1. k + 1 \in 1 .. n /\ (k + 1) - 1 = k /\ k + 1 \in 0 .. n
    BY <1>1, <1>3
  <2>2. /\ rows[k + 1].type \in Ignored => m[k + 1] = m[k]
        /\ rows[k + 1].type \notin Ignored =>
               Cur(m[k + 1]) = IF rows[k + 1].type = "Focus"
                           THEN [win |-> rows[k + 1].win, ts |-> rows[k + 1].ts] ELSE NoFocus
    <3> HIDE DEF P
    <3>1. PICK j \in 1 .. Len(rows) : j = k + 1 /\ j - 1 = k
      BY <2>1
    <3>2. /\ rows[j].type \in Ignored => m[j] = m[j - 1]
          /\ rows[j].type \notin Ignored =>
                 Cur(m[j]) = IF rows[j].type = "Focus"
                             THEN [win |-> rows[j].win, ts |-> rows[j].ts] ELSE NoFocus
      BY RunIs
    <3> QED
      BY <3>1, <3>2
  <2>3. CASE rows[k + 1].type \in Ignored
    <3>1. m[k + 1] = m[k]
      BY <2>2, <2>3
    <3> QED
      BY <1>3, <2>1, <3>1
  <2>4. CASE rows[k + 1].type \notin Ignored
    <3>1. Cur(m[k + 1]) # NoFocus => Cur(m[k + 1]).ts = rows[k + 1].ts
      BY <2>2, <2>4
    <3>2. k + 1 \in 1 .. k + 1
      BY <2>1
    <3> QED
      BY <2>1, <3>1, <3>2
  <2> QED
    BY <2>3, <2>4
<1>4. 0 .. n \subseteq P
  <2> HIDE DEF P, n
  <2> QED
    BY <1>1, <1>2, <1>3, Induction
<1>5. MeterType(m[i])
  BY RunType
<1> QED
  BY <1>4, <1>5, CurIs

-----------------------------------------------------------------------------
(* The seed is the focus of the meter *)

Said(rows, j) == {i \in 1 .. j : rows[i].type # "Resume"}
SeedAfter(rows, j) ==
    IF Said(rows, j) # {} /\ rows[Max(Said(rows, j))].type = "Focus"
    THEN [win |-> rows[Max(Said(rows, j))].win, ts |-> rows[Max(Said(rows, j))].ts]
    ELSE NoSeed

\* The last row that is not a Resume says what the focus of the meter is.
LEMMA SeedAfterIs ==
    ASSUME NEW rows, NEW t, Table(rows, t), NEW m, Runs(m, rows), NEW i \in 0 .. Len(rows)
    PROVE  SeedAfter(rows, i) = Cur(m[i])
<1> DEFINE n == Len(rows)
           P == {k \in 0 .. n : SeedAfter(rows, k) = Cur(m[k])}
<1>1. n \in Nat
  BY TableIs
<1>2. 0 \in P
  <2>1. m[0] = Zero
    BY DEF Runs, Passes
  <2>2. Said(rows, 0) = {}
    BY DEF Said
  <2> QED
    BY <1>1, <2>1, <2>2, ZeroIs DEF SeedAfter, NoSeed
<1>3. ASSUME NEW k \in 0 .. n, k \in P, k < n PROVE k + 1 \in P
  <2> DEFINE e == rows[k + 1]
  <2>1. k + 1 \in 1 .. n /\ (k + 1) - 1 = k /\ k + 1 \in 0 .. n /\ k \in Nat
    BY <1>1, <1>3
  <2>2. /\ e.type \in Ignored => m[k + 1] = m[k]
        /\ e.type \notin Ignored =>
               Cur(m[k + 1]) = IF e.type = "Focus" THEN [win |-> e.win, ts |-> e.ts] ELSE NoFocus
    BY <2>1, RunIs
  <2>3. CASE e.type \in Ignored
    <3>1. Said(rows, k + 1) = Said(rows, k)
      <4>1. \A j : j \in 1 .. k + 1 <=> j \in 1 .. k \/ j = k + 1
        BY <2>1
      <4> QED
        BY <2>3, <4>1 DEF Said, Ignored
    <3>2. SeedAfter(rows, k + 1) = SeedAfter(rows, k)
      BY <3>1 DEF SeedAfter
    <3> QED
      BY <1>3, <2>1, <2>2, <2>3, <3>2
  <2>4. CASE e.type \notin Ignored
    <3>1. k + 1 \in Said(rows, k + 1) /\ Said(rows, k + 1) \in SUBSET (1 .. k + 1)
      BY <2>1, <2>4 DEF Said, Ignored
    <3>2. Max(Said(rows, k + 1)) = k + 1
      BY <2>1, <3>1, MaxOut
    <3>3. SeedAfter(rows, k + 1)
            = IF e.type = "Focus" THEN [win |-> e.win, ts |-> e.ts] ELSE NoFocus
      BY <3>1, <3>2 DEF SeedAfter, NoSeed
    <3> QED
      BY <2>1, <2>2, <2>4, <3>3
  <2> QED
    BY <2>3, <2>4
<1>4. 0 .. n \subseteq P
  <2> HIDE DEF P, n
  <2> QED
    BY <1>1, <1>2, <1>3, Induction
<1> QED
  BY <1>4

\* get_pre_midnight_seed finds the focus that the meter has when the day begins.
LEMMA SeedIs ==
    ASSUME NEW rows, NEW t \in Int, Table(rows, t), NEW m, Runs(m, rows), NEW start \in Nat
    PROVE  PreMidnightSeed(rows, start) = Cur(m[Before(rows, start)])
<1> DEFINE k == Before(rows, start)
           list == DayEvents(rows, 0, start)
           said == {i \in DOMAIN list : list[i].type # "Resume"}
<1>1. Before(rows, 0) = 0
  BY BeforeGrows
<1>2. k \in 0 .. Len(rows) /\ k \in Nat /\ 0 \in 0 .. Len(rows)
  BY TableIs, BeforeIs
<1> HIDE DEF k
<1>3. /\ list = SubSeq(rows, 0 + 1, k) /\ list \in Seq(EventRow) /\ Len(list) = k
      /\ \A i \in 1 .. k : list[i] = rows[i]
  <2>1. list = SubSeq(rows, 0 + 1, k)
    BY <1>1, DayEventsAre DEF k
  <2>2. \A i \in 1 .. k - 0 : SubSeq(rows, 0 + 1, k)[i] = rows[0 + i]
    BY <1>2, PartOf
  <2>3. SubSeq(rows, 0 + 1, k) \in Seq(EventRow) /\ Len(SubSeq(rows, 0 + 1, k)) = k - 0
    BY <1>2, PartOf
  <2>4. \A i \in 1 .. k : i \in 1 .. k - 0 /\ 0 + i = i
    BY <1>2
  <2> HIDE DEF list
  <2> QED
    BY <1>2, <2>1, <2>2, <2>3, <2>4
<1>4. PreMidnightSeed(rows, start) =
        IF said # {} /\ list[Max(said)].type = "Focus"
        THEN [win |-> list[Max(said)].win, ts |-> list[Max(said)].ts] ELSE NoSeed
  BY Zenon DEF PreMidnightSeed
<1> HIDE DEF list
<1>5. DOMAIN list = 1 .. k
  BY <1>3, LenProperties
<1>6. said = Said(rows, k)
  BY <1>3, <1>5 DEF Said
<1>7. said # {} => list[Max(said)] = rows[Max(said)]
  <2>1. said \in SUBSET (1 .. k)
    BY <1>5
  <2> HIDE DEF said
  <2>2. said # {} => Max(said) \in said
    BY <1>2, <2>1, MaxIn
  <2> QED
    BY <1>3, <2>1, <2>2
<1> HIDE DEF said
<1>8. PreMidnightSeed(rows, start) = SeedAfter(rows, k)
  BY <1>4, <1>6, <1>7 DEF SeedAfter
<1>9. SeedAfter(rows, k) = Cur(m[k])
  BY <1>2, SeedAfterIs
<1> QED
  BY <1>8, <1>9 DEF k

\* What an interval has of a day: all of it inside the day, nothing outside.
LEMMA Overlaps ==
    ASSUME NEW a \in Nat, NEW b \in Nat, NEW d \in Nat
    PROVE  /\ Overlap(a, b, d) \in Nat
           /\ Overlap(Max2(a, DayStart(d)), b, d) = Overlap(a, b, d)
           /\ b <= DayStart(d) => Overlap(a, b, d) = 0
           /\ DayStart(d) <= a /\ a <= b /\ b <= DayStart(d + 1) => Overlap(a, b, d) = b - a
           /\ b <= a => Overlap(a, b, d) = 0
<1>1. DayStart(d) \in Nat /\ DayStart(d + 1) \in Int /\ DayStart(d) < DayStart(d + 1)
  BY Midnights, MidnightsInOrder
<1> QED
  BY <1>1 DEF Overlap, Max2

\* Nothing has been counted on a day before the day begins.
LEMMA SpentBefore ==
    ASSUME NEW rows, NEW t, Table(rows, t), NEW m, Runs(m, rows), NEW d \in Days,
           NEW i \in 0 .. Len(rows), i <= Before(rows, DayStart(d)), NEW A, Single(A)
    PROVE  Spent(A, m[i], d) = 0
<1> DEFINE n == Len(rows)
           P == {k \in 0 .. n : k <= i => Spent(A, m[k], d) = 0}
<1>1. n \in Nat /\ d \in Nat /\ DayStart(d) \in Int /\ i \in Nat
  BY TableIs, Midnights, Assumed DEF Days
<1>2. 0 \in P
  <2>1. m[0] = Zero /\ A \in SUBSET Keys
    BY DEF Runs, Passes, Single
  <2> QED
    BY <1>1, <2>1, ZeroIs
<1>3. ASSUME NEW k \in 0 .. n, k \in P, k < n PROVE k + 1 \in P
  <2>1. k + 1 \in 0 .. n
    BY <1>1, <1>3
  <2> SUFFICES ASSUME k + 1 <= i PROVE Spent(A, m[k + 1], d) = 0
    BY <2>1
  <2>2. PICK j \in 1 .. Len(rows) : j = k + 1 /\ j - 1 = k
    BY <1>1, <1>3
  <2>3. Spent(A, m[k], d) = 0
    BY <1>1, <1>3, <2>2
  <2>4. rows[j].ts < DayStart(d) /\ rows[j].ts \in Nat
    <3>1. Before(rows, DayStart(d)) \in Int /\ (rows[j].ts < DayStart(d) <=> j <= Before(rows, DayStart(d)))
      BY <1>1, BeforeIs
    <3>2. j <= Before(rows, DayStart(d))
      BY <1>1, <2>2, <3>1
    <3> QED
      BY <3>1, <3>2, TableIs
  <2>5. MeterType(m[k]) /\ (rows[j].type \in Ignored => m[j] = m[k])
        /\ (rows[j].type \notin Ignored =>
                Spent(A, m[j], d) = Spent(A, m[k], d) + Adding(A, m[k], rows[j].ts, d))
    <3> HIDE DEF P
    <3>1. MeterType(m[j - 1]) /\ (rows[j].type \in Ignored => m[j] = m[j - 1])
      BY RunIs
    <3>2. rows[j].type \notin Ignored =>
              Spent(A, m[j], d) = Spent(A, m[j - 1], d) + Adding(A, m[j - 1], rows[j].ts, d)
      BY RunSpends
    <3> QED
      BY <2>2, <3>1, <3>2
  <2>6. Adding(A, m[k], rows[j].ts, d) = 0
    <3>1. Cur(m[k]) # NoFocus => Cur(m[k]).ts \in Nat
      BY <2>5, CurIs
    <3>2. ASSUME Cur(m[k]) # NoFocus PROVE Overlap(Cur(m[k]).ts, rows[j].ts, d) = 0
      <4>1. PICK a \in Nat, b \in Nat : a = Cur(m[k]).ts /\ b = rows[j].ts /\ b <= DayStart(d)
        BY <1>1, <2>4, <3>1, <3>2
      <4>2. d \in Nat
        BY <1>1
      <4>3. \A x, y, z \in Nat : y <= DayStart(z) => Overlap(x, y, z) = 0
        BY Overlaps
      <4>4. Overlap(a, b, d) = 0
        BY <4>1, <4>2, <4>3
      <4> QED
        BY <4>1, <4>4
    <3> QED
      BY <3>2 DEF Adding
  <2> QED
    BY <2>2, <2>3, <2>5, <2>6
<1>4. 0 .. n \subseteq P
  <2> HIDE DEF P, n
  <2> QED
    BY <1>1, <1>2, <1>3, Induction
<1>5. i \in P
  BY <1>4
<1> QED
  BY <1>1, <1>5

-----------------------------------------------------------------------------
(* The blocks of a day *)

ClosedBlock == [win : Windows, start : Nat, end : Nat, gap : {FALSE}]

\* Blocks one after the other between two times.
ChainOf(q, from, to) ==
    /\ q \in Seq(ClosedBlock)
    /\ \A i \in 1 .. Len(q) : from <= q[i].start /\ q[i].start <= q[i].end /\ q[i].end <= to
    /\ \A i, j \in 1 .. Len(q) : i < j => q[i].end <= q[j].start

\* A chain that ends before a time ends before every later one.
LEMMA ChainWidens ==
    ASSUME NEW q, NEW from \in Nat, NEW to \in Nat, ChainOf(q, from, to), NEW u \in Nat, to <= u
    PROVE  ChainOf(q, from, u)
<1>1. \A i \in 1 .. Len(q) : q[i].end \in Nat
  <2>1. \A i \in 1 .. Len(q) : q[i] \in ClosedBlock
    BY ElementOfSeq DEF ChainOf
  <2> QED
    BY <2>1 DEF ClosedBlock
<1>2. \A i \in 1 .. Len(q) : q[i].end <= u
  <2>1. \A i \in 1 .. Len(q) : q[i].end <= to
    BY DEF ChainOf
  <2> QED
    BY <1>1, <2>1
<1> QED
  BY <1>2 DEF ChainOf

\* The empty list is a chain.
LEMMA ChainStarts == ASSUME NEW from, NEW to PROVE ChainOf(<< >>, from, to)
<1>1. << >> \in Seq(ClosedBlock) /\ Len(<< >>) = 0
  OBVIOUS
<1> QED
  BY <1>1 DEF ChainOf

\* A block that begins where a chain ends makes it longer.
LEMMA ChainGrows ==
    ASSUME NEW q, NEW from \in Nat, NEW b \in ClosedBlock, ChainOf(q, from, b.start),
           from <= b.start, b.start <= b.end
    PROVE  ChainOf(Append(q, b), from, b.end)
<1> DEFINE n == Len(q)
           z == Append(q, b)
<1>1. /\ q \in Seq(ClosedBlock) /\ n \in Nat /\ b.start \in Nat /\ b.end \in Nat
      /\ \A i \in 1 .. n : q[i].start \in Nat /\ q[i].end \in Nat
  <2>1. \A i \in 1 .. n : q[i] \in ClosedBlock
    BY ElementOfSeq DEF ChainOf
  <2> QED
    BY <2>1, LenProperties DEF ChainOf, ClosedBlock
<1>2. z \in Seq(ClosedBlock) /\ Len(z) = n + 1 /\ z[n + 1] = b /\ \A i \in 1 .. n : z[i] = q[i]
  BY <1>1, AppendProperties
<1>3. /\ \A i \in 1 .. n : from <= q[i].start /\ q[i].start <= q[i].end /\ q[i].end <= b.start
      /\ \A i, j \in 1 .. n : i < j => q[i].end <= q[j].start
  BY DEF ChainOf
<1> HIDE DEF n, z
<1>4. ASSUME NEW i \in 1 .. n + 1
      PROVE  from <= z[i].start /\ z[i].start <= z[i].end /\ z[i].end <= b.end
  <2>1. CASE i = n + 1
    BY <1>1, <1>2, <2>1
  <2>2. CASE i # n + 1
    <3>1. i \in 1 .. n
      BY <1>1, <2>2
    <3>2. /\ z[i] = q[i] /\ from <= q[i].start /\ q[i].start <= q[i].end /\ q[i].end <= b.start
          /\ q[i].end \in Nat
      BY <1>1, <1>2, <1>3, <3>1
    <3> QED
      BY <1>1, <3>2
  <2> QED
    BY <2>1, <2>2
<1>5. ASSUME NEW i \in 1 .. n + 1, NEW j \in 1 .. n + 1, i < j PROVE z[i].end <= z[j].start
  <2>1. i \in 1 .. n
    BY <1>1, <1>5
  <2>2. CASE j = n + 1
    BY <1>2, <1>3, <2>1, <2>2
  <2>3. CASE j # n + 1
    <3>1. j \in 1 .. n
      BY <1>1, <2>3
    <3> QED
      BY <1>2, <1>3, <1>5, <2>1, <3>1
  <2> QED
    BY <2>2, <2>3
<1> QED
  BY <1>2, <1>4, <1>5 DEF ChainOf, n, z

Worth(A, d) == [b \in ClosedBlock |->
    IF Meets(b.win, A) THEN Overlap(b.start, b.end, d) ELSE 0]

\* The worth of a closed block on a day is a natural number.
LEMMA WorthType ==
    ASSUME NEW A, NEW d \in Nat
    PROVE  Worth(A, d) \in [ClosedBlock -> Nat]
<1>1. \A b \in ClosedBlock : b.start \in Nat /\ b.end \in Nat
  BY DEF ClosedBlock
<1>2. \A b \in ClosedBlock : Overlap(b.start, b.end, d) \in Nat
  BY <1>1, Overlaps
<1> QED
  BY <1>2 DEF Worth

\* The blocks hold what the meter has counted on the day.
Counted(q, m, d) == \A A : Single(A) => Total(q, Worth(A, d)) = Spent(A, m, d)

OpenOf(cur, start) ==
    IF cur = NoFocus THEN NoFocus ELSE [win |-> cur.win, ts |-> Max2(cur.ts, start)]

\* The fold of the timeline after the first i rows.
FoldIs(acc, m, rows, i, d) ==
    /\ acc.blocks \in Seq(ClosedBlock)
    /\ acc.open = OpenOf(Cur(m[i]), DayStart(d))
    /\ acc.open # NoFocus => ChainOf(acc.blocks, DayStart(d), acc.open.ts)
    /\ \A u \in Nat : DayStart(d) <= u /\ (\A x \in 1 .. i : rows[x].ts <= u)
                      => ChainOf(acc.blocks, DayStart(d), u)
    /\ Counted(acc.blocks, m[i], d)

\* The fold begins with the seed, cut at midnight, and no blocks.
LEMMA FoldBegins ==
    ASSUME NEW rows, NEW t, Table(rows, t), NEW m, Runs(m, rows), NEW d \in Days,
           NEW k \in 0 .. Len(rows), k = Before(rows, DayStart(d)),
           NEW seed, seed = Cur(m[k]), NEW open,
           open = IF seed # NoSeed /\ seed.ts < DayStart(d)
                  THEN [win |-> seed.win, ts |-> DayStart(d)] ELSE NoFocus
    PROVE  FoldIs([blocks |-> << >>, open |-> open], m, rows, k, d)
<1>1. d \in Nat /\ DayStart(d) \in Nat
  BY Midnights, Assumed DEF Days
<1>2. open = OpenOf(Cur(m[k]), DayStart(d))
  <2>1. CASE seed = NoFocus
    BY <2>1 DEF OpenOf, NoSeed
  <2>2. CASE seed # NoFocus
    <3>1. PICK j \in 1 .. k : seed.ts = rows[j].ts
      BY <2>2, CurOfRow
    <3>2. j \in 1 .. Len(rows) /\ j <= k
      BY TableIs
    <3>6. PICK s \in Int : s = DayStart(d)
      BY <1>1
    <3>7. rows[j].ts < s <=> j <= Before(rows, s)
      BY <3>2, BeforeIs
    <3>4. rows[j].ts < DayStart(d) <=> j <= Before(rows, DayStart(d))
      BY <3>6, <3>7
    <3>5. rows[j].ts \in Nat
      BY <3>2, TableIs
    <3>3. seed.ts < DayStart(d) /\ seed.ts \in Nat
      BY <3>1, <3>2, <3>4, <3>5
    <3> QED
      BY <1>1, <2>2, <3>3 DEF OpenOf, NoSeed, Max2
  <2> QED
    BY <2>1, <2>2
<1>3. ASSUME NEW A, Single(A) PROVE Total(<< >>, Worth(A, d)) = Spent(A, m[k], d)
  <2>1. Spent(A, m[k], d) = 0
    <3>1. k <= Before(rows, DayStart(d))
      BY TableIs
    <3> QED
      BY <1>3, <3>1, SpentBefore
  <2> QED
    BY <2>1, TotalOfNone
<1>4. << >> \in Seq(ClosedBlock)
  OBVIOUS
<1> QED
  BY <1>2, <1>3, <1>4, ChainStarts DEF FoldIs, Counted

-----------------------------------------------------------------------------
(* A step of the timeline and of the meter *)

\* The open block is the focus of the meter, from midnight at the earliest.
LEMMA OpenIs ==
    ASSUME NEW rows, NEW t, Table(rows, t), NEW m, Runs(m, rows), NEW i \in 0 .. Len(rows),
           NEW start \in Nat
    PROVE  /\ OpenOf(Cur(m[i]), start) # NoFocus <=> Cur(m[i]) # NoFocus
           /\ Cur(m[i]) # NoFocus =>
                  LET open == OpenOf(Cur(m[i]), start)
                  IN  /\ open \in AsFocus /\ open.win \in Windows /\ open.ts \in Nat
                      /\ open.win = Cur(m[i]).win /\ open.ts = Max2(Cur(m[i]).ts, start)
                      /\ start <= open.ts
                      /\ \A u \in Nat : start <= u /\ (\A x \in 1 .. i : rows[x].ts <= u)
                                        => open.ts <= u
<1>1. CASE Cur(m[i]) = NoFocus
  BY <1>1 DEF OpenOf
<1>2. CASE Cur(m[i]) # NoFocus
  <2> DEFINE open == OpenOf(Cur(m[i]), start)
  <2>1. PICK w \in Windows, s \in Nat : w = Cur(m[i]).win /\ s = Cur(m[i]).ts
    BY <1>2, CurOfRow
  <2>2. open = [win |-> w, ts |-> Max2(s, start)] /\ Max2(s, start) \in Nat
        /\ start <= Max2(s, start)
    BY <1>2, <2>1 DEF OpenOf, Max2
  <2>3. open \in AsFocus /\ open # NoFocus
    BY <2>2, Assumed DEF AsFocus
  <2>4. PICK j \in 1 .. i : s = rows[j].ts
    BY <1>2, <2>1, CurOfRow
  <2>5. \A u \in Nat : start <= u /\ (\A x \in 1 .. i : rows[x].ts <= u) => Max2(s, start) <= u
    BY <2>4 DEF Max2
  <2> HIDE DEF open
  <2>6. /\ open.win = w /\ open.ts = Max2(s, start)
    BY <2>2
  <2> QED
    BY <1>2, <2>1, <2>2, <2>3, <2>5, <2>6 DEF open
<1> QED
  BY <1>1, <1>2

\* What FoldEvent does, by the kind of the event.
LEMMA FoldEventIs ==
    ASSUME NEW acc, NEW e, e.type \in EventType
    PROVE  /\ e.type \in Ignored => FoldEvent(acc, e) = acc
           /\ e.type \notin Ignored =>
                  FoldEvent(acc, e) =
                     [blocks |-> IF acc.open = NoFocus THEN acc.blocks
                                 ELSE Append(acc.blocks, Block(acc.open, e.ts)),
                      open |-> IF e.type = "Focus" THEN [win |-> e.win, ts |-> e.ts] ELSE NoFocus]
<1>1. e.type \in Ignored => e.type # "Focus" /\ e.type \notin Close
  BY DEF Ignored, Close
<1>2. e.type \notin Ignored /\ e.type # "Focus" => e.type \in Close
  BY DEF EventType, Ignored, Close
<1> DEFINE closed == IF acc.open = NoFocus THEN acc.blocks
                     ELSE Append(acc.blocks, Block(acc.open, e.ts))
<1>3. FoldEvent(acc, e) =
        CASE e.type = "Focus"  -> [blocks |-> closed, open |-> [win |-> e.win, ts |-> e.ts]]
          [] e.type \in Close -> [blocks |-> closed, open |-> NoFocus]
          [] OTHER            -> acc
  BY Zenon DEF FoldEvent
<1>4. "Focus" \notin Close
  BY DEF Close
<1> HIDE DEF closed
<1>5. e.type \in Ignored => FoldEvent(acc, e) = acc
  BY <1>1, <1>3
<1>6. e.type = "Focus" => FoldEvent(acc, e) =
                            [blocks |-> closed, open |-> [win |-> e.win, ts |-> e.ts]]
  BY <1>3, <1>4
<1>7. e.type \in Close => FoldEvent(acc, e) = [blocks |-> closed, open |-> NoFocus]
  BY <1>3, <1>4
<1>8. e.type \notin Ignored => FoldEvent(acc, e) =
          [blocks |-> closed,
           open |-> IF e.type = "Focus" THEN [win |-> e.win, ts |-> e.ts] ELSE NoFocus]
  BY <1>2, <1>6, <1>7
<1> QED
  BY <1>5, <1>8 DEF closed

\* A focus is closed.
LEMMA FoldCloses ==
    ASSUME NEW rows, NEW t, Table(rows, t), NEW m, Runs(m, rows), NEW d \in Days,
           NEW i \in 1 .. Len(rows), rows[i].type \notin Ignored, DayStart(d) <= rows[i].ts,
           NEW acc, FoldIs(acc, m, rows, i - 1, d),
           NEW closed, closed = IF acc.open = NoFocus THEN acc.blocks
                                ELSE Append(acc.blocks, Block(acc.open, rows[i].ts))
    PROVE  /\ ChainOf(closed, DayStart(d), rows[i].ts)
           /\ Counted(closed, m[i], d)
<1> DEFINE p == m[i - 1]
           s == DayStart(d)
<1>1. /\ d \in Nat /\ s \in Nat /\ i - 1 \in 0 .. Len(rows) /\ rows[i].ts \in Nat
      /\ \A x \in 1 .. i - 1 : rows[x].ts <= rows[i].ts
  <2>1. d \in Nat /\ s \in Nat
    BY Midnights, Assumed DEF Days
  <2>2. i - 1 \in 0 .. Len(rows) /\ rows[i].ts \in Nat
    BY TableIs
  <2>3. \A x \in 1 .. i - 1 : x \in 1 .. Len(rows) /\ x <= i
    BY TableIs
  <2>4. \A x \in 1 .. i - 1 : rows[x].ts <= rows[i].ts
    BY <2>3, TableIs
  <2> QED
    BY <2>1, <2>2, <2>4
<1>2. /\ acc.blocks \in Seq(ClosedBlock)
      /\ acc.open = OpenOf(Cur(p), s)
      /\ acc.open # NoFocus => ChainOf(acc.blocks, s, acc.open.ts)
      /\ ChainOf(acc.blocks, s, rows[i].ts)
      /\ \A A : Single(A) => Total(acc.blocks, Worth(A, d)) = Spent(A, p, d)
  BY <1>1 DEF FoldIs, Counted
<1>3. \A A : Single(A) => Spent(A, m[i], d) = Spent(A, p, d) + Adding(A, p, rows[i].ts, d)
  BY RunSpends
<1>4. acc.open # NoFocus <=> Cur(p) # NoFocus
  <2> HIDE DEF s
  <2> QED
    BY <1>1, <1>2, OpenIs
<1>5. \A A : Single(A) => Total(acc.blocks, Worth(A, d)) \in Nat
  BY <1>1, <1>2, WorthType, TotalType
<1>6. CASE acc.open = NoFocus
  <2>1. \A A : Adding(A, p, rows[i].ts, d) = 0
    BY <1>4, <1>6 DEF Adding
  <2>2. \A A : Single(A) => Total(acc.blocks, Worth(A, d)) = Spent(A, m[i], d)
    <3> HIDE DEF p
    <3> QED
      BY <1>2, <1>3, <1>5, <2>1
  <2>3. closed = acc.blocks
    BY <1>6
  <2> QED
    BY <1>2, <2>2, <2>3 DEF Counted
<1>7. CASE acc.open # NoFocus
  <2>1. /\ acc.open.win \in Windows /\ acc.open.ts \in Nat
        /\ acc.open.win = Cur(p).win /\ acc.open.ts = Max2(Cur(p).ts, s)
        /\ s <= acc.open.ts /\ acc.open.ts <= rows[i].ts
    <3>1. LET open == OpenOf(Cur(p), s)
          IN  /\ open \in AsFocus /\ open.win \in Windows /\ open.ts \in Nat
              /\ open.win = Cur(p).win /\ open.ts = Max2(Cur(p).ts, s)
              /\ s <= open.ts
              /\ \A u \in Nat : s <= u /\ (\A x \in 1 .. i - 1 : rows[x].ts <= u)
                                => open.ts <= u
      <4> HIDE DEF s
      <4> QED
        BY <1>1, <1>4, <1>7, OpenIs
    <3> HIDE DEF s
    <3> QED
      BY <1>1, <1>2, <3>1 DEF s
  <2>2. PICK b \in ClosedBlock : b = Block(acc.open, rows[i].ts) /\ b.win = acc.open.win
                                 /\ b.start = acc.open.ts /\ b.end = rows[i].ts
    <3>1. PICK w \in Windows, a \in Nat, z \in Nat :
             w = acc.open.win /\ a = acc.open.ts /\ z = rows[i].ts
      BY <1>1, <2>1
    <3>2. PICK b : b = [win |-> w, start |-> a, end |-> z, gap |-> FALSE]
      OBVIOUS
    <3>3. b \in ClosedBlock /\ b.win = w /\ b.start = a /\ b.end = z
      BY <3>2 DEF ClosedBlock
    <3>4. b = Block(acc.open, rows[i].ts)
      BY <3>1, <3>2 DEF Block
    <3> QED
      BY <3>1, <3>3, <3>4
  <2>3. closed = Append(acc.blocks, b)
    BY <1>7, <2>2
  <2>4. ChainOf(closed, s, rows[i].ts)
    <3>1. ChainOf(acc.blocks, s, b.start) /\ s <= b.start /\ b.start <= b.end
      BY <1>2, <1>7, <2>1, <2>2
    <3>2. ChainOf(Append(acc.blocks, b), s, b.end)
      <4> HIDE DEF s
      <4> QED
        BY <1>1, <3>1, ChainGrows
    <3> QED
      BY <2>2, <2>3, <3>2
  <2>5. ASSUME NEW A, Single(A) PROVE Total(closed, Worth(A, d)) = Spent(A, m[i], d)
    <3>1. Total(closed, Worth(A, d)) = Total(acc.blocks, Worth(A, d)) + Worth(A, d)[b]
      <4>1. PICK v \in [ClosedBlock -> Nat] : v = Worth(A, d)
        BY <1>1, WorthType
      <4>2. PICK q \in Seq(ClosedBlock) : q = acc.blocks
        BY <1>2
      <4>3. Total(Append(q, b), v) = Total(q, v) + v[b]
        BY TotalOfMore
      <4> QED
        BY <2>3, <4>1, <4>2, <4>3
    <3>2. Worth(A, d)[b] = Adding(A, p, rows[i].ts, d)
      <4>1. Cur(p).ts \in Nat /\ Cur(p) # NoFocus
        BY <1>1, <1>4, <1>7, CurOfRow
      <4>2. Overlap(Max2(Cur(p).ts, s), rows[i].ts, d) = Overlap(Cur(p).ts, rows[i].ts, d)
        BY <1>1, <4>1, Overlaps
      <4>3. Worth(A, d)[b] = IF Meets(b.win, A) THEN Overlap(b.start, b.end, d) ELSE 0
        BY DEF Worth
      <4> QED
        BY <2>1, <2>2, <4>1, <4>2, <4>3 DEF Adding
    <3>3. Total(acc.blocks, Worth(A, d)) = Spent(A, p, d)
      BY <1>2, <2>5
    <3>4. Spent(A, m[i], d) = Spent(A, p, d) + Adding(A, p, rows[i].ts, d)
      BY <1>3, <2>5
    <3> HIDE DEF p
    <3> QED
      BY <3>1, <3>2, <3>3, <3>4
  <2> QED
    BY <2>4, <2>5 DEF Counted
<1> QED
  BY <1>6, <1>7

\* An event of the day changes the blocks as it changes the meter.
LEMMA FoldStep ==
    ASSUME NEW rows, NEW t, Table(rows, t), NEW m, Runs(m, rows), NEW d \in Days,
           NEW i \in 1 .. Len(rows), DayStart(d) <= rows[i].ts,
           NEW acc, FoldIs(acc, m, rows, i - 1, d)
    PROVE  FoldIs(FoldEvent(acc, rows[i]), m, rows, i, d)
<1> DEFINE s == DayStart(d)
           e == rows[i]
           next == FoldEvent(acc, e)
           closed == IF acc.open = NoFocus THEN acc.blocks
                     ELSE Append(acc.blocks, Block(acc.open, rows[i].ts))
<1>1. s \in Nat /\ e.ts \in Nat /\ e.type \in EventType /\ i \in 1 .. i
      /\ \A x \in 1 .. i - 1 : x \in 1 .. i
  <2>1. s \in Nat
    BY Midnights, Assumed DEF Days
  <2>2. e.type \in EventType
    BY RowsReadable DEF Readable, AnyRow
  <2>3. e.ts \in Nat /\ i \in Nat /\ i >= 1
    BY TableIs
  <2> QED
    BY <2>1, <2>2, <2>3
<1>2. CASE e.type \in Ignored
  <2>1. next = acc
    BY <1>1, <1>2, FoldEventIs
  <2>2. m[i] = m[i - 1]
    BY <1>2, RunIs
  <2> HIDE DEF next
  <2>3. ASSUME NEW u \in Nat, s <= u, \A x \in 1 .. i : rows[x].ts <= u
        PROVE  ChainOf(acc.blocks, s, u)
    BY <1>1, <2>3 DEF FoldIs
  <2>4. FoldIs(acc, m, rows, i, d)
    BY <2>2, <2>3 DEF FoldIs
  <2> QED
    BY <2>1, <2>4 DEF next
<1>3. CASE e.type \notin Ignored
  <2>1. next = [blocks |-> closed,
                open |-> IF e.type = "Focus" THEN [win |-> e.win, ts |-> e.ts] ELSE NoFocus]
    BY <1>1, <1>3, FoldEventIs
  <2>2. Cur(m[i]) = IF e.type = "Focus" THEN [win |-> e.win, ts |-> e.ts] ELSE NoFocus
    BY <1>3, RunIs
  <2>3. PICK c : c = closed
    OBVIOUS
  <2>4. ChainOf(c, s, e.ts) /\ Counted(c, m[i], d)
    <3>1. c = IF acc.open = NoFocus THEN acc.blocks
              ELSE Append(acc.blocks, Block(acc.open, rows[i].ts))
      BY <2>3
    <3>2. e.type \notin Ignored
      BY <1>3
    <3> HIDE DEF closed
    <3>3. ChainOf(c, s, e.ts)
      BY <3>1, <3>2, FoldCloses
    <3>4. Counted(c, m[i], d)
      BY <3>1, <3>2, FoldCloses
    <3> QED
      BY <3>3, <3>4
  <2> HIDE DEF closed, next
  <2>5. next.blocks = c /\ next.open = Cur(m[i])
    BY <2>1, <2>2, <2>3
  <2>6. next.open = OpenOf(Cur(m[i]), s) /\ (next.open # NoFocus => next.open.ts = e.ts)
    <3>1. CASE e.type = "Focus"
      <4>1. Cur(m[i]) = [win |-> e.win, ts |-> e.ts]
        BY <2>2, <3>1
      <4>2. Max2(e.ts, s) = e.ts
        BY <1>1 DEF Max2
      <4> QED
        BY <2>5, <4>1, <4>2 DEF OpenOf
    <3>2. CASE e.type # "Focus"
      BY <2>2, <2>5, <3>2 DEF OpenOf
    <3> QED
      BY <3>1, <3>2
  <2>7. ASSUME NEW u \in Nat, \A x \in 1 .. i : rows[x].ts <= u PROVE ChainOf(c, s, u)
    <3>1. e.ts <= u
      BY <1>1, <2>7
    <3> HIDE DEF e, s
    <3> QED
      BY <1>1, <2>4, <3>1, ChainWidens
  <2>8. c \in Seq(ClosedBlock)
    BY <2>4 DEF ChainOf
  <2> QED
    BY <2>4, <2>5, <2>6, <2>7, <2>8 DEF FoldIs, next
<1> QED
  BY <1>2, <1>3

-----------------------------------------------------------------------------
(* The timeline: sorted, with its gaps filled *)

AnyBlock == [win : Windows \cup {NoWindow}, start : Nat, end : Nat \cup {NoFocus}, gap : BOOLEAN]

\* Blocks between two times; only a focus can be open.
Drawn(from, to) ==
    {b \in AnyBlock : /\ from <= b.start /\ b.start <= to
                      /\ b.end # NoFocus => b.start <= b.end /\ b.end <= to
                      /\ b.gap => b.end # NoFocus
                      /\ ~b.gap => b.win \in Windows}

\* One after the other: only the last can be open.
Follows(from, to) ==
    {p \in Drawn(from, to) \X Drawn(from, to) :
        p[1].end # NoFocus /\ p[1].end <= p[2].start}
Lined(q, from, to) == q \in Seq(Drawn(from, to)) /\ Pairwise(q, Follows(from, to))

\* Two sequences of one element, joined.
LEMMA PairOf ==
    ASSUME NEW S, NEW x \in S, NEW y \in S
    PROVE  << x >> \o << y >> = << x, y >>
<1>1. PICK one \in Seq(S) : one = << x >>
  <2>1. << x >> \in Seq(S)
    OBVIOUS
  <2> QED
    BY <2>1
<1>2. Append(one, y) = one \o << y >>
  BY AppendIsConcat
<1>3. << x, y >> = Append(one, y)
  BY <1>1
<1> QED
  BY <1>1, <1>2, <1>3

\* What a block of the timeline is made of.
LEMMA DrawnIs ==
    ASSUME NEW from, NEW to, NEW b \in Drawn(from, to)
    PROVE  /\ b \in AnyBlock /\ b.start \in Nat /\ from <= b.start /\ b.start <= to
           /\ b.end # NoFocus => b.end \in Nat /\ b.start <= b.end /\ b.end <= to
           /\ b.gap \in BOOLEAN /\ (b.gap => b.end # NoFocus) /\ (~b.gap => b.win \in Windows)
  BY DEF Drawn, AnyBlock

\* What a line of blocks is made of.
LEMMA LinedIs ==
    ASSUME NEW q, NEW from, NEW to, Lined(q, from, to)
    PROVE  /\ q \in Seq(Drawn(from, to)) /\ Len(q) \in Nat /\ DOMAIN q = 1 .. Len(q)
           /\ \A i \in 1 .. Len(q) : q[i] \in Drawn(from, to)
           /\ \A i, j \in 1 .. Len(q) : i < j => q[i].end # NoFocus /\ q[i].end <= q[j].start
<1>1. q \in Seq(Drawn(from, to)) /\ Len(q) \in Nat /\ DOMAIN q = 1 .. Len(q)
  BY LenProperties DEF Lined
<1>2. \A i \in 1 .. Len(q) : q[i] \in Drawn(from, to)
  BY <1>1, ElementOfSeq
<1>3. ASSUME NEW i \in 1 .. Len(q), NEW j \in 1 .. Len(q), i < j
      PROVE  q[i].end # NoFocus /\ q[i].end <= q[j].start
  <2>1. << q[i], q[j] >> \in Follows(from, to)
    BY <1>1, <1>3 DEF Lined, Pairwise
  <2> QED
    BY <2>1 DEF Follows
<1> QED
  BY <1>1, <1>2, <1>3

\* Sorting by start leaves blocks alone that follow each other.
LEMMA ByStartKeeps ==
    ASSUME NEW q, NEW from, NEW to, Lined(q, from, to)
    PROVE  ByStart(q) = q
<1> DEFINE key == [i \in DOMAIN q |-> q[i].start]
<1>1. q \in Seq(Drawn(from, to)) /\ DOMAIN q = 1 .. Len(q) /\ Len(q) \in Nat
  BY LinedIs
<1>2. \A i \in DOMAIN q : q[i] \in Drawn(from, to)
  BY <1>1, LinedIs
<1>3. \A i \in DOMAIN q : key[i] = q[i].start /\ q[i].start \in Nat
  BY <1>2, DrawnIs
<1>4. \A i, j \in DOMAIN q : i < j => q[i].start <= q[j].start
  <2> SUFFICES ASSUME NEW i \in DOMAIN q, NEW j \in DOMAIN q, i < j
               PROVE  q[i].start <= q[j].start
    OBVIOUS
  <2>1. q[i].end # NoFocus /\ q[i].end <= q[j].start
    BY <1>1, LinedIs
  <2>2. q[i].end \in Nat /\ q[i].start <= q[i].end
    BY <1>2, <2>1, DrawnIs
  <2> QED
    BY <1>3, <2>1, <2>2
<1>5. ByStart(q) = Stably(q, key)
  BY DEF ByStart
<1> HIDE DEF key
<1>6. \A i \in DOMAIN q : key[i] \in Int
  BY <1>3
<1>7. \A i, j \in DOMAIN q : i < j => key[i] <= key[j]
  BY <1>3, <1>4
<1>8. Stably(q, key) = q
  BY <1>1, <1>6, <1>7, StablyKeeps
<1> QED
  BY <1>5, <1>8

Gap(q, i) ==
    IF i < Len(q) /\ q[i].end # NoFocus /\ q[i].end < q[i + 1].start
    THEN << [win |-> NoWindow, start |-> q[i].end, end |-> q[i + 1].start, gap |-> TRUE] >>
    ELSE << >>
WithGaps(q) == [i \in DOMAIN q |-> << q[i] >> \o Gap(q, i)]

\* A block and its gap reach from the block's start to the next one's at most.
WithGap(p, q, i, g) ==
    /\ p = << q[i], g >> /\ g.gap /\ i < Len(q) /\ q[i].end # NoFocus
    /\ g.start = q[i].end /\ g.end = q[i + 1].start
Filled(p, q, i, from, to) ==
    p = << q[i] >> \/ \E g \in Drawn(from, to) : WithGap(p, q, i, g)

\* fill_time_gaps puts a gap after a block when the next begins later.
LEMMA GapIs ==
    ASSUME NEW q, NEW from \in Nat, NEW to \in Nat, Lined(q, from, to), NEW i \in 1 .. Len(q)
    PROVE  Filled(WithGaps(q)[i], q, i, from, to)
<1>1. /\ Len(q) \in Nat /\ DOMAIN q = 1 .. Len(q)
      /\ \A j \in 1 .. Len(q) : q[j] \in Drawn(from, to)
  BY LinedIs
<1>2. WithGaps(q)[i] = << q[i] >> \o Gap(q, i)
  BY <1>1 DEF WithGaps
<1>3. CASE Gap(q, i) = << >>
  <2>1. << q[i] >> \o << >> = << q[i] >>
    OBVIOUS
  <2> QED
    BY <1>2, <1>3, <2>1 DEF Filled
<1>4. CASE Gap(q, i) # << >>
  <2>1. /\ i < Len(q) /\ q[i].end # NoFocus /\ q[i].end < q[i + 1].start
        /\ Gap(q, i) = << [win |-> NoWindow, start |-> q[i].end, end |-> q[i + 1].start,
                           gap |-> TRUE] >>
    BY <1>4 DEF Gap
  <2>2. PICK g : g = [win |-> NoWindow, start |-> q[i].end, end |-> q[i + 1].start, gap |-> TRUE]
    OBVIOUS
  <2>3. i + 1 \in 1 .. Len(q)
    BY <1>1, <2>1
  <2>4. /\ q[i].end \in Nat /\ from <= q[i].start /\ q[i].start <= q[i].end /\ q[i].end <= to
        /\ q[i].start \in Nat /\ q[i + 1].start \in Nat /\ q[i + 1].start <= to
    BY <1>1, <2>1, <2>3, DrawnIs
  <2>5. /\ g.win = NoWindow /\ g.start = q[i].end /\ g.end = q[i + 1].start /\ g.gap = TRUE
    BY <2>2
  <2>6. g \in AnyBlock
    BY <2>2, <2>4 DEF AnyBlock
  <2>7. g \in Drawn(from, to)
    <3>1. from <= g.start /\ g.start <= to /\ g.start <= g.end /\ g.end <= to /\ g.end # NoFocus
      BY <2>1, <2>4, <2>5, Assumed
    <3> QED
      BY <2>5, <2>6, <3>1 DEF Drawn
  <2>8. Gap(q, i) = << g >>
    BY <2>1, <2>2
  <2>9. << q[i] >> \o << g >> = << q[i], g >>
    <3>1. q[i] \in Drawn(from, to)
      BY <1>1
    <3> QED
      BY <2>7, <3>1, PairOf
  <2>10. WithGaps(q)[i] = << q[i], g >>
    BY <1>2, <2>8, <2>9
  <2> QED
    BY <2>1, <2>5, <2>7, <2>10 DEF Filled, WithGap
<1> QED
  BY <1>3, <1>4

\* Blocks that follow each other still do when the gaps are filled.
LEMMA GapsFilled ==
    ASSUME NEW q, NEW from \in Nat, NEW to \in Nat, Lined(q, from, to)
    PROVE  Lined(FillGaps(q), from, to)
<1> DEFINE n == Len(q)
           R == Drawn(from, to)
           ss == WithGaps(q)
<1>1. /\ n \in Nat /\ DOMAIN q = 1 .. n /\ \A i \in 1 .. n : q[i] \in R
      /\ \A i, j \in 1 .. n : i < j => q[i].end # NoFocus /\ q[i].end <= q[j].start
  BY LinedIs
<1>2. FillGaps(q) = FlattenSeq(ss)
  BY Zenon DEF FillGaps, WithGaps, Gap
<1>3. ASSUME NEW i \in 1 .. n
      PROVE  \/ ss[i] = << q[i] >>
             \/ \E g \in R : /\ ss[i] = << q[i], g >> /\ g.gap /\ i < n /\ q[i].end # NoFocus
                             /\ g.start = q[i].end /\ g.end = q[i + 1].start
  <2>1. Filled(ss[i], q, i, from, to)
    BY GapIs
  <2> QED
    BY <2>1 DEF Filled, WithGap
<1>4. ss \in Seq(Seq(R)) /\ DOMAIN ss = 1 .. n
  <2>1. ASSUME NEW i \in 1 .. n PROVE ss[i] \in Seq(R)
    <3>1. CASE ss[i] = << q[i] >>
      BY <1>1, <3>1
    <3>2. ASSUME NEW g \in R, ss[i] = << q[i], g >> PROVE ss[i] \in Seq(R)
      BY <1>1, <3>2
    <3> QED
      BY <1>3, <3>1, <3>2
  <2>2. DOMAIN ss = 1 .. n /\ ss = [i \in 1 .. n |-> ss[i]]
    BY <1>1 DEF WithGaps
  <2> HIDE DEF ss, R, n
  <2>3. ss \in [1 .. n -> Seq(R)]
    BY <2>1, <2>2
  <2> QED
    BY <1>1, <2>2, <2>3, IsASeq
<1> HIDE DEF ss
\* Every element of a part begins at its block or ends at the next.
<1>5. ASSUME NEW i \in 1 .. n, NEW a \in DOMAIN ss[i]
      PROVE  /\ ss[i][a] \in R /\ q[i].start <= ss[i][a].start
             /\ i < n => ss[i][a].end # NoFocus /\ ss[i][a].end <= q[i + 1].start
  <2>0. i + 1 \in 1 .. n \/ ~(i < n)
    BY <1>1
  <2>1. CASE ss[i] = << q[i] >>
    <3>1. ss[i][a] = q[i]
      BY <2>1
    <3>2. q[i] \in R /\ q[i].start \in Nat
      BY <1>1, DrawnIs
    <3>3. i < n => i + 1 \in 1 .. n /\ i < i + 1
      BY <1>1
    <3> QED
      BY <1>1, <3>1, <3>2, <3>3
  <2>2. ASSUME NEW g \in R, ss[i] = << q[i], g >>, q[i].end # NoFocus, i < n,
               g.start = q[i].end, g.end = q[i + 1].start, g.gap
        PROVE  /\ ss[i][a] \in R /\ q[i].start <= ss[i][a].start
               /\ i < n => ss[i][a].end # NoFocus /\ ss[i][a].end <= q[i + 1].start
    <3>1. ss[i][a] = q[i] \/ ss[i][a] = g
      BY <2>2
    <3>2. /\ q[i] \in R /\ q[i].start \in Nat /\ q[i].end \in Nat /\ q[i].start <= q[i].end
          /\ g.end # NoFocus /\ g.end \in Nat
      BY <1>1, <2>2, DrawnIs
    <3>3. q[i].end <= q[i + 1].start
      <4>1. i + 1 \in 1 .. n /\ i < i + 1
        BY <1>1, <2>2
      <4> QED
        BY <1>1, <4>1
    <3> QED
      BY <2>2, <3>1, <3>2, <3>3
  <2> QED
    BY <1>3, <2>1, <2>2
<1>6. ASSUME NEW i \in 1 .. n PROVE Pairwise(ss[i], Follows(from, to))
  <2>1. CASE ss[i] = << q[i] >>
    BY <2>1 DEF Pairwise
  <2>2. ASSUME NEW g \in R, ss[i] = << q[i], g >>, q[i].end # NoFocus, g.start = q[i].end
        PROVE  Pairwise(ss[i], Follows(from, to))
    <3>1. q[i].end \in Nat
      BY <1>1, <2>2, DrawnIs
    <3>2. << q[i], g >> \in Follows(from, to)
      BY <1>1, <2>2, <3>1 DEF Follows
    <3>3. \A x, y \in DOMAIN ss[i] : x < y => x = 1 /\ y = 2
      BY <2>2
    <3>4. ss[i][1] = q[i] /\ ss[i][2] = g
      BY <2>2
    <3> QED
      BY <3>2, <3>3, <3>4 DEF Pairwise
  <2> QED
    BY <1>3, <2>1, <2>2
<1>7. ASSUME NEW i \in 1 .. n, NEW j \in 1 .. n, i < j,
             NEW a \in DOMAIN ss[i], NEW b \in DOMAIN ss[j]
      PROVE  << ss[i][a], ss[j][b] >> \in Follows(from, to)
  <2>1. i + 1 \in 1 .. n /\ i < n /\ (i + 1 = j \/ i + 1 < j)
    BY <1>1, <1>7
  <2>2. q[i + 1].start <= q[j].start
    <3>1. CASE i + 1 = j
      <4>1. q[j].start \in Nat
        BY <1>1, DrawnIs
      <4> QED
        BY <3>1, <4>1
    <3>2. CASE i + 1 < j
      <4>1. q[i + 1].end # NoFocus /\ q[i + 1].end <= q[j].start
        BY <1>1, <2>1, <3>2
      <4>2. /\ q[i + 1].end \in Nat /\ q[i + 1].start \in Nat /\ q[i + 1].start <= q[i + 1].end
            /\ q[j].start \in Nat
        BY <1>1, <2>1, <4>1, DrawnIs
      <4> QED
        BY <4>1, <4>2
    <3> QED
      BY <2>1, <3>1, <3>2
  <2>3. /\ ss[i][a] \in R /\ ss[i][a].end # NoFocus /\ ss[i][a].end <= q[i + 1].start
        /\ ss[j][b] \in R /\ q[j].start <= ss[j][b].start
    BY <1>5, <2>1
  <2>4. ss[i][a].end \in Nat /\ ss[j][b].start \in Nat /\ q[i + 1].start \in Nat
        /\ q[j].start \in Nat
    BY <1>1, <2>1, <2>3, DrawnIs
  <2>5. ss[i][a].end <= ss[j][b].start
    <3>1. PICK x \in Nat, y \in Nat : x = ss[i][a].end /\ y = ss[j][b].start
      BY <2>4
    <3>2. PICK u \in Nat, v \in Nat : u = q[i + 1].start /\ v = q[j].start
      BY <2>4
    <3>3. x <= u /\ u <= v /\ v <= y
      BY <2>2, <2>3, <3>1, <3>2
    <3> QED
      BY <3>1, <3>3
  <2> QED
    BY <2>3, <2>5 DEF Follows
<1>8. Pairwise(FlattenSeq(ss), Follows(from, to))
  <2> HIDE DEF n, R
  <2>1. \A i \in DOMAIN ss : Pairwise(ss[i], Follows(from, to))
    BY <1>4, <1>6
  <2>2. \A i, j \in DOMAIN ss : i < j => \A a \in DOMAIN ss[i], b \in DOMAIN ss[j] :
            << ss[i][a], ss[j][b] >> \in Follows(from, to)
    BY <1>4, <1>7
  <2> QED
    BY <1>4, <2>1, <2>2, FlattenOrder
<1>9. FlattenSeq(ss) \in Seq(R)
  <2> HIDE DEF R
  <2>1. PICK t \in [0 .. Len(ss) -> Seq(R)] : FlattenSeq(ss) = t[Len(ss)]
    BY <1>4, FlattenPasses
  <2>2. Len(ss) \in 0 .. Len(ss)
    BY <1>4, LenProperties
  <2> QED
    BY <2>1, <2>2
<1> QED
  BY <1>2, <1>8, <1>9 DEF Lined

\* Gaps are worth nothing.
LEMMA GapsWorth ==
    ASSUME NEW q, NEW from \in Nat, NEW to \in Nat, Lined(q, from, to),
           NEW v \in [Drawn(from, to) -> Nat], \A b \in Drawn(from, to) : b.gap => v[b] = 0
    PROVE  Total(FillGaps(q), v) = Total(q, v)
<1> DEFINE n == Len(q)
           R == Drawn(from, to)
           ss == WithGaps(q)
<1>1. /\ n \in Nat /\ DOMAIN q = 1 .. n /\ \A i \in 1 .. n : q[i] \in R
  BY LinedIs
<1>2. FillGaps(q) = FlattenSeq(ss)
  BY Zenon DEF FillGaps, WithGaps, Gap
<1>3. ASSUME NEW i \in 1 .. n PROVE ss[i] \in Seq(R) /\ Total(ss[i], v) = v[q[i]]
  <2>1. PICK s \in Seq(R) : s = << >>
    BY EmptySeq
  <2>2. PICK b \in R : b = q[i]
    BY <1>1
  <2>3. PICK one \in Seq(R) : one = Append(s, b) /\ one = << b >>
    <3>1. Append(s, b) = << b >>
      BY <2>1
    <3>2. << b >> \in Seq(R)
      <4> HIDE DEF R
      <4> QED
        OBVIOUS
    <3> QED
      BY <3>1, <3>2
  <2>4. Total(one, v) = v[b]
    <3>1. Total(Append(s, b), v) = Total(s, v) + v[b]
      <4> v \in [R -> Nat]
        OBVIOUS
      <4> HIDE DEF R
      <4> QED
        BY TotalOfMore
    <3>2. Total(s, v) = 0 /\ v[b] \in Nat
      BY <2>1, TotalOfNone
    <3> QED
      BY <2>3, <3>1, <3>2
  <2>5. CASE ss[i] = << q[i] >>
    BY <2>2, <2>3, <2>4, <2>5
  <2>6. ASSUME NEW g \in R, ss[i] = << q[i], g >>, g.gap
        PROVE  ss[i] \in Seq(R) /\ Total(ss[i], v) = v[q[i]]
    <3>1. ss[i] = Append(one, g)
      BY <2>2, <2>3, <2>6
    <3>2. Total(Append(one, g), v) = Total(one, v) + v[g]
      <4> v \in [R -> Nat]
        OBVIOUS
      <4> HIDE DEF R
      <4> QED
        BY TotalOfMore
    <3>3. v[g] = 0 /\ v[b] \in Nat
      BY <2>6
    <3>4. Append(one, g) \in Seq(R)
      BY AppendProperties
    <3> QED
      BY <2>2, <2>4, <3>1, <3>2, <3>3, <3>4
  <2>7. \/ ss[i] = << q[i] >>
        \/ \E g \in R : ss[i] = << q[i], g >> /\ g.gap
    <3>1. Filled(ss[i], q, i, from, to)
      BY GapIs
    <3> QED
      BY <3>1 DEF Filled, WithGap
  <2> QED
    BY <2>5, <2>6, <2>7
<1>4. ss \in Seq(Seq(R)) /\ DOMAIN ss = 1 .. n
  <2>1. DOMAIN ss = 1 .. n /\ ss = [i \in 1 .. n |-> ss[i]]
    BY <1>1 DEF WithGaps
  <2> HIDE DEF ss, R, n
  <2>2. ss \in [1 .. n -> Seq(R)]
    BY <1>3, <2>1
  <2> QED
    BY <1>1, <2>1, <2>2, IsASeq
<1> HIDE DEF ss
<1>5. Total(FlattenSeq(ss), v) = SumFunction([i \in DOMAIN ss |-> Total(ss[i], v)])
  <2> HIDE DEF R
  <2> QED
    BY <1>4, FlattenTotal DEF R
<1>6. [i \in DOMAIN ss |-> Total(ss[i], v)] = [i \in DOMAIN q |-> v[q[i]]]
  <2> HIDE DEF R
  <2> QED
    BY <1>1, <1>3, <1>4
<1> QED
  BY <1>2, <1>5, <1>6 DEF Total

-----------------------------------------------------------------------------
(* The blocks of a day show what the meter has counted *)

\* The fold of the day's events ends at the meter after the whole table.
LEMMA DayFolds ==
    ASSUME NEW rows, NEW t \in Nat, Table(rows, t), NEW m, Runs(m, rows), NEW d \in Days,
           t < DayStart(d + 1), NEW seed, seed = Cur(m[Before(rows, DayStart(d))]), NEW open,
           open = IF seed # NoSeed /\ seed.ts < DayStart(d)
                  THEN [win |-> seed.win, ts |-> DayStart(d)] ELSE NoFocus,
           NEW base, base = [blocks |-> << >>, open |-> open]
    PROVE  FoldIs(FoldLeft(FoldEvent, base, DayEvents(rows, DayStart(d), DayStart(d + 1))),
                  m, rows, Len(rows), d)
<1>1. d \in Nat /\ DayStart(d) \in Nat /\ DayStart(d + 1) \in Int
  BY Midnights, Assumed DEF Days
<1>2. PICK n \in Nat : n = Len(rows)
  BY TableIs
<1>3. PICK s \in Int, z \in Int : s = DayStart(d) /\ z = DayStart(d + 1) /\ t < z
  BY <1>1
<1>4. Before(rows, z) = Len(rows)
  BY <1>3, BeforeGrows
<1>5. PICK k \in 0 .. Len(rows) : /\ k = Before(rows, s)
                                  /\ \A i \in 1 .. Len(rows) : rows[i].ts < s <=> i <= k
  BY BeforeIs
<1>6. PICK events \in Seq(EventRow) :
         /\ events = DayEvents(rows, DayStart(d), DayStart(d + 1))
         /\ Len(events) = n - k /\ \A i \in 1 .. n - k : events[i] = rows[k + i]
  <2>1. DayEvents(rows, DayStart(d), DayStart(d + 1)) = SubSeq(rows, k + 1, n)
    BY <1>2, <1>3, <1>4, <1>5, DayEventsAre
  <2>2. n \in 0 .. Len(rows) /\ k <= n
    BY <1>2
  <2>3. /\ SubSeq(rows, k + 1, n) \in Seq(EventRow) /\ Len(SubSeq(rows, k + 1, n)) = n - k
        /\ \A i \in 1 .. n - k : SubSeq(rows, k + 1, n)[i] = rows[k + i]
    BY <2>2, PartOf
  <2> QED
    BY <2>1, <2>3
<1>7. PICK x : Passes(FALSE, x, base, events) /\ FoldLeft(FoldEvent, base, events) = x[n - k]
  <2>1. \E x : Passes(FALSE, x, base, events)
               /\ FoldLeft(FoldEvent, base, events) = x[Len(events)]
    BY EventsPass
  <2> QED
    BY <1>6, <2>1
<1> DEFINE P == {j \in 0 .. n - k : FoldIs(x[j], m, rows, k + j, d)}
<1>8. 0 \in P
  <2>1. x[0] = base /\ k + 0 = k /\ 0 \in 0 .. n - k
    BY <1>2, <1>7 DEF Passes
  <2>2. k = Before(rows, DayStart(d)) /\ seed = Cur(m[k])
    BY <1>3, <1>5
  <2>3. FoldIs([blocks |-> << >>, open |-> open], m, rows, k, d)
    BY <2>2, FoldBegins
  <2> QED
    BY <2>1, <2>3
<1>9. ASSUME NEW j \in 0 .. n - k, j \in P, j < n - k PROVE j + 1 \in P
  <2>1. PICK i \in 1 .. Len(rows) : i = k + (j + 1) /\ i - 1 = k + j /\ i > k
    BY <1>2, <1>9
  <2>2. j + 1 \in 1 .. n - k /\ (j + 1) - 1 = j /\ j + 1 \in 0 .. n - k
    BY <1>2, <1>9
  <2>3. x[j + 1] = FoldEvent(x[j], rows[i])
    BY <1>6, <1>7, <2>1, <2>2 DEF Passes, After
  <2>4. DayStart(d) <= rows[i].ts
    <3>1. ~(rows[i].ts < s)
      BY <1>2, <1>5, <2>1
    <3>2. rows[i].ts \in Nat
      BY TableIs
    <3> QED
      BY <1>3, <3>1, <3>2
  <2>5. FoldIs(x[j], m, rows, i - 1, d)
    BY <1>9, <2>1
  <2>6. FoldIs(FoldEvent(x[j], rows[i]), m, rows, i, d)
    <3> HIDE DEF P
    <3> QED
      BY <2>4, <2>5, FoldStep
  <2> QED
    BY <2>1, <2>2, <2>3, <2>6
<1>10. 0 .. n - k \subseteq P
  <2>1. n - k \in Nat
    BY <1>2
  <2> HIDE DEF P
  <2> QED
    BY <1>8, <1>9, <2>1, Induction
<1>11. n - k \in 0 .. n - k /\ k + (n - k) = Len(rows)
  BY <1>2
<1> QED
  BY <1>6, <1>7, <1>10, <1>11

-----------------------------------------------------------------------------
(* The blocks of a day with the open one last *)

DayBlocks(folded) ==
    folded.blocks \o (IF folded.open = NoFocus THEN << >>
                      ELSE << Block(folded.open, NoFocus) >>)

\* What a block of the timeline shows of some rows when it is drawn at u.
Shows(A, d, from, to, u) ==
    [b \in Drawn(from, to) |->
        IF ~b.gap /\ Meets(b.win, A) THEN Overlap(b.start, EndOf(b, u), d) ELSE 0]

\* What a block shows on a day is a natural number, and 0 for a gap.
LEMMA ShowsType ==
    ASSUME NEW A, NEW d \in Nat, NEW from, NEW to, NEW u \in Nat
    PROVE  /\ Shows(A, d, from, to, u) \in [Drawn(from, to) -> Nat]
           /\ \A b \in Drawn(from, to) : b.gap => Shows(A, d, from, to, u)[b] = 0
<1>1. \A b \in Drawn(from, to) : b.start \in Nat /\ (b.end # NoFocus => b.end \in Nat)
  BY DrawnIs
<1>2. \A b \in Drawn(from, to) : EndOf(b, u) \in Nat
  BY <1>1 DEF EndOf
<1>3. \A b \in Drawn(from, to) : Overlap(b.start, EndOf(b, u), d) \in Nat
  BY <1>1, <1>2, Overlaps
<1> QED
  BY <1>3 DEF Shows

\* A chain of closed blocks is a line of blocks.
LEMMA ChainDrawn ==
    ASSUME NEW q, NEW from \in Nat, NEW to \in Nat, ChainOf(q, from, to)
    PROVE  /\ q \in Seq(Drawn(from, to)) /\ Len(q) \in Nat /\ DOMAIN q = 1 .. Len(q)
           /\ \A i \in 1 .. Len(q) : q[i] \in ClosedBlock
           /\ Lined(q, from, to)
<1>1. q \in Seq(ClosedBlock) /\ Len(q) \in Nat /\ DOMAIN q = 1 .. Len(q)
  BY LenProperties DEF ChainOf
<1>2. \A i \in 1 .. Len(q) : q[i] \in ClosedBlock
  BY <1>1, ElementOfSeq
<1>3. /\ \A i \in 1 .. Len(q) : from <= q[i].start /\ q[i].start <= q[i].end /\ q[i].end <= to
      /\ \A i, j \in 1 .. Len(q) : i < j => q[i].end <= q[j].start
  BY DEF ChainOf
<1>4. ASSUME NEW i \in 1 .. Len(q)
      PROVE  q[i] \in Drawn(from, to) /\ q[i].end # NoFocus
  <2>1. q[i] \in ClosedBlock
    BY <1>2
  <2>2. /\ q[i].win \in Windows /\ q[i].start \in Nat /\ q[i].end \in Nat /\ q[i].gap = FALSE
    BY <2>1 DEF ClosedBlock
  <2>3. q[i] \in AnyBlock
    BY <2>1 DEF ClosedBlock, AnyBlock
  <2>4. q[i].start <= to
    BY <1>3, <2>2
  <2>5. q[i].end # NoFocus
    BY <2>2, Assumed
  <2> QED
    BY <1>3, <2>2, <2>3, <2>4, <2>5 DEF Drawn
<1>5. q \in Seq(Drawn(from, to))
  <2>1. q \in [1 .. Len(q) -> Drawn(from, to)]
    BY <1>1, <1>4
  <2> QED
    BY <1>1, <2>1, IsASeq
<1>6. ASSUME NEW i \in 1 .. Len(q), NEW j \in 1 .. Len(q), i < j
      PROVE  << q[i], q[j] >> \in Follows(from, to)
  BY <1>3, <1>4, <1>6 DEF Follows
<1>7. Pairwise(q, Follows(from, to))
  BY <1>1, <1>6 DEF Pairwise
<1> QED
  BY <1>1, <1>2, <1>5, <1>7 DEF Lined

\* Closed blocks show what they are worth, whenever they are drawn.
LEMMA ChainShows ==
    ASSUME NEW q, NEW from \in Nat, NEW to \in Nat, ChainOf(q, from, to),
           NEW A, NEW d \in Nat, NEW u \in Nat
    PROVE  Total(q, Shows(A, d, from, to, u)) = Total(q, Worth(A, d))
<1>1. DOMAIN q = 1 .. Len(q) /\ \A i \in 1 .. Len(q) : q[i] \in ClosedBlock
  BY ChainDrawn
<1>2. \A i \in 1 .. Len(q) : q[i] \in Drawn(from, to)
  <2>1. q \in Seq(Drawn(from, to))
    BY ChainDrawn
  <2> QED
    BY <2>1, ElementOfSeq
<1>3. ASSUME NEW i \in 1 .. Len(q) PROVE Shows(A, d, from, to, u)[q[i]] = Worth(A, d)[q[i]]
  <2>1. PICK b \in ClosedBlock : b = q[i] /\ b \in Drawn(from, to)
    BY <1>1, <1>2
  <2>2. b.gap = FALSE /\ b.end # NoFocus
    BY <2>1, Assumed DEF ClosedBlock
  <2>3. Shows(A, d, from, to, u)[b] = Worth(A, d)[b]
    BY <2>1, <2>2 DEF Shows, Worth, EndOf
  <2> QED
    BY <2>1, <2>3
<1>4. [i \in DOMAIN q |-> Shows(A, d, from, to, u)[q[i]]] = [i \in DOMAIN q |-> Worth(A, d)[q[i]]]
  BY <1>1, <1>3
<1> QED
  BY <1>4 DEF Total

\* A chain and the open block after it are a line of blocks.
LEMMA LinedGrows ==
    ASSUME NEW q, NEW from \in Nat, NEW to \in Nat, NEW b \in Drawn(from, to),
           ChainOf(q, from, b.start)
    PROVE  Lined(Append(q, b), from, to)
<1>1. b.start \in Nat /\ b.start <= to
  BY DrawnIs
<1>2. ChainOf(q, from, to)
  BY <1>1, ChainWidens
<1>3. /\ q \in Seq(Drawn(from, to)) /\ Len(q) \in Nat /\ DOMAIN q = 1 .. Len(q)
      /\ \A i \in 1 .. Len(q) : q[i] \in ClosedBlock
      /\ Pairwise(q, Follows(from, to))
  BY <1>2, ChainDrawn DEF Lined
<1>4. PICK z : z = Append(q, b)
  OBVIOUS
<1>5. /\ z \in Seq(Drawn(from, to)) /\ DOMAIN z = 1 .. Len(q) + 1 /\ z[Len(q) + 1] = b
      /\ \A i \in 1 .. Len(q) : z[i] = q[i] /\ z[i] \in Drawn(from, to)
  <2>1. \A i \in 1 .. Len(q) : q[i] \in Drawn(from, to)
    BY <1>3, ElementOfSeq
  <2> QED
    BY <1>3, <1>4, <2>1, AppendProperties, LenProperties
<1>6. ASSUME NEW i \in DOMAIN z, NEW j \in DOMAIN z, i < j
      PROVE  << z[i], z[j] >> \in Follows(from, to)
  <2>1. i \in 1 .. Len(q)
    BY <1>3, <1>5, <1>6
  <2>2. CASE j = Len(q) + 1
    <3>1. q[i].end <= b.start /\ q[i].end \in Nat
      BY <1>3, <2>1 DEF ChainOf, ClosedBlock
    <3>2. q[i].end # NoFocus
      BY <3>1, Assumed
    <3> QED
      BY <1>5, <2>1, <2>2, <3>1, <3>2 DEF Follows
  <2>3. CASE j # Len(q) + 1
    <3>1. j \in 1 .. Len(q)
      BY <1>3, <1>5, <2>3
    <3> QED
      BY <1>3, <1>5, <1>6, <2>1, <3>1 DEF Pairwise
  <2> QED
    BY <2>2, <2>3
<1>7. Pairwise(z, Follows(from, to))
  BY <1>6 DEF Pairwise
<1> QED
  BY <1>4, <1>5, <1>7 DEF Lined

\* They follow one another and hold what the meter holds at u.
LEMMA BlocksOfDay ==
    ASSUME NEW rows, NEW t \in Nat, Table(rows, t), NEW m, Runs(m, rows), NEW d \in Days,
           DayStart(d) <= t, NEW folded, FoldIs(folded, m, rows, Len(rows), d)
    PROVE  /\ Lined(DayBlocks(folded), DayStart(d), t)
           /\ \A u \in Nat : \A A : Single(A) =>
                  Total(DayBlocks(folded), Shows(A, d, DayStart(d), t, u))
                  = Spent(A, m[Len(rows)], d) + Adding(A, m[Len(rows)], u, d)
<1>1. d \in Nat
  BY Assumed DEF Days
<1>2. PICK s \in Nat : s = DayStart(d) /\ s <= t
  BY <1>1, Midnights
<1>3. PICK n \in 0 .. Len(rows) : n = Len(rows) /\ \A i \in 1 .. n : rows[i].ts <= t
  BY TableIs
<1>4. PICK p : p = m[n]
  OBVIOUS
<1>5. PICK q \in Seq(ClosedBlock) :
         /\ q = folded.blocks /\ folded.open = OpenOf(Cur(p), s)
         /\ folded.open # NoFocus => ChainOf(q, s, folded.open.ts)
         /\ ChainOf(q, s, t)
         /\ \A A : Single(A) => Total(q, Worth(A, d)) = Spent(A, p, d)
  BY <1>2, <1>3, <1>4 DEF FoldIs, Counted
<1>6. /\ q \in Seq(Drawn(s, t)) /\ Lined(q, s, t)
      /\ \A u \in Nat : \A A : Single(A) => /\ Total(q, Shows(A, d, s, t, u)) = Spent(A, p, d)
                                            /\ Spent(A, p, d) \in Nat
  <2>1. ASSUME NEW u \in Nat, NEW A, Single(A)
        PROVE  Total(q, Shows(A, d, s, t, u)) = Spent(A, p, d) /\ Spent(A, p, d) \in Nat
    <3>1. Total(q, Shows(A, d, s, t, u)) = Total(q, Worth(A, d))
      BY <1>1, <1>5, ChainShows
    <3>2. Total(q, Worth(A, d)) \in Nat
      BY <1>1, WorthType, TotalType
    <3> QED
      BY <1>5, <2>1, <3>1, <3>2
  <2>2. q \in Seq(Drawn(s, t)) /\ Lined(q, s, t)
    BY <1>5, ChainDrawn
  <2> QED
    BY <2>1, <2>2
<1>7. CASE folded.open = NoFocus
  <2>1. DayBlocks(folded) = q
    <3>1. q \o << >> = q
      BY ConcatEmptySeq
    <3> QED
      BY <1>5, <1>7, <3>1 DEF DayBlocks
  <2>2. Cur(p) = NoFocus
    <3>1. OpenOf(Cur(m[n]), s) # NoFocus <=> Cur(m[n]) # NoFocus
      BY <1>3, OpenIs
    <3> QED
      BY <1>4, <1>5, <1>7, <3>1
  <2>3. \A A, u : Adding(A, p, u, d) = 0
    BY <2>2 DEF Adding
  <2>4. \A u \in Nat : \A A : Single(A) =>
            Total(q, Shows(A, d, s, t, u)) = Spent(A, p, d) + Adding(A, p, u, d)
    BY <1>6, <2>3
  <2> QED
    BY <1>2, <1>3, <1>4, <1>6, <2>1, <2>4
<1>8. CASE folded.open # NoFocus
  <2>1. /\ Cur(p) # NoFocus /\ folded.open.win \in Windows /\ folded.open.ts \in Nat
        /\ folded.open.win = Cur(p).win /\ folded.open.ts = Max2(Cur(p).ts, s)
        /\ s <= folded.open.ts /\ folded.open.ts <= t /\ Cur(p).ts \in Nat
    <3>1. Cur(p) # NoFocus
      <4>1. OpenOf(Cur(m[n]), s) # NoFocus <=> Cur(m[n]) # NoFocus
        BY <1>3, OpenIs
      <4> QED
        BY <1>4, <1>5, <1>8, <4>1
    <3>2. Cur(p).ts \in Nat
      BY <1>3, <1>4, <3>1, CurOfRow
    <3>3. LET open == OpenOf(Cur(m[n]), s)
          IN  /\ open \in AsFocus /\ open.win \in Windows /\ open.ts \in Nat
              /\ open.win = Cur(m[n]).win /\ open.ts = Max2(Cur(m[n]).ts, s)
              /\ s <= open.ts
              /\ \A u \in Nat : s <= u /\ (\A x \in 1 .. n : rows[x].ts <= u)
                                => open.ts <= u
      BY <1>3, <1>4, <3>1, OpenIs
    <3> QED
      BY <1>2, <1>3, <1>4, <1>5, <3>1, <3>2, <3>3
  <2>2. PICK b \in Drawn(s, t) : /\ b = Block(folded.open, NoFocus) /\ b.win = Cur(p).win
                                 /\ b.start = folded.open.ts /\ b.end = NoFocus /\ b.gap = FALSE
    <3>1. PICK w \in Windows, a \in Nat : w = folded.open.win /\ a = folded.open.ts
      BY <2>1
    <3>2. PICK b : b = [win |-> w, start |-> a, end |-> NoFocus, gap |-> FALSE]
      OBVIOUS
    <3>3. b \in AnyBlock /\ b.win = w /\ b.start = a /\ b.end = NoFocus /\ b.gap = FALSE
      BY <3>2 DEF AnyBlock
    <3>4. b = Block(folded.open, NoFocus)
      BY <3>1, <3>2 DEF Block
    <3>5. b \in Drawn(s, t)
      BY <2>1, <3>1, <3>3 DEF Drawn
    <3> QED
      BY <2>1, <3>1, <3>3, <3>4, <3>5
  <2>3. DayBlocks(folded) = Append(q, b)
    <3>1. q \o << b >> = Append(q, b)
      BY <1>6, AppendIsConcat
    <3> QED
      BY <1>5, <1>8, <2>2, <3>1 DEF DayBlocks
  <2>4. Lined(Append(q, b), s, t)
    <3>1. ChainOf(q, s, b.start)
      BY <1>5, <1>8, <2>2
    <3> QED
      BY <3>1, LinedGrows
  <2>5. ASSUME NEW u \in Nat, NEW A, Single(A)
        PROVE  Total(Append(q, b), Shows(A, d, s, t, u)) = Spent(A, p, d) + Adding(A, p, u, d)
    <3>1. PICK v \in [Drawn(s, t) -> Nat] : v = Shows(A, d, s, t, u)
      BY <1>1, ShowsType
    <3>2. Total(Append(q, b), v) = Total(q, v) + v[b]
      BY <1>6, TotalOfMore
    <3>3. v[b] = Adding(A, p, u, d)
      <4>1. v[b] = IF Meets(Cur(p).win, A) THEN Overlap(folded.open.ts, u, d) ELSE 0
        BY <2>2, <3>1 DEF Shows, EndOf
      <4>2. Overlap(Max2(Cur(p).ts, DayStart(d)), u, d) = Overlap(Cur(p).ts, u, d)
        <5>1. \A x, y, z \in Nat : Overlap(Max2(x, DayStart(z)), y, z) = Overlap(x, y, z)
          BY Overlaps
        <5>2. Cur(p).ts \in Nat /\ d \in Nat
          BY <1>1, <2>1
        <5> QED
          BY <5>1, <5>2
      <4> QED
        BY <1>2, <2>1, <4>1, <4>2 DEF Adding
    <3> QED
      BY <1>6, <2>5, <3>1, <3>2, <3>3
  <2> QED
    BY <1>2, <1>3, <1>4, <2>3, <2>4, <2>5
<1> QED
  BY <1>7, <1>8

\* The meter runs along every table, and the fold ends where the run does.
LEMMA RunExists ==
    ASSUME NEW rows, NEW t, Table(rows, t)
    PROVE  \E m : Runs(m, rows) /\ FoldLeft(Observed, Zero, rows) = m[Len(rows)]
<1>1. rows \in Seq(EventRow)
  BY TableIs
<1>2. \E m : Passes(TRUE, m, Zero, rows) /\ FoldLeft(Observed, Zero, rows) = m[Len(rows)]
  BY <1>1, RowsPass
<1> QED
  BY <1>2 DEF Runs

\* The usage tables hold what the meter has counted and what its focus adds until u.
LEMMA MeteredIs ==
    ASSUME NEW rows, NEW t, Table(rows, t), NEW m, Runs(m, rows),
           FoldLeft(Observed, Zero, rows) = m[Len(rows)], NEW u \in Nat
    PROVE  /\ Metered(rows, u) \in [Days -> [Keys -> Nat]]
           /\ \A d \in Days : \A A : Single(A) =>
                  SumFunction([r \in A |-> Metered(rows, u)[d][r]])
                  = Spent(A, m[Len(rows)], d) + Adding(A, m[Len(rows)], u, d)
<1>1. PICK p : p = m[Len(rows)] /\ MeterType(p)
  <2>1. Len(rows) \in 0 .. Len(rows)
    BY TableIs
  <2> QED
    BY <2>1, RunType
<1>2. PICK e : e = EndRow(u) /\ Readable(e) /\ e.type \notin Ignored /\ e.ts = u
  BY EndReadable
<1>3. PICK o : o = Observed(p, e) /\ MeterType(o)
  BY <1>1, <1>2, ObservedIs
<1>4. \A d \in Days : \A A : Single(A) => Spent(A, o, d) = Spent(A, p, d) + Adding(A, p, u, d)
  <2>1. \A d \in Days : \A A : Single(A) =>
            Spent(A, Observed(p, e), d) = Spent(A, p, d) + Adding(A, p, e.ts, d)
    BY <1>1, <1>2, ObservedIs
  <2> QED
    BY <1>2, <1>3, <2>1
<1>5. Metered(rows, u) = [d \in Days |-> [r \in Keys |-> o.spent[Viewer][r][d]]]
  <2>1. FoldLeft(Observed, Zero, rows) = p
    BY <1>1
  <2>2. Metered(rows, u) =
          [d \in Days |-> [r \in Keys |->
              Observed(FoldLeft(Observed, Zero, rows), EndRow(u)).spent[Viewer][r][d]]]
    BY Zenon DEF Metered, EndRow
  <2> QED
    BY <1>2, <1>3, <2>1, <2>2, Zenon
<1>6. \A d \in Days, r \in Keys : o.spent[Viewer][r][d] \in Nat
  BY <1>3, Assumed DEF MeterType
<1>7. Metered(rows, u) \in [Days -> [Keys -> Nat]]
  BY <1>5, <1>6
<1>8. ASSUME NEW d \in Days, NEW A, Single(A)
      PROVE  SumFunction([r \in A |-> Metered(rows, u)[d][r]]) = Spent(A, o, d)
  <2>1. \A r \in A : Metered(rows, u)[d][r] = o.spent[Viewer][r][d]
    BY <1>5, <1>8 DEF Single
  <2>2. [r \in A |-> Metered(rows, u)[d][r]] = [r \in A |-> o.spent[Viewer][r][d]]
    BY <2>1
  <2> QED
    BY <2>2 DEF Spent
<1> QED
  BY <1>1, <1>4, <1>7, <1>8

\* A single row, and a table with one row for each window.
LEMMA RowIsSingle ==
    ASSUME NEW r \in Keys
    PROVE  /\ Single({r}) /\ \A w \in Windows : Meets(w, {r}) <=> r \in KeysOf[w]
           /\ \A f : f[r] \in Nat => SumFunction([x \in {r} |-> f[x]]) = f[r]
<1>1. Single({r})
  BY DEF Single
<1>2. \A w \in Windows : Meets(w, {r}) <=> r \in KeysOf[w]
  BY DEF Meets
<1>3. ASSUME NEW f, f[r] \in Nat PROVE SumFunction([x \in {r} |-> f[x]]) = f[r]
  <2>1. PICK g \in [{r} -> Nat] : g = [x \in {r} |-> f[x]]
    BY <1>3
  <2>2. IsFiniteSet({r}) /\ r \in {r} /\ \A y \in {r} : y # r => g[y] = 0
    BY FS_Singleton
  <2>3. SumFunction(g) = g[r]
    BY <2>2, SumOfOne
  <2> QED
    BY <2>1, <2>3
<1> QED
  BY <1>1, <1>2, <1>3

\* A set with one row for each window counts every window once.
LEMMA OneRowIs ==
    ASSUME NEW A, A \subseteq Keys, OneRowEach(A)
    PROVE  Single(A) /\ \A w \in Windows : Meets(w, A)
<1>1. ASSUME NEW w \in Windows PROVE \E x : KeysOf[w] \cap A = {x}
  <2>1. IsFiniteSet(KeysOf[w] \cap A)
    BY Assumed, FS_Subset
  <2>2. Cardinality(KeysOf[w] \cap A) = 1
    BY DEF OneRowEach
  <2> QED
    BY <2>1, <2>2, FS_Singleton
<1>2. ASSUME NEW w \in Windows PROVE Meets(w, A)
  BY <1>1 DEF Meets
<1>3. ASSUME NEW w \in Windows, NEW x \in KeysOf[w] \cap A, NEW y \in KeysOf[w] \cap A
      PROVE  x = y
  BY <1>1
<1> QED
  BY <1>2, <1>3 DEF Single

-----------------------------------------------------------------------------
(* The timeline of a day *)

DayLine(rows, d) ==
    Timeline(d, PreMidnightSeed(rows, DayStart(d)),
             DayEvents(rows, DayStart(d), DayStart(d + 1)))

\* The timeline of a day is a line of blocks that shows what the tables hold.
LEMMA DayLineIs ==
    ASSUME NEW rows, NEW t \in Nat, Table(rows, t), NEW m, Runs(m, rows), NEW d \in Days,
           DayStart(d) <= t, t < DayStart(d + 1)
    PROVE  /\ Lined(DayLine(rows, d), DayStart(d), t)
           /\ \A u \in Nat : \A A : Single(A) =>
                  Total(DayLine(rows, d), Shows(A, d, DayStart(d), t, u))
                  = Spent(A, m[Len(rows)], d) + Adding(A, m[Len(rows)], u, d)
<1>1. d \in Nat /\ DayStart(d) \in Nat
  BY Midnights, Assumed DEF Days
<1>2. PICK s \in Nat : s = DayStart(d)
  BY <1>1
<1>3. PICK seed : seed = PreMidnightSeed(rows, s) /\ seed = Cur(m[Before(rows, s)])
  BY SeedIs
<1>4. PICK open : open = IF seed # NoSeed /\ seed.ts < DayStart(d)
                         THEN [win |-> seed.win, ts |-> DayStart(d)] ELSE NoFocus
  OBVIOUS
<1>5. PICK base : base = [blocks |-> << >>, open |-> open]
  OBVIOUS
<1>6. PICK folded :
         folded = FoldLeft(FoldEvent, base, DayEvents(rows, DayStart(d), DayStart(d + 1)))
  OBVIOUS
<1>7. FoldIs(folded, m, rows, Len(rows), d)
  <2>1. seed = Cur(m[Before(rows, DayStart(d))])
    BY <1>2, <1>3
  <2> QED
    BY <1>4, <1>5, <1>6, <2>1, DayFolds
<1>8. DayLine(rows, d) = FillGaps(ByStart(DayBlocks(folded)))
  <2>1. DayLine(rows, d) = Timeline(d, seed, DayEvents(rows, DayStart(d), DayStart(d + 1)))
    BY <1>2, <1>3 DEF DayLine
  <2>2. ASSUME NEW events
        PROVE  Timeline(d, seed, events)
               = FillGaps(ByStart(DayBlocks(FoldLeft(FoldEvent, base, events))))
    BY <1>4, <1>5, Zenon DEF Timeline, DayBlocks
  <2> QED
    BY <1>6, <2>1, <2>2
<1>9. PICK q : /\ q = DayBlocks(folded) /\ Lined(q, s, t)
               /\ \A u \in Nat : \A A : Single(A) =>
                      Total(q, Shows(A, d, s, t, u))
                      = Spent(A, m[Len(rows)], d) + Adding(A, m[Len(rows)], u, d)
  BY <1>2, <1>7, BlocksOfDay
<1>10. DayLine(rows, d) = FillGaps(q)
  BY <1>8, <1>9, ByStartKeeps
<1>11. Lined(FillGaps(q), s, t)
  BY <1>9, GapsFilled
<1>12. ASSUME NEW u \in Nat, NEW A
       PROVE  Total(FillGaps(q), Shows(A, d, s, t, u)) = Total(q, Shows(A, d, s, t, u))
  <2>1. PICK v \in [Drawn(s, t) -> Nat] : /\ v = Shows(A, d, s, t, u)
                                          /\ \A b \in Drawn(s, t) : b.gap => v[b] = 0
    BY <1>1, ShowsType
  <2> QED
    BY <1>9, <2>1, GapsWorth
<1> QED
  BY <1>2, <1>9, <1>10, <1>11, <1>12

\* What is drawn of it while the day lasts is what the tables say.
LEMMA FocusOfDay ==
    ASSUME NEW rows, NEW t \in Nat, Table(rows, t), NEW d \in Days,
           DayStart(d) <= t, t < DayStart(d + 1), NEW A, A \subseteq Keys, OneRowEach(A)
    PROVE  TotalFocus(DayLine(rows, d), t) = SumFunction([r \in A |-> Metered(rows, t)[d][r]])
<1>1. d \in Nat /\ DayStart(d) \in Nat /\ DayStart(d + 1) \in Int
  BY Midnights, Assumed DEF Days
<1>2. Single(A) /\ \A w \in Windows : Meets(w, A)
  BY OneRowIs
<1>3. PICK m : Runs(m, rows) /\ FoldLeft(Observed, Zero, rows) = m[Len(rows)]
  BY RunExists
<1>4. PICK s \in Nat : s = DayStart(d)
  BY <1>1
<1>5. PICK q : /\ q = DayLine(rows, d) /\ Lined(q, s, t)
               /\ Total(q, Shows(A, d, s, t, t))
                  = Spent(A, m[Len(rows)], d) + Adding(A, m[Len(rows)], t, d)
  BY <1>2, <1>3, <1>4, DayLineIs
<1>6. DOMAIN q = 1 .. Len(q) /\ \A i \in 1 .. Len(q) : q[i] \in Drawn(s, t)
  BY <1>5, LinedIs
<1>7. ASSUME NEW b \in Drawn(s, t)
      PROVE  (IF b.gap THEN 0 ELSE Max2(0, EndOf(b, t) - b.start)) = Shows(A, d, s, t, t)[b]
  <2>1. /\ b.start \in Nat /\ s <= b.start /\ b.start <= t
        /\ b.end # NoFocus => b.end \in Nat /\ b.start <= b.end /\ b.end <= t
        /\ b.gap \in BOOLEAN /\ (~b.gap => b.win \in Windows)
    BY DrawnIs
  <2>2. PICK a \in Nat, z \in Nat : a = b.start /\ z = EndOf(b, t) /\ s <= a /\ a <= z /\ z <= t
    BY <2>1 DEF EndOf
  <2>3. Overlap(a, z, d) = z - a
    <3>1. d \in Nat /\ DayStart(d) <= a /\ a <= z /\ z <= DayStart(d + 1)
      BY <1>1, <1>4, <2>2
    <3> QED
      BY <3>1, Overlaps
  <2>4. Max2(0, z - a) = z - a
    BY <2>2 DEF Max2
  <2>5. Shows(A, d, s, t, t)[b] = IF ~b.gap /\ Meets(b.win, A) THEN Overlap(a, z, d) ELSE 0
    BY <2>2 DEF Shows
  <2>6. ~b.gap => Meets(b.win, A)
    BY <1>2, <2>1
  <2> QED
    BY <2>1, <2>2, <2>3, <2>4, <2>5, <2>6
<1>8. TotalFocus(q, t) = Total(q, Shows(A, d, s, t, t))
  <2>1. \A i \in DOMAIN q : (IF q[i].gap THEN 0 ELSE Max2(0, EndOf(q[i], t) - q[i].start))
                            = Shows(A, d, s, t, t)[q[i]]
    BY <1>6, <1>7
  <2>2. [i \in DOMAIN q |-> IF q[i].gap THEN 0 ELSE Max2(0, EndOf(q[i], t) - q[i].start)]
        = [i \in DOMAIN q |-> Shows(A, d, s, t, t)[q[i]]]
    BY <2>1
  <2> QED
    BY <2>2 DEF TotalFocus, Total
<1> QED
  BY <1>2, <1>3, <1>5, <1>8, MeteredIs

-----------------------------------------------------------------------------
(* The machine: what a refresh has read *)

Answered == refresh.seed # Unread \/ refresh.events # Unread

RefreshType ==
    refresh \in [day : Int, seed : AsFocus \cup {NoFocus, Unread},
                 events : Seq(EventRow) \cup {Unread}, built : Int, rows : Nat,
                 torn : BOOLEAN]

\* The answers are those of the first rows of the table, unless a write came
\* between the two queries.
AnswersOfSnapshot ==
    ~refresh.torn =>
        /\ Reading => refresh.rows = Len(log)
        /\ refresh.seed # Unread =>
               refresh.seed = PreMidnightSeed(Snapshot, DayStart(refresh.day))
        /\ refresh.events # Unread =>
               refresh.events = DayEvents(Snapshot, DayStart(refresh.day),
                                          DayStart(refresh.day + 1))

\* What was built had both answers, and every row of the snapshot was there.
BuiltFromSnapshot ==
    refresh.built # -1 => /\ ~Reading /\ refresh.built \in 0 .. now
                          /\ \A i \in 1 .. refresh.rows : log[i].ts <= refresh.built

ScreensInv ==
    /\ now \in Nat /\ Table(log, now)
    /\ now <= MaxTime \/ (log = << >> /\ refresh = NoRefresh)
    /\ RefreshType /\ refresh.rows <= Len(log)
    /\ IF Answered THEN refresh.day \in Nat
                   ELSE refresh.day = -1 /\ refresh.built = -1 /\ ~refresh.torn
    /\ BuiltFromSnapshot
    /\ AnswersOfSnapshot

-----------------------------------------------------------------------------
\* A table of rows until t is one of rows until any later time.
LEMMA TableWidens ==
    ASSUME NEW rows, NEW t \in Int, Table(rows, t), NEW u \in Int, t <= u
    PROVE  Table(rows, u)
<1>1. DOMAIN rows = 1 .. Len(rows) /\ \A i \in 1 .. Len(rows) : rows[i].ts \in Nat
  BY TableIs
<1>2. \A i \in DOMAIN rows : rows[i].ts <= u
  BY <1>1 DEF Table
<1> QED
  BY <1>2 DEF Table

\* The first rows of a table.
LEMMA FirstRows ==
    ASSUME NEW rows, NEW t, Table(rows, t), NEW k \in 0 .. Len(rows)
    PROVE  /\ SubSeq(rows, 1, k) \in Seq(EventRow) /\ Len(SubSeq(rows, 1, k)) = k
           /\ \A i \in 1 .. k : SubSeq(rows, 1, k)[i] = rows[i]
           /\ \A u : (\A i \in 1 .. k : rows[i].ts <= u) => Table(SubSeq(rows, 1, k), u)
           /\ k = Len(rows) => SubSeq(rows, 1, k) = rows
<1>0. 0 \in 0 .. Len(rows) /\ k \in Nat /\ 0 <= k /\ 0 + 1 = 1 /\ k - 0 = k
      /\ \A i \in 1 .. k : 0 + i = i
  BY TableIs
<1>1. PICK z : z = SubSeq(rows, 1, k)
  OBVIOUS
<1>2. z \in Seq(EventRow) /\ Len(z) = k /\ \A i \in 1 .. k : z[i] = rows[i]
  <2>1. /\ SubSeq(rows, 0 + 1, k) \in Seq(EventRow)
        /\ Len(SubSeq(rows, 0 + 1, k)) = k - 0
        /\ \A i \in 1 .. k - 0 : SubSeq(rows, 0 + 1, k)[i] = rows[0 + i]
    BY <1>0, PartOf
  <2> QED
    BY <1>0, <1>1, <2>1
<1>3. DOMAIN z = 1 .. k /\ DOMAIN rows = 1 .. Len(rows) /\ \A i \in 1 .. k : i \in 1 .. Len(rows)
  BY <1>0, <1>2, TableIs, LenProperties
<1>4. ASSUME NEW u, \A i \in 1 .. k : rows[i].ts <= u PROVE Table(z, u)
  <2>1. \A i \in DOMAIN z : /\ z[i].ts <= u
                            /\ z[i].type \in Windowed => z[i].win \in Windows
    BY <1>2, <1>3, <1>4 DEF Table
  <2>2. \A i, j \in DOMAIN z : i < j => z[i].ts <= z[j].ts
    BY <1>2, <1>3 DEF Table
  <2> QED
    BY <1>2, <2>1, <2>2 DEF Table
<1>5. k = Len(rows) => z = rows
  <2>1. rows \in Seq(EventRow)
    BY TableIs
  <2> QED
    BY <1>2, <2>1, SeqEqual
<1> QED
  BY <1>1, <1>2, <1>4, <1>5

\* A row more.
LEMMA TableGrows ==
    ASSUME NEW rows, NEW t \in Nat, Table(rows, t), NEW e \in EventRow, e.ts <= t,
           e.type \in Windowed => e.win \in Windows,
           rows # << >> => e.ts >= Last(rows).ts
    PROVE  /\ Table(Append(rows, e), t) /\ Len(Append(rows, e)) = Len(rows) + 1
           /\ \A i \in 1 .. Len(rows) : Append(rows, e)[i] = rows[i]
           /\ \A k \in 0 .. Len(rows) : SubSeq(Append(rows, e), 1, k) = SubSeq(rows, 1, k)
<1>1. PICK n \in Nat : n = Len(rows)
  BY TableIs
<1>2. PICK z : z = Append(rows, e)
  OBVIOUS
<1>3. /\ z \in Seq(EventRow) /\ Len(z) = n + 1 /\ z[n + 1] = e
      /\ DOMAIN z = 1 .. n + 1 /\ \A i \in 1 .. n : z[i] = rows[i]
  <2>1. rows \in Seq(EventRow)
    BY TableIs
  <2> QED
    BY <1>1, <1>2, <2>1, AppendProperties, LenProperties
<1>4. /\ \A i \in 1 .. n : /\ rows[i].ts \in Nat /\ rows[i].ts <= t
                           /\ rows[i].type \in Windowed => rows[i].win \in Windows
      /\ \A i, j \in 1 .. n : i <= j => rows[i].ts <= rows[j].ts
  BY <1>1, TableIs
<1>5. e.ts \in Nat
  BY DEF EventRow
<1>6. \A i \in 1 .. n : rows[i].ts <= e.ts
  <2> SUFFICES ASSUME NEW i \in 1 .. n PROVE rows[i].ts <= e.ts
    OBVIOUS
  <2>1. rows # << >> /\ n \in 1 .. n /\ i <= n
    BY <1>1
  <2>2. rows[n].ts <= e.ts
    BY <1>1, <1>4, <1>5, <2>1 DEF Last
  <2> QED
    BY <1>4, <1>5, <2>1, <2>2
<1>7. Table(z, t)
  <2>1. \A i \in DOMAIN z : z[i].ts <= t /\ (z[i].type \in Windowed => z[i].win \in Windows)
    <3> SUFFICES ASSUME NEW i \in 1 .. n + 1
                 PROVE  z[i].ts <= t /\ (z[i].type \in Windowed => z[i].win \in Windows)
      BY <1>3
    <3>1. i = n + 1 \/ i \in 1 .. n
      OBVIOUS
    <3> QED
      BY <1>3, <1>4, <3>1
  <2>2. \A i, j \in DOMAIN z : i < j => z[i].ts <= z[j].ts
    <3> SUFFICES ASSUME NEW i \in 1 .. n + 1, NEW j \in 1 .. n + 1, i < j
                 PROVE  z[i].ts <= z[j].ts
      BY <1>3
    <3>1. i \in 1 .. n /\ (j = n + 1 \/ j \in 1 .. n) /\ i <= j
      OBVIOUS
    <3> QED
      BY <1>3, <1>4, <1>6, <3>1
  <2> QED
    BY <1>3, <2>1, <2>2 DEF Table
<1>8. ASSUME NEW k \in 0 .. n PROVE SubSeq(z, 1, k) = SubSeq(rows, 1, k)
  <2>1. k \in 0 .. Len(z) /\ k \in 0 .. Len(rows) /\ \A i \in 1 .. k : i \in 1 .. n
    BY <1>1, <1>3
  <2>2. PICK a \in Seq(EventRow) : /\ a = SubSeq(z, 1, k) /\ Len(a) = k
                                   /\ \A i \in 1 .. k : a[i] = z[i]
    BY <1>7, <2>1, FirstRows
  <2>3. PICK b \in Seq(EventRow) : /\ b = SubSeq(rows, 1, k) /\ Len(b) = k
                                   /\ \A i \in 1 .. k : b[i] = rows[i]
    BY <2>1, FirstRows
  <2>4. \A i \in 1 .. Len(a) : a[i] = b[i]
    BY <1>3, <2>1, <2>2, <2>3
  <2>5. a = b
    BY <2>2, <2>3, <2>4, SeqEqual
  <2> QED
    BY <2>2, <2>3, <2>5
<1> QED
  BY <1>1, <1>2, <1>3, <1>7, <1>8

\* What the two queries can answer.
LEMMA AnswersAre ==
    ASSUME NEW rows, NEW t \in Nat, Table(rows, t), NEW d \in Nat
    PROVE  /\ PreMidnightSeed(rows, DayStart(d)) \in AsFocus \cup {NoFocus}
           /\ PreMidnightSeed(rows, DayStart(d)) # Unread
           /\ DayEvents(rows, DayStart(d), DayStart(d + 1)) \in Seq(EventRow)
           /\ DayEvents(rows, DayStart(d), DayStart(d + 1)) # Unread
<1>1. PICK s \in Nat, z \in Int : s = DayStart(d) /\ z = DayStart(d + 1) /\ s <= z
  <2>1. DayStart(d) \in Nat /\ DayStart(d + 1) \in Int /\ d < d + 1 /\ d + 1 \in Int
    BY Midnights
  <2>2. DayStart(d) < DayStart(d + 1)
    BY <2>1, MidnightsInOrder
  <2> QED
    BY <2>1, <2>2
<1>2. PICK m : Runs(m, rows)
  BY RunExists
<1>3. PICK k \in 0 .. Len(rows), n \in 0 .. Len(rows) :
         k = Before(rows, s) /\ n = Before(rows, z) /\ k <= n
  <2>1. Before(rows, s) \in 0 .. Len(rows) /\ Before(rows, z) \in 0 .. Len(rows)
    BY BeforeIs
  <2>2. Before(rows, s) <= Before(rows, z)
    BY <1>1, BeforeGrows
  <2> QED
    BY <2>1, <2>2
<1>4. PreMidnightSeed(rows, s) = Cur(m[k])
  BY <1>2, <1>3, SeedIs
<1>5. Cur(m[k]) \in AsFocus \cup {NoFocus}
  BY <1>2, CurOfRow
<1>6. DayEvents(rows, s, z) \in Seq(EventRow)
  BY <1>3, DayEventsAre, PartOf
<1> QED
  BY <1>1, <1>4, <1>5, <1>6, Assumed

-----------------------------------------------------------------------------
\* The invariant holds at the start.
LEMMA ScreensBegin == InitScreens => ScreensInv
<1> SUFFICES ASSUME InitScreens PROVE ScreensInv
  OBVIOUS
<1>1. now = 0 /\ log = << >> /\ refresh = NoRefresh
  BY DEF InitScreens, Init
<1>2. Table(log, now)
  BY <1>1 DEF Table
<1>3. RefreshType /\ refresh.rows = 0 /\ refresh.day = -1 /\ refresh.built = -1
      /\ refresh.seed = Unread /\ refresh.events = Unread /\ refresh.torn = FALSE
  BY <1>1 DEF RefreshType, NoRefresh
<1> QED
  BY <1>1, <1>2, <1>3 DEF ScreensInv, BuiltFromSnapshot, AnswersOfSnapshot, Answered, Reading

\* The clock keeps the invariant.
LEMMA PassKeeps == ScreensInv /\ Pass => ScreensInv'
<1> SUFFICES ASSUME ScreensInv, Pass PROVE ScreensInv'
  OBVIOUS
<1>1. now \in Nat /\ now' = now + 1 /\ UNCHANGED << log, refresh >>
  BY DEF ScreensInv, Pass, Tick
<1>2. Table(log, now + 1)
  <2>1. Table(log, now) /\ now + 1 \in Int /\ now <= now + 1
    BY <1>1 DEF ScreensInv
  <2> QED
    BY <1>1, <2>1, TableWidens
<1>3. now' <= MaxTime \/ (log' = << >> /\ refresh' = NoRefresh)
  BY <1>1 DEF Pass
<1>4. BuiltFromSnapshot'
  BY <1>1 DEF ScreensInv, BuiltFromSnapshot, Reading
<1>5. AnswersOfSnapshot' /\ RefreshType' /\ (refresh.rows <= Len(log))' /\ (Answered' <=> Answered)
  BY <1>1 DEF ScreensInv, AnswersOfSnapshot, Reading, Snapshot, RefreshType, Answered
<1> QED
  BY <1>1, <1>2, <1>3, <1>4, <1>5 DEF ScreensInv

\* A flush that writes a row between, before or after the queries keeps it.
LEMMA RecordKeeps ==
    ASSUME ScreensInv, NEW type \in Kinds, NEW w \in Windows \cup {NoWindow}, Record(type, w)
    PROVE  ScreensInv'
<1>1. /\ now \in Nat /\ Table(log, now) /\ now <= MaxTime /\ RefreshType
      /\ refresh.rows <= Len(log) /\ refresh.built = -1
      /\ type \in Windowed => w \in Windows
      /\ UNCHANGED << now, date >> /\ refresh' = [refresh EXCEPT !.torn = @ \/ Reading]
  BY DEF ScreensInv, Record
<1>2. PICK ts \in Max2(0, now - MaxDelay) .. now :
         /\ log # << >> => ts >= Last(log).ts
         /\ log' = Append(log, [uid |-> Viewer, type |-> type, win |-> w, ts |-> ts])
  BY DEF Record
<1>3. PICK e \in EventRow : /\ e = [uid |-> Viewer, type |-> type, win |-> w, ts |-> ts]
                            /\ e.ts = ts /\ ts \in Nat /\ ts <= now
                            /\ e.type = type /\ e.win = w
  <2>1. ts \in Nat /\ ts <= now
    <3>1. now - MaxDelay \in Int
      BY <1>1, ScreensAssumption
    <3> QED
      BY <1>1, <3>1 DEF Max2
  <2>2. [uid |-> Viewer, type |-> type, win |-> w, ts |-> ts] \in EventRow
    BY <2>1 DEF EventRow
  <2> QED
    BY <2>1, <2>2
<1>4. PICK z : z = Append(log, e) /\ log' = z
  BY <1>2, <1>3
<1>5. PICK n \in Nat : n = Len(log)
  BY <1>1, TableIs
<1>6. /\ Table(z, now) /\ Len(z) = n + 1 /\ \A i \in 1 .. n : z[i] = log[i]
      /\ \A k \in 0 .. n : SubSeq(z, 1, k) = SubSeq(log, 1, k)
  BY <1>1, <1>2, <1>3, <1>4, <1>5, TableGrows
<1>7. /\ refresh'.day = refresh.day /\ refresh'.seed = refresh.seed
      /\ refresh'.events = refresh.events /\ refresh'.built = -1
      /\ refresh'.rows = refresh.rows /\ refresh.rows \in 0 .. n
      /\ refresh'.torn = (refresh.torn \/ Reading)
      /\ refresh' \in [day : Int, seed : AsFocus \cup {NoFocus, Unread},
                       events : Seq(EventRow) \cup {Unread}, built : Int, rows : Nat,
                       torn : BOOLEAN]
  <2>1. PICK S, F : S = Seq(EventRow) \cup {Unread} /\ F = AsFocus \cup {NoFocus, Unread}
    OBVIOUS
  <2>2. refresh \in [day : Int, seed : F, events : S, built : Int, rows : Nat, torn : BOOLEAN]
    BY <1>1, <2>1 DEF RefreshType
  <2>3. PICK torn \in BOOLEAN : torn = (refresh.torn \/ Reading)
    BY DEF Reading
  <2>4. refresh' = [refresh EXCEPT !.torn = torn]
    BY <1>1, <2>2, <2>3
  <2>5. /\ refresh'.day = refresh.day /\ refresh'.seed = refresh.seed
        /\ refresh'.events = refresh.events /\ refresh'.built = refresh.built
        /\ refresh'.rows = refresh.rows /\ refresh'.torn = torn
    BY <2>2, <2>4
  <2>6. refresh' \in [day : Int, seed : F, events : S, built : Int, rows : Nat, torn : BOOLEAN]
    BY <2>2, <2>4
  <2>7. refresh.rows \in 0 .. n
    BY <1>1, <1>5, <2>2
  <2> QED
    BY <1>1, <2>1, <2>3, <2>5, <2>6, <2>7
<1>8. Snapshot' = Snapshot
  BY <1>4, <1>6, <1>7 DEF Snapshot
<1>9. AnswersOfSnapshot'
  <2> SUFFICES ASSUME ~refresh'.torn PROVE AnswersOfSnapshot'
    BY DEF AnswersOfSnapshot
  <2>1. ~refresh.torn /\ ~Reading /\ ~Reading'
    BY <1>7 DEF Reading
  <2> QED
    BY <1>7, <1>8, <2>1 DEF ScreensInv, AnswersOfSnapshot
<1>10. IF Answered' THEN refresh'.day \in Nat
                    ELSE refresh'.day = -1 /\ refresh'.built = -1 /\ ~refresh'.torn
  BY <1>7 DEF ScreensInv, Answered, Reading
<1>11. now' <= MaxTime \/ (log' = << >> /\ refresh' = NoRefresh)
  BY <1>1
<1>12. RefreshType' /\ BuiltFromSnapshot' /\ refresh'.rows <= Len(log')
  BY <1>4, <1>5, <1>6, <1>7 DEF RefreshType, BuiltFromSnapshot
<1>13. now' \in Nat /\ Table(log', now')
  BY <1>1, <1>4, <1>6
<1> QED
  BY <1>9, <1>10, <1>11, <1>12, <1>13 DEF ScreensInv

\* Before a query the other may have been answered, from this very table.
LEMMA AskedIs ==
    ASSUME ScreensInv, refresh.seed = Unread \/ refresh.events = Unread
    PROVE  /\ refresh.built = -1 /\ Asked.day \in Nat /\ Asked.rows \in 0 .. Len(log)
           /\ Asked.rows \in Nat /\ Len(log) \in Nat
           /\ Asked.seed = refresh.seed /\ Asked.events = refresh.events
           /\ Asked.torn = refresh.torn /\ Asked.built = -1
           /\ ~refresh.torn => /\ Asked.rows = Len(log)
                               /\ SubSeq(log, 1, Asked.rows) = log
           /\ Asked \in [day : Int, seed : AsFocus \cup {NoFocus, Unread},
                         events : Seq(EventRow) \cup {Unread}, built : Int, rows : Nat,
                         torn : BOOLEAN]
           /\ ~refresh.torn /\ refresh.seed # Unread =>
                  refresh.seed = PreMidnightSeed(log, DayStart(Asked.day))
           /\ ~refresh.torn /\ refresh.events # Unread =>
                  refresh.events = DayEvents(log, DayStart(Asked.day), DayStart(Asked.day + 1))
<1>1. /\ now \in Nat /\ Table(log, now) /\ RefreshType /\ refresh.rows <= Len(log)
      /\ Len(log) \in Nat /\ Len(log) \in 0 .. Len(log)
  BY TableIs DEF ScreensInv
<1>2. refresh.built = -1
  BY DEF ScreensInv, BuiltFromSnapshot, Answered, Reading
<1>3. DayOf(now) \in Nat
  BY <1>1, DayAround
<1>4. PICK day \in Nat, rows \in 0 .. Len(log) :
         /\ day = (IF refresh.day = -1 THEN DayOf(now) ELSE refresh.day)
         /\ rows = (IF refresh.day = -1 THEN Len(log) ELSE refresh.rows)
         /\ Asked = [refresh EXCEPT !.day = day, !.rows = rows]
  <2>1. refresh.day # -1 => refresh.day \in Nat
    BY DEF ScreensInv
  <2>2. refresh.rows \in 0 .. Len(log)
    BY <1>1 DEF RefreshType
  <2>3. Asked = [refresh EXCEPT !.day  = IF refresh.day = -1 THEN DayOf(now) ELSE refresh.day,
                                !.rows = IF refresh.day = -1 THEN Len(log) ELSE refresh.rows]
    BY <1>1 DEF Asked, RefreshType
  <2> QED
    BY <1>1, <1>3, <2>1, <2>2, <2>3
<1>5. /\ Asked.day = day /\ Asked.rows = rows /\ Asked.seed = refresh.seed
      /\ Asked.events = refresh.events /\ Asked.torn = refresh.torn
      /\ Asked.built = refresh.built
  BY <1>1, <1>4 DEF RefreshType
<1>6. Asked \in [day : Int, seed : AsFocus \cup {NoFocus, Unread},
                 events : Seq(EventRow) \cup {Unread}, built : Int, rows : Nat,
                 torn : BOOLEAN]
  <2>1. PICK S, F : S = Seq(EventRow) \cup {Unread} /\ F = AsFocus \cup {NoFocus, Unread}
    OBVIOUS
  <2>2. refresh \in [day : Int, seed : F, events : S, built : Int, rows : Nat, torn : BOOLEAN]
    BY <1>1, <2>1 DEF RefreshType
  <2>3. day \in Int /\ rows \in Nat
    BY <1>1
  <2>4. [refresh EXCEPT !.day = day, !.rows = rows]
        \in [day : Int, seed : F, events : S, built : Int, rows : Nat, torn : BOOLEAN]
    BY <2>2, <2>3
  <2> QED
    BY <1>4, <2>1, <2>4
<1>7. ASSUME ~refresh.torn PROVE rows = Len(log)
  <2>1. CASE ~Answered
    BY <1>4, <2>1 DEF ScreensInv
  <2>2. CASE Answered
    <3>1. Reading /\ refresh.day # -1
      BY <2>2 DEF Answered, Reading, ScreensInv
    <3> QED
      BY <1>4, <1>7, <3>1 DEF ScreensInv, AnswersOfSnapshot
  <2> QED
    BY <2>1, <2>2
<1>8. ASSUME ~refresh.torn PROVE SubSeq(log, 1, rows) = log
  BY <1>1, <1>7, <1>8, FirstRows
<1>9. ASSUME ~refresh.torn, Answered PROVE Snapshot = log /\ day = refresh.day
  <2>1. refresh.day # -1
    BY <1>9 DEF ScreensInv
  <2>2. refresh.rows = rows
    BY <1>4, <2>1
  <2> QED
    BY <1>4, <1>8, <1>9, <2>1, <2>2 DEF Snapshot
<1>10. ASSUME ~refresh.torn, refresh.seed # Unread
       PROVE  refresh.seed = PreMidnightSeed(log, DayStart(day))
  <2>1. refresh.seed = PreMidnightSeed(Snapshot, DayStart(refresh.day))
    BY <1>10 DEF ScreensInv, AnswersOfSnapshot
  <2> QED
    BY <1>9, <1>10, <2>1 DEF Answered
<1>11. ASSUME ~refresh.torn, refresh.events # Unread
       PROVE  refresh.events = DayEvents(log, DayStart(day), DayStart(day + 1))
  <2>1. refresh.events = DayEvents(Snapshot, DayStart(refresh.day), DayStart(refresh.day + 1))
    BY <1>11 DEF ScreensInv, AnswersOfSnapshot
  <2> QED
    BY <1>9, <1>11, <2>1 DEF Answered
<1> QED
  BY <1>1, <1>2, <1>5, <1>6, <1>7, <1>8, <1>10, <1>11

\* The answer of get_pre_midnight_seed keeps it.
LEMMA ReadSeedKeeps == ScreensInv /\ ReadSeed => ScreensInv'
<1> SUFFICES ASSUME ScreensInv, ReadSeed PROVE ScreensInv'
  OBVIOUS
<1>1. /\ refresh.seed = Unread /\ now <= MaxTime /\ UNCHANGED << now, date, log >>
      /\ refresh' = [Asked EXCEPT !.seed = PreMidnightSeed(log, DayStart(Asked.day))]
      /\ now \in Nat /\ Table(log, now) /\ refresh.rows <= Len(log)
  BY DEF ReadSeed, ScreensInv
<1>2. PICK a : a = Asked
  OBVIOUS
<1>3. /\ refresh.built = -1 /\ a.day \in Nat /\ a.rows \in 0 .. Len(log)
      /\ a.seed = refresh.seed /\ a.events = refresh.events
      /\ a.torn = refresh.torn /\ a.built = -1
      /\ ~refresh.torn => a.rows = Len(log) /\ SubSeq(log, 1, a.rows) = log
      /\ a \in [day : Int, seed : AsFocus \cup {NoFocus, Unread},
                events : Seq(EventRow) \cup {Unread}, built : Int, rows : Nat, torn : BOOLEAN]
      /\ ~refresh.torn /\ refresh.events # Unread =>
             refresh.events = DayEvents(log, DayStart(a.day), DayStart(a.day + 1))
      /\ Len(log) \in Nat
  BY <1>1, <1>2, AskedIs
<1>4. PICK s \in AsFocus \cup {NoFocus} : s = PreMidnightSeed(log, DayStart(a.day)) /\ s # Unread
  BY <1>1, <1>3, AnswersAre
<1>5. refresh' = [a EXCEPT !.seed = s]
  BY <1>1, <1>2, <1>4
<1>6. /\ refresh'.day = a.day /\ refresh'.seed = s /\ refresh'.events = refresh.events
      /\ refresh'.built = -1 /\ refresh'.rows = a.rows /\ refresh'.torn = refresh.torn
      /\ RefreshType'
  BY <1>3, <1>5 DEF RefreshType
<1>7. Answered' /\ refresh'.day \in Nat
  BY <1>3, <1>4, <1>6 DEF Answered
<1>8. refresh'.rows <= Len(log)' /\ BuiltFromSnapshot'
  BY <1>1, <1>3, <1>6 DEF BuiltFromSnapshot
<1>9. AnswersOfSnapshot'
  <2> SUFFICES ASSUME ~refresh'.torn PROVE AnswersOfSnapshot'
    BY DEF AnswersOfSnapshot
  <2>1. Snapshot' = log /\ refresh'.rows = Len(log)
    BY <1>1, <1>3, <1>6 DEF Snapshot
  <2>2. refresh'.seed = PreMidnightSeed(Snapshot', DayStart(refresh'.day))
    BY <1>4, <1>6, <2>1
  <2>3. refresh'.events # Unread =>
            refresh'.events = DayEvents(Snapshot', DayStart(refresh'.day),
                                        DayStart(refresh'.day + 1))
    BY <1>3, <1>6, <2>1
  <2> QED
    BY <1>1, <2>1, <2>2, <2>3 DEF AnswersOfSnapshot
<1> QED
  BY <1>1, <1>6, <1>7, <1>8, <1>9 DEF ScreensInv

\* The answer of get_day_events keeps it.
LEMMA ReadEventsKeeps == ScreensInv /\ ReadEvents => ScreensInv'
<1> SUFFICES ASSUME ScreensInv, ReadEvents PROVE ScreensInv'
  OBVIOUS
<1>1. /\ refresh.events = Unread /\ now <= MaxTime /\ UNCHANGED << now, date, log >>
      /\ refresh' = [Asked EXCEPT !.events =
                         DayEvents(log, DayStart(Asked.day), DayStart(Asked.day + 1))]
      /\ now \in Nat /\ Table(log, now) /\ refresh.rows <= Len(log)
  BY DEF ReadEvents, ScreensInv
<1>2. PICK a : a = Asked
  OBVIOUS
<1>3. /\ refresh.built = -1 /\ a.day \in Nat /\ a.rows \in 0 .. Len(log)
      /\ a.seed = refresh.seed /\ a.events = refresh.events
      /\ a.torn = refresh.torn /\ a.built = -1
      /\ ~refresh.torn => a.rows = Len(log) /\ SubSeq(log, 1, a.rows) = log
      /\ a \in [day : Int, seed : AsFocus \cup {NoFocus, Unread},
                events : Seq(EventRow) \cup {Unread}, built : Int, rows : Nat, torn : BOOLEAN]
      /\ ~refresh.torn /\ refresh.seed # Unread =>
             refresh.seed = PreMidnightSeed(log, DayStart(a.day))
      /\ Len(log) \in Nat
  BY <1>1, <1>2, AskedIs
<1>4. PICK s \in Seq(EventRow) :
         s = DayEvents(log, DayStart(a.day), DayStart(a.day + 1)) /\ s # Unread
  BY <1>1, <1>3, AnswersAre
<1>5. refresh' = [a EXCEPT !.events = s]
  BY <1>1, <1>2, <1>4
<1>6. /\ refresh'.day = a.day /\ refresh'.seed = refresh.seed /\ refresh'.events = s
      /\ refresh'.built = -1 /\ refresh'.rows = a.rows /\ refresh'.torn = refresh.torn
      /\ RefreshType'
  BY <1>3, <1>5 DEF RefreshType
<1>7. Answered' /\ refresh'.day \in Nat
  BY <1>3, <1>4, <1>6 DEF Answered
<1>8. refresh'.rows <= Len(log)' /\ BuiltFromSnapshot'
  BY <1>1, <1>3, <1>6 DEF BuiltFromSnapshot
<1>9. AnswersOfSnapshot'
  <2> SUFFICES ASSUME ~refresh'.torn PROVE AnswersOfSnapshot'
    BY DEF AnswersOfSnapshot
  <2>1. Snapshot' = log /\ refresh'.rows = Len(log)
    BY <1>1, <1>3, <1>6 DEF Snapshot
  <2>2. refresh'.events = DayEvents(Snapshot', DayStart(refresh'.day),
                                    DayStart(refresh'.day + 1))
    BY <1>4, <1>6, <2>1
  <2>3. refresh'.seed # Unread =>
            refresh'.seed = PreMidnightSeed(Snapshot', DayStart(refresh'.day))
    BY <1>3, <1>6, <2>1
  <2> QED
    BY <1>1, <2>1, <2>2, <2>3 DEF AnswersOfSnapshot
<1> QED
  BY <1>1, <1>6, <1>7, <1>8, <1>9 DEF ScreensInv

\* Building the timeline keeps it.
LEMMA RebuildKeeps == ScreensInv /\ Rebuild => ScreensInv'
<1> SUFFICES ASSUME ScreensInv, Rebuild PROVE ScreensInv'
  OBVIOUS
<1>1. /\ refresh.seed # Unread /\ refresh.events # Unread /\ refresh.built = -1
      /\ refresh' = [refresh EXCEPT !.built = now] /\ UNCHANGED << now, date, log >>
      /\ now \in Nat /\ Table(log, now) /\ RefreshType /\ refresh.rows <= Len(log)
  BY DEF Rebuild, ScreensInv
<1>2. /\ refresh'.day = refresh.day /\ refresh'.seed = refresh.seed
      /\ refresh'.events = refresh.events /\ refresh'.built = now
      /\ refresh'.rows = refresh.rows /\ refresh'.torn = refresh.torn /\ RefreshType'
  BY <1>1 DEF RefreshType
<1>3. Answered /\ Answered' /\ ~Reading /\ ~Reading' /\ Snapshot' = Snapshot
  BY <1>1, <1>2 DEF Answered, Reading, Snapshot
<1>4. BuiltFromSnapshot'
  <2>1. \A i \in 1 .. refresh.rows : i \in 1 .. Len(log)
    BY <1>1, TableIs DEF RefreshType
  <2>2. \A i \in 1 .. refresh.rows : log[i].ts <= now
    BY <1>1, <2>1, TableIs
  <2> QED
    BY <1>1, <1>2, <1>3, <2>2 DEF BuiltFromSnapshot
<1>5. AnswersOfSnapshot'
  BY <1>1, <1>2, <1>3 DEF ScreensInv, AnswersOfSnapshot
<1>6. refresh.day \in Nat
  BY <1>3 DEF ScreensInv
<1>7. now' <= MaxTime \/ (log' = << >> /\ refresh' = NoRefresh)
  <2>1. refresh # NoRefresh
    BY <1>1 DEF NoRefresh
  <2> QED
    BY <1>1, <2>1 DEF ScreensInv
<1> QED
  BY <1>1, <1>2, <1>3, <1>4, <1>5, <1>6, <1>7 DEF ScreensInv

\* What a refresh has read is, at every moment, the answer its queries give of the
\* rows that were in the events table when it began, unless a flush has written
\* between them; and the table is in the order of its times (fetch_all, Record).
THEOREM ScreensHold == SpecScreens => []ScreensInv
<1>1. InitScreens => ScreensInv
  BY ScreensBegin
<1>2. ScreensInv /\ [NextScreens]_<< now, date, log, refresh >> => ScreensInv'
  <2> SUFFICES ASSUME ScreensInv, [NextScreens]_<< now, date, log, refresh >> PROVE ScreensInv'
    OBVIOUS
  <2>1. CASE Pass
    BY <2>1, PassKeeps
  <2>2. ASSUME NEW type \in Kinds, NEW w \in Windows \cup {NoWindow}, Record(type, w)
        PROVE  ScreensInv'
    BY <2>2, RecordKeeps
  <2>3. CASE ReadSeed
    BY <2>3, ReadSeedKeeps
  <2>4. CASE ReadEvents
    BY <2>4, ReadEventsKeeps
  <2>5. CASE Rebuild
    BY <2>5, RebuildKeeps
  <2>6. CASE UNCHANGED << now, date, log, refresh >>
    BY <2>6 DEF ScreensInv, RefreshType, Answered, Reading, BuiltFromSnapshot,
                AnswersOfSnapshot, Snapshot
  <2> QED
    BY <2>1, <2>2, <2>3, <2>4, <2>5, <2>6 DEF NextScreens
<1> QED
  BY <1>1, <1>2, PTL DEF SpecScreens

-----------------------------------------------------------------------------
(* The timeline of a refresh *)

\* An earlier time is on an earlier day or the same.
LEMMA EarlierDay ==
    ASSUME NEW a \in Nat, NEW b \in Nat, a <= b
    PROVE  DayOf(a) <= DayOf(b)
<1>1. /\ DayOf(a) \in Nat /\ DayStart(DayOf(a)) \in Nat /\ DayStart(DayOf(a)) <= a
      /\ DayOf(b) \in Nat /\ b < DayStart(DayOf(b) + 1) /\ DayStart(DayOf(b) + 1) \in Nat
  BY DayAround
<1> SUFFICES ASSUME DayOf(b) < DayOf(a) PROVE FALSE
  BY <1>1
<1>2. DayStart(DayOf(b) + 1) <= DayStart(DayOf(a))
  BY <1>1, MidnightsInOrder
<1> QED
  BY <1>1, <1>2

\* A refresh that is shown is the timeline of the rows its queries saw.
LEMMA ShownIs ==
    ASSUME ScreensInv, Shown
    PROVE  /\ refresh.built \in Nat /\ refresh.built <= now /\ now \in Nat /\ now <= MaxTime
           /\ refresh.day \in Days
           /\ DayStart(refresh.day) <= refresh.built /\ refresh.built < DayStart(refresh.day + 1)
           /\ Table(Snapshot, refresh.built)
           /\ Blocks = DayLine(Snapshot, refresh.day)
<1>1. /\ now \in Nat /\ refresh.built \in 0 .. now /\ Answered /\ ~Reading /\ refresh.day \in Nat
      /\ refresh.day = DayOf(refresh.built) /\ ~refresh.torn
      /\ Table(log, now) /\ refresh.rows \in Nat /\ refresh.rows <= Len(log)
      /\ \A i \in 1 .. refresh.rows : log[i].ts <= refresh.built
  <2>1. Answered
    BY DEF ScreensInv, Shown
  <2>2. refresh.rows \in Nat
    BY DEF ScreensInv, RefreshType
  <2> QED
    BY <2>1, <2>2 DEF ScreensInv, Shown, BuiltFromSnapshot
<1>2. now <= MaxTime
  <2>1. refresh # NoRefresh
    BY <1>1 DEF NoRefresh, Answered
  <2> QED
    BY <2>1 DEF ScreensInv
<1>3. refresh.seed # Unread /\ refresh.events # Unread
  BY <1>1 DEF Answered, Reading
<1>4. PICK b \in Nat : b = refresh.built /\ b <= now
  BY <1>1
<1>5. /\ DayOf(b) \in Nat /\ DayStart(DayOf(b)) <= b /\ b < DayStart(DayOf(b) + 1)
  BY DayAround
<1>6. refresh.day \in Days
  <2>1. b <= MaxTime /\ MaxTime \in Nat
    BY <1>1, <1>2, <1>4, Assumed
  <2>2. DayOf(b) <= DayOf(MaxTime) /\ DayOf(MaxTime) \in Nat
    BY <2>1, EarlierDay, DayAround
  <2> QED
    BY <1>1, <1>4, <1>5, <2>2 DEF Days
<1>7. Table(Snapshot, refresh.built)
  <2>1. Len(log) \in Nat
    BY <1>1, TableIs
  <2>2. refresh.rows \in 0 .. Len(log)
    BY <1>1, <2>1
  <2>3. Table(SubSeq(log, 1, refresh.rows), refresh.built)
    BY <1>1, <2>2, FirstRows
  <2> QED
    BY <2>3 DEF Snapshot
<1>8. Blocks = DayLine(Snapshot, refresh.day)
  BY <1>1, <1>3 DEF ScreensInv, AnswersOfSnapshot, Blocks, DayLine
<1> QED
  BY <1>1, <1>2, <1>4, <1>5, <1>6, <1>7, <1>8

\* A refresh that is shown adds up to the usage tables.
LEMMA TimelineIs == ScreensInv => TimelineMatchesUsage
<1> SUFFICES ASSUME ScreensInv, Shown
             PROVE  TotalFocus(Blocks, refresh.built)
                    = SumFunction([r \in AppRows |->
                          Metered(Snapshot, refresh.built)[refresh.day][r]])
  BY DEF TimelineMatchesUsage
<1>1. PICK t \in Nat, d \in Days : /\ t = refresh.built /\ d = refresh.day
                                   /\ DayStart(d) <= t /\ t < DayStart(d + 1)
  BY ShownIs
<1>2. PICK rows : rows = Snapshot /\ Table(rows, t) /\ Blocks = DayLine(rows, d)
  BY <1>1, ShownIs
<1>3. AppRows \subseteq Keys /\ OneRowEach(AppRows)
  BY ScreensAssumption
<1>4. TotalFocus(DayLine(rows, d), t) = SumFunction([r \in AppRows |-> Metered(rows, t)[d][r]])
  BY <1>1, <1>2, <1>3, FocusOfDay
<1> QED
  BY <1>1, <1>2, <1>4

\* The timeline of a day (build_day_timeline, total_focus_millis) adds up to what
\* daily_app_usage holds of the day, for every table of events, every flush and
\* every order of the two queries.
THEOREM TimelinesMatchUsage == SpecScreens => []TimelineMatchesUsage
  BY ScreensHold, TimelineIs, PTL

-----------------------------------------------------------------------------
(* The hours of a day *)

HourStart(d, h) == DayStart(d) + h * HourLen

\* The hours of a day follow each other from midnight to midnight.
LEMMA HoursAre ==
    ASSUME NEW d \in Nat
    PROVE  /\ HourLen \in Nat /\ Hours \in Nat /\ DayStart(d) \in Nat
           /\ HourStart(d, 0) = DayStart(d) /\ HourStart(d, Hours) = DayStart(d + 1)
           /\ \A h \in Nat : /\ HourStart(d, h) \in Nat /\ DayStart(d) <= HourStart(d, h)
                             /\ HourStart(d, h + 1) = HourStart(d, h) + HourLen
                             /\ HourEnd(d, h) = HourStart(d, h + 1)
<1>1. DayLen \in Nat \ {0} /\ Hours \in Nat \ {0} /\ DayLen % Hours = 0
  BY DayLenAssumption, ScreensAssumption
<1>2. DayLen \div Hours \in Nat /\ DayLen = Hours * (DayLen \div Hours) + (DayLen % Hours)
  BY <1>1, SMT
<1>3. PICK l \in Nat : l = HourLen /\ Hours * l = DayLen
  BY <1>1, <1>2 DEF HourLen
<1>4. PICK s \in Nat : s = DayStart(d) /\ DayStart(d + 1) = s + DayLen
  BY Midnights
<1>5. \A h \in Nat : h * l \in Nat /\ (h + 1) * l = h * l + l
  BY <1>1, SMT
<1>6. 0 * l = 0
  BY SMT
<1>7. \A h \in Nat : /\ HourStart(d, h) \in Nat /\ s <= HourStart(d, h)
                     /\ HourStart(d, h + 1) = HourStart(d, h) + l
                     /\ HourEnd(d, h) = HourStart(d, h + 1)
  <2> TAKE h \in Nat
  <2>1. PICK x \in Nat : x = h * l /\ (h + 1) * l = x + l
    BY <1>5
  <2>2. HourStart(d, h) = s + x /\ HourStart(d, h + 1) = s + (x + l)
    BY <1>3, <1>4, <2>1 DEF HourStart
  <2>3. HourEnd(d, h) = HourStart(d, h + 1)
    BY DEF HourEnd, HourStart
  <2> QED
    BY <2>2, <2>3
<1>8. HourStart(d, 0) = s
  BY <1>3, <1>4, <1>6 DEF HourStart
<1>9. HourStart(d, Hours) = s + DayLen
  BY <1>3, <1>4 DEF HourStart
<1> QED
  BY <1>1, <1>3, <1>4, <1>7, <1>8, <1>9

\* What lies between two borders is what lies before the second less what lies
\* before the first: the parts of an interval add up to it.
LEMMA PartsAddUp ==
    ASSUME NEW n \in Nat, NEW c \in [0 .. n -> Nat], c[0] = 0, NEW f \in [0 .. n - 1 -> Nat],
           \A i \in 0 .. n - 1 : c[i + 1] = c[i] + f[i]
    PROVE  SumFunction(f) = c[n]
<1>1. IsFiniteSet(0 .. n - 1)
  BY FS_Interval
<1>2. PartSums(f, 0 .. n - 1)
  BY <1>1, PartSumGrows
<1> DEFINE P == {k \in 0 .. n : PartSum(f, 0 .. k - 1) = c[k]}
<1>3. 0 \in P
  <2>1. 0 .. 0 - 1 = {} /\ 0 \in 0 .. n
    OBVIOUS
  <2>2. PartSum(f, {}) = 0
    BY PartSumNone
  <2> QED
    BY <2>1, <2>2
<1>4. ASSUME NEW k \in 0 .. n, k \in P, k < n PROVE k + 1 \in P
  <2>1. /\ 0 .. k - 1 \in SUBSET (0 .. n - 1) /\ k \in (0 .. n - 1) \ (0 .. k - 1)
        /\ (0 .. k - 1) \cup {k} = 0 .. (k + 1) - 1 /\ k + 1 \in 0 .. n
    BY <1>4
  <2>2. PartSum(f, (0 .. k - 1) \cup {k}) = f[k] + PartSum(f, 0 .. k - 1)
        /\ PartSum(f, 0 .. k - 1) \in Nat /\ f[k] \in Nat
    BY <1>2, <2>1 DEF PartSums
  <2>3. PartSum(f, 0 .. k - 1) = c[k]
    BY <1>4
  <2>4. PartSum(f, 0 .. (k + 1) - 1) = c[k + 1]
    <3>1. k \in 0 .. n - 1 /\ c[k + 1] = c[k] + f[k] /\ c[k] \in Nat
      BY <2>1
    <3>2. PartSum(f, 0 .. (k + 1) - 1) = f[k] + c[k]
      BY <2>1, <2>2, <2>3
    <3> QED
      BY <2>2, <3>1, <3>2
  <2> QED
    BY <2>1, <2>4
<1>5. 0 .. n \subseteq P
  <2> HIDE DEF P
  <2> QED
    BY <1>3, <1>4, Induction
<1>6. PartSum(f, 0 .. n - 1) = c[n]
  BY <1>5
<1>7. DOMAIN f = 0 .. n - 1
  OBVIOUS
<1>8. PartSum(f, 0 .. n - 1) = SumFunction(f)
  BY <1>7, PartSumAll
<1> QED
  BY <1>6, <1>8

-----------------------------------------------------------------------------
(* The part of a block that falls into an hour *)

\* Where a block ends in the chart, how much of it lies in the day, and what an
\* hour has of it.
DrawnEnd(b, at) == EndOf(b, Max2(at, b.start + 1))
InDay(b, d, at) == Overlap(b.start, DrawnEnd(b, at), d)
BeginsAt(b, d, h) == Max2(b.start, HourStart(d, h))
Lasts(b, d, h, at) == Min2(b.start + InDay(b, d, at), HourStart(d, h + 1)) - BeginsAt(b, d, h)

\* What an interval that begins in the day has of it.
LEMMA OverlapFrom ==
    ASSUME NEW d \in Nat, NEW a \in Nat, NEW e \in Nat, a <= e,
           DayStart(d) <= a, a < DayStart(d + 1)
    PROVE  Overlap(a, e, d) = Min2(e, DayStart(d + 1)) - a /\ Overlap(a, e, d) \in Nat
<1>1. DayStart(d) \in Nat /\ DayStart(d + 1) \in Int
  BY Midnights
<1> QED
  BY <1>1 DEF Overlap, Min2

\* Where a block ends in the chart, and what the day has of it.
LEMMA DrawnEndIs ==
    ASSUME NEW d \in Nat, NEW to \in Nat, to < DayStart(d + 1), NEW at \in Nat,
           NEW b \in Drawn(DayStart(d), to)
    PROVE  /\ DrawnEnd(b, at) \in Nat /\ b.start \in Nat /\ b.start <= DrawnEnd(b, at)
           /\ DayStart(d) <= b.start /\ b.start < DayStart(d + 1)
           /\ InDay(b, d, at) \in Nat
           /\ b.start + InDay(b, d, at) = Min2(DrawnEnd(b, at), DayStart(d + 1))
           /\ DayStart(d + 1) \in Int
           /\ b.win \in Windows \cup {NoWindow} /\ b.gap \in BOOLEAN
<1>1. /\ b \in AnyBlock /\ b.start \in Nat /\ DayStart(d) <= b.start /\ b.start <= to
      /\ b.end # NoFocus => b.end \in Nat /\ b.start <= b.end
  BY DrawnIs
<1>2. PICK n \in Int : n = DayStart(d + 1)
  BY Midnights
<1>3. PICK a \in Nat, e \in Nat : a = b.start /\ e = DrawnEnd(b, at) /\ a <= e
  BY <1>1 DEF DrawnEnd, EndOf, Max2
<1>4. a < n
  BY <1>1, <1>2, <1>3
<1>5. Overlap(a, e, d) = Min2(e, n) - a /\ Overlap(a, e, d) \in Nat
  BY <1>1, <1>2, <1>3, <1>4, OverlapFrom
<1>6. Min2(e, n) \in Int
  BY <1>2 DEF Min2
<1>7. b.win \in Windows \cup {NoWindow} /\ b.gap \in BOOLEAN
  BY <1>1 DEF AnyBlock
<1> QED
  BY <1>1, <1>2, <1>3, <1>4, <1>5, <1>6, <1>7 DEF InDay

\* compute_hourly_buckets cuts out of a block what lies between the borders of the hour.
LEMMA FragmentIs ==
    ASSUME NEW d \in Nat, NEW to \in Nat, to < DayStart(d + 1), NEW at \in Nat,
           NEW b \in Drawn(DayStart(d), to), NEW h \in Nat
    PROVE  Fragment(d, b, h, at) =
             IF Lasts(b, d, h, at) <= 0 THEN << >>
             ELSE << [win |-> b.win, gap |-> b.gap, millis |-> Lasts(b, d, h, at),
                      offset |-> BeginsAt(b, d, h) - HourStart(d, h)] >>
<1>1. PICK a \in Nat, e \in Nat, s \in Nat, o \in Nat, x \in Nat, y \in Nat :
         /\ a = b.start /\ e = DrawnEnd(b, at) /\ a <= e /\ s = DayStart(d) /\ s <= a
         /\ o = Overlap(a, e, d) /\ x = HourStart(d, h) /\ y = HourStart(d, h + 1)
         /\ y = HourEnd(d, h)
  <2>1. DayStart(d) \in Nat /\ HourStart(d, h) \in Nat /\ HourStart(d, h + 1) \in Nat
        /\ HourStart(d, h + 1) = HourEnd(d, h)
    <3>1. h + 1 \in Nat
      OBVIOUS
    <3> QED
      BY <3>1, HoursAre
  <2>2. /\ DrawnEnd(b, at) \in Nat /\ b.start \in Nat /\ b.start <= DrawnEnd(b, at)
        /\ DayStart(d) <= b.start /\ InDay(b, d, at) \in Nat
    BY DrawnEndIs
  <2> QED
    BY <2>1, <2>2 DEF InDay
<1>2. PICK segments : segments = SplitByUtcDay(a, e)
  OBVIOUS
<1>3. Covers(segments, a, e)
  BY <1>1, <1>2, SplitCovers
<1>4. PICK ours : ours = {i \in DOMAIN segments : segments[i].day = DayStart(d)}
  OBVIOUS
<1>5. DOMAIN segments = 1 .. Len(segments)
  BY <1>3, LenProperties DEF Covers
<1>6. ours = {} => o = 0
  <2> SUFFICES ASSUME o # 0 PROVE ours # {}
    OBVIOUS
  <2>1. PICK i \in 1 .. Len(segments) : segments[i].day = DayStart(d)
    <3>1. Overlap(a, e, d) > 0 /\ d \in Int
      BY <1>1
    <3> QED
      BY <1>3, <3>1 DEF Covers
  <2> QED
    BY <1>4, <1>5, <2>1
<1>7. ASSUME ours # {} PROVE segments[CHOOSE i \in ours : TRUE].dur = o
  <2>1. PICK i : i = (CHOOSE j \in ours : TRUE) /\ i \in ours
    BY <1>7
  <2>2. i \in 1 .. Len(segments) /\ segments[i].day = DayStart(d)
    BY <1>4, <1>5, <2>1
  <2>3. PICK c \in Int : segments[i].day = DayStart(c) /\ segments[i].dur = Overlap(a, e, c)
    BY <1>3, <2>2 DEF Covers
  <2>4. c = d
    <3>1. DayStart(c) = DayStart(d) /\ DayStart(d) \in Int
      BY <1>1, <2>2, <2>3
    <3>2. ~(c < d) /\ ~(d < c)
      BY <3>1, MidnightsInOrder
    <3> QED
      BY <3>2
  <2> QED
    BY <1>1, <2>1, <2>3, <2>4
<1>8. Max2(a, s) = a
  BY <1>1 DEF Max2
<1> DEFINE dur == segments[CHOOSE i \in ours : TRUE].dur
           begin == Max2(Max2(a, s), s + h * HourLen)
           millis == Min2(Max2(a, s) + dur, y) - begin
<1>9. Fragment(d, b, h, at) =
        IF ours = {} \/ millis <= 0 THEN << >>
        ELSE << [win |-> b.win, gap |-> b.gap, millis |-> millis,
                 offset |-> begin - (s + h * HourLen)] >>
  <2> DEFINE cut == SplitByUtcDay(b.start, DrawnEnd(b, at))
             those == {i \in DOMAIN cut : cut[i].day = DayStart(d)}
             from == Max2(b.start, DayStart(d))
             on == Max2(from, DayStart(d) + h * HourLen)
             for == Min2(from + cut[CHOOSE i \in those : TRUE].dur, HourEnd(d, h)) - on
  <2>1. Fragment(d, b, h, at) =
          IF those = {} \/ for <= 0 THEN << >>
          ELSE << [win |-> b.win, gap |-> b.gap, millis |-> for,
                   offset |-> on - (DayStart(d) + h * HourLen)] >>
    BY Zenon DEF Fragment, DrawnEnd
  <2>2. cut = segments
    BY <1>1, <1>2
  <2> HIDE DEF cut
  <2>3. those = ours
    BY <1>4, <2>2
  <2> HIDE DEF those
  <2>4. cut[CHOOSE i \in those : TRUE].dur = dur
    BY <2>2, <2>3
  <2>5. from = Max2(a, s)
    BY <1>1
  <2> HIDE DEF from
  <2>6. on = begin
    BY <1>1, <2>5
  <2> HIDE DEF on, dur
  <2>7. for = Min2(Max2(a, s) + dur, y) - on
    BY <1>1, <2>4, <2>5
  <2> HIDE DEF for, begin
  <2> QED
    BY <1>1, <2>1, <2>3, <2>6, <2>7
<1>10. begin = BeginsAt(b, d, h) /\ s + h * HourLen = x /\ begin = Max2(a, x)
  BY <1>1, <1>8 DEF BeginsAt, HourStart
<1>11. Lasts(b, d, h, at) = Min2(a + o, y) - Max2(a, x)
  BY <1>1 DEF Lasts, InDay, BeginsAt
<1>12. CASE ours = {}
  <2>1. Min2(a + o, y) - Max2(a, x) <= 0
    BY <1>6, <1>12 DEF Min2, Max2
  <2> QED
    BY <1>9, <1>11, <1>12, <2>1
<1>13. CASE ours # {}
  <2>1. millis = Min2(a + o, y) - Max2(a, x)
    BY <1>7, <1>8, <1>10, <1>13
  <2> HIDE DEF millis, begin, dur
  <2> QED
    BY <1>1, <1>9, <1>10, <1>11, <1>13, <2>1
<1> QED
  BY <1>12, <1>13

-----------------------------------------------------------------------------
(* The fragments of an hour *)

Shard == {x \in [win : Windows \cup {NoWindow}, gap : BOOLEAN, millis : Nat, offset : Nat] :
             x.offset + x.millis <= HourLen}
InTurn == {p \in Shard \X Shard : p[1].offset + p[1].millis <= p[2].offset}

\* The fragment of a block: nothing, or what the hour has of it.
ShardOf(x, b, d, h, at) ==
    /\ x.win = b.win /\ x.gap = b.gap /\ x.millis = Lasts(b, d, h, at)
    /\ x.offset = BeginsAt(b, d, h) - HourStart(d, h)
    /\ x.millis > 0
Shards(p, b, d, h, at) ==
    \/ p = << >> /\ Lasts(b, d, h, at) <= 0
    \/ \E x \in Shard : p = << x >> /\ ShardOf(x, b, d, h, at)

\* The fragment of a block is nothing, or lies inside the hour.
LEMMA FragmentShards ==
    ASSUME NEW d \in Nat, NEW to \in Nat, to < DayStart(d + 1), NEW at \in Nat,
           NEW b \in Drawn(DayStart(d), to), NEW h \in Nat
    PROVE  Shards(Fragment(d, b, h, at), b, d, h, at) /\ Lasts(b, d, h, at) \in Int
<1>1. PICK a \in Nat, o \in Nat, x \in Nat, y \in Nat, l \in Nat :
         /\ a = b.start /\ o = InDay(b, d, at) /\ x = HourStart(d, h) /\ y = HourStart(d, h + 1)
         /\ y = x + l /\ l = HourLen
  <2>1. /\ HourLen \in Nat /\ HourStart(d, h) \in Nat
        /\ HourStart(d, h + 1) = HourStart(d, h) + HourLen
    BY HoursAre
  <2>2. b.start \in Nat /\ InDay(b, d, at) \in Nat
    BY DrawnEndIs
  <2>3. HourStart(d, h) + HourLen \in Nat
    BY <2>1
  <2> QED
    BY <2>1, <2>2, <2>3
<1>2. PICK m \in Int, p \in Int : /\ m = Lasts(b, d, h, at) /\ p = BeginsAt(b, d, h) - x
                                  /\ m = Min2(a + o, y) - Max2(a, x) /\ p = Max2(a, x) - x
  <2>1. Lasts(b, d, h, at) = Min2(a + o, y) - Max2(a, x) /\ BeginsAt(b, d, h) = Max2(a, x)
    BY <1>1 DEF Lasts, BeginsAt
  <2>2. Min2(a + o, y) \in Int /\ Max2(a, x) \in Int
    BY <1>1 DEF Min2, Max2
  <2> QED
    BY <2>1, <2>2
<1> DEFINE shown == [win |-> b.win, gap |-> b.gap, millis |-> Lasts(b, d, h, at),
                     offset |-> BeginsAt(b, d, h) - HourStart(d, h)]
<1>5. Fragment(d, b, h, at) = IF Lasts(b, d, h, at) <= 0 THEN << >> ELSE << shown >>
  BY FragmentIs
<1> HIDE DEF shown
<1>3. CASE m <= 0
  <2>1. Fragment(d, b, h, at) = << >>
    BY <1>2, <1>3, <1>5
  <2> QED
    BY <1>2, <1>3, <2>1 DEF Shards
<1>4. CASE m > 0
  <2>1. p \in Nat /\ m \in Nat /\ p + m <= l /\ ~(m <= 0)
    BY <1>1, <1>2, <1>4 DEF Min2, Max2
  <2>2. PICK w \in Windows \cup {NoWindow}, g \in BOOLEAN : w = b.win /\ g = b.gap
    BY DrawnEndIs
  <2>3. PICK f : f = [win |-> w, gap |-> g, millis |-> m, offset |-> p]
    OBVIOUS
  <2>4. /\ f \in [win : Windows \cup {NoWindow}, gap : BOOLEAN, millis : Nat, offset : Nat]
        /\ f.win = w /\ f.gap = g /\ f.millis = m /\ f.offset = p
    BY <2>1, <2>3
  <2>5. f \in Shard
    BY <1>1, <2>1, <2>4 DEF Shard
  <2>6. Fragment(d, b, h, at) = << f >>
    <3>1. Fragment(d, b, h, at) = << shown >>
      BY <1>2, <1>5, <2>1
    <3>2. shown = f
      BY <1>1, <1>2, <2>2, <2>3 DEF shown
    <3> QED
      BY <3>1, <3>2
  <2>7. ShardOf(f, b, d, h, at)
    BY <1>1, <1>2, <1>4, <2>2, <2>4 DEF ShardOf
  <2> QED
    BY <1>2, <2>5, <2>6, <2>7 DEF Shards
<1> QED
  BY <1>2, <1>3, <1>4

\* The fragments of two blocks are in turn.
LEMMA ShardsInTurn ==
    ASSUME NEW d \in Nat, NEW to \in Nat, to < DayStart(d + 1), NEW at \in Nat, NEW h \in Nat,
           NEW b \in Drawn(DayStart(d), to), NEW c \in Drawn(DayStart(d), to),
           b.end # NoFocus, b.end <= c.start,
           NEW x \in Shard, ShardOf(x, b, d, h, at), NEW y \in Shard, ShardOf(y, c, d, h, at)
    PROVE  << x, y >> \in InTurn
<1>1. PICK hs \in Nat, he \in Nat : hs = HourStart(d, h) /\ he = HourStart(d, h + 1)
  <2>1. h + 1 \in Nat
    OBVIOUS
  <2> QED
    BY <2>1, HoursAre
<1>2. PICK n \in Int : n = DayStart(d + 1)
  BY Midnights
<1>3. PICK a \in Nat, e \in Nat, o \in Nat : /\ a = b.start /\ e = b.end /\ o = InDay(b, d, at)
                                             /\ a + o = Min2(e, n)
  <2>1. b.end \in Nat
    BY DrawnIs
  <2>2. DrawnEnd(b, at) = b.end
    BY DEF DrawnEnd, EndOf
  <2>3. /\ b.start \in Nat /\ InDay(b, d, at) \in Nat
        /\ b.start + InDay(b, d, at) = Min2(DrawnEnd(b, at), DayStart(d + 1))
    BY DrawnEndIs
  <2> QED
    BY <1>2, <2>1, <2>2, <2>3
<1>4. PICK z \in Nat : z = c.start /\ e <= z
  <2>1. c.start \in Nat
    BY DrawnEndIs
  <2> QED
    BY <1>3, <2>1
<1>5. x.millis = Min2(a + o, he) - Max2(a, hs) /\ x.offset = Max2(a, hs) - hs
  BY <1>1, <1>3 DEF ShardOf, Lasts, BeginsAt
<1>6. y.offset = Max2(z, hs) - hs
  BY <1>1, <1>4 DEF ShardOf, BeginsAt
<1>7. PICK lo \in Int, hi \in Int : /\ lo = Max2(a, hs) /\ hi = Min2(a + o, he)
                                    /\ hi <= e
  BY <1>2, <1>3 DEF Max2, Min2
<1>8. Max2(z, hs) \in Int /\ z <= Max2(z, hs)
  BY DEF Max2
<1>9. x.offset + x.millis <= y.offset
  BY <1>4, <1>5, <1>6, <1>7, <1>8
<1> QED
  BY <1>9 DEF InTurn

ShardLists == Seq(Seq(Shard))

\* The fragments of an hour are in turn, so that sorting them changes nothing.
LEMMA BucketIs ==
    ASSUME NEW d \in Nat, NEW to \in Nat, to < DayStart(d + 1), NEW at \in Nat, NEW h \in Nat,
           NEW q, Lined(q, DayStart(d), to),
           NEW ss, ss = [i \in DOMAIN q |-> Fragment(d, q[i], h, at)]
    PROVE  /\ ss \in ShardLists /\ DOMAIN ss = DOMAIN q
           /\ Bucket(d, q, h, at) = FlattenSeq(ss)
           /\ FlattenSeq(ss) \in Seq(Shard) /\ Pairwise(FlattenSeq(ss), InTurn)
<1>1. PICK n \in Nat : n = Len(q) /\ DOMAIN q = 1 .. n
  BY LinedIs
<1>2. PICK s \in Nat : s = DayStart(d)
  BY HoursAre
<1>3. /\ \A i \in 1 .. n : q[i] \in Drawn(s, to)
      /\ \A i, j \in 1 .. n : i < j => q[i].end # NoFocus /\ q[i].end <= q[j].start
  BY <1>1, <1>2, LinedIs
<1>4. \A i \in 1 .. n : ss[i] = Fragment(d, q[i], h, at)
  BY <1>1
<1>5. \A i \in 1 .. n : Shards(ss[i], q[i], d, h, at)
  BY <1>2, <1>3, <1>4, FragmentShards
<1>6. ASSUME NEW i \in 1 .. n
      PROVE  /\ ss[i] \in Seq(Shard)
             /\ \A a \in DOMAIN ss[i] : /\ a = 1 /\ ss[i][a] \in Shard
                                        /\ ShardOf(ss[i][a], q[i], d, h, at)
  <2>1. CASE ss[i] = << >>
    <3>1. << >> \in Seq(Shard) /\ DOMAIN << >> = {}
      OBVIOUS
    <3> QED
      BY <2>1, <3>1
  <2>2. ASSUME NEW x \in Shard, ss[i] = << x >>, ShardOf(x, q[i], d, h, at)
        PROVE  /\ ss[i] \in Seq(Shard)
               /\ \A a \in DOMAIN ss[i] : /\ a = 1 /\ ss[i][a] \in Shard
                                          /\ ShardOf(ss[i][a], q[i], d, h, at)
    <3>1. ss[i] \in Seq(Shard)
      <4>1. << x >> \in Seq(Shard)
        OBVIOUS
      <4> QED
        BY <2>2, <4>1
    <3>2. \A a \in DOMAIN ss[i] : a = 1 /\ ss[i][a] = x
      BY <2>2
    <3> QED
      BY <2>2, <3>1, <3>2
  <2> QED
    BY <1>5, <2>1, <2>2 DEF Shards
<1>7. ss \in Seq(Seq(Shard)) /\ DOMAIN ss = 1 .. n
  <2>1. DOMAIN ss = 1 .. n /\ ss \in [1 .. n -> Seq(Shard)]
    BY <1>1, <1>6
  <2> QED
    BY <2>1, IsASeq
<1>8. \A i \in DOMAIN ss : Pairwise(ss[i], InTurn)
  <2> SUFFICES ASSUME NEW i \in 1 .. n PROVE Pairwise(ss[i], InTurn)
    BY <1>7
  <2>1. \A a \in DOMAIN ss[i] : a = 1
    BY <1>6
  <2> QED
    BY <2>1 DEF Pairwise
<1>9. \A i, j \in DOMAIN ss : i < j =>
          \A a \in DOMAIN ss[i], b \in DOMAIN ss[j] : << ss[i][a], ss[j][b] >> \in InTurn
  <2> SUFFICES ASSUME NEW i \in 1 .. n, NEW j \in 1 .. n, i < j,
                      NEW a \in DOMAIN ss[i], NEW b \in DOMAIN ss[j]
               PROVE  << ss[i][a], ss[j][b] >> \in InTurn
    BY <1>7
  <2>1. PICK x \in Shard, y \in Shard : /\ x = ss[i][a] /\ ShardOf(x, q[i], d, h, at)
                                        /\ y = ss[j][b] /\ ShardOf(y, q[j], d, h, at)
    BY <1>6
  <2>2. PICK c \in Drawn(DayStart(d), to), e \in Drawn(DayStart(d), to) :
           c = q[i] /\ e = q[j] /\ c.end # NoFocus /\ c.end <= e.start
    BY <1>2, <1>3
  <2>3. << x, y >> \in InTurn
    BY <2>1, <2>2, ShardsInTurn
  <2> QED
    BY <2>1, <2>3
<1>10. Pairwise(FlattenSeq(ss), InTurn)
  <2>0. PICK R, rel : R = Shard /\ rel = InTurn
    OBVIOUS
  <2>1. PICK z \in Seq(Seq(R)) : R = Shard /\ rel = InTurn /\ z = ss
    BY <1>7, <2>0
  <2>2. \A i \in DOMAIN z : Pairwise(z[i], rel)
    BY <1>8, <2>1
  <2>3. \A i, j \in DOMAIN z : i < j =>
            \A a \in DOMAIN z[i], b \in DOMAIN z[j] : << z[i][a], z[j][b] >> \in rel
    BY <1>9, <2>1
  <2>4. Pairwise(FlattenSeq(z), rel)
    BY <2>2, <2>3, FlattenOrder
  <2> QED
    BY <2>1, <2>4
<1>11. PICK found \in Seq(Shard) : found = FlattenSeq(ss)
  <2>1. PICK t \in [0 .. Len(ss) -> Seq(Shard)] : FlattenSeq(ss) = t[Len(ss)]
    BY <1>7, FlattenPasses
  <2>2. Len(ss) \in 0 .. Len(ss)
    BY <1>7, LenProperties
  <2> QED
    BY <2>1, <2>2
<1>12. Bucket(d, q, h, at) = found
  <2>1. PICK key : key = [i \in DOMAIN found |-> found[i].offset]
    OBVIOUS
  <2>2. Bucket(d, q, h, at) = Stably(found, key)
    <3>1. Bucket(d, q, h, at) =
            Stably(FlattenSeq(ss), [i \in DOMAIN FlattenSeq(ss) |-> FlattenSeq(ss)[i].offset])
      BY Zenon DEF Bucket
    <3> QED
      BY <1>11, <2>1, <3>1
  <2>3. \A i \in DOMAIN found : found[i] \in Shard
    BY LenProperties, ElementOfSeq
  <2>4. \A i \in DOMAIN found : key[i] = found[i].offset /\ found[i].offset \in Nat
    BY <2>1, <2>3 DEF Shard
  <2>5. \A i, j \in DOMAIN found : i < j => key[i] <= key[j]
    <3> SUFFICES ASSUME NEW i \in DOMAIN found, NEW j \in DOMAIN found, i < j
                 PROVE  key[i] <= key[j]
      OBVIOUS
    <3>1. << found[i], found[j] >> \in InTurn
      BY <1>10, <1>11 DEF Pairwise
    <3>2. found[i].offset + found[i].millis <= found[j].offset
      BY <3>1 DEF InTurn
    <3>3. found[i].millis \in Nat /\ found[i].offset \in Nat /\ found[j].offset \in Nat
      BY <2>3 DEF Shard
    <3> QED
      BY <2>4, <3>2, <3>3
  <2>6. Stably(found, key) = found
    BY <2>4, <2>5, StablyKeeps
  <2> QED
    BY <2>2, <2>6
<1> QED
  BY <1>1, <1>7, <1>10, <1>11, <1>12 DEF ShardLists

-----------------------------------------------------------------------------
\* In every state with the invariant the fragments of an hour do not overlap.
LEMMA FragmentsAre == ScreensInv => FragmentsDoNotOverlap
<1> SUFFICES ASSUME ScreensInv, Shown, NEW h \in DOMAIN Chart, NEW i \in DOMAIN Chart[h]
             PROVE  /\ Chart[h][i].offset + Chart[h][i].millis <=
                           (IF i = Len(Chart[h]) THEN HourLen ELSE Chart[h][i + 1].offset)
                    /\ Chart[h][i].offset >= 0
  BY DEF FragmentsDoNotOverlap
<1>1. PICK t \in Nat, d \in Days, at \in Nat :
         /\ t = refresh.built /\ d = refresh.day /\ at = now
         /\ DayStart(d) <= t /\ t < DayStart(d + 1)
  BY ShownIs
<1>2. PICK rows : rows = Snapshot /\ Table(rows, t) /\ Blocks = DayLine(rows, d)
  BY <1>1, ShownIs
<1>3. PICK m : Runs(m, rows)
  BY <1>2, RunExists
<1>4. PICK q : q = Blocks /\ Lined(q, DayStart(d), t)
  BY <1>1, <1>2, <1>3, DayLineIs
<1>5. h \in Nat /\ d \in Nat
  <2>1. Hours \in Nat /\ DOMAIN Chart = 0 .. Hours - 1
    BY ScreensAssumption DEF Chart
  <2> QED
    BY <2>1, Assumed DEF Days
<1>6. Chart[h] = Bucket(d, q, h, at)
  BY <1>1, <1>4 DEF Chart
<1>7. PICK found \in Seq(Shard) : found = Chart[h] /\ Pairwise(found, InTurn)
  <2>1. PICK c \in Nat, k \in Nat : c = d /\ k = h
    BY <1>5
  <2>2. t < DayStart(c + 1) /\ Lined(q, DayStart(c), t)
    BY <1>1, <1>4, <2>1
  <2>3. PICK ss : ss = [j \in DOMAIN q |-> Fragment(c, q[j], k, at)]
    OBVIOUS
  <2>4. /\ Bucket(c, q, k, at) = FlattenSeq(ss) /\ FlattenSeq(ss) \in Seq(Shard)
        /\ Pairwise(FlattenSeq(ss), InTurn)
    BY <2>2, <2>3, BucketIs
  <2> QED
    BY <1>6, <2>1, <2>4
<1>8. DOMAIN found = 1 .. Len(found) /\ Len(found) \in Nat /\ i \in DOMAIN found
  BY <1>7, LenProperties
<1>9. found[i] \in Shard
  BY <1>8, ElementOfSeq
<1>10. CASE i = Len(found)
  BY <1>7, <1>9, <1>10 DEF Shard
<1>11. CASE i # Len(found)
  <2>1. i + 1 \in DOMAIN found /\ i < i + 1
    BY <1>8, <1>11
  <2>2. << found[i], found[i + 1] >> \in InTurn
    BY <1>7, <1>8, <2>1 DEF Pairwise
  <2>3. found[i].offset + found[i].millis <= found[i + 1].offset
    BY <2>2 DEF InTurn
  <2>4. found[i].offset \in Nat
    BY <1>9 DEF Shard
  <2> QED
    BY <1>7, <1>11, <2>3, <2>4
<1> QED
  BY <1>10, <1>11

\* The fragments of an hour of the chart (compute_hourly_buckets) lie inside the
\* hour, one after the other, whenever the chart is drawn.
THEOREM FragmentsInTurn == SpecScreens => []FragmentsDoNotOverlap
  BY ScreensHold, FragmentsAre, PTL

-----------------------------------------------------------------------------
(* The hours of a block *)

\* What an hour has of a block on a row.
Counts(b, r) == ~b.gap /\ r \in KeysOf[b.win]
Has(b, d, h, at, r) == IF Counts(b, r) /\ Lasts(b, d, h, at) > 0 THEN Lasts(b, d, h, at) ELSE 0

\* The hours of the day divide what the day has of a block.
LEMMA HoursOfBlock ==
    ASSUME NEW d \in Nat, NEW to \in Nat, to < DayStart(d + 1), NEW at \in Nat,
           NEW b \in Drawn(DayStart(d), to), NEW r
    PROVE  /\ \A h \in Nat : Has(b, d, h, at, r) \in Nat
           /\ SumFunction([h \in 0 .. Hours - 1 |-> Has(b, d, h, at, r)])
              = IF Counts(b, r) THEN InDay(b, d, at) ELSE 0
<1>1. PICK a \in Nat, o \in Nat, n \in Int :
         /\ a = b.start /\ o = InDay(b, d, at) /\ n = DayStart(d + 1)
         /\ DayStart(d) <= a /\ a + o <= n
  <2>1. /\ DrawnEnd(b, at) \in Nat /\ b.start \in Nat /\ DayStart(d) <= b.start
        /\ InDay(b, d, at) \in Nat /\ DayStart(d + 1) \in Int
        /\ b.start + InDay(b, d, at) = Min2(DrawnEnd(b, at), DayStart(d + 1))
    BY DrawnEndIs
  <2> QED
    BY <2>1 DEF Min2
<1>2. PICK count \in Nat : count = Hours /\ HourStart(d, 0) = DayStart(d) /\ HourStart(d, count) = n
  BY <1>1, HoursAre
<1>3. \A h \in Nat : HourStart(d, h) \in Nat /\ HourStart(d, h + 1) \in Nat
                     /\ HourStart(d, h) <= HourStart(d, h + 1)
  <2> SUFFICES ASSUME NEW h \in Nat
               PROVE  HourStart(d, h) \in Nat /\ HourStart(d, h + 1) \in Nat
                      /\ HourStart(d, h) <= HourStart(d, h + 1)
    OBVIOUS
  <2>1. /\ HourStart(d, h) \in Nat /\ HourLen \in Nat
        /\ HourStart(d, h + 1) = HourStart(d, h) + HourLen
    BY HoursAre
  <2> QED
    BY <2>1
<1> DEFINE upto(x) == Max2(0, Min2(a + o, x) - a)
           span(x, y) == Min2(a + o, y) - Max2(a, x)
<1>4. \A h \in Nat : Lasts(b, d, h, at) = span(HourStart(d, h), HourStart(d, h + 1))
  BY <1>1 DEF Lasts, BeginsAt
<1>5. ASSUME NEW x \in Nat, NEW y \in Nat, x <= y
      PROVE  /\ upto(x) \in Nat /\ span(x, y) \in Int
             /\ upto(y) = upto(x) + (IF span(x, y) > 0 THEN span(x, y) ELSE 0)
  BY <1>5 DEF Min2, Max2
<1>6. upto(DayStart(d)) = 0 /\ upto(n) = o
  <2>1. DayStart(d) \in Int
    BY Midnights
  <2> QED
    BY <1>1, <2>1 DEF Min2, Max2
<1> HIDE DEF upto, span
<1>7. \A h \in Nat : Has(b, d, h, at, r) \in Nat
  <2> SUFFICES ASSUME NEW h \in Nat PROVE Has(b, d, h, at, r) \in Nat
    OBVIOUS
  <2>1. PICK x \in Nat, y \in Nat : x = HourStart(d, h) /\ y = HourStart(d, h + 1) /\ x <= y
    BY <1>3
  <2>2. PICK l \in Int : l = Lasts(b, d, h, at)
    BY <1>4, <1>5, <2>1
  <2>3. Has(b, d, h, at, r) = IF Counts(b, r) /\ l > 0 THEN l ELSE 0
    BY <2>2 DEF Has
  <2> QED
    BY <2>3
<1>8. CASE ~Counts(b, r)
  <2>1. PICK f : f = [h \in 0 .. Hours - 1 |-> Has(b, d, h, at, r)]
    OBVIOUS
  <2>2. f \in [0 .. Hours - 1 -> Nat] /\ \A h \in 0 .. Hours - 1 : f[h] = 0
    BY <1>8, <2>1 DEF Has
  <2>3. IsFiniteSet(0 .. Hours - 1)
    BY <1>2, FS_Interval
  <2>4. SumFunction(f) = 0
    BY <2>2, <2>3, SumOfZeros
  <2> QED
    BY <1>7, <1>8, <2>1, <2>4
<1>9. CASE Counts(b, r)
  <2>1. PICK f \in [0 .. count - 1 -> Nat] : f = [h \in 0 .. Hours - 1 |-> Has(b, d, h, at, r)]
    <3>1. \A h \in 0 .. count - 1 : h \in Nat
      OBVIOUS
    <3> QED
      BY <1>2, <1>7, <3>1
  <2>2. PICK c \in [0 .. count -> Nat] : c = [h \in 0 .. count |-> upto(HourStart(d, h))]
    <3>1. ASSUME NEW h \in 0 .. count PROVE upto(HourStart(d, h)) \in Nat
      <4>1. h \in Nat
        OBVIOUS
      <4>2. PICK x \in Nat : x = HourStart(d, h)
        BY <1>3, <4>1
      <4>3. x <= x
        OBVIOUS
      <4> QED
        BY <1>5, <4>2, <4>3
    <3> QED
      BY <3>1
  <2>3. c[0] = 0 /\ c[count] = o
    BY <1>2, <1>6, <2>2
  <2>4. \A h \in 0 .. count - 1 : c[h + 1] = c[h] + f[h]
    <3> SUFFICES ASSUME NEW h \in 0 .. count - 1 PROVE c[h + 1] = c[h] + f[h]
      OBVIOUS
    <3>1. h \in 0 .. count /\ h + 1 \in 0 .. count /\ h \in Nat
      OBVIOUS
    <3>2. f[h] = Has(b, d, h, at, r)
      BY <1>2, <2>1
    <3>3. PICK x \in Nat, y \in Nat : x = HourStart(d, h) /\ y = HourStart(d, h + 1) /\ x <= y
      BY <1>3, <3>1
    <3>4. f[h] = IF span(x, y) > 0 THEN span(x, y) ELSE 0
      BY <1>4, <1>9, <3>1, <3>2, <3>3 DEF Has
    <3>5. upto(y) = upto(x) + (IF span(x, y) > 0 THEN span(x, y) ELSE 0)
      BY <1>5, <3>3
    <3> QED
      BY <2>2, <3>1, <3>3, <3>4, <3>5
  <2>5. SumFunction(f) = c[count]
    BY <2>3, <2>4, PartsAddUp
  <2> QED
    BY <1>1, <1>7, <1>9, <2>1, <2>3, <2>5
<1> QED
  BY <1>8, <1>9

\* An hour of the chart on a row, block by block.
Gives(r) == [x \in Shard |-> IF ~x.gap /\ r \in KeysOf[x.win] THEN x.millis ELSE 0]

\* An hour of the chart gives a row what its blocks have in the hour.
LEMMA HourOfRow ==
    ASSUME NEW d \in Nat, NEW to \in Nat, to < DayStart(d + 1), NEW at \in Nat, NEW h \in Nat,
           NEW q, Lined(q, DayStart(d), to), NEW r
    PROVE  OfRow(Bucket(d, q, h, at), r) = SumFunction([i \in DOMAIN q |-> Has(q[i], d, h, at, r)])
<1>1. PICK ss : ss = [i \in DOMAIN q |-> Fragment(d, q[i], h, at)]
  OBVIOUS
<1>2. /\ ss \in Seq(Seq(Shard)) /\ DOMAIN ss = DOMAIN q
      /\ Bucket(d, q, h, at) = FlattenSeq(ss)
      /\ FlattenSeq(ss) \in Seq(Shard)
  <2>1. DOMAIN ss = DOMAIN q
    BY <1>1
  <2>2. /\ ss \in ShardLists
        /\ Bucket(d, q, h, at) = FlattenSeq(ss) /\ FlattenSeq(ss) \in Seq(Shard)
    BY <1>1, BucketIs
  <2> QED
    BY <2>1, <2>2 DEF ShardLists
<1>3. PICK v \in [Shard -> Nat] : v = Gives(r)
  <2>1. \A x \in Shard : x.millis \in Nat
    BY DEF Shard
  <2> QED
    BY <2>1 DEF Gives
<1>4. PICK found \in Seq(Shard) : found = Bucket(d, q, h, at) /\ found = FlattenSeq(ss)
  BY <1>2
<1>5. OfRow(found, r) = Total(found, v)
  <2>1. \A i \in DOMAIN found : found[i] \in Shard
    BY LenProperties, ElementOfSeq
  <2>2. [i \in DOMAIN found |-> IF ~found[i].gap /\ r \in KeysOf[found[i].win]
                                THEN found[i].millis ELSE 0]
        = [i \in DOMAIN found |-> v[found[i]]]
    BY <1>3, <2>1 DEF Gives
  <2> QED
    BY <2>2 DEF OfRow, Total
<1>6. Total(FlattenSeq(ss), v) = SumFunction([i \in DOMAIN ss |-> Total(ss[i], v)])
  <2>1. PICK z \in Seq(Seq(Shard)) : z = ss
    BY <1>2
  <2>2. Total(FlattenSeq(z), v) = SumFunction([i \in DOMAIN z |-> Total(z[i], v)])
    BY FlattenTotal
  <2> QED
    BY <2>1, <2>2
<1>7. ASSUME NEW i \in DOMAIN q PROVE Total(ss[i], v) = Has(q[i], d, h, at, r)
  <2>1. q[i] \in Drawn(DayStart(d), to)
    BY LinedIs
  <2>2. Shards(ss[i], q[i], d, h, at) /\ Lasts(q[i], d, h, at) \in Int
    BY <1>1, <2>1, FragmentShards
  <2>3. CASE ss[i] = << >> /\ Lasts(q[i], d, h, at) <= 0
    BY <2>2, <2>3, TotalOfNone DEF Has
  <2>4. ASSUME NEW x \in Shard, ss[i] = << x >>, ShardOf(x, q[i], d, h, at)
        PROVE  Total(ss[i], v) = Has(q[i], d, h, at, r)
    <3>1. Total(<< x >>, v) = v[x]
      <4>1. PICK none \in Seq(Shard) : none = << >>
        BY EmptySeq
      <4>2. Total(Append(none, x), v) = Total(none, v) + v[x]
        BY TotalOfMore
      <4>3. Append(none, x) = << x >> /\ Total(none, v) = 0 /\ v[x] \in Nat
        BY <4>1, TotalOfNone
      <4> QED
        BY <4>2, <4>3
    <3>2. v[x] = IF Counts(q[i], r) THEN x.millis ELSE 0
      BY <1>3, <2>4 DEF Gives, ShardOf, Counts
    <3> QED
      BY <2>4, <3>1, <3>2 DEF Has, ShardOf
  <2> QED
    BY <2>2, <2>3, <2>4 DEF Shards
<1>8. [i \in DOMAIN ss |-> Total(ss[i], v)] = [i \in DOMAIN q |-> Has(q[i], d, h, at, r)]
  BY <1>2, <1>7
<1> QED
  BY <1>4, <1>5, <1>6, <1>8

-----------------------------------------------------------------------------
(* The chart of a row *)

Begun(q, at) == \A i \in DOMAIN q : q[i].start < at

\* All hours of the chart give a row what its blocks have in the day.
LEMMA ChartOfRow ==
    ASSUME NEW d \in Nat, NEW to \in Nat, to < DayStart(d + 1), NEW at \in Nat,
           NEW q, Lined(q, DayStart(d), to), Begun(q, at), NEW r \in Keys
    PROVE  SumFunction([h \in 0 .. Hours - 1 |-> OfRow(Bucket(d, q, h, at), r)])
           = Total(q, Shows({r}, d, DayStart(d), to, at))
<1>1. PICK s \in Nat : s = DayStart(d)
  BY HoursAre
<1>2. PICK I : I = DOMAIN q /\ IsFiniteSet(I) /\ \A i \in I : q[i] \in Drawn(s, to)
  <2>1. PICK n \in Nat : n = Len(q) /\ DOMAIN q = 1 .. n
    BY LinedIs
  <2>2. \A i \in 1 .. n : q[i] \in Drawn(s, to)
    BY <1>1, <2>1, LinedIs
  <2>3. IsFiniteSet(1 .. n)
    BY FS_Interval
  <2> QED
    BY <2>1, <2>2, <2>3
<1>3. PICK H : H = 0 .. Hours - 1 /\ IsFiniteSet(H) /\ H \subseteq Nat
  <2>1. PICK n \in Nat : n = Hours
    BY HoursAre
  <2>2. IsFiniteSet(0 .. n - 1)
    BY FS_Interval
  <2> QED
    BY <2>1, <2>2
<1>11. IsFiniteSet(I)
  BY <1>2
<1>12. IsFiniteSet(H)
  BY <1>3
<1>4. \A i \in I : /\ \A h \in Nat : Has(q[i], d, h, at, r) \in Nat
                   /\ SumFunction([h \in 0 .. Hours - 1 |-> Has(q[i], d, h, at, r)])
                      = IF Counts(q[i], r) THEN InDay(q[i], d, at) ELSE 0
  <2> SUFFICES ASSUME NEW i \in I
               PROVE  /\ \A h \in Nat : Has(q[i], d, h, at, r) \in Nat
                      /\ SumFunction([h \in 0 .. Hours - 1 |-> Has(q[i], d, h, at, r)])
                         = IF Counts(q[i], r) THEN InDay(q[i], d, at) ELSE 0
    OBVIOUS
  <2>1. PICK b \in Drawn(DayStart(d), to) : b = q[i]
    BY <1>1, <1>2
  <2>2. /\ \A h \in Nat : Has(b, d, h, at, r) \in Nat
        /\ SumFunction([h \in 0 .. Hours - 1 |-> Has(b, d, h, at, r)])
           = IF Counts(b, r) THEN InDay(b, d, at) ELSE 0
    BY HoursOfBlock
  <2> QED
    BY <2>1, <2>2
<1>5. PICK f \in [H -> [I -> Nat]] : f = [h \in H |-> [i \in I |-> Has(q[i], d, h, at, r)]]
  <2>1. \A h \in H : [i \in I |-> Has(q[i], d, h, at, r)] \in [I -> Nat]
    BY <1>3, <1>4
  <2> QED
    BY <2>1
<1>6. \A h \in H : OfRow(Bucket(d, q, h, at), r) = SumFunction([i \in I |-> f[h][i]])
  <2> SUFFICES ASSUME NEW h \in H
               PROVE  OfRow(Bucket(d, q, h, at), r) = SumFunction([i \in I |-> f[h][i]])
    OBVIOUS
  <2>1. h \in Nat
    BY <1>3
  <2>2. OfRow(Bucket(d, q, h, at), r) = SumFunction([i \in DOMAIN q |-> Has(q[i], d, h, at, r)])
    BY <2>1, HourOfRow
  <2>3. [i \in DOMAIN q |-> Has(q[i], d, h, at, r)] = [i \in I |-> f[h][i]]
    BY <1>2, <1>5
  <2> QED
    BY <2>2, <2>3
<1>7. SumFunction([h \in H |-> SumFunction([i \in I |-> f[h][i]])])
      = SumFunction([i \in I |-> SumFunction([h \in H |-> f[h][i]])])
  BY <1>11, <1>12, SumSwaps
<1>8. ASSUME NEW i \in I
      PROVE  SumFunction([h \in H |-> f[h][i]]) = Shows({r}, d, s, to, at)[q[i]]
  <2>1. [h \in H |-> f[h][i]] = [h \in 0 .. Hours - 1 |-> Has(q[i], d, h, at, r)]
    BY <1>3, <1>5
  <2>2. SumFunction([h \in H |-> f[h][i]]) = IF Counts(q[i], r) THEN InDay(q[i], d, at) ELSE 0
    BY <1>4, <2>1
  <2>3. q[i] \in Drawn(s, to) /\ q[i].start < at
    BY <1>2 DEF Begun
  <2>4. /\ q[i].start \in Nat /\ (~q[i].gap => q[i].win \in Windows) /\ q[i].gap \in BOOLEAN
    BY <2>3, DrawnIs
  <2>5. Max2(at, q[i].start + 1) = at
    BY <2>3, <2>4 DEF Max2
  <2>6. InDay(q[i], d, at) = Overlap(q[i].start, EndOf(q[i], at), d)
    BY <2>5 DEF InDay, DrawnEnd
  <2>7. ~q[i].gap => (Meets(q[i].win, {r}) <=> r \in KeysOf[q[i].win])
    BY <2>4, RowIsSingle
  <2>8. Shows({r}, d, s, to, at)[q[i]] =
          IF ~q[i].gap /\ Meets(q[i].win, {r}) THEN Overlap(q[i].start, EndOf(q[i], at), d) ELSE 0
    BY <2>3 DEF Shows
  <2> QED
    BY <2>2, <2>6, <2>7, <2>8 DEF Counts
<1>9. [i \in I |-> SumFunction([h \in H |-> f[h][i]])]
      = [i \in DOMAIN q |-> Shows({r}, d, s, to, at)[q[i]]]
  BY <1>2, <1>8
<1>10. [h \in 0 .. Hours - 1 |-> OfRow(Bucket(d, q, h, at), r)]
       = [h \in H |-> SumFunction([i \in I |-> f[h][i]])]
  BY <1>3, <1>6
<1> QED
  BY <1>1, <1>7, <1>9, <1>10 DEF Total

\* In every state with the invariant the chart shows what the tables hold.
LEMMA ChartIs == ScreensInv => ChartMatchesUsage
<1> SUFFICES ASSUME ScreensInv, Shown, now <= MaxTime,
                    \A i \in DOMAIN Blocks : Blocks[i].start < now, NEW r \in AppRows
             PROVE  SumFunction([h \in DOMAIN Chart |-> OfRow(Chart[h], r)])
                    = Metered(Snapshot, now)[refresh.day][r]
  BY DEF ChartMatchesUsage
<1>1. PICK t \in Nat, d \in Days, at \in Nat :
         /\ t = refresh.built /\ d = refresh.day /\ at = now /\ d \in Nat
         /\ DayStart(d) <= t /\ t < DayStart(d + 1)
  <2>1. \A x \in Days : x \in Nat
    BY DEF Days
  <2> QED
    BY <2>1, ShownIs
<1>2. PICK rows : rows = Snapshot /\ Table(rows, t) /\ Blocks = DayLine(rows, d)
  BY <1>1, ShownIs
<1>3. PICK m : Runs(m, rows) /\ FoldLeft(Observed, Zero, rows) = m[Len(rows)]
  BY <1>2, RunExists
<1>4. r \in Keys /\ Single({r})
  <2>1. r \in Keys
    BY Assumed
  <2> QED
    BY <2>1, RowIsSingle
<1>5. PICK q : /\ q = Blocks /\ Lined(q, DayStart(d), t)
               /\ Total(q, Shows({r}, d, DayStart(d), t, at))
                  = Spent({r}, m[Len(rows)], d) + Adding({r}, m[Len(rows)], at, d)
  BY <1>1, <1>2, <1>3, <1>4, DayLineIs
<1>6. PICK usage \in [Days -> [Keys -> Nat]] :
         /\ usage = Metered(rows, at)
         /\ SumFunction([x \in {r} |-> usage[d][x]])
            = Spent({r}, m[Len(rows)], d) + Adding({r}, m[Len(rows)], at, d)
  BY <1>2, <1>3, <1>4, MeteredIs
<1>7. SumFunction([x \in {r} |-> usage[d][x]]) = usage[d][r]
  <2>1. PICK f : f = usage[d] /\ f[r] \in Nat
    BY <1>4
  <2>2. SumFunction([x \in {r} |-> f[x]]) = f[r]
    BY <1>4, <2>1, RowIsSingle
  <2> QED
    BY <2>1, <2>2
<1>8. [h \in DOMAIN Chart |-> OfRow(Chart[h], r)]
      = [h \in 0 .. Hours - 1 |-> OfRow(Bucket(d, q, h, at), r)]
  BY <1>1, <1>5 DEF Chart
<1>9. Begun(q, at)
  BY <1>1, <1>5 DEF Begun
<1>10. SumFunction([h \in 0 .. Hours - 1 |-> OfRow(Bucket(d, q, h, at), r)])
       = Total(q, Shows({r}, d, DayStart(d), t, at))
  <2>1. PICK c \in Nat, k \in Keys : c = d /\ k = r
    BY <1>1, <1>4
  <2>2. PICK to \in Nat, u \in Nat : to = t /\ u = at /\ to < DayStart(c + 1)
    BY <1>1, <2>1
  <2>3. Lined(q, DayStart(c), to) /\ Begun(q, u)
    BY <1>5, <1>9, <2>1, <2>2
  <2>4. SumFunction([h \in 0 .. Hours - 1 |-> OfRow(Bucket(c, q, h, u), k)])
        = Total(q, Shows({k}, c, DayStart(c), to, u))
    BY <2>2, <2>3, ChartOfRow
  <2> QED
    BY <2>1, <2>2, <2>4
<1> QED
  BY <1>1, <1>2, <1>5, <1>6, <1>7, <1>8, <1>10

\* The 24 hours of the chart, drawn at any later time, give each app what
\* daily_app_usage holds of it for the day, when every block has begun.
THEOREM ChartsMatchUsage == SpecScreens => []ChartMatchesUsage
  BY ScreensHold, ChartIs, PTL

-----------------------------------------------------------------------------
(* The rankings and the bars of a range of days *)

UsageTable == [Days -> [Keys -> Nat]]
OfDay(usage, A, d) == SumFunction([r \in A |-> usage[d][r]])
OfDays(usage, A, first, last) == SumFunction([d \in first .. last |-> OfDay(usage, A, d)])

\* The days of a range are days of the tables.
LEMMA RangeIs ==
    ASSUME NEW first \in Days, NEW last \in first .. DayOf(MaxTime)
    PROVE  /\ first \in Nat /\ last \in Nat /\ first <= last
           /\ first .. last \in SUBSET Days /\ IsFiniteSet(first .. last)
<1>1. DayOf(MaxTime) \in Nat
  BY Assumed, DayAround
<1>2. first \in Nat /\ last \in Nat /\ first <= last /\ last <= DayOf(MaxTime)
  BY <1>1 DEF Days
<1>3. first .. last \in SUBSET Days
  BY <1>1, <1>2 DEF Days
<1>4. PICK a \in Int, b \in Int : a = first /\ b = last
  BY <1>2
<1>5. IsFiniteSet(a .. b)
  BY FS_Interval
<1> QED
  BY <1>2, <1>3, <1>4, <1>5

\* The use of a day is a natural number.
LEMMA OfDayType ==
    ASSUME NEW usage \in UsageTable, NEW A, A \subseteq Keys, NEW d \in Days
    PROVE  OfDay(usage, A, d) \in Nat /\ IsFiniteSet(A) /\ \A r \in A : usage[d][r] \in Nat
<1>1. PICK f \in [Keys -> Nat] : f = usage[d]
  BY DEF UsageTable
<1>2. IsFiniteSet(A)
  BY Assumed, FS_Subset
<1>3. PICK g \in [A -> Nat] : g = [r \in A |-> usage[d][r]]
  <2>1. [r \in A |-> f[r]] \in [A -> Nat]
    OBVIOUS
  <2> QED
    BY <1>1, <2>1
<1>4. SumFunction(g) \in Nat
  BY <1>2, SumType
<1>5. \A r \in A : usage[d][r] \in Nat
  BY <1>1
<1> QED
  BY <1>2, <1>3, <1>4, <1>5 DEF OfDay

\* A ranking names every row with its use in the range.
LEMMA RankingIs ==
    ASSUME NEW usage \in UsageTable, NEW A, A \subseteq Keys,
           NEW first \in Days, NEW last \in first .. DayOf(MaxTime)
    PROVE  \E total \in [A -> Nat] :
              /\ total = [r \in A |-> Used(usage, first .. last, r)]
              /\ SummaryLists(Summary(A, usage, first, last), A, total)
<1>1. first \in Int /\ last \in Int /\ first .. last \in SUBSET Days
  BY RangeIs
<1>2. IsFiniteSet(A)
  BY Assumed, FS_Subset
<1>3. \A d \in first .. last, r \in A : usage[d][r] \in Nat
  BY <1>1, OfDayType
<1>4. LET total == [r \in A |-> Used(usage, first .. last, r)]
      IN  /\ total \in [A -> Nat]
          /\ SummaryLists(Summary(A, usage, first, last), A, total)
  BY <1>1, <1>2, <1>3, SummaryIs
<1> QED
  BY <1>4

\* Its total is the use of all the days.
LEMMA RankingTotal ==
    ASSUME NEW usage \in UsageTable, NEW A, A \subseteq Keys,
           NEW first \in Days, NEW last \in first .. DayOf(MaxTime)
    PROVE  Millis(Summary(A, usage, first, last)) = OfDays(usage, A, first, last)
<1>1. PICK D \in SUBSET Days : D = first .. last /\ IsFiniteSet(D)
  BY RangeIs
<1>2. PICK total \in [A -> Nat] :
         /\ total = [r \in A |-> Used(usage, D, r)]
         /\ SummaryLists(Summary(A, usage, first, last), A, total)
  <2>1. PICK total \in [A -> Nat] :
           /\ total = [r \in A |-> Used(usage, first .. last, r)]
           /\ SummaryLists(Summary(A, usage, first, last), A, total)
    BY RankingIs
  <2> QED
    BY <1>1, <2>1
<1>3. IsFiniteSet(A)
  BY Assumed, FS_Subset
<1>4. Millis(Summary(A, usage, first, last)) = SumFunction(total)
  BY <1>2, <1>3, SummaryTotal
<1>5. PICK f \in [D -> [A -> Nat]] : f = [d \in D |-> [r \in A |-> usage[d][r]]]
  <2>1. \A d \in D : \A r \in A : usage[d][r] \in Nat
    BY <1>1, OfDayType
  <2>2. [d \in D |-> [r \in A |-> usage[d][r]]] \in [D -> [A -> Nat]]
    BY <2>1
  <2> QED
    BY <2>2
<1>6. IsFiniteSet(D)
  BY <1>1
<1>7. SumFunction([d \in D |-> SumFunction([r \in A |-> f[d][r]])])
      = SumFunction([r \in A |-> SumFunction([d \in D |-> f[d][r]])])
  BY <1>3, <1>6, SumSwaps
<1>8. [d \in D |-> SumFunction([r \in A |-> f[d][r]])] = [d \in D |-> OfDay(usage, A, d)]
  <2>1. ASSUME NEW d \in D PROVE SumFunction([r \in A |-> f[d][r]]) = OfDay(usage, A, d)
    <3>1. [r \in A |-> f[d][r]] = [r \in A |-> usage[d][r]]
      BY <1>5
    <3> QED
      BY <3>1 DEF OfDay
  <2> QED
    BY <2>1
<1>9. total = [r \in A |-> SumFunction([d \in D |-> f[d][r]])]
  <2>1. ASSUME NEW r \in A PROVE Used(usage, D, r) = SumFunction([d \in D |-> f[d][r]])
    <3>1. [d \in D |-> f[d][r]] = [d \in D |-> usage[d][r]]
      BY <1>5
    <3> QED
      BY <3>1 DEF Used
  <2> QED
    BY <1>2, <2>1
<1> QED
  BY <1>1, <1>4, <1>7, <1>8, <1>9 DEF OfDays

\* The bars (daily_bar_totals) add up to the use of all the days.
LEMMA BarsTotal ==
    ASSUME NEW usage \in UsageTable, NEW first \in Days, NEW last \in first .. DayOf(MaxTime)
    PROVE  SumFunction(Bars(DailyTotals(usage, first, last), first, last))
           = OfDays(usage, AppRows, first, last)
<1>1. PICK a \in Nat, z \in Nat : /\ a = first /\ z = last /\ a <= z
                                  /\ a .. z \in SUBSET Days
  BY RangeIs
<1>2. PICK n \in Nat : n = z - a + 1
  BY <1>1
<1>3. PICK f \in [a .. z -> Nat] : f = [d \in a .. z |-> OfDay(usage, AppRows, d)]
  <2>1. AppRows \subseteq Keys
    BY Assumed
  <2>2. \A d \in a .. z : OfDay(usage, AppRows, d) \in Nat
    BY <1>1, <2>1, OfDayType
  <2> QED
    BY <2>2
<1>4. PICK b : b = [i \in 1 .. n |-> a + i - 1]
  OBVIOUS
<1>5. Lists(b, 1 .. n, a .. z)
  <2>1. b \in [1 .. n -> a .. z]
    <3>1. \A i \in 1 .. n : a + i - 1 \in a .. z
      BY <1>2
    <3> QED
      BY <1>4, <3>1
  <2>2. \A x, y \in 1 .. n : b[x] = b[y] => x = y
    BY <1>4
  <2>3. ASSUME NEW d \in a .. z PROVE \E x \in 1 .. n : b[x] = d
    <3>1. d - a + 1 \in 1 .. n /\ a + (d - a + 1) - 1 = d
      BY <1>2
    <3> QED
      BY <1>4, <3>1
  <2> QED
    BY <2>1, <2>2, <2>3 DEF Lists
<1>6. IsFiniteSet(1 .. n)
  BY FS_Interval
<1>7. SumFunction([i \in 1 .. n |-> f[b[i]]]) = SumFunction(f)
  <2>1. PICK S, T : S = 1 .. n /\ T = a .. z /\ IsFiniteSet(S) /\ Lists(b, S, T)
    BY <1>5, <1>6
  <2>2. PICK g \in [T -> Nat] : g = f
    BY <2>1
  <2>3. IsFiniteSet(S)
    BY <2>1
  <2>4. Lists(b, S, T)
    BY <2>1
  <2>5. SumFunction([i \in S |-> g[b[i]]]) = SumFunction(g)
    BY <2>3, <2>4, SumMoves
  <2> QED
    BY <2>1, <2>2, <2>5
<1>8. Bars(DailyTotals(usage, a, z), a, z) = [i \in 1 .. n |-> f[b[i]]]
  <2>1. DailyTotals(usage, a, z) = f
    BY <1>3 DEF DailyTotals, OfDay
  <2>2. DOMAIN f = a .. z
    OBVIOUS
  <2>3. ASSUME NEW i \in 1 .. n
        PROVE  (LET d == a + i - 1 IN IF d \in DOMAIN f THEN f[d] ELSE 0) = f[b[i]]
    <3>1. b[i] = a + i - 1 /\ b[i] \in a .. z
      BY <1>4, <1>5 DEF Lists
    <3> QED
      BY <2>2, <3>1
  <2>4. Bars(f, a, z) = [i \in 1 .. n |-> f[b[i]]]
    BY <1>2, <2>3 DEF Bars
  <2> QED
    BY <2>1, <2>4
<1> QED
  BY <1>1, <1>3, <1>7, <1>8 DEF OfDays

-----------------------------------------------------------------------------
(* The lists made of a ranking *)

\* Ranks and shares leave the milliseconds of a list alone.
LEMMA RankedMillis ==
    ASSUME NEW s, NEW t
    PROVE  Millis(Ranked(s, t)) = Millis(s)
<1>1. DOMAIN Ranked(s, t) = DOMAIN s /\ \A i \in DOMAIN s : Ranked(s, t)[i].millis = s[i].millis
  BY DEF Ranked
<1>2. [i \in DOMAIN Ranked(s, t) |-> Ranked(s, t)[i].millis] = [i \in DOMAIN s |-> s[i].millis]
  BY <1>1
<1> QED
  BY <1>2 DEF Millis

\* The first k elements of a sequence.
LEMMA FirstOf ==
    ASSUME NEW R, NEW s \in Seq(R), NEW k \in 0 .. Len(s)
    PROVE  SubSeq(s, 1, k) = [i \in 1 .. k |-> s[i]]
<1>1. Len(s) \in Nat /\ k \in Int
  BY LenProperties
<1>2. 1 \in Int /\ \A i \in 1 .. k : s[i] \in R
  BY <1>1, ElementOfSeq
<1>3. /\ SubSeq(s, 1, k) \in Seq(R)
      /\ Len(SubSeq(s, 1, k)) = IF 1 <= k THEN k - 1 + 1 ELSE 0
      /\ \A i \in 1 .. k - 1 + 1 : SubSeq(s, 1, k)[i] = s[1 + i - 1]
  BY <1>1, <1>2, SubSeqProperties
<1>4. PICK z \in Seq(R) : z = SubSeq(s, 1, k)
  BY <1>3
<1>5. k - 1 + 1 = k /\ \A i \in 1 .. k : 1 + i - 1 = i
  BY <1>1
<1>6. Len(z) = k /\ \A i \in 1 .. k : z[i] = s[i]
  BY <1>1, <1>3, <1>4, <1>5
<1>7. z = [i \in 1 .. Len(z) |-> z[i]]
  OBVIOUS
<1> QED
  BY <1>4, <1>6, <1>7

\* What a cut list keeps of the ranking.
LEMMA TopIs ==
    ASSUME NEW R, NEW s \in Seq(R)
    PROVE  \E k \in 0 .. Len(s) :
              /\ TopRows(s) = [i \in 1 .. k |-> Ranked(s, s)[i]]
              /\ Len(s) <= Top => TopRows(s) = Ranked(s, s)
<1>1. PICK n \in Nat : Len(s) = n /\ DOMAIN s = 1 .. n
  BY LenProperties
<1>2. PICK k \in 0 .. n : k = Min2(Top, n) /\ (n <= Top => k = n)
  <2>1. Top \in Nat
    BY ScreensAssumption
  <2> QED
    BY <2>1 DEF Min2
<1>3. PICK shown : shown = SubSeq(s, 1, k)
  OBVIOUS
<1>4. shown = [i \in 1 .. k |-> s[i]]
  BY <1>1, <1>3, FirstOf
<1>5. DOMAIN shown = 1 .. k /\ \A i \in 1 .. k : shown[i] = s[i] /\ i \in 1 .. n
  BY <1>4
<1>6. TopRows(s) = Ranked(shown, s)
  BY <1>1, <1>2, <1>3 DEF TopRows
<1>7. Ranked(shown, s) = [i \in 1 .. k |-> Ranked(s, s)[i]]
  BY <1>1, <1>5 DEF Ranked
<1>8. ASSUME n <= Top PROVE TopRows(s) = Ranked(s, s)
  <2>1. DOMAIN Ranked(s, s) = 1 .. k
    BY <1>1, <1>2, <1>8 DEF Ranked
  <2>2. Ranked(s, s) = [i \in DOMAIN Ranked(s, s) |-> Ranked(s, s)[i]]
    BY DEF Ranked
  <2> QED
    BY <1>6, <1>7, <2>1, <2>2
<1> QED
  BY <1>1, <1>2, <1>6, <1>7, <1>8

\* Every row of the cut list is a row of the whole ranking.
LEMMA TopAmong ==
    ASSUME NEW R, NEW s \in Seq(R)
    PROVE  Rows(TopRows(s)) \subseteq Rows(Ranked(s, s))
<1>1. PICK k \in 0 .. Len(s) : TopRows(s) = [i \in 1 .. k |-> Ranked(s, s)[i]]
  BY TopIs
<1>2. PICK n \in Nat : n = Len(s) /\ DOMAIN s = 1 .. n
  BY LenProperties
<1>3. PICK q : q = Ranked(s, s) /\ DOMAIN q = 1 .. n
  <2>1. DOMAIN Ranked(s, s) = DOMAIN s
    BY DEF Ranked
  <2> QED
    BY <1>2, <2>1
<1>4. \A i \in 1 .. k : i \in 1 .. n
  BY <1>2
<1> QED
  BY <1>1, <1>3, <1>4 DEF Rows

-----------------------------------------------------------------------------
(* The three usage tables *)

\* Two sets with one row for each window have had the same time counted.
LEMMA SpentAlike ==
    ASSUME NEW rows, NEW t, Table(rows, t), NEW m, Runs(m, rows), NEW d \in Days,
           NEW A, A \subseteq Keys, OneRowEach(A), NEW B, B \subseteq Keys, OneRowEach(B)
    PROVE  /\ Spent(A, m[Len(rows)], d) = Spent(B, m[Len(rows)], d)
           /\ \A u : Adding(A, m[Len(rows)], u, d) = Adding(B, m[Len(rows)], u, d)
<1>1. /\ Single(A) /\ \A w \in Windows : Meets(w, A)
      /\ Single(B) /\ \A w \in Windows : Meets(w, B)
  BY OneRowIs
<1>2. PICK n \in Nat : n = Len(rows)
  BY TableIs
<1>3. ASSUME NEW i \in 0 .. n, NEW u PROVE Adding(A, m[i], u, d) = Adding(B, m[i], u, d)
  <2>1. MeterType(m[i])
    BY <1>2, RunType
  <2>2. Cur(m[i]) # NoFocus => Cur(m[i]).win \in Windows
    BY <2>1, CurIs
  <2> QED
    BY <1>1, <2>2 DEF Adding
<1> DEFINE P == {i \in 0 .. n : Spent(A, m[i], d) = Spent(B, m[i], d)}
<1>4. 0 \in P
  <2>1. m[0] = Zero
    BY DEF Runs, Passes
  <2>2. Spent(A, Zero, d) = 0 /\ Spent(B, Zero, d) = 0
    BY ZeroIs
  <2> QED
    BY <2>1, <2>2
<1>5. ASSUME NEW i \in 0 .. n, i \in P /\ i < n PROVE i + 1 \in P
  <2>1. PICK j \in 1 .. n : j = i + 1 /\ j - 1 = i
    BY <1>5
  <2>2. Spent(A, m[i], d) = Spent(B, m[i], d)
    BY <1>5
  <2>3. CASE rows[j].type \in Ignored
    <3>1. rows[j].type \in Ignored => m[j] = m[j - 1]
      BY <1>2, RunIs
    <3>4. m[j] = m[i]
      BY <2>1, <2>3, <3>1
    <3> QED
      BY <2>1, <2>2, <3>4
  <2>4. CASE rows[j].type \notin Ignored
    <3>1. Spent(A, m[j], d) = Spent(A, m[i], d) + Adding(A, m[i], rows[j].ts, d)
      BY <1>1, <1>2, <2>1, <2>4, RunSpends
    <3>2. Spent(B, m[j], d) = Spent(B, m[i], d) + Adding(B, m[i], rows[j].ts, d)
      BY <1>1, <1>2, <2>1, <2>4, RunSpends
    <3>3. Adding(A, m[i], rows[j].ts, d) = Adding(B, m[i], rows[j].ts, d)
      BY <1>3
    <3> QED
      BY <2>1, <2>2, <3>1, <3>2, <3>3
  <2> QED
    BY <2>3, <2>4
<1>6. 0 .. n \subseteq P
  <2> HIDE DEF P
  <2> QED
    BY <1>4, <1>5, Induction
<1>7. n \in 0 .. n
  OBVIOUS
<1> QED
  BY <1>2, <1>3, <1>6, <1>7

\* Each table divides the same use among its rows.
LEMMA TablesAgree ==
    ASSUME NEW rows, NEW t \in Nat, Table(rows, t), NEW first \in Days,
           NEW last \in first .. DayOf(MaxTime),
           NEW A, A \subseteq Keys, OneRowEach(A), NEW B, B \subseteq Keys, OneRowEach(B)
    PROVE  OfDays(Metered(rows, t), A, first, last) = OfDays(Metered(rows, t), B, first, last)
<1>1. PICK m : Runs(m, rows) /\ FoldLeft(Observed, Zero, rows) = m[Len(rows)]
  BY RunExists
<1>2. PICK usage : usage = Metered(rows, t)
  OBVIOUS
<1>3. Single(A) /\ Single(B)
  BY OneRowIs
<1>4. ASSUME NEW d \in Days PROVE OfDay(usage, A, d) = OfDay(usage, B, d)
  <2>1. /\ OfDay(usage, A, d) = Spent(A, m[Len(rows)], d) + Adding(A, m[Len(rows)], t, d)
        /\ OfDay(usage, B, d) = Spent(B, m[Len(rows)], d) + Adding(B, m[Len(rows)], t, d)
    BY <1>1, <1>2, <1>3, MeteredIs DEF OfDay
  <2>2. Spent(A, m[Len(rows)], d) = Spent(B, m[Len(rows)], d)
    BY <1>1, SpentAlike
  <2>3. Adding(A, m[Len(rows)], t, d) = Adding(B, m[Len(rows)], t, d)
    BY <1>1, SpentAlike
  <2> QED
    BY <2>1, <2>2, <2>3
<1>5. [d \in first .. last |-> OfDay(usage, A, d)] = [d \in first .. last |-> OfDay(usage, B, d)]
  <2>1. first .. last \in SUBSET Days
    BY RangeIs
  <2> QED
    BY <1>4, <2>1
<1> QED
  BY <1>2, <1>5 DEF OfDays

-----------------------------------------------------------------------------
(* The screens add up *)

\* A summary is a sequence.
LEMMA RankingSeq ==
    ASSUME NEW usage \in UsageTable, NEW A, A \subseteq Keys,
           NEW first \in Days, NEW last \in first .. DayOf(MaxTime)
    PROVE  \E R : Summary(A, usage, first, last) \in Seq(R)
<1>1. PICK total \in [A -> Nat] : SummaryLists(Summary(A, usage, first, last), A, total)
  BY RankingIs
<1>6. PICK n \in Nat : \E rank :
         Summary(A, usage, first, last) =
             [i \in 1 .. n |-> [row |-> rank[i], millis |-> total[rank[i]]]]
  BY <1>1 DEF SummaryLists
<1>2. PICK rank :
         Summary(A, usage, first, last) =
             [i \in 1 .. n |-> [row |-> rank[i], millis |-> total[rank[i]]]]
  BY <1>6
<1>3. PICK R : R = {[row |-> rank[i], millis |-> total[rank[i]]] : i \in 1 .. n}
  OBVIOUS
<1>4. PICK s \in [1 .. n -> R] : s = Summary(A, usage, first, last)
  BY <1>2, <1>3
<1>5. s \in Seq(R)
  BY IsASeq
<1> QED
  BY <1>4, <1>5

\* The list of a day shows what the table has of it.
LEMMA TodayShown ==
    ASSUME NEW usage \in UsageTable, NEW today \in Days,
           NEW row \in Rows(TopRows(AppSummary(usage, today, today)))
    PROVE  row.millis = UsageToday(usage, row.row, today)
<1>1. PICK s : s = AppSummary(usage, today, today) /\ row \in Rows(TopRows(s))
  OBVIOUS
<1>2. AppRows \subseteq Keys /\ today \in today .. DayOf(MaxTime) /\ today \in Nat
      /\ today .. today = {today}
  <2>1. DayOf(MaxTime) \in Nat
    BY Assumed, DayAround
  <2> QED
    BY <2>1, Assumed DEF Days
<1>3. PICK total \in [AppRows -> Nat] :
         /\ total = [r \in AppRows |-> Used(usage, today .. today, r)]
         /\ SummaryLists(Summary(AppRows, usage, today, today), AppRows, total)
  BY <1>2, RankingIs
<1>13. PICK n \in Nat : \E rank :
         /\ Lists(rank, 1 .. n, Found(AppRows, total))
         /\ Summary(AppRows, usage, today, today) =
                [i \in 1 .. n |-> [row |-> rank[i], millis |-> total[rank[i]]]]
  BY <1>3 DEF SummaryLists
<1>4. PICK rank :
         /\ Lists(rank, 1 .. n, Found(AppRows, total))
         /\ Summary(AppRows, usage, today, today) =
                [i \in 1 .. n |-> [row |-> rank[i], millis |-> total[rank[i]]]]
  BY <1>13
<1>5. s = [i \in 1 .. n |-> [row |-> rank[i], millis |-> total[rank[i]]]]
  BY <1>1, <1>4 DEF AppSummary
<1>6. PICK R : s \in Seq(R)
  BY <1>1, <1>2, RankingSeq DEF AppSummary
<1>7. PICK i \in 1 .. n : row = Ranked(s, s)[i]
  <2>1. Rows(TopRows(s)) \subseteq Rows(Ranked(s, s))
    BY <1>6, TopAmong
  <2>2. DOMAIN Ranked(s, s) = 1 .. n
    <3>1. DOMAIN Ranked(s, s) = DOMAIN s
      BY DEF Ranked
    <3> QED
      BY <1>5, <3>1
  <2> QED
    BY <1>1, <2>1, <2>2 DEF Rows
<1>8. row.row = rank[i] /\ row.millis = total[rank[i]]
  <2>1. i \in DOMAIN s /\ s[i].row = rank[i] /\ s[i].millis = total[rank[i]]
    BY <1>5
  <2> QED
    BY <1>7, <2>1 DEF Ranked
<1>9. rank[i] \in AppRows
  BY <1>4 DEF Lists, Found
<1>10. PICK r \in AppRows : r = rank[i] /\ total[r] = Used(usage, {today}, r)
  BY <1>2, <1>3, <1>9
<1>11. PICK f \in [{today} -> Nat] : f = [d \in {today} |-> usage[d][r]]
  <2>1. usage[today][r] \in Nat
    BY <1>2, OfDayType
  <2>2. [d \in {today} |-> usage[d][r]] \in [{today} -> Nat]
    BY <2>1
  <2> QED
    BY <2>2
<1>12. SumFunction(f) = f[today]
  <2>1. PICK S : S = {today} /\ IsFiniteSet(S)
    BY FS_Singleton
  <2>2. IsFiniteSet(S) /\ f \in [S -> Nat] /\ today \in S /\ \A y \in S : y = today
    BY <2>1
  <2> QED
    BY <2>2, SumOfOne
<1> QED
  BY <1>8, <1>10, <1>11, <1>12 DEF Used, UsageToday

\* The lists and the bars of a range agree.
RangeAddsUp(usage, first, last) ==
    LET bars == Bars(DailyTotals(usage, first, last), first, last)
        apps == AppSummary(usage, first, last)
        categories == CategorySummary(usage, first, last)
    IN  /\ SumFunction(bars) = Millis(apps)
        /\ Millis(TitleSummary(usage, first, last)) = Millis(apps)
        /\ OneRowEach(CategoryRows) =>
               Millis(CategorySlices(categories)) = Millis(AppSlices(apps))
        /\ Rows(TopRows(apps)) \subseteq Rows(AppSlices(apps)) \cap Rows(ReportRows(apps))

\* The summaries of a range agree with the bars and with each other.
LEMMA RangesAddUp ==
    ASSUME NEW rows, NEW t \in Nat, Table(rows, t), NEW usage \in UsageTable,
           usage = Metered(rows, t), NEW first \in Days, NEW last \in first .. DayOf(MaxTime)
    PROVE  RangeAddsUp(usage, first, last)
<1> DEFINE bars == Bars(DailyTotals(usage, first, last), first, last)
           apps == AppSummary(usage, first, last)
           categories == CategorySummary(usage, first, last)
           titles == TitleSummary(usage, first, last)
<1>1. /\ AppRows \subseteq Keys /\ TitleRows \subseteq Keys /\ CategoryRows \subseteq Keys
      /\ OneRowEach(AppRows) /\ OneRowEach(TitleRows)
  BY Assumed, ScreensAssumption
<1>2. Millis(apps) = OfDays(usage, AppRows, first, last)
  BY <1>1, RankingTotal DEF AppSummary
<1>3. Millis(titles) = OfDays(usage, TitleRows, first, last)
  BY <1>1, RankingTotal DEF TitleSummary
<1>4. Millis(categories) = OfDays(usage, CategoryRows, first, last)
  BY <1>1, RankingTotal DEF CategorySummary
<1>5. SumFunction(bars) = OfDays(usage, AppRows, first, last)
  BY BarsTotal
<1>6. OfDays(usage, TitleRows, first, last) = OfDays(usage, AppRows, first, last)
  <2>1. OfDays(Metered(rows, t), TitleRows, first, last)
        = OfDays(Metered(rows, t), AppRows, first, last)
    BY <1>1, TablesAgree
  <2> QED
    BY <2>1
<1>7. ASSUME OneRowEach(CategoryRows)
      PROVE  OfDays(usage, CategoryRows, first, last) = OfDays(usage, AppRows, first, last)
  <2>1. OfDays(Metered(rows, t), CategoryRows, first, last)
        = OfDays(Metered(rows, t), AppRows, first, last)
    BY <1>1, <1>7, TablesAgree
  <2> QED
    BY <2>1
<1>8. PICK R : apps \in Seq(R)
  BY <1>1, RankingSeq DEF AppSummary
<1> HIDE DEF bars, apps, categories, titles
<1>9. Millis(CategorySlices(categories)) = Millis(categories)
  BY RankedMillis DEF CategorySlices
<1>10. Millis(AppSlices(apps)) = Millis(apps)
  BY RankedMillis DEF AppSlices
<1>11. Rows(TopRows(apps)) \subseteq Rows(Ranked(apps, apps))
  BY <1>8, TopAmong
<1>12. /\ SumFunction(bars) = Millis(apps) /\ Millis(titles) = Millis(apps)
       /\ OneRowEach(CategoryRows) =>
              Millis(CategorySlices(categories)) = Millis(AppSlices(apps))
       /\ Rows(TopRows(apps)) \subseteq Rows(AppSlices(apps)) \cap Rows(ReportRows(apps))
  BY <1>2, <1>3, <1>4, <1>5, <1>6, <1>7, <1>9, <1>10, <1>11 DEF AppSlices, ReportRows
<1> QED
  BY <1>12, Zenon DEF RangeAddsUp, bars, apps, categories, titles

\* A list that is not cut off has the total of the timeline.
LEMMA DayAddsUp ==
    ASSUME NEW rows, NEW t \in Nat, Table(rows, t), NEW usage \in UsageTable,
           usage = Metered(rows, t), NEW today \in Days, today = DayOf(t),
           Len(AppSummary(usage, today, today)) <= Top
    PROVE  KpiTotal(AppSummary(usage, today, today)) = TotalFocus(DayLine(rows, today), t)
<1>1. AppRows \subseteq Keys /\ OneRowEach(AppRows)
  BY Assumed, ScreensAssumption
<1>2. /\ today \in Nat /\ today \in today .. DayOf(MaxTime) /\ today .. today = {today}
      /\ DayStart(today) <= t /\ t < DayStart(today + 1)
  <2>1. DayOf(MaxTime) \in Nat /\ DayStart(DayOf(t)) <= t /\ t < DayStart(DayOf(t) + 1)
    BY Assumed, DayAround
  <2> QED
    BY <2>1 DEF Days
<1>3. PICK s : s = AppSummary(usage, today, today) /\ Len(s) <= Top
  OBVIOUS
<1>4. PICK R : s \in Seq(R)
  BY <1>1, <1>2, <1>3, RankingSeq DEF AppSummary
<1>5. TopRows(s) = Ranked(s, s)
  BY <1>3, <1>4, TopIs
<1>6. KpiTotal(s) = Millis(s)
  BY <1>5, RankedMillis DEF KpiTotal
<1>7. Millis(s) = OfDays(usage, AppRows, today, today)
  BY <1>1, <1>2, <1>3, RankingTotal DEF AppSummary
<1>8. OfDays(usage, AppRows, today, today) = OfDay(usage, AppRows, today)
  <2>1. OfDay(usage, AppRows, today) \in Nat
    BY <1>1, OfDayType
  <2>2. PICK S, f : /\ S = {today} /\ f = [d \in S |-> OfDay(usage, AppRows, d)]
                    /\ IsFiniteSet(S)
    BY FS_Singleton
  <2>3. f \in [S -> Nat] /\ today \in S /\ \A y \in S : y = today
    BY <2>1, <2>2
  <2>4. IsFiniteSet(S)
    BY <2>2
  <2>5. SumFunction(f) = f[today]
    BY <2>3, <2>4, SumOfOne
  <2> QED
    BY <1>2, <2>2, <2>5 DEF OfDays
<1>9. TotalFocus(DayLine(rows, today), t) = SumFunction([r \in AppRows |-> Metered(rows, t)[today][r]])
  BY <1>1, <1>2, FocusOfDay
<1> QED
  BY <1>3, <1>6, <1>7, <1>8, <1>9 DEF OfDay

\* In every state with the invariant the screens add up.
LEMMA AddUpIs == ScreensInv => ScreensAddUp
<1> SUFFICES ASSUME ScreensInv, now <= MaxTime
             PROVE  ScreensAddUp
  BY Zenon DEF ScreensAddUp
<1>7. PICK t \in Nat : t = now /\ t <= MaxTime
  BY DEF ScreensInv
<1>1. PICK rows : t = now /\ rows = log /\ Table(rows, t) /\ t <= MaxTime
  BY <1>7 DEF ScreensInv
<1>2. PICK usage \in UsageTable : usage = Metered(rows, t)
  <2>1. PICK m : Runs(m, rows) /\ FoldLeft(Observed, Zero, rows) = m[Len(rows)]
    BY <1>1, RunExists
  <2> QED
    BY <1>1, <2>1, MeteredIs DEF UsageTable
<1>3. PICK today \in Days : today = DayOf(t)
  <2>1. DayOf(t) \in Nat /\ DayOf(MaxTime) \in Nat /\ DayOf(t) <= DayOf(MaxTime)
    BY <1>1, Assumed, DayAround, EarlierDay
  <2> QED
    BY <2>1 DEF Days
<1> DEFINE Ranges(u) ==
             \A first \in Days : \A last \in first .. DayOf(MaxTime) :
                 RangeAddsUp(u, first, last)
           Day(u, d) ==
             LET apps   == AppSummary(u, d, d)
                 blocks == Timeline(d, PreMidnightSeed(log, DayStart(d)),
                                    DayEvents(log, DayStart(d), DayStart(d + 1)))
             IN  /\ Len(apps) <= Top => KpiTotal(apps) = TotalFocus(blocks, now)
                 /\ \A row \in Rows(TopRows(apps)) :
                        row.millis = UsageToday(u, row.row, d)
<1>4. Ranges(usage)
  BY <1>1, <1>2, RangesAddUp
<1>5. Day(usage, today)
  <2>1. Len(AppSummary(usage, today, today)) <= Top =>
            KpiTotal(AppSummary(usage, today, today)) = TotalFocus(DayLine(rows, today), t)
    BY <1>1, <1>2, <1>3, DayAddsUp
  <2>2. \A row \in Rows(TopRows(AppSummary(usage, today, today))) :
            row.millis = UsageToday(usage, row.row, today)
    BY TodayShown
  <2> QED
    BY <1>1, <2>1, <2>2, Zenon DEF DayLine
<1>6. Ranges(Metered(log, now)) /\ Day(Metered(log, now), DayOf(now))
  <2> HIDE DEF Ranges, Day
  <2> QED
    BY <1>1, <1>2, <1>3, <1>4, <1>5
<1> QED
  BY <1>6, Zenon DEF ScreensAddUp, RangeAddsUp

\* Rankings, pies, reports, bars, timeline and enforcer say the same of every range
\* of days, for every table of events (get_app_summary, recompute_derived,
\* compute_kpis, get_today_app_usage).
THEOREM ScreensAgree == SpecScreens => []ScreensAddUp
  BY ScreensHold, AddUpIs, PTL
=============================================================================
