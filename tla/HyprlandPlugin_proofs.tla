------------------------ MODULE HyprlandPlugin_proofs ------------------------
(***************************************************************************)
(* Theorems about the Hyprland plugin, for every set of window classes,    *)
(* every queue capacity and every number of events.                        *)
(***************************************************************************)
EXTENDS HyprlandPluginInvariant, SequenceTheorems, WellFoundedInduction, TLAPS

-----------------------------------------------------------------------------
(* Sequences *)

LEMMA TailFacts ==
  ASSUME NEW S, NEW s \in Seq(S), s # << >>
  PROVE  /\ Tail(s) \in Seq(S) /\ Head(s) = s[1] /\ Head(s) \in S
         /\ Len(s) \in Nat \ {0} /\ Len(Tail(s)) = Len(s) - 1
         /\ DOMAIN s = 1 .. Len(s) /\ DOMAIN Tail(s) = 1 .. Len(s) - 1
         /\ \A i \in 1 .. Len(s) - 1 : Tail(s)[i] = s[i + 1]
  BY HeadTailProperties, LenProperties

LEMMA ConcatFacts ==
  ASSUME NEW S, NEW s \in Seq(S), NEW t \in Seq(S)
  PROVE  /\ s \o t \in Seq(S)
         /\ Len(s) \in Nat /\ Len(t) \in Nat /\ Len(s \o t) = Len(s) + Len(t)
         /\ DOMAIN s = 1 .. Len(s) /\ DOMAIN t = 1 .. Len(t)
         /\ DOMAIN (s \o t) = 1 .. Len(s) + Len(t)
         /\ \A i \in 1 .. Len(s) : (s \o t)[i] = s[i]
         /\ \A i \in 1 .. Len(t) : (s \o t)[Len(s) + i] = t[i]
  <1>1. s \o t \in Seq(S) /\ Len(s) \in Nat /\ Len(t) \in Nat /\ Len(s \o t) = Len(s) + Len(t)
    BY ConcatProperties, LenProperties
  <1>2. \A i \in 1 .. Len(s) + Len(t) :
           (s \o t)[i] = IF i <= Len(s) THEN s[i] ELSE t[i - Len(s)]
    BY ConcatProperties
  <1>3. ASSUME NEW i \in 1 .. Len(t) PROVE (s \o t)[Len(s) + i] = t[i]
    <2>1. Len(s) + i \in 1 .. Len(s) + Len(t) /\ ~(Len(s) + i <= Len(s))
      BY <1>1
    <2>2. Len(s) + i - Len(s) = i
      BY <1>1
    <2> QED
      BY <1>2, <2>1, <2>2
  <1>4. \A i \in 1 .. Len(s) : (s \o t)[i] = s[i]
    BY <1>1, <1>2
  <1> QED
    BY <1>1, <1>3, <1>4, LenProperties

\* Where the elements of a concatenation come from.
LEMMA ConcatPositions ==
  ASSUME NEW S, NEW s \in Seq(S), NEW t \in Seq(S)
  PROVE  /\ \A i \in DOMAIN s : i \in DOMAIN (s \o t) /\ (s \o t)[i] = s[i]
         /\ \A i \in DOMAIN (s \o t) : \/ i \in DOMAIN s
                                       \/ \E j \in DOMAIN t : i = Len(s) + j /\ (s \o t)[i] = t[j]
         /\ \A j \in DOMAIN t : Len(s) + j \in DOMAIN (s \o t) /\ (s \o t)[Len(s) + j] = t[j]
  <1> DEFINE n == Len(s)
             m == Len(t)
             u == s \o t
  <1>1. /\ n \in Nat /\ m \in Nat /\ DOMAIN s = 1 .. n /\ DOMAIN t = 1 .. m /\ DOMAIN u = 1 .. n + m
        /\ \A i \in 1 .. n : u[i] = s[i]
        /\ \A i \in 1 .. m : u[n + i] = t[i]
    BY ConcatFacts
  <1> HIDE DEF n, m, u
  <1>2. ASSUME NEW i \in 1 .. n + m, ~(i <= n)
        PROVE  \E j \in 1 .. m : i = n + j /\ u[i] = t[j]
    <2>1. i - n \in 1 .. m /\ i = n + (i - n)
      BY <1>1, <1>2
    <2>2. u[i] = t[i - n]
      BY <1>1, <2>1
    <2> QED
      BY <2>1, <2>2
  <1>3. \A i \in 1 .. n + m : i \in 1 .. n \/ \E j \in 1 .. m : i = n + j /\ u[i] = t[j]
    BY <1>1, <1>2
  <1>4. \A i \in 1 .. n : i \in 1 .. n + m
    BY <1>1
  <1>5. \A j \in 1 .. m : n + j \in 1 .. n + m
    BY <1>1
  <1> QED
    BY <1>1, <1>3, <1>4, <1>5 DEF n, m, u

LEMMA SingletonFacts ==
  ASSUME NEW S, NEW e \in S
  PROVE  << e >> \in Seq(S) /\ Len(<< e >>) = 1 /\ << e >>[1] = e
  OBVIOUS

\* A set of positions has a last one.
LEMMA LastPosition ==
  ASSUME NEW n \in Nat, NEW I \in SUBSET (1 .. n), I # {}
  PROVE  Max(I) \in I /\ \A i \in I : i <= Max(I)
  <1> DEFINE T == {n - i : i \in I}
  <1>1. T \subseteq Nat /\ T # {}
    <2>1. \A i \in I : n - i \in Nat
      OBVIOUS
    <2>2. PICK i \in I : TRUE
      OBVIOUS
    <2>3. n - i \in T
      OBVIOUS
    <2> QED
      BY <2>1, <2>3
  <1> DEFINE R == OpToRel(<, Nat)
  <1>2. IsWellFoundedOn(R, Nat)
    BY NatLessThanWellFounded
  <1>3. \A x, y \in Nat : x < y => << x, y >> \in R
    BY DEF OpToRel
  <1> HIDE DEF R, T
  <1>8. PICK x \in T : \A y \in T : ~ (<< y, x >> \in R)
    BY <1>1, <1>2, WFMin, Zenon
  <1>9. ASSUME NEW y \in T PROVE x <= y
    <2>1. x \in Nat /\ y \in Nat
      BY <1>1, <1>8
    <2>2. ~(y < x)
      BY <1>3, <1>8, <2>1
    <2> QED
      BY <2>1, <2>2
  <1> USE DEF T
  <1>4. PICK m \in I : x = n - m
    BY <1>8
  <1>5. ASSUME NEW i \in I PROVE m >= i
    <2>1. n - i \in T
      OBVIOUS
    <2>2. n - m <= n - i
      BY <1>9, <1>4, <2>1
    <2> QED
      BY <2>2
  <1>6. Max(I) = CHOOSE j \in I : \A i \in I : j >= i
    BY DEF Max
  <1>7. Max(I) \in I /\ \A i \in I : Max(I) >= i
    BY <1>5, <1>6
  <1> QED
    BY <1>7
-----------------------------------------------------------------------------
(* The two queues *)

LEMMA CapacityType == Capacity \in Nat \ {0}
  BY PluginAssumption

LEMMA QueueWritten ==
  ASSUME NEW Item, NEW q, QueueOK(q, Item), q.writing = << >>, NEW m \in Item
  PROVE  /\ QueueOK(Written(q, m), Item)
         /\ Written(q, m).reading = q.reading /\ Written(q, m).queue = q.queue
         /\ Pending(Written(q, m)) = IF HasRoom(q) THEN Pending(q) \o << m >> ELSE Pending(q)
  <1>1. CASE ~HasRoom(q)
    BY <1>1 DEF Written
  <1>2. CASE HasRoom(q)
    <2>1. << m >> \in Seq(Item) /\ Len(<< m >>) = 1
      OBVIOUS
    <2>2. Written(q, m) = [q EXCEPT !.writing = << m >>, !.wake = TRUE]
      BY <1>2 DEF Written
    <2>5. /\ Written(q, m) \in Slots(Item)
          /\ Written(q, m).writing = << m >> /\ Written(q, m).queue = q.queue
          /\ Written(q, m).reading = q.reading
      BY <2>1, <2>2 DEF QueueOK, Slots
    <2>3. QueueOK(Written(q, m), Item)
      BY <1>2, <2>1, <2>5, LenProperties, PluginAssumption DEF QueueOK, Slots, HasRoom
    <2>4. Pending(q) = q.queue
      BY ConcatEmptySeq DEF QueueOK, Slots, Pending
    <2> QED
      BY <1>2, <2>2, <2>3, <2>4 DEF Pending, QueueOK
  <1> QED
    BY <1>1, <1>2

LEMMA QueueCommitted ==
  ASSUME NEW Item, NEW q, QueueOK(q, Item)
  PROVE  /\ QueueOK(Committed(q), Item)
         /\ Committed(q).reading = q.reading
         /\ Pending(Committed(q)) = Pending(q)
  <1>1. Pending(q) \in Seq(Item) /\ Len(Pending(q)) = Len(q.queue) + Len(q.writing)
        /\ Len(q.queue) \in Nat /\ Len(q.writing) \in Nat
    BY ConcatFacts DEF QueueOK, Slots, Pending
  <1>2. Committed(q) = [q EXCEPT !.queue = Pending(q), !.writing = << >>]
    BY DEF Committed, Pending
  <1>3. << >> \in Seq(Item) /\ Len(<< >>) = 0
    OBVIOUS
  <1>4. /\ Committed(q) \in Slots(Item)
        /\ Committed(q).queue = Pending(q) /\ Committed(q).writing = << >>
        /\ Committed(q).reading = q.reading
    BY <1>1, <1>2, <1>3 DEF QueueOK, Slots
  <1>5. Pending(Committed(q)) = Pending(q)
    BY <1>1, <1>4, ConcatEmptySeq DEF Pending
  <1>7. Len(Pending(q)) <= Capacity /\ q.reading <= Len(Pending(q))
    BY <1>1, CapacityType DEF QueueOK, Slots
  <1> QED
    BY <1>3, <1>4, <1>5, <1>7, CapacityType DEF QueueOK

LEMMA QueueOpened ==
  ASSUME NEW Item, NEW q, QueueOK(q, Item)
  PROVE  /\ QueueOK(Opened(q), Item)
         /\ Opened(q).writing = q.writing /\ Opened(q).queue = q.queue
         /\ Pending(Opened(q)) = Pending(q)
  <1>1. Len(q.queue) \in Nat
    BY LenProperties DEF QueueOK, Slots
  <1>2. Opened(q) = [q EXCEPT !.wake = FALSE, !.reading = Len(q.queue)]
    BY DEF Opened
  <1>3. /\ Opened(q) \in Slots(Item)
        /\ Opened(q).writing = q.writing /\ Opened(q).queue = q.queue
        /\ Opened(q).reading = Len(q.queue)
    BY <1>1, <1>2 DEF QueueOK, Slots
  <1> QED
    BY <1>1, <1>3 DEF QueueOK, Slots, Pending

\* A sequence is what is taken from it and what is left.
LEMMA SplitAt ==
  ASSUME NEW S, NEW s \in Seq(S), NEW r \in 0 .. Len(s)
  PROVE  /\ SubSeq(s, 1, r) \in Seq(S) /\ Len(SubSeq(s, 1, r)) = r
         /\ SubSeq(s, r + 1, Len(s)) \in Seq(S)
         /\ Len(SubSeq(s, r + 1, Len(s))) = Len(s) - r
         /\ s = SubSeq(s, 1, r) \o SubSeq(s, r + 1, Len(s))
  <1> DEFINE n == Len(s)
             batch == SubSeq(s, 1, r)
             rest == SubSeq(s, r + 1, n)
  <1>1. n \in Nat /\ \A i \in 1 .. n : s[i] \in S
    BY LenProperties, ElementOfSeq
  <1>2. rest \in Seq(S) /\ Len(rest) = n - r
    BY <1>1, SubSeqProperties
  <1>3. batch \in Seq(S) /\ Len(batch) = r
    BY <1>1, SubSeqProperties
  <1>4. 1 \in 1 .. n + 1 /\ r \in 1 - 1 .. n /\ n \in r .. n
    BY <1>1
  <1>5. batch \o rest = SubSeq(s, 1, n)
    BY <1>1, <1>4, ConcatAdjacentSubSeq
  <1>6. s = batch \o rest
    BY <1>1, <1>5, SubSeqFull
  <1> QED
    BY <1>2, <1>3, <1>6

LEMMA DropFirst ==
  ASSUME NEW S, NEW batch \in Seq(S), NEW rest \in Seq(S)
  PROVE  rest = SubSeq(batch \o rest, Len(batch) + 1, Len(batch \o rest))
  <1> DEFINE whole == batch \o rest
             r == Len(batch)
             left == SubSeq(whole, r + 1, Len(whole))
  <1>1. /\ whole \in Seq(S) /\ r \in Nat /\ Len(rest) \in Nat
        /\ Len(whole) = r + Len(rest)
        /\ \A i \in 1 .. Len(rest) : whole[r + i] = rest[i]
    BY ConcatFacts
  <1>2. \A i \in 1 .. Len(whole) : whole[i] \in S
    BY <1>1, ElementOfSeq
  <1> HIDE DEF whole, r
  <1>3. /\ left \in Seq(S) /\ Len(left) = Len(rest)
        /\ \A i \in 1 .. Len(rest) : left[i] = whole[r + i]
    BY <1>1, <1>2, SubSeqProperties
  <1> HIDE DEF left
  <1>4. left = rest
    BY <1>1, <1>3, SeqEqual
  <1> QED
    BY <1>4 DEF left, whole, r

\* What a reader took away and what it left are what was there.
LEMMA QueueFreed ==
  ASSUME NEW Item, NEW q, QueueOK(q, Item)
  PROVE  LET batch == SubSeq(q.queue, 1, q.reading) IN
         /\ QueueOK(Freed(q), Item)
         /\ Freed(q).reading = 0 /\ Freed(q).writing = q.writing
         /\ batch \in Seq(Item) /\ Len(batch) = q.reading
         /\ Pending(Freed(q)) \in Seq(Item)
         /\ Pending(q) = batch \o Pending(Freed(q))
         /\ Pending(Freed(q)) = SubSeq(Pending(q), q.reading + 1, Len(Pending(q)))
  <1> DEFINE s == q.queue
             w == q.writing
             r == q.reading
             rest == SubSeq(s, r + 1, Len(s))
             batch == SubSeq(s, 1, r)
  <1>1. /\ s \in Seq(Item) /\ w \in Seq(Item) /\ r \in 0 .. Len(s)
        /\ Len(s) \in Nat /\ Len(w) \in Nat /\ Len(w) <= 1
        /\ Len(s) + Len(w) <= Capacity
        /\ q \in Slots(Item)
    BY LenProperties DEF QueueOK, Slots
  <1>2. /\ Freed(q) = [q EXCEPT !.queue = rest, !.reading = 0]
        /\ Pending(q) = s \o w
    BY DEF Freed, Pending
  <1> HIDE DEF s, w, r, rest, batch
  <1>3. /\ rest \in Seq(Item) /\ Len(rest) = Len(s) - r
        /\ batch \in Seq(Item) /\ Len(batch) = r /\ s = batch \o rest
    <2>1. s \in Seq(Item) /\ r \in 0 .. Len(s)
      BY <1>1
    <2> QED
      BY <2>1, SplitAt, ZenonT(40) DEF rest, batch
  <1>8. rest \o w \in Seq(Item) /\ (batch \o rest) \o w = batch \o (rest \o w)
    <2>1. w \in Seq(Item) /\ rest \in Seq(Item) /\ batch \in Seq(Item)
      BY <1>1, <1>3
    <2>2. rest \o w \in Seq(Item)
      BY <2>1, ConcatFacts
    <2>3. (batch \o rest) \o w = batch \o (rest \o w)
      BY <2>1, ConcatAssociative, SMTT(40)
    <2> QED
      BY <2>2, <2>3
  <1>4. /\ Freed(q).queue = rest /\ Freed(q).reading = 0 /\ Freed(q).writing = q.writing
        /\ Freed(q) \in Slots(Item)
    <2>1. q.wake \in BOOLEAN
      BY <1>1 DEF Slots
    <2>2. Freed(q) = [queue |-> rest, writing |-> q.writing, wake |-> q.wake, reading |-> 0]
      BY <1>1, <1>2 DEF Slots
    <2> QED
      BY <1>1, <1>3, <2>1, <2>2 DEF Slots, w
  <1>9. /\ Len(rest) + Len(w) <= Capacity /\ 0 <= Len(rest) /\ Len(w) <= 1
    BY <1>1, <1>3, CapacityType
  <1>10. Freed(q).writing = w
    BY <1>4 DEF w
  <1>5. QueueOK(Freed(q), Item)
    BY <1>4, <1>9, <1>10 DEF QueueOK
  <1>6. Pending(Freed(q)) = rest \o w
    BY <1>4 DEF Pending, w
  <1>7. rest \o w = SubSeq(s \o w, r + 1, Len(s \o w))
    BY <1>3, <1>8, DropFirst
  <1> QED
    BY <1>2, <1>3, <1>4, <1>5, <1>6, <1>7, <1>8 DEF s, w, r, batch

-----------------------------------------------------------------------------
(* The last focus report among some messages *)

LEMMA LastOfSome ==
  ASSUME NEW S, NEW s \in Seq(S), NEW I,
         NEW i \in 1 .. Len(s), i \in I, \A j \in i + 1 .. Len(s) : j \notin I,
         I \subseteq 1 .. Len(s)
  PROVE  I # {} /\ Max(I) = i
  <1>1. Len(s) \in Nat
    BY LenProperties
  <1>2. Max(I) \in I /\ \A j \in I : j <= Max(I)
    BY <1>1, LastPosition
  <1>3. Max(I) \in 1 .. Len(s) /\ i <= Max(I) /\ Max(I) \notin i + 1 .. Len(s)
    BY <1>2
  <1> QED
    BY <1>1, <1>3

\* The focus after the messages ms, when it was c before them.
FocusAfter(ms, c) == IF LastFocus(ms) = 0 THEN c ELSE ms[LastFocus(ms)]

LEMMA NoFocus ==
  ASSUME NEW S, NEW ms \in Seq(S), NEW c, \A i \in 1 .. Len(ms) : ~IsFocus(ms[i])
  PROVE  LastFocus(ms) = 0 /\ FocusAfter(ms, c) = c
  BY DEF LastFocus, FocusAfter, SelectLastInSeq

LEMMA SomeFocus ==
  ASSUME NEW S, NEW ms \in Seq(S), NEW c, NEW i \in 1 .. Len(ms), IsFocus(ms[i]),
         \A j \in i + 1 .. Len(ms) : ~IsFocus(ms[j])
  PROVE  LastFocus(ms) = i /\ FocusAfter(ms, c) = ms[i]
  <1> DEFINE I == {j \in 1 .. Len(ms) : IsFocus(ms[j])}
  <1>1. I # {} /\ Max(I) = i
    <2>1. I \subseteq 1 .. Len(ms) /\ i \in I /\ \A j \in i + 1 .. Len(ms) : j \notin I
      OBVIOUS
    <2> HIDE DEF I
    <2> QED
      BY <2>1, LastOfSome
  <1>2. LastFocus(ms) = IF I # {} THEN Max(I) ELSE 0
    BY DEF LastFocus, SelectLastInSeq
  <1> HIDE DEF I
  <1>3. LastFocus(ms) = i /\ i # 0
    BY <1>1, <1>2
  <1> QED
    BY <1>3 DEF FocusAfter

\* Either no message is a focus report or one of them is the last.
LEMMA FocusCases ==
  ASSUME NEW S, NEW ms \in Seq(S)
  PROVE  \/ \A i \in 1 .. Len(ms) : ~IsFocus(ms[i])
         \/ \E i \in 1 .. Len(ms) : /\ IsFocus(ms[i])
                                    /\ \A j \in i + 1 .. Len(ms) : ~IsFocus(ms[j])
  <1> DEFINE I == {j \in 1 .. Len(ms) : IsFocus(ms[j])}
  <1> SUFFICES ASSUME I # {}
               PROVE  \E i \in I : \A j \in i + 1 .. Len(ms) : j \notin I
    BY SMTT(30)
  <1>1. Len(ms) \in Nat /\ I \subseteq 1 .. Len(ms)
    BY LenProperties
  <1> HIDE DEF I
  <1>2. Max(I) \in I /\ \A j \in I : j <= Max(I)
    BY <1>1, LastPosition
  <1>3. PICK k \in I : \A j \in I : j <= k
    BY <1>2
  <1>4. k \in Nat /\ \A j \in k + 1 .. Len(ms) : ~(j <= k)
    BY <1>1
  <1> QED
    BY <1>3, <1>4

LEMMA FocusConcat ==
  ASSUME NEW S, NEW s \in Seq(S), NEW t \in Seq(S), NEW c
  PROVE  FocusAfter(s \o t, c) = FocusAfter(t, FocusAfter(s, c))
  <1> DEFINE n == Len(s)
             m == Len(t)
             u == s \o t
  <1>1. /\ u \in Seq(S) /\ n \in Nat /\ m \in Nat /\ Len(u) = n + m
        /\ \A i \in 1 .. n : u[i] = s[i]
        /\ \A i \in 1 .. m : u[n + i] = t[i]
    BY ConcatFacts
  <1> HIDE DEF n, m, u
  <1>6. \A j \in n + 1 .. n + m : j - n \in 1 .. m /\ u[j] = t[j - n]
    <2>1. \A j \in n + 1 .. n + m : j - n \in 1 .. m /\ n + (j - n) = j
      BY <1>1
    <2> QED
      BY <1>1, <2>1
  <1>2. CASE \E i \in 1 .. m : IsFocus(t[i]) /\ \A j \in i + 1 .. m : ~IsFocus(t[j])
    <2>1. PICK i \in 1 .. m : IsFocus(t[i]) /\ \A j \in i + 1 .. m : ~IsFocus(t[j])
      BY <1>2
    <2>2. n + i \in 1 .. Len(u) /\ IsFocus(u[n + i]) /\ u[n + i] = t[i]
      BY <1>1, <2>1
    <2>3. \A j \in n + i + 1 .. Len(u) : ~IsFocus(u[j])
      <3>1. \A j \in n + i + 1 .. n + m : j \in n + 1 .. n + m /\ j - n \in i + 1 .. m
        BY <1>1
      <3> QED
        BY <1>1, <1>6, <2>1, <3>1
    <2>4. FocusAfter(u, c) = u[n + i]
      BY <1>1, <2>2, <2>3, SomeFocus
    <2>5. FocusAfter(t, FocusAfter(s, c)) = t[i]
      BY <2>1, SomeFocus DEF m
    <2> QED
      BY <2>2, <2>4, <2>5 DEF u
  <1>3. CASE \A i \in 1 .. m : ~IsFocus(t[i])
    <2>1. FocusAfter(t, FocusAfter(s, c)) = FocusAfter(s, c)
      BY <1>3, NoFocus DEF m
    <2>2. CASE \A i \in 1 .. n : ~IsFocus(s[i])
      <3>1. \A i \in 1 .. Len(u) : ~IsFocus(u[i])
        <4>1. \A i \in 1 .. n + m : i \in 1 .. n \/ i \in n + 1 .. n + m
          BY <1>1
        <4> QED
          BY <1>1, <1>3, <1>6, <2>2, <4>1
      <3>2. FocusAfter(u, c) = c /\ FocusAfter(s, c) = c
        BY <1>1, <2>2, <3>1, NoFocus DEF n
      <3> QED
        BY <2>1, <3>2 DEF u
    <2>3. CASE \E i \in 1 .. n : IsFocus(s[i]) /\ \A j \in i + 1 .. n : ~IsFocus(s[j])
      <3>1. PICK i \in 1 .. n : IsFocus(s[i]) /\ \A j \in i + 1 .. n : ~IsFocus(s[j])
        BY <2>3
      <3>2. i \in 1 .. Len(u) /\ u[i] = s[i]
        BY <1>1
      <3>3. \A j \in i + 1 .. Len(u) : ~IsFocus(u[j])
        <4>1. \A j \in i + 1 .. n + m : j \in i + 1 .. n \/ j \in n + 1 .. n + m
          BY <1>1
        <4>2. \A j \in i + 1 .. n : j \in 1 .. n
          BY <1>1
        <4> QED
          BY <1>1, <1>3, <1>6, <3>1, <4>1, <4>2
      <3>4. FocusAfter(u, c) = u[i]
        BY <1>1, <3>1, <3>2, <3>3, SomeFocus
      <3>5. FocusAfter(s, c) = s[i]
        BY <3>1, SomeFocus DEF n
      <3> QED
        BY <2>1, <3>2, <3>4, <3>5 DEF u
    <2> QED
      BY <2>2, <2>3, FocusCases DEF n
  <1> QED
    BY <1>2, <1>3, FocusCases DEF m

LEMMA FocusOfOne ==
  ASSUME NEW S, NEW m \in S, NEW c
  PROVE  FocusAfter(<< m >>, c) = IF IsFocus(m) THEN m ELSE c
  <1>1. << m >> \in Seq(S) /\ Len(<< m >>) = 1 /\ << m >>[1] = m
    BY SingletonFacts
  <1>2. CASE IsFocus(m)
    <2>1. 1 \in 1 .. Len(<< m >>) /\ \A j \in 1 + 1 .. Len(<< m >>) : ~IsFocus(<< m >>[j])
      BY <1>1
    <2> QED
      BY <1>1, <1>2, <2>1, SomeFocus
  <1>3. CASE ~IsFocus(m)
    <2>1. \A j \in 1 .. Len(<< m >>) : ~IsFocus(<< m >>[j])
      BY <1>1, <1>3
    <2> QED
      BY <1>1, <1>3, <2>1, NoFocus
  <1> QED
    BY <1>2, <1>3
-----------------------------------------------------------------------------
(* Types *)

Window == Apps \cup {NoApp, Bare}

\* The steps, by who takes them.
CompositorStep == \/ CompositorThread \/ TitleChanges \/ IdleTransition \/ ExitBegins
                  \/ \E w \in Window : WindowActive(w)
LoopStep == CommitCommand \/ OpenMessages \/ HandleMessages \/ ScreenLock \/ PrepareForSleep
ReceiveStep(b) == \/ OnBusSelectReply(b) \/ OnRegisterReply(b) \/ OnGetBlockedAppsReply(b)
                  \/ OnAppBlocked(b) \/ OnDisappeared(b) \/ OnAppeared(b)
DaemonStep == \/ \E b \in Buses : \/ AnswerHasOwner(b) \/ AnswerStart(b) \/ AnswerRegister(b)
                                 \/ CopyBlockedApps(b) \/ DaemonStarts(b)
                                 \/ RefuseRegister(b) \/ RefuseBlockedApps(b)
              \/ SendBlockedApps \/ DaemonDies \/ \E a \in Apps : DaemonToggles(a)

LEMMA NextIs ==
  ASSUME [Next]_vars
  PROVE  \/ CompositorStep \/ LoopStep \/ DaemonStep \/ UNCHANGED vars
         \/ \E b \in Buses : ReceiveStep(b)
  BY DEF Next, DbusThread, BusAnswers, Environment, CompositorStep, LoopStep, ReceiveStep,
         DaemonStep, Window
FocusMessage == {m \in Message : IsFocus(m)}

LEMMA ReportType ==
  ASSUME NEW a \in Window, NEW bs \in SUBSET Apps
  PROVE  Report(a, bs) \in FocusMessage
  <1>1. \A x \in Apps \cup {NoApp} : FocusUpdate(x) \in FocusMessage /\ BlockedFocus(x) \in FocusMessage
    BY DEF FocusMessage, Message, IsFocus, FocusUpdate, BlockedFocus
  <1>2. IF a = Bare THEN NoApp \in Apps \cup {NoApp} ELSE a \in Apps \cup {NoApp}
    BY DEF Window
  <1> QED
    BY <1>1, <1>2 DEF Report

LEMMA OtherMessages ==
  /\ ShutdownMsg \in Message /\ ~IsFocus(ShutdownMsg)
  /\ \A i \in BOOLEAN : IdleChanged(i) \in Message /\ ~IsFocus(IdleChanged(i))
  /\ FocusMessage \subseteq Message
  BY DEF ShutdownMsg, IdleChanged, Message, IsFocus, FocusMessage

LEMMA CommandTypes ==
  /\ \A a \in Apps : BlockCmd(a) \in Command /\ UnblockCmd(a) \in Command
  /\ \A as \in SUBSET Apps : SyncAllCmd(as) \in Command
  BY DEF BlockCmd, UnblockCmd, SyncAllCmd, Command

LEMMA AppliedType ==
  ASSUME NEW bs \in SUBSET Apps, NEW c \in Command
  PROVE  Applied(bs, c) \in SUBSET Apps
  BY DEF Applied, Command

LEMMA NewsTypes ==
  /\ Appeared \in News /\ Disappeared \in News
  /\ \A ok \in BOOLEAN : /\ [type |-> "Select", ok |-> ok] \in News
                         /\ [type |-> "Registered", ok |-> ok] \in News
  /\ [type |-> "BlockedApps", ok |-> FALSE] \in News
  /\ \A as \in SUBSET Apps : [type |-> "BlockedApps", ok |-> TRUE, apps |-> as] \in News
  /\ \A a \in Apps, on \in BOOLEAN : [type |-> "AppBlocked", app |-> a, on |-> on] \in News
  BY DEF Appeared, Disappeared, Signal, News

\* What the fields of the messages are, by their type.
LEMMA NewsFields ==
  ASSUME NEW m \in News
  PROVE  /\ m.type \in {"Select", "Registered", "BlockedApps"} => m.ok \in BOOLEAN
         /\ m.type = "BlockedApps" /\ m.ok => m.apps \in SUBSET Apps
         /\ m.type = "AppBlocked" => m.app \in Apps /\ m.on \in BOOLEAN
         /\ m.type \in {"Select", "Registered", "BlockedApps", "AppBlocked",
                        "Appeared", "Disappeared"}
         /\ m.type = "Appeared" <=> m = Appeared
         /\ m.type = "Disappeared" <=> m = Disappeared
         /\ m.type = "Registered" /\ m.ok <=> m = Accepted
  <1> DEFINE Simple == [type : {"Select", "Registered"}, ok : BOOLEAN]
             Granting == [type : {"BlockedApps"}, ok : {TRUE}, apps : SUBSET Apps]
             Refusing == [type : {"BlockedApps"}, ok : {FALSE}]
             Telling == [type : {"AppBlocked"}, app : Apps, on : BOOLEAN]
  <1>1. m \in Simple \cup Granting \cup Refusing \cup Telling \cup {Appeared, Disappeared}
    BY DEF News
  <1>2. Appeared.type = "Appeared" /\ Disappeared.type = "Disappeared"
        /\ Accepted.type = "Registered" /\ Accepted.ok = TRUE
    BY DEF Appeared, Disappeared, Accepted, Signal
  <1>3. CASE m \in Simple
    <2>1. m = [type |-> m.type, ok |-> m.ok] /\ m.type \in {"Select", "Registered"} /\ m.ok \in BOOLEAN
      BY <1>3
    <2>2. m.type = "Registered" /\ m.ok => m = Accepted
      BY <2>1, Zenon DEF Accepted
    <2> QED
      BY <1>2, <2>1, <2>2
  <1>4. CASE m \in Granting
    <2>1. m.type = "BlockedApps" /\ m.ok \in BOOLEAN /\ m.apps \in SUBSET Apps
      BY <1>4
    <2> QED
      BY <1>2, <2>1
  <1>5. CASE m \in Refusing
    <2>1. m.type = "BlockedApps" /\ m.ok = FALSE
      BY <1>5
    <2> QED
      BY <1>2, <2>1
  <1>6. CASE m \in Telling
    <2>1. m.type = "AppBlocked" /\ m.app \in Apps /\ m.on \in BOOLEAN
      BY <1>6
    <2> QED
      BY <1>2, <2>1
  <1>7. CASE m \in {Appeared, Disappeared}
    BY <1>2, <1>7
  <1> QED
    BY <1>1, <1>3, <1>4, <1>5, <1>6, <1>7

\* TypeOK and the types of WireInv, by what changes together.
CompositorTypes ==
    /\ focus \in Window /\ blocks \in SUBSET Apps
    /\ exit \in {"no", "sending", "joining", "done"} /\ handled \in Nat
    /\ idle \in BOOLEAN /\ lostFocus \in BOOLEAN
QueueTypes == /\ QueueOK(msgs, Message) /\ QueueOK(cmds, Command)
              /\ handled <= cmds.reading
DbusTypes ==
    /\ current \in FocusMessage /\ bus \in Buses \cup {NoBus}
    /\ matches \in [Buses -> Nat] /\ select \in DOMAIN OnSuccess \cup {"Idle"}
    /\ registered \in BOOLEAN /\ locked \in BOOLEAN /\ lostCmd \in BOOLEAN
LoopTypes == stopped \in BOOLEAN /\ shutdown \in BOOLEAN /\ (stopped => shutdown)
DaemonTypes ==
    /\ daemon \in Buses \cup {NoBus} /\ blocked \in SUBSET Apps
    /\ answer \in Seq(SUBSET Apps) /\ Len(answer) <= 1
    /\ answer # << >> => daemon # NoBus
    /\ overtaken \in BOOLEAN /\ crossed \in BOOLEAN
ToldType == daemon = NoBus => told = Signal("unregistered")
WireTypes == inbox \in [Buses -> Seq(News)] /\ calls \in [Buses -> [CallKinds -> Nat]]

Types == /\ CompositorTypes /\ QueueTypes /\ DbusTypes /\ LoopTypes
         /\ DaemonTypes /\ ToldType /\ WireTypes

LEMMA TypesAre == Types <=> TypeOK /\ WireInv
  BY DEF Types, CompositorTypes, QueueTypes, DbusTypes, LoopTypes, DaemonTypes, ToldType,
         WireTypes, TypeOK, WireInv, Window, FocusMessage

LEMMA TypesInit == Init => Types /\ SelectInv
  <1> SUFFICES ASSUME Init PROVE Types /\ SelectInv
    OBVIOUS
  <1>1. QueueOK(EmptyQueue, Message) /\ QueueOK(EmptyQueue, Command)
    BY CapacityType DEF QueueOK, EmptyQueue, Slots
  <1>2. FocusUpdate(NoApp) \in FocusMessage
    BY DEF FocusMessage, FocusUpdate, Message, IsFocus
  <1>3. CompositorTypes /\ LoopTypes /\ ToldType
    BY DEF Init, CompositorTypes, LoopTypes, ToldType, Window
  <1>8. DaemonTypes
    <2>1. << >> \in Seq(SUBSET Apps) /\ Len(<< >>) = 0
      OBVIOUS
    <2>2. /\ daemon \in Buses \cup {NoBus} /\ blocked = {} /\ answer = << >>
          /\ overtaken = FALSE /\ crossed = FALSE
      BY DEF Init
    <2>3. answer \in Seq(SUBSET Apps) /\ Len(answer) <= 1
      BY <2>1, <2>2
    <2> QED
      BY <2>2, <2>3 DEF DaemonTypes
  <1>4. QueueTypes
    BY <1>1 DEF Init, QueueTypes, EmptyQueue
  <1>5. DbusTypes
    BY <1>2 DEF Init, DbusTypes, OnSuccess
  <1>6. WireTypes
    <2>1. \A b \in Buses, k \in CallKinds :
              (IF b = "system" /\ k = "HasOwner" THEN 1 ELSE 0) \in Nat
      OBVIOUS
    <2> QED
      BY <2>1 DEF Init, WireTypes
  <1>7. SelectInv
    BY DEF Init, SelectInv, SelectKinds, CallKinds, StepCall
  <1> QED
    BY <1>3, <1>4, <1>5, <1>6, <1>7, <1>8 DEF Types

\* The steps of the compositor thread.
LEMMA CompositorStepTypes ==
  ASSUME Types, CompositorStep
  PROVE  Types' /\ UNCHANGED << dbusVars, daemonVars >>
  <1>1. UNCHANGED << dbusVars, daemonVars >>
    BY DEF CompositorStep, CompositorThread, WindowActive, TitleChanges, IdleTransition, ExitBegins, OpenCommands,
           HandleCommand, CloseCommands, CommitMessage, RequestShutdown, Joined
  <1>2. DbusTypes' /\ DaemonTypes' /\ ToldType' /\ WireTypes'
    BY <1>1 DEF Types, DbusTypes, DaemonTypes, ToldType, WireTypes, dbusVars, daemonVars
  <1> USE DEF Types
  <1>3. ASSUME msgs.writing = << >>, NEW m \in Message
        PROVE  QueueOK(Written(msgs, m), Message)
    BY <1>3, QueueWritten DEF QueueTypes
  <1>13. UNCHANGED stopped
    BY <1>1 DEF dbusVars
  <1>14. HasRoom(msgs) \in BOOLEAN
    BY DEF HasRoom
  <1>4. ASSUME NEW w \in Window, WindowActive(w)
        PROVE  CompositorTypes' /\ QueueTypes' /\ LoopTypes'
    <2>1. Report(w, blocks) \in Message
      BY ReportType DEF CompositorTypes, FocusMessage
    <2>2. QueueOK(msgs', Message) /\ lostFocus' \in BOOLEAN
      BY <1>3, <1>4, <1>14, <2>1 DEF WindowActive, CompositorFree, PushFocus, PushNothing, QueueTypes, CompositorTypes
    <2> QED
      BY <1>4, <1>13, <2>2 DEF WindowActive, CompositorTypes, QueueTypes, LoopTypes
  <1>5. ASSUME TitleChanges PROVE CompositorTypes' /\ QueueTypes' /\ LoopTypes'
    <2>1. Report(focus, blocks) \in Message
      BY ReportType DEF CompositorTypes, FocusMessage
    <2>2. QueueOK(msgs', Message) /\ lostFocus' \in BOOLEAN
      BY <1>3, <1>5, <1>14, <2>1 DEF TitleChanges, CompositorFree, PushFocus
    <2> QED
      BY <1>5, <1>13, <2>2 DEF TitleChanges, CompositorTypes, QueueTypes, LoopTypes
  <1>6. ASSUME IdleTransition PROVE CompositorTypes' /\ QueueTypes' /\ LoopTypes'
    <2>2. IdleChanged(~idle) \in Message
      <3>1. CASE idle = TRUE
        <4>1. ~idle <=> FALSE
          BY <3>1
        <4> QED
          BY <4>1, OtherMessages
      <3>2. CASE idle = FALSE
        <4>1. ~idle <=> TRUE
          BY <3>2
        <4> QED
          BY <4>1, OtherMessages
      <3> QED
        BY <3>1, <3>2 DEF CompositorTypes
    <2>1. QueueOK(msgs', Message)
      BY <1>3, <1>6, <2>2 DEF IdleTransition, CompositorFree
    <2> QED
      BY <1>6, <1>13, <2>1 DEF IdleTransition, CompositorTypes, QueueTypes, LoopTypes
  <1>7. ASSUME ExitBegins PROVE CompositorTypes' /\ QueueTypes' /\ LoopTypes'
    <2>1. QueueOK(msgs', Message)
      BY <1>3, <1>7, OtherMessages DEF ExitBegins, CompositorFree
    <2> QED
      BY <1>7, <1>13, <2>1 DEF ExitBegins, CompositorTypes, QueueTypes, LoopTypes
  <1>8. ASSUME OpenCommands PROVE CompositorTypes' /\ QueueTypes' /\ LoopTypes'
    <2>1. QueueOK(cmds', Command) /\ cmds'.reading \in Nat
      BY <1>8, QueueOpened DEF OpenCommands, QueueTypes, QueueOK, Slots
    <2> QED
      BY <1>8, <1>13, <2>1 DEF OpenCommands, CompositorTypes, QueueTypes, LoopTypes
  <1>9. ASSUME HandleCommand PROVE CompositorTypes' /\ QueueTypes' /\ LoopTypes'
    <2> DEFINE c == cmds.queue[handled + 1]
    <2>1. cmds.reading \in Nat /\ c \in Command /\ handled + 1 <= cmds.reading
      <3>1. /\ cmds.queue \in Seq(Command) /\ cmds.reading \in Nat
            /\ cmds.reading <= Len(cmds.queue) /\ Len(cmds.queue) \in Nat
        BY LenProperties DEF QueueTypes, QueueOK, Slots
      <3>2. handled + 1 \in 1 .. Len(cmds.queue) /\ handled + 1 <= cmds.reading
        BY <1>9, <3>1 DEF HandleCommand, CompositorTypes
      <3> QED
        BY <3>1, <3>2, ElementOfSeq
    <2> HIDE DEF c
    <2>2. Applied(blocks, c) \in SUBSET Apps
      BY <2>1, AppliedType DEF CompositorTypes
    <2>3. Report(focus, Applied(blocks, c)) \in Message
      BY <2>2, ReportType DEF CompositorTypes, FocusMessage
    <2>4. /\ blocks' = Applied(blocks, c) /\ msgs.writing = << >>
          /\ IF Reports(c) THEN PushFocus(Report(focus, Applied(blocks, c))) ELSE PushNothing
          /\ handled' = handled + 1
          /\ UNCHANGED << focus, idle, exit, cmds, shutdown, stopped >>
      BY <1>9 DEF HandleCommand, c, dbusVars
    <2>5. QueueOK(msgs', Message) /\ lostFocus' \in BOOLEAN
      BY <1>3, <1>14, <2>3, <2>4 DEF PushFocus, PushNothing, QueueTypes, CompositorTypes
    <2> QED
      BY <2>1, <2>2, <2>4, <2>5 DEF CompositorTypes, QueueTypes, LoopTypes
  <1>10. ASSUME CloseCommands PROVE CompositorTypes' /\ QueueTypes' /\ LoopTypes'
    <2>1. QueueOK(cmds', Command) /\ cmds'.reading = 0
      BY <1>10, QueueFreed DEF CloseCommands, QueueTypes
    <2> QED
      BY <1>10, <1>13, <2>1 DEF CloseCommands, CompositorTypes, QueueTypes, LoopTypes
  <1>11. ASSUME CommitMessage PROVE CompositorTypes' /\ QueueTypes' /\ LoopTypes'
    <2>1. QueueOK(msgs', Message)
      BY <1>11, QueueCommitted DEF CommitMessage, QueueTypes
    <2> QED
      BY <1>11, <1>13, <2>1 DEF CommitMessage, CompositorTypes, QueueTypes, LoopTypes, compositorVars
  <1>12. ASSUME RequestShutdown \/ Joined PROVE CompositorTypes' /\ QueueTypes' /\ LoopTypes'
    BY <1>12 DEF RequestShutdown, Joined, CompositorTypes, QueueTypes, LoopTypes, dbusVars
  <1> QED
    BY <1>1, <1>2, <1>4, <1>5, <1>6, <1>7, <1>8, <1>9, <1>10, <1>11, <1>12 DEF CompositorStep, CompositorThread

LEMMA BusesAre == "system" \in Buses /\ "session" \in Buses /\ NoBus \notin Buses
  BY PluginAssumption DEF Buses

LEMMA CallingType ==
  ASSUME NEW cs \in [Buses -> [CallKinds -> Nat]], NEW b \in Buses, NEW kind \in CallKinds
  PROVE  /\ Calling(cs, b, kind) \in [Buses -> [CallKinds -> Nat]]
         /\ \A o \in Buses, k \in CallKinds : Calling(cs, b, kind)[o][k] =
                IF o = b /\ k = kind THEN cs[o][k] + 1 ELSE cs[o][k]
  BY DEF Calling

\* The kinds of calls are four.
LEMMA KindsAre == {"HasOwner", "Start", "Register", "GetBlocked"} = CallKinds /\ SelectKinds \subseteq CallKinds
  BY DEF CallKinds, SelectKinds

LEMMA StepTypes ==
  ASSUME NEW s \in DOMAIN OnSuccess
  PROVE  /\ OnSuccess[s] \in DOMAIN OnSuccess \cup Buses
         /\ OnFailure[s] \in DOMAIN OnSuccess \cup {NoBus}
  BY DEF OnSuccess, OnFailure, Buses

LEMMA StepCallTypes ==
  ASSUME NEW s PROVE StepCall(s)[1] \in Buses /\ StepCall(s)[2] \in SelectKinds
  BY DEF StepCall, SelectKinds, Buses

\* What the plugin says reaches a daemon only where there is one.
LEMMA HeardFacts ==
  ASSUME NEW reg, NEW m
  PROVE  /\ daemon = NoBus => Heard(reg, m) = told
         /\ told = Signal("unregistered") => Heard(reg, m) = told
  BY DEF Heard

\* One message is received.
LEMMA ReceivesFacts ==
  ASSUME WireTypes, NEW b \in Buses, NEW type, Receives(b, type)
  PROVE  /\ inbox' \in [Buses -> Seq(News)]
         /\ Head(inbox[b]) \in News /\ Head(inbox[b]).type = type
         /\ inbox[b] \in Seq(News) /\ inbox[b] # << >>
         /\ inbox'[b] = Tail(inbox[b])
         /\ \A o \in Buses \ {b} : inbox'[o] = inbox[o]
  <1>1. inbox \in [Buses -> Seq(News)] /\ inbox[b] \in Seq(News) /\ inbox[b] # << >>
    BY DEF WireTypes, Receives
  <1>2. Tail(inbox[b]) \in Seq(News) /\ Head(inbox[b]) \in News
    BY <1>1, TailFacts
  <1> QED
    BY <1>1, <1>2 DEF Receives

\* Some messages are sent.
LEMMA SendFacts ==
  ASSUME WireTypes, NEW b \in Buses, NEW ms \in Seq(News), Send(b, ms)
  PROVE  /\ inbox' \in [Buses -> Seq(News)]
         /\ inbox[b] \in Seq(News) /\ inbox'[b] = inbox[b] \o ms
         /\ \A o \in Buses \ {b} : inbox'[o] = inbox[o]
  <1>1. inbox \in [Buses -> Seq(News)] /\ inbox[b] \in Seq(News)
    BY DEF WireTypes
  <1>2. inbox[b] \o ms \in Seq(News)
    BY <1>1, ConcatFacts
  <1> QED
    BY <1>1, <1>2 DEF Send

LEMMA AnswersFacts ==
  ASSUME WireTypes, NEW b \in Buses, NEW kind \in CallKinds, Answers(b, kind)
  PROVE  /\ calls' \in [Buses -> [CallKinds -> Nat]] /\ calls[b][kind] > 0
         /\ \A o \in Buses, k \in CallKinds : calls'[o][k] =
                IF o = b /\ k = kind THEN calls[o][k] - 1 ELSE calls[o][k]
  BY DEF WireTypes, Answers

\* A command is pushed.
LEMMA PushCmdFacts ==
  ASSUME QueueTypes, DbusTypes, LoopTypes, cmds.writing = << >>, NEW c \in Command, PushCmd(c)
  PROVE  /\ QueueOK(cmds', Command) /\ cmds'.reading = cmds.reading
         /\ lostCmd' \in BOOLEAN /\ stopped' \in BOOLEAN /\ (stopped' => shutdown)
  <1>1. QueueOK(cmds', Command) /\ cmds'.reading = cmds.reading
    BY QueueWritten DEF PushCmd, QueueTypes
  <1>2. lostCmd' = (~HasRoom(cmds) \/ (lostCmd /\ c.type # "SyncAll"))
        /\ stopped' = (shutdown /\ ~HasRoom(cmds))
    BY DEF PushCmd
  <1>3. HasRoom(cmds) \in BOOLEAN
    BY DEF HasRoom
  <1> QED
    BY <1>1, <1>2, <1>3 DEF DbusTypes, LoopTypes

\* The D-Bus thread receives.
LEMMA ReceiveStepTypes ==
  ASSUME Types, SelectInv, NEW b \in Buses, ReceiveStep(b)
  PROVE  Types'
  <1> USE DEF Types
  <1>1. UNCHANGED << compositorVars, daemonVars, msgs, shutdown >>
    BY DEF ReceiveStep, OnBusSelectReply, OnRegisterReply, OnGetBlockedAppsReply, OnAppBlocked,
           OnDisappeared, OnAppeared
  <1>2. CompositorTypes'
    BY <1>1 DEF CompositorTypes, compositorVars
  <1>3. /\ inbox' \in [Buses -> Seq(News)] /\ Head(inbox[b]) \in News
        /\ Head(inbox[b]) = inbox[b][1] /\ 1 \in DOMAIN inbox[b]
    <2>1. PICK type : Receives(b, type)
      BY DEF ReceiveStep, OnBusSelectReply, OnRegisterReply, OnGetBlockedAppsReply, OnAppBlocked,
             OnDisappeared, OnAppeared
    <2>2. /\ inbox' \in [Buses -> Seq(News)] /\ Head(inbox[b]) \in News
          /\ inbox[b] \in Seq(News) /\ inbox[b] # << >>
      BY <2>1, ReceivesFacts
    <2> QED
      BY <2>2, TailFacts
  <1>4. DaemonTypes' \/ crossed' \notin BOOLEAN
    BY <1>1 DEF DaemonTypes, daemonVars
  <1>5. ASSUME UNCHANGED << cmds, handled >> PROVE QueueTypes'
    BY <1>1, <1>5 DEF QueueTypes
  <1>6. cmds.writing = << >> /\ handled' = handled
    BY <1>1 DEF ReceiveStep, OnBusSelectReply, OnRegisterReply, OnGetBlockedAppsReply,
           OnAppBlocked, OnDisappeared, OnAppeared, Receives, DbusFree, compositorVars
  <1>7. ASSUME NEW c \in Command, PushCmd(c)
        PROVE  QueueTypes' /\ lostCmd' \in BOOLEAN /\ LoopTypes'
    <2>1. /\ QueueOK(cmds', Command) /\ cmds'.reading = cmds.reading
          /\ lostCmd' \in BOOLEAN /\ stopped' \in BOOLEAN /\ (stopped' => shutdown)
      BY <1>6, <1>7, PushCmdFacts
    <2> QED
      BY <1>1, <1>6, <2>1 DEF QueueTypes, LoopTypes
  <1>8. ASSUME LoopCondition PROVE LoopTypes'
    BY <1>1, <1>8 DEF LoopCondition, LoopTypes
  <1>9. ASSUME NEW o \in Buses, NEW kind \in CallKinds
        PROVE  Calling(calls, o, kind) \in [Buses -> [CallKinds -> Nat]]
    BY <1>9, CallingType DEF WireTypes
  <1>10. "Register" \in CallKinds /\ "GetBlocked" \in CallKinds
    BY KindsAre
  <1>11. ASSUME NEW o \in Buses, Subscribe(o) PROVE matches' \in [Buses -> Nat]
    BY <1>11 DEF Subscribe, DbusTypes
  <1>12. daemon' = daemon
    BY <1>1 DEF daemonVars
  <1>13. CASE OnBusSelectReply(b)
    <2> DEFINE next == IF Head(inbox[b]).ok THEN OnSuccess[select] ELSE OnFailure[select]
    <2>1. select \in DOMAIN OnSuccess
      BY <1>3, <1>13 DEF OnBusSelectReply, Receives, SelectInv, DbusTypes
    <2>2. next \in DOMAIN OnSuccess \cup Buses \cup {NoBus}
      BY <2>1, StepTypes
    <2> HIDE DEF next
    <2>3. /\ UNCHANGED << current, registered, locked, told, lostCmd, cmds >> /\ LoopCondition
          /\ IF next \in Buses \cup {NoBus} THEN FinishBusSelection(next)
             ELSE /\ select' = next
                  /\ calls' = Calling(calls, StepCall(next)[1], StepCall(next)[2])
                  /\ UNCHANGED << bus, matches, crossed >>
      BY <1>13 DEF OnBusSelectReply, next
    <2>4. CASE next \in Buses \cup {NoBus}
      <3>1. /\ select' = "Idle" /\ bus' = next
            /\ crossed' = (crossed \/ (next = NoBus /\ daemon # NoBus))
            /\ IF next = NoBus THEN UNCHANGED << matches, calls >>
               ELSE Subscribe(next) /\ SetupDaemonProxy(next)
        BY <2>3, <2>4 DEF FinishBusSelection
      <3>2. matches' \in [Buses -> Nat] /\ calls' \in [Buses -> [CallKinds -> Nat]]
        BY <1>9, <1>10, <1>11, <2>4, <3>1 DEF SetupDaemonProxy, DbusTypes, WireTypes
      <3>3. crossed' \in BOOLEAN
        BY <3>1 DEF DaemonTypes
      <3>4. DbusTypes'
        BY <2>3, <2>4, <3>1, <3>2 DEF DbusTypes
      <3>5. QueueTypes' /\ LoopTypes' /\ ToldType' /\ WireTypes'
        BY <1>3, <1>5, <1>6, <1>8, <1>12, <2>3, <3>2 DEF ToldType, WireTypes
      <3> QED
        BY <1>2, <1>4, <3>3, <3>4, <3>5
    <2>5. CASE next \notin Buses \cup {NoBus}
      <3>1. /\ select' = next
            /\ calls' = Calling(calls, StepCall(next)[1], StepCall(next)[2])
            /\ UNCHANGED << bus, matches, crossed >>
        BY <2>3, <2>5
      <3>2. calls' \in [Buses -> [CallKinds -> Nat]]
        BY <1>9, <3>1, StepCallTypes, KindsAre
      <3>4. DbusTypes'
        BY <2>2, <2>3, <2>5, <3>1 DEF DbusTypes
      <3>5. QueueTypes' /\ LoopTypes' /\ ToldType' /\ WireTypes'
        BY <1>3, <1>5, <1>6, <1>8, <1>12, <2>3, <3>2 DEF ToldType, WireTypes
      <3>6. crossed' \in BOOLEAN
        BY <3>1 DEF DaemonTypes
      <3> QED
        BY <1>2, <1>4, <3>4, <3>5, <3>6
    <2> QED
      BY <2>4, <2>5
  <1>14. CASE OnRegisterReply(b)
    <2>1. /\ registered' \in BOOLEAN /\ LoopCondition
          /\ calls' = calls \/ (bus # NoBus /\ calls' = Calling(calls, bus, "GetBlocked"))
          /\ UNCHANGED << current, bus, matches, select, locked, told, lostCmd, crossed, cmds >>
      BY <1>14 DEF OnRegisterReply, DbusTypes
    <2>2. calls' \in [Buses -> [CallKinds -> Nat]]
      <3>1. bus # NoBus => bus \in Buses
        BY DEF DbusTypes
      <3>2. calls \in [Buses -> [CallKinds -> Nat]]
        BY DEF WireTypes
      <3> HIDE DEF Types
      <3> QED
        BY <1>9, <1>10, <2>1, <3>1, <3>2
    <2>3. DbusTypes' /\ crossed' \in BOOLEAN
      BY <2>1 DEF DbusTypes, DaemonTypes
    <2> QED
      BY <1>2, <1>3, <1>4, <1>5, <1>6, <1>8, <1>12, <2>1, <2>2, <2>3 DEF ToldType, WireTypes
  <1>15. CASE OnGetBlockedAppsReply(b)
    <2>1. /\ IF Head(inbox[b]).ok THEN PushCmd(SyncAllCmd(Head(inbox[b]).apps))
             ELSE lostCmd' = TRUE /\ UNCHANGED cmds /\ LoopCondition
          /\ told' = Heard(registered, current) /\ Head(inbox[b]).type = "BlockedApps"
          /\ UNCHANGED << current, registered, bus, matches, select, locked, calls, crossed >>
      BY <1>15 DEF OnGetBlockedAppsReply, EmitCurrentFocus, Receives
    <2>2. QueueTypes' /\ lostCmd' \in BOOLEAN /\ LoopTypes'
      <3>1. CASE Head(inbox[b]).ok
        BY <1>3, <1>7, <2>1, <3>1, NewsFields, CommandTypes
      <3>2. CASE ~Head(inbox[b]).ok
        BY <1>5, <1>6, <1>8, <2>1, <3>2 DEF DbusTypes
      <3> QED
        BY <3>1, <3>2
    <2>3. DbusTypes' /\ crossed' \in BOOLEAN /\ WireTypes'
      BY <1>3, <2>1, <2>2 DEF DbusTypes, DaemonTypes, WireTypes
    <2>4. ToldType'
      BY <1>12, <2>1, HeardFacts DEF ToldType
    <2> QED
      BY <1>2, <1>4, <2>2, <2>3, <2>4
  <1>16. CASE OnAppBlocked(b)
    <2> DEFINE m == Head(inbox[b])
    <2>1. /\ PushCmd(IF m.on THEN BlockCmd(m.app) ELSE UnblockCmd(m.app))
          /\ m.type = "AppBlocked"
          /\ UNCHANGED << current, registered, bus, matches, select, locked, told, calls, crossed >>
      BY <1>16 DEF OnAppBlocked, Receives
    <2>2. m.app \in Apps
      BY <1>3, <2>1, NewsFields
    <2>3. QueueTypes' /\ lostCmd' \in BOOLEAN /\ LoopTypes'
      BY <1>7, <2>1, <2>2, CommandTypes
    <2>4. DbusTypes' /\ crossed' \in BOOLEAN /\ WireTypes' /\ ToldType'
      BY <1>3, <1>12, <2>1, <2>3 DEF DbusTypes, DaemonTypes, WireTypes, ToldType
    <2> QED
      BY <1>2, <1>4, <2>3, <2>4
  <1>17. CASE OnDisappeared(b)
    <2>1. /\ PushCmd(SyncAllCmd({})) /\ registered' = FALSE
          /\ UNCHANGED << current, bus, matches, select, locked, told, calls, crossed >>
      BY <1>17 DEF OnDisappeared
    <2>3. QueueTypes' /\ lostCmd' \in BOOLEAN /\ LoopTypes'
      <3>1. SyncAllCmd({}) \in Command
        BY CommandTypes
      <3> QED
        BY <1>7, <2>1, <3>1
    <2>4. DbusTypes' /\ crossed' \in BOOLEAN /\ WireTypes' /\ ToldType'
      BY <1>3, <1>12, <2>1, <2>3 DEF DbusTypes, DaemonTypes, WireTypes, ToldType
    <2> QED
      BY <1>2, <1>4, <2>3, <2>4
  <1>18. CASE OnAppeared(b)
    <2>1. /\ LoopCondition
          /\ IF registered THEN UNCHANGED << bus, matches, calls >>
             ELSE /\ bus' = b
                  /\ IF bus # b THEN Subscribe(b) ELSE UNCHANGED matches
                  /\ SetupDaemonProxy(b)
          /\ UNCHANGED << current, registered, select, locked, told, lostCmd, crossed, cmds >>
      BY <1>18 DEF OnAppeared
    <2>2. /\ bus' \in Buses \cup {NoBus} /\ matches' \in [Buses -> Nat]
          /\ calls' \in [Buses -> [CallKinds -> Nat]]
      BY <1>9, <1>10, <1>11, <2>1 DEF SetupDaemonProxy, DbusTypes, WireTypes
    <2>3. DbusTypes' /\ crossed' \in BOOLEAN
      BY <2>1, <2>2 DEF DbusTypes, DaemonTypes
    <2> QED
      BY <1>2, <1>3, <1>4, <1>5, <1>6, <1>8, <1>12, <2>1, <2>2, <2>3 DEF ToldType, WireTypes
  <1> QED
    BY <1>13, <1>14, <1>15, <1>16, <1>17, <1>18 DEF ReceiveStep

\* The other steps of the D-Bus thread.
LEMMA DrainFacts ==
  ASSUME QueueTypes, current \in FocusMessage, HandleMessages
  PROVE  LET batch == SubSeq(msgs.queue, 1, msgs.reading) IN
         /\ batch \in Seq(Message) /\ current' = FocusAfter(batch, current)
         /\ current' \in FocusMessage
         /\ Pending(msgs') \in Seq(Message) /\ Pending(msgs) = batch \o Pending(msgs')
         /\ QueueOK(msgs', Message)
  <1> DEFINE batch == SubSeq(msgs.queue, 1, msgs.reading)
  <1>1. /\ batch \in Seq(Message) /\ QueueOK(msgs', Message)
        /\ Pending(msgs') \in Seq(Message) /\ Pending(msgs) = batch \o Pending(msgs')
    BY QueueFreed DEF HandleMessages, QueueTypes
  <1>2. current' = FocusAfter(batch, current)
    BY DEF HandleMessages, FocusAfter
  <1>3. current' \in FocusMessage
    <2> HIDE DEF batch
    <2>1. CASE \A i \in 1 .. Len(batch) : ~IsFocus(batch[i])
      BY <1>1, <1>2, <2>1, NoFocus
    <2>2. CASE \E i \in 1 .. Len(batch) : /\ IsFocus(batch[i])
                                          /\ \A j \in i + 1 .. Len(batch) : ~IsFocus(batch[j])
      <3>1. PICK i \in 1 .. Len(batch) : /\ IsFocus(batch[i])
                                         /\ \A j \in i + 1 .. Len(batch) : ~IsFocus(batch[j])
        BY <2>2
      <3>2. current' = batch[i] /\ batch[i] \in Message
        BY <1>1, <1>2, <3>1, SomeFocus, ElementOfSeq
      <3> QED
        BY <3>1, <3>2 DEF FocusMessage
    <2> QED
      BY <1>1, <2>1, <2>2, FocusCases
  <1> QED
    BY <1>1, <1>2, <1>3

LEMMA LoopStepTypes ==
  ASSUME Types, LoopStep
  PROVE  Types' /\ UNCHANGED << registered, bus, matches, select, calls, inbox, crossed, daemonVars >>
  <1> USE DEF Types
  <1>1. /\ UNCHANGED << compositorVars, registered, bus, matches, select, lostCmd, calls, inbox,
                        crossed, daemonVars >>
    BY DEF LoopStep, CommitCommand, OpenMessages, HandleMessages, ScreenLock, PrepareForSleep
  <1>2. CompositorTypes' /\ DaemonTypes' /\ WireTypes' /\ handled' = handled
    BY <1>1 DEF CompositorTypes, DaemonTypes, WireTypes, compositorVars, daemonVars
  <1>3. ToldType'
    <2>1. CASE told' = told
      BY <1>1, <2>1 DEF ToldType, daemonVars
    <2>2. CASE \E m : told' = Heard(registered, m)
      BY <1>1, <2>2, HeardFacts DEF ToldType, daemonVars
    <2> QED
      BY <2>1, <2>2 DEF LoopStep, CommitCommand, OpenMessages, HandleMessages, ScreenLock, PrepareForSleep
  <1>4. locked' \in BOOLEAN
    BY DEF LoopStep, CommitCommand, OpenMessages, HandleMessages, ScreenLock, PrepareForSleep, DbusTypes
  <1>5. ASSUME current' \in FocusMessage PROVE DbusTypes'
    BY <1>1, <1>4, <1>5 DEF DbusTypes
  <1>6. CASE CommitCommand
    <2>1. QueueOK(cmds', Command) /\ cmds'.reading = cmds.reading /\ msgs' = msgs
      BY <1>6, QueueCommitted DEF CommitCommand, QueueTypes
    <2>2. current' \in FocusMessage /\ LoopTypes'
      BY <1>6 DEF CommitCommand, LoopCondition, DbusTypes, LoopTypes
    <2> QED
      BY <1>1, <1>2, <1>3, <1>5, <2>1, <2>2 DEF QueueTypes
  <1>7. CASE OpenMessages
    <2>1. QueueOK(msgs', Message) /\ cmds' = cmds
      BY <1>7, QueueOpened DEF OpenMessages, QueueTypes
    <2>2. current' \in FocusMessage /\ LoopTypes'
      BY <1>7 DEF OpenMessages, DbusTypes, LoopTypes
    <2> QED
      BY <1>1, <1>2, <1>3, <1>5, <2>1, <2>2 DEF QueueTypes
  <1>8. CASE HandleMessages
    <2>1. QueueOK(msgs', Message) /\ cmds' = cmds /\ current' \in FocusMessage
      BY <1>8, DrainFacts DEF HandleMessages, DbusTypes
    <2>2. LoopTypes'
      <3>1. /\ shutdown' = (shutdown \/ Contains(SubSeq(msgs.queue, 1, msgs.reading), ShutdownMsg))
            /\ stopped' = shutdown'
        BY <1>8 DEF HandleMessages
      <3>2. Contains(SubSeq(msgs.queue, 1, msgs.reading), ShutdownMsg) \in BOOLEAN
        BY DEF Contains
      <3> QED
        BY <3>1, <3>2 DEF LoopTypes
    <2> QED
      BY <1>1, <1>2, <1>3, <1>5, <2>1, <2>2 DEF QueueTypes
  <1>9. CASE ScreenLock \/ PrepareForSleep
    <2>1. UNCHANGED << msgs, cmds, current, shutdown >> /\ LoopCondition
      BY <1>9 DEF ScreenLock, PrepareForSleep
    <2>2. LoopTypes' /\ QueueTypes' /\ current' \in FocusMessage
      BY <1>2, <2>1 DEF LoopCondition, LoopTypes, QueueTypes, DbusTypes
    <2> QED
      BY <1>1, <1>2, <1>3, <1>5, <2>2
  <1> QED
    BY <1>1, <1>6, <1>7, <1>8, <1>9 DEF LoopStep

\* The daemon and the buses.
LEMMA DaemonStepTypes ==
  ASSUME Types, DaemonStep
  PROVE  Types' /\ UNCHANGED threadVars
  <1> USE DEF Types
  <1>1. UNCHANGED threadVars
    BY DEF DaemonStep, AnswerHasOwner, AnswerStart, AnswerRegister, CopyBlockedApps, DaemonStarts,
           RefuseRegister, RefuseBlockedApps, SendBlockedApps, DaemonDies, DaemonToggles
  <1>2. CompositorTypes' /\ QueueTypes' /\ DbusTypes' /\ LoopTypes'
    BY <1>1 DEF threadVars, compositorVars, CompositorTypes, QueueTypes, DbusTypes, LoopTypes
  <1>3. ASSUME NEW b \in Buses, NEW ms \in Seq(News), Send(b, ms)
        PROVE  inbox' \in [Buses -> Seq(News)]
    BY <1>3, SendFacts
  <1>4. ASSUME NEW b \in Buses, NEW kind \in CallKinds, Answers(b, kind)
        PROVE  calls' \in [Buses -> [CallKinds -> Nat]]
    BY <1>4, AnswersFacts
  <1>5. ASSUME NEW m \in News PROVE << m >> \in Seq(News)
    OBVIOUS
  <1>6. ASSUME NEW m \in News, NEW n \in News PROVE << m, n >> \in Seq(News)
    OBVIOUS
  <1>7. ASSUME NEW b \in Buses, Started(b)
        PROVE  daemon = NoBus /\ daemon' = b /\ crossed' \in BOOLEAN
    BY <1>7 DEF Started, DaemonTypes
  <1>8. ASSUME NEW b \in Buses, AnswerHasOwner(b) PROVE Types'
    <2>1. [type |-> "Select", ok |-> daemon = b] \in News
      BY NewsTypes
    <2>2. WireTypes'
      BY <1>3, <1>4, <1>5, <1>8, <2>1, KindsAre DEF AnswerHasOwner, WireTypes
    <2>3. DaemonTypes' /\ ToldType'
      BY <1>8 DEF AnswerHasOwner, DaemonTypes, ToldType, daemonVars
    <2> QED
      BY <1>2, <2>2, <2>3
  <1>9. ASSUME NEW b \in Buses, AnswerStart(b) PROVE Types'
    <2>1. [type |-> "Select", ok |-> daemon = b] \in News /\ [type |-> "Select", ok |-> TRUE] \in News
          /\ Appeared \in News
      BY NewsTypes
    <2>2. calls' \in [Buses -> [CallKinds -> Nat]]
      BY <1>4, <1>9, KindsAre DEF AnswerStart
    <2>3. UNCHANGED << blocked, answer, overtaken, told >>
      BY <1>9 DEF AnswerStart
    <2>4. CASE Send(b, << [type |-> "Select", ok |-> daemon = b] >>) /\ UNCHANGED << daemon, crossed >>
      <3>1. inbox' \in [Buses -> Seq(News)]
        BY <1>3, <1>5, <2>1, <2>4
      <3> QED
        BY <1>2, <2>2, <2>3, <2>4, <3>1 DEF DaemonTypes, ToldType, WireTypes
    <2>5. CASE Started(b) /\ Send(b, << Appeared, [type |-> "Select", ok |-> TRUE] >>)
      <3>1. inbox' \in [Buses -> Seq(News)]
        BY <1>3, <1>6, <2>1, <2>5
      <3> QED
        BY <1>2, <1>7, <2>2, <2>3, <2>5, <3>1, BusesAre DEF DaemonTypes, ToldType, WireTypes
    <2> QED
      BY <1>9, <2>4, <2>5 DEF AnswerStart, Appeared
  <1>10. ASSUME NEW b \in Buses, AnswerRegister(b) PROVE Types'
    <2>1. [type |-> "Registered", ok |-> daemon = b] \in News
      BY NewsTypes
    <2>2. WireTypes'
      BY <1>3, <1>4, <1>5, <1>10, <2>1, KindsAre DEF AnswerRegister, WireTypes
    <2>3. DaemonTypes' /\ ToldType'
      BY <1>10, BusesAre DEF AnswerRegister, DaemonTypes, ToldType, daemonVars
    <2> QED
      BY <1>2, <2>2, <2>3
  <1>11. ASSUME NEW b \in Buses, CopyBlockedApps(b) PROVE Types'
    <2>1. [type |-> "BlockedApps", ok |-> FALSE] \in News
      BY NewsTypes
    <2>2. calls' \in [Buses -> [CallKinds -> Nat]]
      BY <1>4, <1>11, KindsAre DEF CopyBlockedApps
    <2>3. UNCHANGED << daemon, blocked, told, crossed >>
      BY <1>11 DEF CopyBlockedApps
    <2>4. CASE daemon = b
      <3>1. answer' = << blocked >> /\ overtaken' = FALSE /\ UNCHANGED inbox
        BY <1>11, <2>4 DEF CopyBlockedApps
      <3>2. << blocked >> \in Seq(SUBSET Apps) /\ Len(<< blocked >>) = 1 /\ << blocked >> # << >>
        BY DEF DaemonTypes
      <3>3. daemon # NoBus
        BY <2>4, BusesAre
      <3> HIDE DEF Types
      <3>4. DaemonTypes'
        <4>1. daemon \in Buses \cup {NoBus} /\ blocked \in SUBSET Apps /\ crossed \in BOOLEAN
          BY DEF Types, DaemonTypes
        <4>2. answer' \in Seq(SUBSET Apps) /\ Len(answer') <= 1
          BY <3>1, <3>2
        <4> QED
          BY <2>3, <3>1, <3>3, <4>1, <4>2 DEF DaemonTypes
      <3> QED
        BY <1>2, <2>2, <2>3, <3>1, <3>4 DEF Types, ToldType, WireTypes
    <2>5. CASE daemon # b
      <3>1. inbox' \in [Buses -> Seq(News)] /\ UNCHANGED << answer, overtaken >>
        BY <1>3, <1>5, <1>11, <2>1, <2>5 DEF CopyBlockedApps
      <3> QED
        BY <1>2, <2>2, <2>3, <3>1 DEF DaemonTypes, ToldType, WireTypes
    <2> QED
      BY <2>4, <2>5
  <1>12. ASSUME NEW b \in Buses, DaemonStarts(b) PROVE Types'
    <2>1. inbox' \in [Buses -> Seq(News)]
      BY <1>3, <1>5, <1>12, NewsTypes DEF DaemonStarts, Appeared
    <2> QED
      BY <1>2, <1>7, <1>12, <2>1, BusesAre DEF DaemonStarts, DaemonTypes, ToldType, WireTypes
  <1>13. ASSUME SendBlockedApps PROVE Types'
    <2>1. daemon \in Buses /\ answer[1] \in SUBSET Apps
      <3>1. answer # << >> /\ answer \in Seq(SUBSET Apps)
        BY <1>13 DEF SendBlockedApps, DaemonTypes
      <3>2. answer[1] \in SUBSET Apps
        BY <3>1, TailFacts
      <3> QED
        BY <3>1, <3>2 DEF DaemonTypes
    <2>2. [type |-> "BlockedApps", ok |-> TRUE, apps |-> answer[1]] \in News
      BY <2>1, NewsTypes
    <2>3. inbox' \in [Buses -> Seq(News)]
      BY <1>3, <1>5, <1>13, <2>1, <2>2 DEF SendBlockedApps
    <2>4. << >> \in Seq(SUBSET Apps) /\ Len(<< >>) = 0
      OBVIOUS
    <2>5. answer' = << >> /\ UNCHANGED << daemon, blocked, overtaken, told, calls, crossed >>
      BY <1>13 DEF SendBlockedApps
    <2>6. DaemonTypes'
      <3>1. answer' \in Seq(SUBSET Apps) /\ Len(answer') <= 1
        BY <2>4, <2>5
      <3> QED
        BY <2>5, <3>1 DEF DaemonTypes
    <2> QED
      BY <1>2, <2>3, <2>5, <2>6 DEF ToldType, WireTypes
  <1>14. ASSUME DaemonDies PROVE Types'
    <2> DEFINE failed == IF answer = << >> THEN << >> ELSE << [type |-> "BlockedApps", ok |-> FALSE] >>
    <2>1. /\ daemon \in Buses /\ daemon' = NoBus /\ blocked' = {} /\ answer' = << >>
          /\ told' = Signal("unregistered") /\ Send(daemon, << Disappeared >> \o failed)
          /\ UNCHANGED << calls, overtaken, crossed >>
      BY <1>14 DEF DaemonDies, DaemonTypes, Disappeared
    <2>2. << Disappeared >> \o failed \in Seq(News)
      <3>1. << Disappeared >> \in Seq(News) /\ failed \in Seq(News)
        BY <1>5, NewsTypes
      <3> QED
        BY <3>1, ConcatFacts
    <2>3. inbox' \in [Buses -> Seq(News)]
      BY <1>3, <2>1, <2>2
    <2>4. DaemonTypes'
      <3>1. << >> \in Seq(SUBSET Apps) /\ Len(<< >>) = 0
        OBVIOUS
      <3>2. answer' \in Seq(SUBSET Apps) /\ Len(answer') <= 1
        BY <2>1, <3>1
      <3> QED
        BY <2>1, <3>2 DEF DaemonTypes
    <2> QED
      BY <1>2, <2>1, <2>3, <2>4 DEF ToldType, WireTypes
  <1>15. ASSUME NEW a \in Apps, DaemonToggles(a) PROVE Types'
    <2> DEFINE m == [type |-> "AppBlocked", app |-> a, on |-> a \notin blocked]
               ms == [i \in 1 .. matches[daemon] |-> m]
    <2>1. /\ daemon \in Buses /\ Send(daemon, ms)
          /\ blocked' = IF a \in blocked THEN blocked \ {a} ELSE blocked \cup {a}
          /\ overtaken' = (overtaken \/ answer # << >>)
          /\ UNCHANGED << daemon, answer, told, calls, crossed >>
      BY <1>15 DEF DaemonToggles, DaemonTypes
    <2>2. ms \in Seq(News)
      <3>1. m \in News /\ matches[daemon] \in Nat
        BY <2>1, NewsTypes DEF DbusTypes
      <3> HIDE DEF m
      <3> QED
        BY <3>1
    <2>3. inbox' \in [Buses -> Seq(News)]
      BY <1>3, <2>1, <2>2
    <2>4. blocked' \in SUBSET Apps
      BY <2>1 DEF DaemonTypes
    <2> QED
      BY <1>2, <2>1, <2>3, <2>4 DEF DaemonTypes, ToldType, WireTypes
  <1>16. ASSUME NEW b \in Buses, RefuseRegister(b) PROVE Types'
    <2>1. [type |-> "Registered", ok |-> FALSE] \in News
      BY NewsTypes
    <2>2. WireTypes'
      BY <1>3, <1>4, <1>5, <1>16, <2>1, KindsAre DEF RefuseRegister, WireTypes
    <2>3. DaemonTypes' /\ ToldType'
      BY <1>16, BusesAre DEF RefuseRegister, DaemonTypes, ToldType
    <2> QED
      BY <1>2, <2>2, <2>3
  <1>17. ASSUME NEW b \in Buses, RefuseBlockedApps(b) PROVE Types'
    <2>1. [type |-> "BlockedApps", ok |-> FALSE] \in News
      BY NewsTypes
    <2>2. WireTypes'
      BY <1>3, <1>4, <1>5, <1>17, <2>1, KindsAre DEF RefuseBlockedApps, WireTypes
    <2>3. DaemonTypes' /\ ToldType'
      BY <1>17 DEF RefuseBlockedApps, DaemonTypes, ToldType, daemonVars
    <2> QED
      BY <1>2, <2>2, <2>3
  <1> QED
    BY <1>1, <1>8, <1>9, <1>10, <1>11, <1>12, <1>13, <1>14, <1>15, <1>16, <1>17 DEF DaemonStep

LEMMA TypesNext == Types /\ SelectInv /\ [Next]_vars => Types'
  <1> SUFFICES ASSUME Types, SelectInv, [Next]_vars PROVE Types'
    OBVIOUS
  <1>1. CASE UNCHANGED vars
    BY <1>1 DEF vars, compositorVars, dbusVars, daemonVars, Types, CompositorTypes, QueueTypes,
                DbusTypes, LoopTypes, DaemonTypes, ToldType, WireTypes
  <1> QED
    BY <1>1, NextIs, CompositorStepTypes, LoopStepTypes, ReceiveStepTypes, DaemonStepTypes

-----------------------------------------------------------------------------
(* The bus selection *)

\* A message left the head of one connection.
LEMMA SelectReceived ==
  ASSUME WireTypes, SelectInv, NEW b \in Buses, NEW type, Receives(b, type), type # "Select",
         select' = select,
         \A o \in Buses, k \in SelectKinds : calls'[o][k] = calls[o][k]
  PROVE  SelectInv'
  <1>1. /\ inbox' \in [Buses -> Seq(News)] /\ inbox[b] \in Seq(News) /\ inbox[b] # << >>
        /\ inbox'[b] = Tail(inbox[b]) /\ \A o \in Buses \ {b} : inbox'[o] = inbox[o]
    BY ReceivesFacts
  <1>2. /\ \A i \in DOMAIN inbox'[b] : i + 1 \in DOMAIN inbox[b] /\ inbox'[b][i] = inbox[b][i + 1]
        /\ \A i \in DOMAIN inbox'[b] : i \in Nat
    BY <1>1, TailFacts
  <1>3. ASSUME NEW o \in Buses, NEW i \in DOMAIN inbox'[o], inbox'[o][i].type = "Select"
        PROVE  /\ select' # "Idle" /\ StepCall(select')[1] = o
               /\ \A p \in Buses, k \in SelectKinds : calls'[p][k] = 0
               /\ \A j \in DOMAIN inbox'[o] : inbox'[o][j].type = "Select" => j = i
    <2>1. CASE o = b
      <3>1. i + 1 \in DOMAIN inbox[b] /\ inbox[b][i + 1].type = "Select"
        BY <1>2, <1>3, <2>1
      <3>2. ASSUME NEW j \in DOMAIN inbox'[b], inbox'[b][j].type = "Select" PROVE j = i
        <4>1. j + 1 = i + 1
          BY <1>2, <3>1, <3>2 DEF SelectInv
        <4> QED
          BY <1>2, <2>1, <4>1
      <3> QED
        BY <2>1, <3>1, <3>2 DEF SelectInv
    <2>2. CASE o # b
      <3>1. inbox'[o] = inbox[o]
        BY <1>1, <2>2
      <3> QED
        BY <1>3, <3>1 DEF SelectInv
    <2> QED
      BY <2>1, <2>2
  <1> QED
    BY <1>3 DEF SelectInv

\* Messages were sent, none of them about the selection.
LEMMA SelectSent ==
  ASSUME WireTypes, SelectInv, NEW b \in Buses, NEW ms \in Seq(News), Send(b, ms),
         \A i \in DOMAIN ms : ms[i].type # "Select",
         select' = select,
         \A o \in Buses, k \in SelectKinds : calls'[o][k] = calls[o][k]
  PROVE  SelectInv'
  <1>1. /\ inbox' \in [Buses -> Seq(News)] /\ inbox[b] \in Seq(News)
        /\ inbox'[b] = inbox[b] \o ms /\ \A o \in Buses \ {b} : inbox'[o] = inbox[o]
    BY SendFacts
  <1>2. ASSUME NEW i \in DOMAIN inbox'[b], inbox'[b][i].type = "Select"
        PROVE  i \in DOMAIN inbox[b] /\ inbox'[b][i] = inbox[b][i]
    BY <1>1, <1>2, ConcatPositions
  <1>3. ASSUME NEW o \in Buses, NEW i \in DOMAIN inbox'[o], inbox'[o][i].type = "Select"
        PROVE  i \in DOMAIN inbox[o] /\ inbox'[o][i] = inbox[o][i]
    BY <1>1, <1>2, <1>3
  <1> QED
    BY <1>3 DEF SelectInv

\* The reply to a call of the selection was received: none is under way.
LEMMA SelectTaken ==
  ASSUME WireTypes, SelectInv, NEW b \in Buses, Receives(b, "Select")
  PROVE  /\ select # "Idle"
         /\ \A o \in Buses : \A i \in DOMAIN inbox'[o] : inbox'[o][i].type # "Select"
         /\ \A o \in Buses, k \in SelectKinds : calls[o][k] = 0
  <1>1. /\ inbox[b] \in Seq(News) /\ inbox[b] # << >> /\ Head(inbox[b]).type = "Select"
        /\ inbox'[b] = Tail(inbox[b]) /\ \A o \in Buses \ {b} : inbox'[o] = inbox[o]
    BY ReceivesFacts
  <1>2. /\ 1 \in DOMAIN inbox[b] /\ inbox[b][1].type = "Select"
        /\ \A i \in DOMAIN inbox'[b] : i + 1 # 1 /\ i + 1 \in DOMAIN inbox[b] /\ inbox'[b][i] = inbox[b][i + 1]
    BY <1>1, TailFacts
  <1>3. /\ select # "Idle" /\ StepCall(select)[1] = b
        /\ \A o \in Buses, k \in SelectKinds : calls[o][k] = 0
        /\ \A j \in DOMAIN inbox[b] : inbox[b][j].type = "Select" => j = 1
    BY <1>2 DEF SelectInv
  <1>4. ASSUME NEW o \in Buses, NEW i \in DOMAIN inbox'[o], inbox'[o][i].type = "Select" PROVE FALSE
    <2>1. CASE o = b
      BY <1>2, <1>3, <1>4, <2>1
    <2>2. CASE o # b
      <3>1. inbox'[o] = inbox[o]
        BY <1>1, <2>2
      <3>2. StepCall(select)[1] = o
        BY <1>4, <3>1 DEF SelectInv
      <3> QED
        BY <1>3, <2>2, <3>2
    <2> QED
      BY <2>1, <2>2
  <1> QED
    BY <1>3, <1>4

\* A call of the selection is answered.
LEMMA SelectAnswered ==
  ASSUME WireTypes, SelectInv, NEW b \in Buses, NEW kind \in SelectKinds, Answers(b, kind),
         NEW ms \in Seq(News), Send(b, ms), select' = select,
         NEW last \in DOMAIN ms, \A i \in DOMAIN ms : ms[i].type = "Select" => i = last
  PROVE  SelectInv'
  <1>1. /\ inbox' \in [Buses -> Seq(News)] /\ inbox[b] \in Seq(News)
        /\ inbox'[b] = inbox[b] \o ms /\ \A o \in Buses \ {b} : inbox'[o] = inbox[o]
    BY SendFacts
  <1>2. /\ calls[b][kind] > 0 /\ calls \in [Buses -> [CallKinds -> Nat]]
        /\ \A o \in Buses, k \in SelectKinds : calls'[o][k] =
                IF o = b /\ k = kind THEN calls[o][k] - 1 ELSE calls[o][k]
    BY AnswersFacts, KindsAre DEF WireTypes
  <1>3. select # "Idle" /\ StepCall(select) = << b, kind >> /\ calls[b][kind] = 1
    BY <1>2 DEF SelectInv
  <1>4. \A o \in Buses : \A i \in DOMAIN inbox[o] : inbox[o][i].type # "Select"
    BY <1>3 DEF SelectInv
  <1>5. ASSUME NEW o \in Buses, NEW k \in SelectKinds PROVE calls'[o][k] = 0
    <2>1. CASE o = b /\ k = kind
      BY <1>2, <1>3, <2>1
    <2>2. CASE ~(o = b /\ k = kind)
      <3>1. calls[o][k] \in Nat /\ calls'[o][k] = calls[o][k]
        BY <1>2, <2>2, KindsAre
      <3>2. calls[o][k] > 0 => << o, k >> = << b, kind >>
        BY <1>3 DEF SelectInv
      <3>3. << o, k >> # << b, kind >>
        BY <2>2
      <3> QED
        BY <3>1, <3>2, <3>3
    <2> QED
      BY <2>1, <2>2
  <1>6. ASSUME NEW i \in DOMAIN inbox'[b], inbox'[b][i].type = "Select"
        PROVE  i = Len(inbox[b]) + last
    <2>1. ms \in Seq(News) /\ inbox[b] \in Seq(News) /\ i \in DOMAIN (inbox[b] \o ms)
      BY <1>1, <1>6
    <2>2. \/ i \in DOMAIN inbox[b] /\ (inbox[b] \o ms)[i] = inbox[b][i]
          \/ \E j \in DOMAIN ms : i = Len(inbox[b]) + j /\ (inbox[b] \o ms)[i] = ms[j]
      BY <2>1, ConcatPositions
    <2> QED
      BY <1>1, <1>4, <1>6, <2>2
  <1>7. ASSUME NEW o \in Buses, NEW i \in DOMAIN inbox'[o], inbox'[o][i].type = "Select"
        PROVE  o = b
    BY <1>1, <1>4, <1>7
  <1>8. StepCall(select)[1] = b
    BY <1>3
  <1> QED
    BY <1>3, <1>5, <1>6, <1>7, <1>8 DEF SelectInv

LEMMA SelectNext == Types /\ SelectInv /\ [Next]_vars => SelectInv'
  <1> SUFFICES ASSUME Types, SelectInv, [Next]_vars PROVE SelectInv'
    OBVIOUS
  <1>1. ASSUME UNCHANGED << inbox, calls, select >> PROVE SelectInv'
    BY <1>1 DEF SelectInv
  <1>2. CASE CompositorStep
    BY <1>1, <1>2, CompositorStepTypes DEF dbusVars
  <1>3. CASE LoopStep
    BY <1>1, <1>3, LoopStepTypes
  <1>4. CASE UNCHANGED vars
    BY <1>1, <1>4 DEF vars, dbusVars
  <1>5. WireTypes /\ DaemonTypes
    BY DEF Types
  <1>6. ASSUME NEW o \in Buses, NEW kind \in {"Register", "GetBlocked"},
               calls' = Calling(calls, o, kind) \/ calls' = calls
        PROVE  \A p \in Buses, k \in SelectKinds : calls'[p][k] = calls[p][k]
    <2>1. kind \in CallKinds /\ kind \notin SelectKinds /\ SelectKinds \subseteq CallKinds
      BY DEF CallKinds, SelectKinds
    <2>2. calls \in [Buses -> [CallKinds -> Nat]]
      BY <1>5 DEF WireTypes
    <2>3. CASE calls' = Calling(calls, o, kind)
      <3>1. \A p \in Buses, k \in CallKinds : Calling(calls, o, kind)[p][k] =
                IF p = o /\ k = kind THEN calls[p][k] + 1 ELSE calls[p][k]
        BY <2>1, <2>2, CallingType
      <3>2. \A k \in SelectKinds : k \in CallKinds /\ k # kind
        BY <2>1
      <3> QED
        BY <2>3, <3>1, <3>2
    <2> QED
      BY <1>6, <2>3
  <1>7. ASSUME NEW b \in Buses, ReceiveStep(b) PROVE SelectInv'
    <2>1. CASE OnBusSelectReply(b)
      <3> DEFINE next == IF Head(inbox[b]).ok THEN OnSuccess[select] ELSE OnFailure[select]
      <3>1. /\ Receives(b, "Select")
            /\ IF next \in Buses \cup {NoBus} THEN FinishBusSelection(next)
               ELSE /\ select' = next
                    /\ calls' = Calling(calls, StepCall(next)[1], StepCall(next)[2])
        BY <2>1 DEF OnBusSelectReply
      <3> HIDE DEF next
      <3>2. /\ \A o \in Buses : \A i \in DOMAIN inbox'[o] : inbox'[o][i].type # "Select"
            /\ \A o \in Buses, k \in SelectKinds : calls[o][k] = 0
            /\ select # "Idle"
        BY <1>5, <3>1, SelectTaken
      <3>3. CASE next \in Buses \cup {NoBus}
        <4>1. calls' = calls \/ (next \in Buses /\ calls' = Calling(calls, next, "Register"))
          BY <3>1, <3>3 DEF FinishBusSelection, SetupDaemonProxy
        <4>2. \A p \in Buses, k \in SelectKinds : calls'[p][k] = calls[p][k]
          BY <1>6, <4>1
        <4> QED
          BY <3>2, <4>2 DEF SelectInv
      <3>4. CASE next \notin Buses \cup {NoBus}
        <4>1. select \in DOMAIN OnSuccess
          BY <3>2 DEF Types, DbusTypes
        <4>2. next \in DOMAIN OnSuccess
          BY <3>4, <4>1, StepTypes DEF next
        <4>3. "Idle" \notin DOMAIN OnSuccess
          BY DEF OnSuccess
        <4> DEFINE c == StepCall(next)
        <4>4. select' = next /\ calls' = Calling(calls, c[1], c[2])
          BY <3>1, <3>4
        <4>5. c[1] \in Buses /\ c[2] \in SelectKinds /\ c = << c[1], c[2] >>
          BY StepCallTypes DEF StepCall
        <4> HIDE DEF c
        <4>6. calls \in [Buses -> [CallKinds -> Nat]]
          BY <1>5 DEF WireTypes
        <4>7. \A o \in Buses, k \in SelectKinds : calls'[o][k] =
                  IF o = c[1] /\ k = c[2] THEN 1 ELSE 0
          BY <3>2, <4>4, <4>5, <4>6, CallingType, KindsAre
        <4>8. \A o \in Buses, k \in SelectKinds : calls'[o][k] > 0 => c = << o, k >> /\ calls'[o][k] = 1
          BY <4>5, <4>7
        <4>9. select' # "Idle" /\ StepCall(select') = c
          BY <4>2, <4>3, <4>4 DEF c
        <4> QED
          BY <3>2, <4>8, <4>9 DEF SelectInv
      <3> QED
        BY <3>3, <3>4
    <2>2. CASE OnRegisterReply(b)
      <3>1. /\ Receives(b, "Registered") /\ select' = select
            /\ calls' = calls \/ (bus # NoBus /\ calls' = Calling(calls, bus, "GetBlocked"))
        BY <2>2 DEF OnRegisterReply
      <3>2. bus # NoBus => bus \in Buses
        BY DEF Types, DbusTypes
      <3>3. \A p \in Buses, k \in SelectKinds : calls'[p][k] = calls[p][k]
        BY <1>6, <3>1, <3>2
      <3> QED
        BY <1>5, <3>1, <3>3, SelectReceived
    <2>3. CASE OnAppeared(b)
      <3>1. /\ Receives(b, "Appeared") /\ select' = select
            /\ calls' = calls \/ calls' = Calling(calls, b, "Register")
        BY <2>3 DEF OnAppeared, SetupDaemonProxy
      <3>2. \A p \in Buses, k \in SelectKinds : calls'[p][k] = calls[p][k]
        BY <1>6, <3>1
      <3> QED
        BY <1>5, <3>1, <3>2, SelectReceived
    <2>4. CASE OnGetBlockedAppsReply(b) \/ OnAppBlocked(b) \/ OnDisappeared(b)
      <3>1. /\ UNCHANGED << select, calls >>
            /\ \E type \in {"BlockedApps", "AppBlocked", "Disappeared"} : Receives(b, type)
        BY <2>4 DEF OnGetBlockedAppsReply, OnAppBlocked, OnDisappeared
      <3> QED
        BY <1>5, <3>1, SelectReceived
    <2> QED
      BY <1>7, <2>1, <2>2, <2>3, <2>4 DEF ReceiveStep
  <1>8. ASSUME DaemonStep PROVE SelectInv'
    <2>1. select' = select
      BY <1>8, DaemonStepTypes DEF threadVars
    <2>2. ASSUME NEW b \in Buses, NEW kind \in {"Register", "GetBlocked"}, Answers(b, kind)
          PROVE  \A o \in Buses, k \in SelectKinds : calls'[o][k] = calls[o][k]
      <3>1. kind \in CallKinds /\ kind \notin SelectKinds /\ SelectKinds \subseteq CallKinds
        BY DEF CallKinds, SelectKinds
      <3> QED
        BY <1>5, <2>2, <3>1, AnswersFacts
    <2>3. ASSUME NEW b \in Buses, NEW m \in News, Send(b, << m >>), m.type # "Select",
                 \A o \in Buses, k \in SelectKinds : calls'[o][k] = calls[o][k]
          PROVE  SelectInv'
      <3>1. << m >> \in Seq(News) /\ \A i \in DOMAIN << m >> : << m >>[i].type # "Select"
        BY <2>3
      <3> QED
        BY <1>5, <2>1, <2>3, <3>1, SelectSent
    <2>4. ASSUME NEW b \in Buses, NEW kind \in SelectKinds, Answers(b, kind), NEW ok \in BOOLEAN,
                 Send(b, << [type |-> "Select", ok |-> ok] >>)
          PROVE  SelectInv'
      <3> DEFINE m == [type |-> "Select", ok |-> ok]
                 ms == << m >>
      <3>2. m \in News
        BY NewsTypes
      <3>3. Send(b, ms)
        BY <2>4
      <3> HIDE DEF m
      <3>1. ms \in Seq(News) /\ 1 \in DOMAIN ms /\ \A i \in DOMAIN ms : ms[i].type = "Select" => i = 1
        BY <3>2
      <3> HIDE DEF ms
      <3> QED
        BY <1>5, <2>1, <2>4, <3>1, <3>3, SelectAnswered
    <2>5. ASSUME NEW b \in Buses, AnswerHasOwner(b) PROVE SelectInv'
      BY <2>4, <2>5 DEF AnswerHasOwner, SelectKinds
    <2>6. ASSUME NEW b \in Buses, AnswerStart(b) PROVE SelectInv'
      <3>1. Answers(b, "Start") /\ "Start" \in SelectKinds
        BY <2>6 DEF AnswerStart, SelectKinds
      <3>2. CASE Send(b, << [type |-> "Select", ok |-> daemon = b] >>)
        BY <2>4, <3>1, <3>2
      <3>3. CASE Send(b, << Signal("Appeared"), [type |-> "Select", ok |-> TRUE] >>)
        <4> DEFINE m == [type |-> "Select", ok |-> TRUE]
                   ms == << Appeared, m >>
        <4>1. Appeared \in News /\ m \in News /\ Appeared.type # "Select"
          BY NewsTypes DEF Appeared, Signal
        <4>3. Send(b, ms)
          BY <3>3 DEF Appeared
        <4> HIDE DEF m
        <4>2. ms \in Seq(News) /\ 2 \in DOMAIN ms /\ \A i \in DOMAIN ms : ms[i].type = "Select" => i = 2
          BY <4>1
        <4> HIDE DEF ms
        <4> QED
          BY <1>5, <2>1, <3>1, <4>2, <4>3, SelectAnswered
      <3> QED
        BY <2>6, <3>2, <3>3 DEF AnswerStart
    <2>7. ASSUME NEW b \in Buses, AnswerRegister(b) PROVE SelectInv'
      <3>1. [type |-> "Registered", ok |-> daemon = b] \in News
        BY NewsTypes
      <3> QED
        BY <2>2, <2>3, <2>7, <3>1 DEF AnswerRegister
    <2>8. ASSUME NEW b \in Buses, CopyBlockedApps(b) PROVE SelectInv'
      <3>1. \A o \in Buses, k \in SelectKinds : calls'[o][k] = calls[o][k]
        BY <2>2, <2>8 DEF CopyBlockedApps
      <3>2. CASE daemon = b
        BY <2>1, <2>8, <3>1, <3>2 DEF CopyBlockedApps, SelectInv
      <3>3. CASE daemon # b
        BY <2>3, <2>8, <3>1, <3>3, NewsTypes DEF CopyBlockedApps
      <3> QED
        BY <3>2, <3>3
    <2>9. ASSUME NEW b \in Buses, DaemonStarts(b) PROVE SelectInv'
      <3>1. Signal("Appeared") \in News /\ Signal("Appeared").type # "Select"
        BY NewsTypes DEF Appeared, Signal
      <3> QED
        BY <2>3, <2>9, <3>1 DEF DaemonStarts
    <2>10. ASSUME SendBlockedApps PROVE SelectInv'
      <3>1. daemon \in Buses /\ answer[1] \in SUBSET Apps
        <4>1. answer # << >> /\ answer \in Seq(SUBSET Apps)
          BY <1>5, <2>10 DEF SendBlockedApps, DaemonTypes
        <4>2. answer[1] \in SUBSET Apps
          BY <4>1, TailFacts
        <4> QED
          BY <1>5, <4>1, <4>2 DEF DaemonTypes
      <3>2. [type |-> "BlockedApps", ok |-> TRUE, apps |-> answer[1]] \in News
        BY <3>1, NewsTypes
      <3> QED
        BY <2>3, <2>10, <3>1, <3>2 DEF SendBlockedApps
    <2>11. ASSUME DaemonDies PROVE SelectInv'
      <3> DEFINE failed == IF answer = << >> THEN << >> ELSE << [type |-> "BlockedApps", ok |-> FALSE] >>
                 ms == << Disappeared >> \o failed
      <3>1. daemon \in Buses /\ Send(daemon, ms) /\ calls' = calls
        BY <1>5, <2>11 DEF DaemonDies, DaemonTypes, Disappeared
      <3>2. << Disappeared >> \in Seq(News) /\ \A i \in DOMAIN << Disappeared >> : << Disappeared >>[i].type # "Select"
        BY NewsTypes DEF Disappeared, Signal
      <3>3. failed \in Seq(News) /\ \A i \in DOMAIN failed : failed[i].type # "Select"
        BY NewsTypes
      <3> HIDE DEF failed
      <3>4. ms \in Seq(News)
        BY <3>2, <3>3, ConcatFacts
      <3>5. \A i \in DOMAIN ms : ms[i].type # "Select"
        BY <3>2, <3>3, ConcatPositions
      <3> HIDE DEF ms
      <3> QED
        BY <1>5, <2>1, <3>1, <3>4, <3>5, SelectSent
    <2>12. ASSUME NEW a \in Apps, DaemonToggles(a) PROVE SelectInv'
      <3> DEFINE m == [type |-> "AppBlocked", app |-> a, on |-> a \notin blocked]
                 ms == [i \in 1 .. matches[daemon] |-> m]
      <3>1. daemon \in Buses /\ Send(daemon, ms) /\ calls' = calls
        BY <1>5, <2>12 DEF DaemonToggles, DaemonTypes
      <3>2. m \in News /\ m.type # "Select" /\ matches[daemon] \in Nat
        BY <3>1, NewsTypes DEF Types, DbusTypes
      <3> HIDE DEF m
      <3>3. ms \in Seq(News) /\ \A i \in DOMAIN ms : ms[i].type # "Select"
        BY <3>2
      <3> HIDE DEF ms
      <3> QED
        BY <1>5, <2>1, <3>1, <3>3, SelectSent
    <2>13. ASSUME NEW b \in Buses, RefuseRegister(b) PROVE SelectInv'
      <3>1. [type |-> "Registered", ok |-> FALSE] \in News
        BY NewsTypes
      <3> QED
        BY <2>2, <2>3, <2>13, <3>1 DEF RefuseRegister
    <2>14. ASSUME NEW b \in Buses, RefuseBlockedApps(b) PROVE SelectInv'
      <3>1. [type |-> "BlockedApps", ok |-> FALSE] \in News
        BY NewsTypes
      <3> QED
        BY <2>2, <2>3, <2>14, <3>1 DEF RefuseBlockedApps
    <2> QED
      BY <1>8, <2>5, <2>6, <2>7, <2>8, <2>9, <2>10, <2>11, <2>12, <2>13, <2>14 DEF DaemonStep
  <1> QED
    BY <1>2, <1>3, <1>4, <1>7, <1>8, NextIs

LEMMA PluginTypes == Spec => [](Types /\ SelectInv)
  <1>1. Init => Types /\ SelectInv
    BY TypesInit
  <1>2. Types /\ SelectInv /\ [Next]_vars => Types' /\ SelectInv'
    BY TypesNext, SelectNext
  <1> QED
    BY <1>1, <1>2, PTL DEF Spec

\* The types hold for every set of window classes, every queue capacity and
\* every number of events: in particular no queue is ever filled beyond its
\* slots, whatever the two threads do while the other reads, and a reader
\* never reaches beyond what the writer committed.
THEOREM PluginTypeOK == Spec => []TypeOK
  <1>1. Types => TypeOK
    BY TypesAre
  <1> QED
    BY <1>1, PluginTypes, PTL
-----------------------------------------------------------------------------
(* The mailbox carries the focus *)

LEMMA FocusUnderWayIs == FocusUnderWay = FocusAfter(Pending(msgs), current)
  BY DEF FocusUnderWay, FocusAfter

LEMMA FocusUnderWayType == ASSUME Types PROVE Pending(msgs) \in Seq(Message) /\ current \in Message
  BY ConcatFacts DEF Types, QueueTypes, DbusTypes, FocusMessage, Pending, QueueOK, Slots

\* A message joins the mailbox, or finds it full.
LEMMA FocusPushed ==
  ASSUME Types, msgs.writing = << >>, NEW m \in Message, msgs' = Written(msgs, m), current' = current
  PROVE  FocusUnderWay' = IF HasRoom(msgs) /\ IsFocus(m) THEN m ELSE FocusUnderWay
  <1>1. Pending(msgs') = IF HasRoom(msgs) THEN Pending(msgs) \o << m >> ELSE Pending(msgs)
    BY QueueWritten DEF Types, QueueTypes
  <1>2. Pending(msgs) \in Seq(Message) /\ << m >> \in Seq(Message)
    BY FocusUnderWayType, SingletonFacts
  <1>3. FocusUnderWay' = FocusAfter(Pending(msgs'), current)
    BY DEF FocusUnderWay, FocusAfter
  <1>4. FocusAfter(Pending(msgs) \o << m >>, current) = FocusAfter(<< m >>, FocusUnderWay)
    <2> DEFINE t == << m >>
               p == Pending(msgs)
    <2>1. p \in Seq(Message) /\ t \in Seq(Message)
      BY <1>2
    <2> HIDE DEF t, p
    <2>2. FocusAfter(p \o t, current) = FocusAfter(t, FocusAfter(p, current))
      BY <2>1, FocusConcat
    <2>3. FocusUnderWay = FocusAfter(p, current)
      BY FocusUnderWayIs DEF p
    <2> QED
      BY <2>2, <2>3, Zenon DEF t, p
  <1>5. FocusAfter(<< m >>, FocusUnderWay) = IF IsFocus(m) THEN m ELSE FocusUnderWay
    BY FocusOfOne
  <1> QED
    BY <1>1, <1>3, <1>4, <1>5, FocusUnderWayIs

LEMMA FocusReported ==
  ASSUME Types, msgs.writing = << >>, NEW m \in FocusMessage, PushFocus(m), current' = current
  PROVE  ~lostFocus' => FocusUnderWay' = m
  <1>1. m \in Message /\ IsFocus(m)
    BY DEF FocusMessage
  <1>2. msgs' = Written(msgs, m) /\ lostFocus' = ~HasRoom(msgs)
    BY DEF PushFocus
  <1> QED
    BY <1>1, <1>2, FocusPushed

LEMMA MailboxNext == Types /\ SelectInv /\ MailboxCarriesFocus /\ [Next]_vars => MailboxCarriesFocus'
  <1> SUFFICES ASSUME Types, SelectInv, MailboxCarriesFocus, [Next]_vars PROVE MailboxCarriesFocus'
    OBVIOUS
  <1>1. /\ focus \in Window /\ blocks \in SUBSET Apps
        /\ \A bs \in SUBSET Apps : Report(focus, bs) \in FocusMessage
    BY ReportType DEF Types, CompositorTypes
  <1>2. ASSUME FocusUnderWay' = FocusUnderWay, UNCHANGED << focus, blocks, lostFocus >>
        PROVE  MailboxCarriesFocus'
    BY <1>2 DEF MailboxCarriesFocus
  <1>3. ASSUME Pending(msgs') = Pending(msgs), UNCHANGED << focus, blocks, lostFocus, current >>
        PROVE  MailboxCarriesFocus'
    BY <1>2, <1>3 DEF FocusUnderWay
  <1>4. CASE CompositorStep
    <2>1. current' = current
      BY <1>4, CompositorStepTypes DEF dbusVars
    <2>2. ASSUME NEW w \in Window, WindowActive(w) PROVE MailboxCarriesFocus'
      <3>1. msgs.writing = << >> /\ focus' = w /\ UNCHANGED blocks
        BY <2>2 DEF WindowActive, CompositorFree
      <3>2. CASE w = Bare /\ focus \in {NoApp, Bare}
        <4>1. UNCHANGED << msgs, lostFocus >>
          BY <2>2, <3>2 DEF WindowActive, PushNothing
        <4>2. Report(w, blocks) = Report(focus, blocks)
          BY <1>1, <3>2, PluginAssumption DEF Report
        <4>3. FocusUnderWay' = FocusUnderWay
          BY <2>1, <4>1 DEF FocusUnderWay
        <4> QED
          BY <3>1, <4>1, <4>2, <4>3 DEF MailboxCarriesFocus
      <3>3. CASE ~(w = Bare /\ focus \in {NoApp, Bare})
        <4>1. PushFocus(Report(w, blocks))
          BY <2>2, <3>3 DEF WindowActive
        <4>2. Report(w, blocks) \in FocusMessage
          BY <1>1, ReportType
        <4>3. ~lostFocus' => FocusUnderWay' = Report(w, blocks)
          BY <2>1, <3>1, <4>1, <4>2, FocusReported
        <4> QED
          BY <3>1, <4>3 DEF MailboxCarriesFocus
      <3> QED
        BY <3>2, <3>3
    <2>3. CASE TitleChanges
      <3>1. /\ msgs.writing = << >> /\ PushFocus(Report(focus, blocks))
            /\ UNCHANGED << focus, blocks >>
        BY <2>3 DEF TitleChanges, CompositorFree
      <3>2. ~lostFocus' => FocusUnderWay' = Report(focus, blocks)
        BY <1>1, <2>1, <3>1, FocusReported
      <3> QED
        BY <3>1, <3>2 DEF MailboxCarriesFocus
    <2>4. ASSUME NEW m \in Message, ~IsFocus(m), msgs.writing = << >>, msgs' = Written(msgs, m),
                 UNCHANGED << focus, blocks, lostFocus >>
          PROVE  MailboxCarriesFocus'
      BY <1>2, <2>1, <2>4, FocusPushed
    <2>5. CASE IdleTransition
      <3>1. /\ msgs.writing = << >> /\ msgs' = Written(msgs, IdleChanged(~idle))
            /\ UNCHANGED << focus, blocks, lostFocus >>
        BY <2>5 DEF IdleTransition, CompositorFree
      <3>2. IdleChanged(~idle) \in Message /\ ~IsFocus(IdleChanged(~idle))
        <4>1. CASE idle = TRUE
          <5>1. ~idle <=> FALSE
            BY <4>1
          <5> QED
            BY <5>1, OtherMessages
        <4>2. CASE idle = FALSE
          <5>1. ~idle <=> TRUE
            BY <4>2
          <5> QED
            BY <5>1, OtherMessages
        <4> QED
          BY <4>1, <4>2 DEF Types, CompositorTypes
      <3> QED
        BY <2>4, <3>1, <3>2
    <2>6. CASE ExitBegins
      BY <2>4, <2>6, OtherMessages DEF ExitBegins, CompositorFree
    <2>7. CASE HandleCommand
      <3> DEFINE c == cmds.queue[handled + 1]
      <3>1. c \in Command
        <4>1. /\ cmds.queue \in Seq(Command) /\ cmds.reading \in Nat /\ handled \in Nat
              /\ cmds.reading <= Len(cmds.queue) /\ Len(cmds.queue) \in Nat
          BY LenProperties DEF Types, CompositorTypes, QueueTypes, QueueOK, Slots
        <4>2. handled + 1 \in 1 .. Len(cmds.queue)
          BY <2>7, <4>1 DEF HandleCommand
        <4> QED
          BY <4>1, <4>2, ElementOfSeq
      <3>2. /\ blocks' = Applied(blocks, c) /\ msgs.writing = << >> /\ focus' = focus
            /\ IF Reports(c) THEN PushFocus(Report(focus, Applied(blocks, c))) ELSE PushNothing
        BY <2>7 DEF HandleCommand
      <3> HIDE DEF c
      <3>3. Applied(blocks, c) \in SUBSET Apps
        BY <1>1, <3>1, AppliedType
      <3>4. CASE Reports(c)
        <4>1. ~lostFocus' => FocusUnderWay' = Report(focus, Applied(blocks, c))
          BY <1>1, <2>1, <3>2, <3>3, <3>4, FocusReported
        <4> QED
          BY <3>2, <4>1 DEF MailboxCarriesFocus
      <3>5. CASE ~Reports(c)
        <4>1. UNCHANGED << msgs, lostFocus >>
          BY <3>2, <3>5 DEF PushNothing
        <4>2. (focus \in blocks) <=> (focus \in Applied(blocks, c))
          <5>1. CASE focus \notin Apps
            BY <1>1, <3>3, <5>1
          <5>2. CASE focus \in Apps /\ c.type = "SyncAll"
            BY <3>5, <5>2 DEF Reports, Applied
          <5>3. CASE focus \in Apps /\ c.type # "SyncAll"
            <6>1. c.app # focus
              BY <3>5, <5>3 DEF Reports
            <6>2. c.type \in {"Block", "Unblock"}
              BY <3>1, <5>3 DEF Command
            <6> QED
              BY <6>1, <6>2 DEF Applied
          <5> QED
            BY <5>1, <5>2, <5>3
        <4>3. Report(focus, Applied(blocks, c)) = Report(focus, blocks)
          BY <4>2 DEF Report
        <4>4. FocusUnderWay' = FocusUnderWay
          BY <2>1, <4>1 DEF FocusUnderWay
        <4> QED
          BY <3>2, <4>1, <4>3, <4>4 DEF MailboxCarriesFocus
      <3> QED
        BY <3>4, <3>5
    <2>8. CASE CommitMessage
      <3>1. Pending(msgs') = Pending(msgs)
        BY <2>8, QueueCommitted DEF CommitMessage, Types, QueueTypes
      <3> QED
        BY <1>3, <2>1, <2>8, <3>1 DEF CommitMessage, compositorVars
    <2>9. CASE OpenCommands \/ CloseCommands \/ RequestShutdown \/ Joined
      BY <1>3, <2>1, <2>9 DEF OpenCommands, CloseCommands, RequestShutdown, Joined
    <2> QED
      BY <1>4, <2>2, <2>3, <2>5, <2>6, <2>7, <2>8, <2>9 DEF CompositorStep, CompositorThread
  <1>5. CASE LoopStep
    <2>1. CASE HandleMessages
      <3> DEFINE batch == SubSeq(msgs.queue, 1, msgs.reading)
      <3>1. /\ batch \in Seq(Message) /\ current' = FocusAfter(batch, current)
            /\ Pending(msgs') \in Seq(Message) /\ Pending(msgs) = batch \o Pending(msgs')
        BY <2>1, DrainFacts DEF Types, DbusTypes
      <3> HIDE DEF batch
      <3>2. FocusUnderWay' = FocusAfter(Pending(msgs'), current')
        BY DEF FocusUnderWay, FocusAfter
      <3>3. FocusUnderWay' = FocusUnderWay
        BY <3>1, <3>2, FocusConcat, FocusUnderWayIs
      <3> QED
        BY <1>2, <2>1, <3>3 DEF HandleMessages, compositorVars
    <2>2. CASE OpenMessages
      <3>1. Pending(msgs') = Pending(msgs)
        BY <2>2, QueueOpened DEF OpenMessages, Types, QueueTypes
      <3> QED
        BY <1>3, <2>2, <3>1 DEF OpenMessages, compositorVars
    <2>3. CASE CommitCommand \/ ScreenLock \/ PrepareForSleep
      BY <1>3, <2>3 DEF CommitCommand, ScreenLock, PrepareForSleep, compositorVars
    <2> QED
      BY <1>5, <2>1, <2>2, <2>3 DEF LoopStep
  <1>6. ASSUME NEW b \in Buses, ReceiveStep(b) PROVE MailboxCarriesFocus'
    BY <1>3, <1>6 DEF ReceiveStep, OnBusSelectReply, OnRegisterReply, OnGetBlockedAppsReply,
                      OnAppBlocked, OnDisappeared, OnAppeared, compositorVars
  <1>7. CASE DaemonStep
    BY <1>3, <1>7, DaemonStepTypes DEF threadVars, compositorVars
  <1>8. CASE UNCHANGED vars
    BY <1>3, <1>8 DEF vars, compositorVars, dbusVars
  <1> QED
    BY <1>4, <1>5, <1>6, <1>7, <1>8, NextIs

\* MailboxCarriesFocus, for every capacity of the queues: with the messages
\* under way read in order, the D-Bus thread's m_focusedApp is the compositor's
\* focused window and whether it is blocked, unless the last report found the
\* queue full.
THEOREM MailboxHolds == Spec => []MailboxCarriesFocus
  <1>1. Init => MailboxCarriesFocus
    <2> SUFFICES ASSUME Init PROVE FocusUnderWay = Report(focus, blocks)
      BY DEF MailboxCarriesFocus
    <2>1. Types
      BY TypesInit
    <2>2. Pending(msgs) = << >> \o << >> /\ current = FocusUpdate(NoApp) /\ focus = NoApp /\ blocks = {}
      BY DEF Init, EmptyQueue, Pending
    <2>3. Pending(msgs) = << >> /\ Len(Pending(msgs)) = 0
      BY <2>2
    <2>4. FocusUnderWay = FocusUpdate(NoApp)
      <3>1. Pending(msgs) \in Seq(Message) /\ \A i \in 1 .. Len(Pending(msgs)) : ~IsFocus(Pending(msgs)[i])
        BY <2>1, <2>3, FocusUnderWayType
      <3>2. FocusAfter(Pending(msgs), current) = current
        BY <3>1, NoFocus
      <3> QED
        BY <2>2, <3>2, FocusUnderWayIs
    <2>5. Report(NoApp, {}) = FocusUpdate(NoApp)
      BY PluginAssumption DEF Report
    <2> QED
      BY <2>2, <2>4, <2>5
  <1>2. Types /\ SelectInv /\ MailboxCarriesFocus /\ [Next]_vars => MailboxCarriesFocus'
    BY MailboxNext
  <1> QED
    BY <1>1, <1>2, PluginTypes, PTL DEF Spec
-----------------------------------------------------------------------------
(* The life of the daemon *)

\* Reading the first message ...
LEMMA LastsTail ==
  ASSUME NEW s \in Seq(News), s # << >>, NEW i \in 1 .. Len(s), NEW alive, Lasts(s, i, alive)
  PROVE  Lasts(Tail(s), i - 1, alive)
  <1> DEFINE t == Tail(s)
             n == Len(s)
  <1>1. n \in Nat /\ Len(t) = n - 1 /\ \A j \in 1 .. n - 1 : t[j] = s[j + 1]
    BY TailFacts
  <1>2. /\ \A j \in i + 1 .. n : s[j] = Appeared => \E k \in i + 1 .. j - 1 : s[k] = Disappeared
        /\ alive \/ \E k \in i + 1 .. n : s[k] = Disappeared
    BY DEF Lasts
  <1> HIDE DEF t, n
  <1>3. ASSUME NEW k \in i + 1 .. n PROVE k - 1 \in i - 1 + 1 .. Len(t) /\ t[k - 1] = s[k]
    <2>1. k - 1 \in 1 .. n - 1 /\ (k - 1) + 1 = k /\ k - 1 \in i - 1 + 1 .. n - 1
      BY <1>1 DEF n
    <2> QED
      BY <1>1, <2>1
  <1>4. ASSUME NEW j \in i - 1 + 1 .. Len(t), t[j] = Appeared
        PROVE  \E k \in i - 1 + 1 .. j - 1 : t[k] = Disappeared
    <2>1. j + 1 \in i + 1 .. n /\ s[j + 1] = Appeared
      <3>1. j \in 1 .. n - 1 /\ j + 1 \in i + 1 .. n
        BY <1>1 DEF n
      <3> QED
        BY <1>1, <1>4, <3>1
    <2>2. PICK k \in i + 1 .. j + 1 - 1 : s[k] = Disappeared
      BY <1>2, <2>1
    <2>3. k \in i + 1 .. n /\ k - 1 \in i - 1 + 1 .. j - 1
      BY <1>1, <2>1
    <2> QED
      BY <1>3, <2>2, <2>3
  <1>5. alive \/ \E k \in i - 1 + 1 .. Len(t) : t[k] = Disappeared
    BY <1>2, <1>3
  <1> QED
    BY <1>4, <1>5 DEF Lasts, t

LEMMA LastsFromHead ==
  ASSUME NEW s \in Seq(News), s # << >>, NEW alive, Lasts(s, 0, alive), s[1] # Disappeared
  PROVE  s[1] # Appeared /\ Lasts(Tail(s), 0, alive)
  <1>1. Len(s) \in Nat \ {0}
    BY TailFacts
  <1>2. /\ \A j \in 0 + 1 .. Len(s) : s[j] = Appeared => \E k \in 0 + 1 .. j - 1 : s[k] = Disappeared
        /\ alive \/ \E k \in 0 + 1 .. Len(s) : s[k] = Disappeared
    BY DEF Lasts
  <1>3. s[1] # Appeared
    <2>1. s[1] = Appeared => \E k \in 0 + 1 .. 1 - 1 : s[k] = Disappeared
      BY <1>1, <1>2
    <2> QED
      BY <2>1
  <1>4. \A k \in 1 .. Len(s) : s[k] = Disappeared => k \in 2 .. Len(s)
    BY <1>1
  <1>5. Lasts(s, 1, alive)
    <2>1. ASSUME NEW j \in 1 + 1 .. Len(s), s[j] = Appeared
          PROVE  \E k \in 1 + 1 .. j - 1 : s[k] = Disappeared
      <3>1. j \in 1 .. Len(s) /\ j \in Nat
        BY <1>1
      <3>2. PICK k \in 1 .. j - 1 : s[k] = Disappeared
        BY <1>2, <2>1, <3>1
      <3>3. k # 1
        BY <3>2
      <3> QED
        BY <3>1, <3>2, <3>3
    <2>2. alive \/ \E k \in 1 + 1 .. Len(s) : s[k] = Disappeared
      BY <1>2, <1>4
    <2> QED
      BY <2>1, <2>2 DEF Lasts
  <1>6. Lasts(Tail(s), 1 - 1, alive)
    BY <1>1, <1>5, LastsTail
  <1> QED
    BY <1>3, <1>6

\* ... and writing some more.
LEMMA LastsConcat ==
  ASSUME NEW s \in Seq(News), NEW t \in Seq(News), NEW i \in 0 .. Len(s), NEW was, NEW is,
         Lasts(s, i, was), was => Lasts(t, 0, is)
  PROVE  Lasts(s \o t, i, is)
  <1> DEFINE n == Len(s)
             m == Len(t)
             u == s \o t
  <1>1. /\ n \in Nat /\ m \in Nat /\ Len(u) = n + m
        /\ \A j \in 1 .. n : u[j] = s[j]
        /\ \A j \in 1 .. m : u[n + j] = t[j]
    BY ConcatFacts
  <1>2. /\ \A j \in i + 1 .. n : s[j] = Appeared => \E k \in i + 1 .. j - 1 : s[k] = Disappeared
        /\ was \/ \E k \in i + 1 .. n : s[k] = Disappeared
    BY DEF Lasts
  <1>3. was => /\ \A j \in 1 .. m : t[j] = Appeared => \E k \in 1 .. j - 1 : t[k] = Disappeared
               /\ is \/ \E k \in 1 .. m : t[k] = Disappeared
    BY DEF Lasts
  <1> HIDE DEF n, m, u
  <1>4. \A k \in i + 1 .. n : k \in i + 1 .. n + m /\ u[k] = s[k]
    BY <1>1
  <1>5. \A k \in 1 .. m : n + k \in i + 1 .. n + m /\ u[n + k] = t[k]
    BY <1>1 DEF n
  <1>6. ASSUME NEW j \in i + 1 .. Len(u), u[j] = Appeared
        PROVE  \E k \in i + 1 .. j - 1 : u[k] = Disappeared
    <2>1. CASE j <= n
      <3>1. j \in i + 1 .. n /\ s[j] = Appeared
        BY <1>1, <1>4, <1>6, <2>1
      <3>2. PICK k \in i + 1 .. j - 1 : s[k] = Disappeared
        BY <1>2, <3>1
      <3>3. k \in i + 1 .. n
        BY <1>1, <3>1
      <3> QED
        BY <1>4, <3>2, <3>3
    <2>2. CASE ~(j <= n)
      <3>1. j - n \in 1 .. m /\ n + (j - n) = j
        BY <1>1, <2>2
      <3>2. t[j - n] = Appeared
        BY <1>5, <1>6, <3>1
      <3>3. CASE \E k \in i + 1 .. n : s[k] = Disappeared
        <4>1. PICK k \in i + 1 .. n : s[k] = Disappeared
          BY <3>3
        <4>2. k \in i + 1 .. j - 1
          BY <1>1, <2>2
        <4> QED
          BY <1>4, <4>1, <4>2
      <3>4. CASE was
        <4>1. PICK k \in 1 .. j - n - 1 : t[k] = Disappeared
          BY <1>3, <3>1, <3>2, <3>4
        <4>2. k \in 1 .. m /\ n + k \in i + 1 .. j - 1
          BY <1>1, <3>1 DEF n
        <4> QED
          BY <1>5, <4>1, <4>2
      <3> QED
        BY <1>2, <3>3, <3>4
    <2> QED
      BY <2>1, <2>2
  <1>7. is \/ \E k \in i + 1 .. Len(u) : u[k] = Disappeared
    BY <1>1, <1>2, <1>3, <1>4, <1>5
  <1> QED
    BY <1>6, <1>7 DEF Lasts, u

LEMMA LastsAfter ==
  ASSUME NEW s \in Seq(News), NEW t \in Seq(News), NEW i \in DOMAIN t, NEW is, Lasts(t, i, is)
  PROVE  Lasts(s \o t, Len(s) + i, is)
  <1> DEFINE n == Len(s)
             m == Len(t)
             u == s \o t
  <1>1. /\ n \in Nat /\ m \in Nat /\ Len(u) = n + m /\ i \in 1 .. m
        /\ \A j \in 1 .. m : u[n + j] = t[j]
    BY ConcatFacts
  <1>2. /\ \A j \in i + 1 .. m : t[j] = Appeared => \E k \in i + 1 .. j - 1 : t[k] = Disappeared
        /\ is \/ \E k \in i + 1 .. m : t[k] = Disappeared
    BY DEF Lasts
  <1> HIDE DEF n, m, u
  <1>3. \A k \in i + 1 .. m : n + k \in n + i + 1 .. n + m /\ u[n + k] = t[k]
    BY <1>1
  <1>4. ASSUME NEW j \in n + i + 1 .. Len(u), u[j] = Appeared
        PROVE  \E k \in n + i + 1 .. j - 1 : u[k] = Disappeared
    <2>1. j - n \in i + 1 .. m /\ n + (j - n) = j
      BY <1>1
    <2>2. PICK k \in i + 1 .. j - n - 1 : t[k] = Disappeared
      BY <1>2, <1>3, <1>4, <2>1
    <2>3. k \in i + 1 .. m /\ n + k \in n + i + 1 .. j - 1
      BY <1>1, <2>1
    <2> QED
      BY <1>3, <2>2, <2>3
  <1>5. is \/ \E k \in n + i + 1 .. Len(u) : u[k] = Disappeared
    BY <1>1, <1>2, <1>3
  <1> QED
    BY <1>4, <1>5 DEF Lasts, n, u

LEMMA LifeTail ==
  ASSUME NEW s \in Seq(News), s # << >>, NEW alive, LifeOK(s, alive)
  PROVE  LifeOK(Tail(s), alive)
  <1>1. \A i \in DOMAIN Tail(s) : i + 1 \in 1 .. Len(s) /\ i + 1 \in DOMAIN s /\ Tail(s)[i] = s[i + 1] /\ i + 1 - 1 = i
    BY TailFacts
  <1>2. ASSUME NEW i \in DOMAIN Tail(s), Granted(Tail(s)[i]) PROVE Lasts(Tail(s), i, alive)
    <2>1. Lasts(s, i + 1, alive)
      BY <1>1, <1>2 DEF LifeOK
    <2>2. Lasts(Tail(s), i + 1 - 1, alive)
      BY <1>1, <2>1, LastsTail
    <2> QED
      BY <1>1, <2>2
  <1> QED
    BY <1>2 DEF LifeOK

LEMMA LifeConcat ==
  ASSUME NEW s \in Seq(News), NEW t \in Seq(News), NEW was, NEW is,
         LifeOK(s, was), was => Lasts(t, 0, is), LifeOK(t, is)
  PROVE  LifeOK(s \o t, is)
  <1>1. ASSUME NEW i \in DOMAIN (s \o t), Granted((s \o t)[i]) PROVE Lasts(s \o t, i, is)
    <2>1. CASE i \in DOMAIN s
      <3>1. Lasts(s, i, was) /\ i \in 0 .. Len(s)
        BY <1>1, <2>1, ConcatPositions, ConcatFacts DEF LifeOK
      <3> QED
        BY <3>1, LastsConcat
    <2>2. CASE \E j \in DOMAIN t : i = Len(s) + j /\ (s \o t)[i] = t[j]
      <3>1. PICK j \in DOMAIN t : i = Len(s) + j /\ (s \o t)[i] = t[j]
        BY <2>2
      <3>2. Lasts(t, j, is)
        BY <1>1, <3>1 DEF LifeOK
      <3> QED
        BY <3>1, <3>2, LastsAfter
    <2> QED
      BY <2>1, <2>2, ConcatPositions
  <1> QED
    BY <1>1 DEF LifeOK

\* Messages that tell nothing of the daemon's life.
LEMMA NothingTold ==
  ASSUME NEW t \in Seq(News), NEW alive \in BOOLEAN,
         \A i \in DOMAIN t : t[i] # Appeared /\ (Granted(t[i]) => alive)
  PROVE  (alive => Lasts(t, 0, alive)) /\ LifeOK(t, alive)
  <1>1. DOMAIN t = 1 .. Len(t) /\ Len(t) \in Nat
    BY LenProperties
  <1>2. ASSUME alive, NEW i \in Nat PROVE Lasts(t, i, alive)
    <2>1. \A j \in i + 1 .. Len(t) : t[j] # Appeared
      BY <1>1
    <2> QED
      BY <1>2, <2>1 DEF Lasts
  <1> QED
    BY <1>1, <1>2 DEF LifeOK

\* What the daemon and the buses send at once.
Failure == [type |-> "BlockedApps", ok |-> FALSE]
Chosen == [type |-> "Select", ok |-> TRUE]
DeathNote == << Disappeared >> \o (IF answer = << >> THEN << >> ELSE << Failure >>)
ToggleNote(a) == [i \in 1 .. matches[daemon] |->
                     [type |-> "AppBlocked", app |-> a, on |-> a \notin blocked]]

LEMMA OneMessage ==
  ASSUME NEW m \in News
  PROVE  << m >> \in Seq(News) /\ DOMAIN << m >> = {1} /\ << m >>[1] = m /\ Len(<< m >>) = 1
  OBVIOUS

LEMMA StartNoteIs ==
  /\ << Appeared, Chosen >> \in Seq(News) /\ DOMAIN << Appeared, Chosen >> = {1, 2}
  /\ << Appeared, Chosen >>[1] = Appeared /\ << Appeared, Chosen >>[2] = Chosen
  /\ Len(<< Appeared, Chosen >>) = 2
  /\ Chosen.type = "Select" /\ Chosen.ok = TRUE
  <1>1. Appeared \in News /\ Chosen \in News
    BY NewsTypes DEF Chosen
  <1>2. Chosen.type = "Select" /\ Chosen.ok = TRUE
    BY DEF Chosen
  <1> QED
    BY <1>1, <1>2

LEMMA DeathNoteIs ==
  /\ DeathNote \in Seq(News) /\ 1 \in DOMAIN DeathNote /\ DeathNote[1] = Disappeared
  /\ \A i \in DOMAIN DeathNote : i # 1 => DeathNote[i] = Failure /\ answer # << >>
  /\ Failure.type = "BlockedApps" /\ Failure.ok = FALSE /\ Failure \in News
  <1> DEFINE d == << Disappeared >>
             f == IF answer = << >> THEN << >> ELSE << Failure >>
  <1>1. Disappeared \in News /\ Failure \in News /\ Failure.type = "BlockedApps" /\ Failure.ok = FALSE
    BY NewsTypes DEF Failure
  <1>2. d \in Seq(News) /\ DOMAIN d = {1} /\ d[1] = Disappeared /\ Len(d) = 1
    BY <1>1, OneMessage
  <1>3. f \in Seq(News) /\ \A i \in DOMAIN f : f[i] = Failure /\ answer # << >>
    BY <1>1
  <1>4. DeathNote = d \o f
    BY DEF DeathNote
  <1> HIDE DEF d, f
  <1>5. DeathNote \in Seq(News) /\ 1 \in DOMAIN DeathNote /\ DeathNote[1] = Disappeared
    BY <1>2, <1>3, <1>4, ConcatFacts, ConcatPositions
  <1>6. ASSUME NEW i \in DOMAIN DeathNote, i # 1
        PROVE  DeathNote[i] = Failure /\ answer # << >>
    <2>1. i \notin DOMAIN d
      BY <1>2, <1>6
    <2>3. \A k \in DOMAIN (d \o f) :
              k \in DOMAIN d \/ \E j \in DOMAIN f : k = Len(d) + j /\ (d \o f)[k] = f[j]
      <3>1. d \in Seq(News) /\ f \in Seq(News)
        BY <1>2, <1>3
      <3> QED
        BY <3>1, ConcatPositions
    <2>2. \/ i \in DOMAIN d
          \/ \E j \in DOMAIN f : i = Len(d) + j /\ (d \o f)[i] = f[j]
      BY <1>4, <2>3
    <2> QED
      BY <1>3, <1>4, <2>1, <2>2
  <1> QED
    BY <1>1, <1>5, <1>6

LEMMA ToggleNoteIs ==
  ASSUME NEW a \in Apps, matches[daemon] \in Nat
  PROVE  /\ ToggleNote(a) \in Seq(News)
         /\ DOMAIN ToggleNote(a) = 1 .. matches[daemon] /\ Len(ToggleNote(a)) = matches[daemon]
         /\ \A i \in DOMAIN ToggleNote(a) :
                ToggleNote(a)[i] = [type |-> "AppBlocked", app |-> a, on |-> a \notin blocked]
  <1> DEFINE m == [type |-> "AppBlocked", app |-> a, on |-> a \notin blocked]
  <1>1. m \in News
    BY NewsTypes
  <1>2. ToggleNote(a) = [i \in 1 .. matches[daemon] |-> m]
    BY DEF ToggleNote
  <1> HIDE DEF m
  <1> QED
    BY <1>1, <1>2 DEF m

\* The steps of the daemon and the buses, on the wire.
BusStep(b) ==
    \/ /\ Answers(b, "HasOwner") /\ Send(b, << [type |-> "Select", ok |-> daemon = b] >>)
       /\ UNCHANGED << daemonVars, told, crossed >>
    \/ /\ Answers(b, "Start") /\ Send(b, << [type |-> "Select", ok |-> daemon = b] >>)
       /\ UNCHANGED << daemonVars, told, crossed >>
    \/ /\ Answers(b, "Start") /\ Started(b) /\ Send(b, << Appeared, Chosen >>)
       /\ UNCHANGED << blocked, answer, overtaken, told >>
    \/ /\ Started(b) /\ Send(b, << Appeared >>)
       /\ UNCHANGED << blocked, answer, overtaken, told, calls >>
    \/ /\ Answers(b, "Register")
       /\ \E ok \in BOOLEAN : /\ Send(b, << [type |-> "Registered", ok |-> ok] >>)
                              /\ ok => daemon = b /\ told' = Subscribed
       /\ told' = told \/ (daemon = b /\ told' = Subscribed)
       /\ UNCHANGED << daemon, blocked, answer, overtaken, crossed >>
    \/ /\ Answers(b, "GetBlocked") /\ Send(b, << Failure >>)
       /\ UNCHANGED << daemon, blocked, answer, overtaken, told, crossed >>
    \/ /\ Answers(b, "GetBlocked") /\ daemon = b /\ UNCHANGED inbox
       /\ answer = << >> /\ answer' = << blocked >> /\ overtaken' = FALSE
       /\ UNCHANGED << daemon, blocked, told, crossed >>

LEMMA DaemonStepIs ==
  ASSUME Types, DaemonStep
  PROVE  \/ \E b \in Buses : BusStep(b)
         \/ /\ answer # << >> /\ daemon \in Buses /\ answer[1] \in SUBSET Apps
            /\ Send(daemon, << [type |-> "BlockedApps", ok |-> TRUE, apps |-> answer[1]] >>)
            /\ answer' = << >> /\ UNCHANGED << daemon, blocked, overtaken, told, calls, crossed >>
         \/ /\ daemon \in Buses /\ daemon' = NoBus /\ blocked' = {} /\ answer' = << >>
            /\ told' = Signal("unregistered") /\ Send(daemon, DeathNote)
            /\ UNCHANGED << calls, overtaken, crossed >>
         \/ /\ daemon \in Buses /\ matches[daemon] \in Nat
            /\ \E a \in Apps :
                  /\ blocked' = IF a \in blocked THEN blocked \ {a} ELSE blocked \cup {a}
                  /\ Send(daemon, ToggleNote(a))
            /\ overtaken' = (overtaken \/ answer # << >>)
            /\ UNCHANGED << daemon, answer, told, calls, crossed >>
  <1>1. daemon \in Buses \cup {NoBus} /\ matches \in [Buses -> Nat] /\ answer \in Seq(SUBSET Apps)
        /\ (answer # << >> => daemon # NoBus)
    BY DEF Types, DbusTypes, DaemonTypes
  <1>2. ASSUME NEW b \in Buses,
               \/ AnswerHasOwner(b) \/ AnswerStart(b) \/ DaemonStarts(b) \/ AnswerRegister(b)
               \/ CopyBlockedApps(b) \/ RefuseRegister(b) \/ RefuseBlockedApps(b)
        PROVE  BusStep(b)
    <2> USE DEF BusStep
    <2>1. CASE AnswerHasOwner(b)
      BY <2>1, Zenon DEF AnswerHasOwner
    <2>2. CASE AnswerStart(b)
      <3>1. CASE Started(b) /\ Send(b, << Signal("Appeared"), [type |-> "Select", ok |-> TRUE] >>)
        BY <2>2, <3>1, Zenon DEF AnswerStart, Appeared, Chosen
      <3>2. CASE Send(b, << [type |-> "Select", ok |-> daemon = b] >>) /\ UNCHANGED << daemon, crossed, used >>
        <4>1. Answers(b, "Start") /\ UNCHANGED << daemonVars, told, crossed >>
          BY <2>2, <3>2 DEF AnswerStart, daemonVars
        <4> QED
          BY <3>2, <4>1, Zenon
      <3> QED
        BY <2>2, <3>1, <3>2, Zenon DEF AnswerStart
    <2>3. CASE DaemonStarts(b)
      <3>1. Started(b) /\ Send(b, << Appeared >>) /\ UNCHANGED << blocked, answer, overtaken, told, calls >>
        BY <2>3 DEF DaemonStarts, Appeared
      <3> QED
        BY <3>1, Zenon
    <2>4. CASE AnswerRegister(b)
      <3>1. /\ Answers(b, "Register") /\ Send(b, << [type |-> "Registered", ok |-> daemon = b] >>)
            /\ (daemon = b) \in BOOLEAN /\ (daemon = b => told' = Subscribed)
            /\ told' = told \/ (daemon = b /\ told' = Subscribed)
            /\ UNCHANGED << daemon, blocked, answer, overtaken, crossed >>
        BY <2>4 DEF AnswerRegister, daemonVars
      <3> QED
        BY <3>1, Zenon
    <2>5. CASE CopyBlockedApps(b) /\ daemon # b
      <3>1. /\ Answers(b, "GetBlocked") /\ Send(b, << Failure >>)
            /\ UNCHANGED << daemon, blocked, answer, overtaken, told, crossed >>
        BY <2>5 DEF CopyBlockedApps, Failure
      <3> QED
        BY <3>1, Zenon
    <2>6. CASE CopyBlockedApps(b) /\ daemon = b
      <3>1. /\ Answers(b, "GetBlocked") /\ UNCHANGED inbox /\ answer = << >>
            /\ answer' = << blocked >> /\ overtaken' = FALSE /\ UNCHANGED << daemon, blocked, told, crossed >>
        BY <2>6 DEF CopyBlockedApps
      <3> QED
        BY <2>6, <3>1, Zenon
    <2>7. CASE RefuseRegister(b)
      <3>1. /\ Answers(b, "Register") /\ Send(b, << [type |-> "Registered", ok |-> FALSE] >>)
            /\ told' = told \/ (daemon = b /\ told' = Subscribed)
            /\ UNCHANGED << daemon, blocked, answer, overtaken, crossed >>
        BY <2>7 DEF RefuseRegister
      <3> QED
        BY <3>1, Zenon
    <2>8. CASE RefuseBlockedApps(b)
      <3>1. /\ Answers(b, "GetBlocked") /\ Send(b, << Failure >>)
            /\ UNCHANGED << daemon, blocked, answer, overtaken, told, crossed >>
        BY <2>8 DEF RefuseBlockedApps, Failure, daemonVars
      <3> QED
        BY <3>1, Zenon
    <2> QED
      BY <1>2, <2>1, <2>2, <2>3, <2>4, <2>5, <2>6, <2>7, <2>8
  <1>3. ASSUME SendBlockedApps
        PROVE  /\ answer # << >> /\ daemon \in Buses /\ answer[1] \in SUBSET Apps
               /\ Send(daemon, << [type |-> "BlockedApps", ok |-> TRUE, apps |-> answer[1]] >>)
               /\ answer' = << >> /\ UNCHANGED << daemon, blocked, overtaken, told, calls, crossed >>
    <2>1. answer[1] \in SUBSET Apps
      BY <1>1, <1>3, TailFacts DEF SendBlockedApps
    <2> QED
      BY <1>1, <1>3, <2>1 DEF SendBlockedApps
  <1>4. ASSUME DaemonDies
        PROVE  /\ daemon \in Buses /\ daemon' = NoBus /\ blocked' = {} /\ answer' = << >>
               /\ told' = Signal("unregistered") /\ Send(daemon, DeathNote)
               /\ UNCHANGED << calls, overtaken, crossed >>
    BY <1>1, <1>4 DEF DaemonDies, DeathNote, Disappeared, Failure
  <1>5. ASSUME NEW a \in Apps, DaemonToggles(a)
        PROVE  /\ daemon \in Buses /\ matches[daemon] \in Nat
               /\ blocked' = IF a \in blocked THEN blocked \ {a} ELSE blocked \cup {a}
               /\ Send(daemon, ToggleNote(a))
               /\ overtaken' = (overtaken \/ answer # << >>)
               /\ UNCHANGED << daemon, answer, told, calls, crossed >>
    BY <1>1, <1>5 DEF DaemonToggles, ToggleNote
  <1> QED
    BY <1>2, <1>3, <1>4, <1>5, Zenon DEF DaemonStep

LEMMA LifeSent ==
  ASSUME Types, LifeInv, NEW b \in Buses, NEW t \in Seq(News), Send(b, t),
         daemon = b => Lasts(t, 0, daemon' = b), LifeOK(t, daemon' = b),
         \A o \in Buses \ {b} : (daemon' = o) = (daemon = o)
  PROVE  LifeInv'
  <1>1. /\ inbox[b] \in Seq(News) /\ inbox'[b] = inbox[b] \o t
        /\ \A o \in Buses \ {b} : inbox'[o] = inbox[o]
    BY SendFacts DEF Types
  <1>2. ASSUME NEW o \in Buses PROVE LifeOK(inbox'[o], daemon' = o)
    <2>1. CASE o = b
      <3>1. LifeOK(inbox[b], daemon = b)
        BY DEF LifeInv
      <3>2. LifeOK(inbox[b] \o t, daemon' = b)
        BY <1>1, <3>1, LifeConcat
      <3> QED
        BY <1>1, <2>1, <3>2
    <2>2. CASE o # b
      <3>1. inbox'[o] = inbox[o] /\ (daemon' = o) = (daemon = o)
        BY <1>1, <2>2
      <3> QED
        BY <3>1 DEF LifeInv
    <2> QED
      BY <2>1, <2>2
  <1> QED
    BY <1>2 DEF LifeInv

\* Messages sent while the daemon stays what it is.
LEMMA LifeKept ==
  ASSUME Types, LifeInv, NEW b \in Buses, NEW t \in Seq(News), Send(b, t), daemon' = daemon,
         \A i \in DOMAIN t : t[i] # Appeared /\ (Granted(t[i]) => daemon = b)
  PROVE  LifeInv'
  <1> DEFINE alive == daemon = b
  <1>1. alive \in BOOLEAN /\ \A i \in DOMAIN t : t[i] # Appeared /\ (Granted(t[i]) => alive)
    OBVIOUS
  <1> HIDE DEF alive
  <1>2. (alive => Lasts(t, 0, alive)) /\ LifeOK(t, alive)
    BY <1>1, NothingTold
  <1> USE DEF alive
  <1>3. daemon = b => Lasts(t, 0, daemon' = b)
    BY <1>2
  <1>4. LifeOK(t, daemon' = b)
    BY <1>2
  <1> QED
    BY <1>3, <1>4, LifeSent

LEMMA LifeReceived ==
  ASSUME Types, LifeInv, NEW b \in Buses, NEW type, Receives(b, type), daemon' = daemon
  PROVE  LifeInv'
  <1>1. /\ inbox[b] \in Seq(News) /\ inbox[b] # << >> /\ inbox'[b] = Tail(inbox[b])
        /\ \A o \in Buses \ {b} : inbox'[o] = inbox[o]
    BY ReceivesFacts DEF Types
  <1>2. ASSUME NEW o \in Buses PROVE LifeOK(inbox'[o], daemon = o)
    <2>1. LifeOK(inbox[o], daemon = o)
      BY DEF LifeInv
    <2>2. CASE o = b
      <3>1. LifeOK(Tail(inbox[b]), daemon = b)
        BY <1>1, <2>1, <2>2, LifeTail
      <3> QED
        BY <1>1, <2>2, <3>1
    <2>3. CASE o # b
      BY <1>1, <2>1, <2>3
    <2> QED
      BY <2>2, <2>3
  <1> QED
    BY <1>2 DEF LifeInv

\* A receive is the D-Bus thread's own.
LEMMA ReceiveStepIs ==
  ASSUME NEW b \in Buses, ReceiveStep(b)
  PROVE  /\ \E type : Receives(b, type)
         /\ UNCHANGED << compositorVars, daemonVars, msgs, shutdown, used, current, locked >>
  BY DEF ReceiveStep, OnBusSelectReply, OnRegisterReply, OnGetBlockedAppsReply, OnAppBlocked,
         OnDisappeared, OnAppeared

\* A daemon starts: what it and the bus say of it.
LEMMA StartTold ==
  /\ LifeOK(<< Appeared >>, TRUE) /\ LifeOK(<< Appeared, Chosen >>, TRUE)
  <1>1. Appeared \in News /\ ~Granted(Appeared)
    BY NewsTypes DEF Appeared, Signal, Granted
  <1>2. << Appeared >>[1] = Appeared /\ DOMAIN << Appeared >> = {1}
    BY <1>1, OneMessage
  <1>3. LifeOK(<< Appeared >>, TRUE)
    BY <1>1, <1>2 DEF LifeOK
  <1> DEFINE t == << Appeared, Chosen >>
  <1>4. DOMAIN t = {1, 2} /\ t[1] = Appeared /\ Len(t) = 2
    BY StartNoteIs
  <1> HIDE DEF t
  <1>5. Lasts(t, 2, TRUE)
    BY <1>4 DEF Lasts
  <1>6. LifeOK(t, TRUE)
    BY <1>1, <1>4, <1>5 DEF LifeOK
  <1> QED
    BY <1>3, <1>6 DEF t

LEMMA DeathTold == Lasts(DeathNote, 0, FALSE) /\ LifeOK(DeathNote, FALSE)
  <1>1. Disappeared # Appeared /\ Failure # Appeared /\ ~Granted(Disappeared) /\ ~Granted(Failure)
    BY DEF Disappeared, Appeared, Signal, Failure, Granted
  <1>2. \A i \in DOMAIN DeathNote : DeathNote[i] \in {Disappeared, Failure}
    BY DeathNoteIs
  <1>3. DOMAIN DeathNote = 1 .. Len(DeathNote) /\ Len(DeathNote) \in Nat
    BY DeathNoteIs, LenProperties
  <1>4. Lasts(DeathNote, 0, FALSE)
    BY <1>1, <1>2, <1>3, DeathNoteIs DEF Lasts
  <1>5. LifeOK(DeathNote, FALSE)
    BY <1>1, <1>2 DEF LifeOK
  <1> QED
    BY <1>4, <1>5

LEMMA LifeNext == Types /\ LifeInv /\ [Next]_vars => LifeInv'
  <1> SUFFICES ASSUME Types, LifeInv, [Next]_vars PROVE LifeInv'
    OBVIOUS
  <1>1. ASSUME UNCHANGED << inbox, daemon >> PROVE LifeInv'
    BY <1>1 DEF LifeInv
  <1>2. CASE CompositorStep \/ LoopStep \/ UNCHANGED vars
    BY <1>1, <1>2, CompositorStepTypes, LoopStepTypes DEF dbusVars, daemonVars, vars
  <1>3. ASSUME NEW b \in Buses, ReceiveStep(b) PROVE LifeInv'
    BY <1>3, ReceiveStepIs, LifeReceived DEF daemonVars
  <1>4. CASE DaemonStep
    <2>1. ASSUME NEW b \in Buses, NEW m \in News, Send(b, << m >>), daemon' = daemon,
                 m # Appeared, Granted(m) => daemon = b
          PROVE  LifeInv'
      <3>1. << m >> \in Seq(News) /\ \A i \in DOMAIN << m >> : << m >>[i] = m
        BY OneMessage
      <3>2. \A i \in DOMAIN << m >> : << m >>[i] # Appeared /\ (Granted(<< m >>[i]) => daemon = b)
        BY <2>1, <3>1
      <3> QED
        BY <2>1, <3>1, <3>2, LifeKept
    <2>2. ASSUME NEW b \in Buses, Started(b), NEW t \in Seq(News), LifeOK(t, TRUE), Send(b, t)
          PROVE  LifeInv'
      <3>1. daemon = NoBus /\ daemon' = b
        BY <2>2 DEF Started
      <3>2. ~(daemon = b) /\ (daemon' = b) = TRUE
        BY <3>1, BusesAre
      <3>3. \A o \in Buses \ {b} : (daemon' = o) = FALSE /\ (daemon = o) = FALSE
        BY <3>1, BusesAre
      <3>4. LifeOK(t, daemon' = b)
        BY <2>2, <3>2
      <3> QED
        BY <2>2, <3>2, <3>3, <3>4, LifeSent
    <2>3. ASSUME NEW b \in Buses, BusStep(b) PROVE LifeInv'
      <3>1. CASE \/ Send(b, << [type |-> "Select", ok |-> daemon = b] >>) /\ UNCHANGED daemon
                 \/ \E ok \in BOOLEAN : /\ Send(b, << [type |-> "Registered", ok |-> ok] >>)
                                        /\ (ok => daemon = b) /\ UNCHANGED daemon
        <4>1. ASSUME NEW ty \in {"Select", "Registered"}, NEW ok \in BOOLEAN, ok => daemon = b
              PROVE  LET m == [type |-> ty, ok |-> ok] IN
                     m \in News /\ m # Appeared /\ (Granted(m) => daemon = b)
          <5> DEFINE m == [type |-> ty, ok |-> ok]
          <5>1. m \in News
            BY NewsTypes
          <5>2. m.type = ty /\ m.ok = ok /\ Appeared.type = "Appeared"
            BY DEF Appeared, Signal
          <5>3. m # Appeared
            BY <5>2
          <5>4. Granted(m) => daemon = b
            BY <4>1, <5>2 DEF Granted
          <5> QED
            BY <5>1, <5>3, <5>4
        <4>2. (daemon = b) \in BOOLEAN
          OBVIOUS
        <4> QED
          BY <2>1, <3>1, <4>1, <4>2
      <3>2. CASE Started(b) /\ (Send(b, << Appeared >>) \/ Send(b, << Appeared, Chosen >>))
        BY <2>2, <3>2, StartTold, StartNoteIs, OneMessage, NewsTypes
      <3>3. CASE Send(b, << Failure >>) /\ UNCHANGED daemon
        <4>1. Failure \in News /\ Failure # Appeared /\ ~Granted(Failure)
          BY DeathNoteIs DEF Failure, Appeared, Signal, Granted
        <4> QED
          BY <2>1, <3>3, <4>1
      <3>4. CASE UNCHANGED << inbox, daemon >>
        BY <1>1, <3>4
      <3> QED
        BY <2>3, <3>1, <3>2, <3>3, <3>4 DEF BusStep, daemonVars
    <2>4. ASSUME daemon \in Buses, answer[1] \in SUBSET Apps, daemon' = daemon,
                 Send(daemon, << [type |-> "BlockedApps", ok |-> TRUE, apps |-> answer[1]] >>)
          PROVE  LifeInv'
      <3> DEFINE m == [type |-> "BlockedApps", ok |-> TRUE, apps |-> answer[1]]
      <3>1. m \in News /\ m # Appeared
        BY <2>4, NewsTypes DEF Appeared, Signal
      <3> QED
        BY <2>1, <2>4, <3>1
    <2>5. ASSUME daemon \in Buses, daemon' = NoBus, Send(daemon, DeathNote) PROVE LifeInv'
      <3>1. (daemon' = daemon) = FALSE
        BY <2>5, BusesAre
      <3>2. \A o \in Buses \ {daemon} : (daemon' = o) = (daemon = o)
        BY <2>5, BusesAre
      <3>3. Lasts(DeathNote, 0, daemon' = daemon) /\ LifeOK(DeathNote, daemon' = daemon)
        BY <3>1, DeathTold
      <3> QED
        BY <2>5, <3>2, <3>3, DeathNoteIs, LifeSent
    <2>6. ASSUME NEW a \in Apps, daemon \in Buses, matches[daemon] \in Nat, daemon' = daemon,
                 Send(daemon, ToggleNote(a))
          PROVE  LifeInv'
      <3> DEFINE m == [type |-> "AppBlocked", app |-> a, on |-> a \notin blocked]
      <3>1. m # Appeared /\ ~Granted(m)
        BY DEF Appeared, Signal, Granted
      <3>2. ToggleNote(a) \in Seq(News) /\ \A i \in DOMAIN ToggleNote(a) : ToggleNote(a)[i] = m
        BY <2>6, ToggleNoteIs
      <3> HIDE DEF m
      <3>3. \A i \in DOMAIN ToggleNote(a) : /\ ToggleNote(a)[i] # Appeared
                                            /\ Granted(ToggleNote(a)[i]) => daemon = daemon
        BY <3>1, <3>2
      <3> QED
        BY <2>6, <3>2, <3>3, LifeKept
    <2> QED
      BY <1>4, <2>3, <2>4, <2>5, <2>6, DaemonStepIs
  <1> QED
    BY <1>2, <1>3, <1>4, NextIs
-----------------------------------------------------------------------------
(* One bus is the daemon's home *)

LEMMA HasTail ==
  ASSUME NEW s \in Seq(News), s # << >>, NEW m, Has(s, m), s[1] # m
  PROVE  Has(Tail(s), m)
  <1>1. PICK i \in DOMAIN s : s[i] = m
    BY DEF Has
  <1>2. /\ Len(s) \in Nat \ {0} /\ DOMAIN s = 1 .. Len(s) /\ DOMAIN Tail(s) = 1 .. Len(s) - 1
        /\ \A j \in 1 .. Len(s) - 1 : Tail(s)[j] = s[j + 1]
    BY TailFacts
  <1>3. i - 1 \in 1 .. Len(s) - 1 /\ (i - 1) + 1 = i
    BY <1>1, <1>2
  <1>4. Tail(s)[i - 1] = m
    BY <1>1, <1>2, <1>3
  <1> QED
    BY <1>2, <1>3, <1>4 DEF Has

LEMMA HasConcat ==
  ASSUME NEW s \in Seq(News), NEW t \in Seq(News), NEW m, Has(s, m) \/ Has(t, m)
  PROVE  Has(s \o t, m)
  <1>1. CASE Has(s, m)
    <2>1. PICK i \in DOMAIN s : s[i] = m
      BY <1>1 DEF Has
    <2> QED
      BY <2>1, ConcatPositions DEF Has
  <1>2. CASE Has(t, m)
    <2>1. PICK i \in DOMAIN t : t[i] = m
      BY <1>2 DEF Has
    <2>2. Len(s) + i \in DOMAIN (s \o t) /\ (s \o t)[Len(s) + i] = m
      BY <2>1, ConcatPositions
    <2> QED
      BY <2>2 DEF Has
  <1> QED
    BY <1>1, <1>2

LEMMA ExpectedTail ==
  ASSUME NEW s \in Seq(News), s # << >>, s[1] # Appeared, NEW here, Expected(s, here)
  PROVE  Expected(Tail(s), here)
  <1> DEFINE t == Tail(s)
             n == Len(s)
  <1>1. /\ n \in Nat \ {0} /\ DOMAIN s = 1 .. n /\ DOMAIN t = 1 .. n - 1 /\ Len(t) = n - 1
        /\ \A j \in 1 .. n - 1 : t[j] = s[j + 1]
    BY TailFacts
  <1> HIDE DEF t
  <1>2. ASSUME NEW j \in 2 .. n PROVE j - 1 \in 1 .. n - 1 /\ t[j - 1] = s[j]
    <2>1. j - 1 \in 1 .. n - 1 /\ (j - 1) + 1 = j
      BY <1>1
    <2> QED
      BY <1>1, <2>1
  <1>3. ASSUME NEW i \in DOMAIN t, t[i] = Accepted, ~here
        PROVE  \/ \E j \in 1 .. i - 1 : t[j] = Appeared
               \/ \E j \in i + 1 .. Len(t) : t[j] = Disappeared
    <2>1. i \in 1 .. n - 1 /\ i + 1 \in DOMAIN s /\ s[i + 1] = Accepted
      BY <1>1, <1>3
    <2>2. CASE \E j \in 1 .. i + 1 - 1 : s[j] = Appeared
      <3>1. PICK j \in 1 .. i + 1 - 1 : s[j] = Appeared
        BY <2>2
      <3>2. j # 1
        BY <3>1
      <3>3. j \in 2 .. n /\ j - 1 \in 1 .. i - 1
        BY <1>1, <2>1, <3>2
      <3> QED
        BY <1>2, <3>1, <3>3
    <2>3. CASE \E j \in i + 1 + 1 .. n : s[j] = Disappeared
      <3>1. PICK j \in i + 1 + 1 .. n : s[j] = Disappeared
        BY <2>3
      <3>3. j \in 2 .. n /\ j - 1 \in i + 1 .. n - 1
        BY <1>1, <2>1
      <3> QED
        BY <1>1, <1>2, <3>1, <3>3
    <2> QED
      BY <1>3, <2>1, <2>2, <2>3 DEF Expected
  <1> QED
    BY <1>3 DEF Expected, t

LEMMA ExpectedConcat ==
  ASSUME NEW s \in Seq(News), NEW t \in Seq(News), NEW here, Expected(s, here),
         \A i \in DOMAIN t : t[i] = Accepted => here \/ Has(s, Appeared)
  PROVE  Expected(s \o t, here)
  <1> DEFINE n == Len(s)
             u == s \o t
  <1>1. /\ n \in Nat /\ DOMAIN s = 1 .. n /\ Len(u) \in Nat /\ n <= Len(u)
        /\ \A j \in 1 .. n : u[j] = s[j]
    BY ConcatFacts
  <1>2. \A i \in DOMAIN u : \/ i \in DOMAIN s
                            \/ \E j \in DOMAIN t : i = n + j /\ u[i] = t[j]
    BY ConcatPositions
  <1>3. \A j \in DOMAIN t : j \in Nat \ {0}
    BY ConcatFacts
  <1> HIDE DEF n, u
  <1>4. ASSUME NEW i \in DOMAIN u, u[i] = Accepted, ~here
        PROVE  \/ \E j \in 1 .. i - 1 : u[j] = Appeared
               \/ \E j \in i + 1 .. Len(u) : u[j] = Disappeared
    <2>1. CASE i \in DOMAIN s
      <3>1. i \in 1 .. n /\ s[i] = Accepted
        BY <1>1, <1>4, <2>1
      <3>2. \/ \E j \in 1 .. i - 1 : s[j] = Appeared
            \/ \E j \in i + 1 .. n : s[j] = Disappeared
        BY <1>4, <2>1, <3>1 DEF Expected, n
      <3>3. \A j \in 1 .. i - 1 : u[j] = s[j]
        BY <1>1, <3>1
      <3>4. \A j \in i + 1 .. n : j \in i + 1 .. Len(u) /\ u[j] = s[j]
        BY <1>1, <3>1
      <3> QED
        BY <3>2, <3>3, <3>4
    <2>2. CASE \E j \in DOMAIN t : i = n + j /\ u[i] = t[j]
      <3>1. PICK j \in DOMAIN t : i = n + j /\ u[i] = t[j]
        BY <2>2
      <3>2. PICK k \in DOMAIN s : s[k] = Appeared
        BY <1>4, <3>1 DEF Has
      <3>3. k \in 1 .. n /\ k \in 1 .. i - 1
        BY <1>1, <1>3, <3>1, <3>2
      <3> QED
        BY <1>1, <3>2, <3>3
    <2> QED
      BY <1>2, <2>1, <2>2
  <1> QED
    BY <1>4 DEF Expected, u

LEMMA LastsHas ==
  ASSUME NEW s \in Seq(News), NEW i \in Nat, Lasts(s, i, FALSE)
  PROVE  Has(s, Disappeared)
  <1>1. PICK k \in i + 1 .. Len(s) : s[k] = Disappeared
    BY DEF Lasts
  <1>2. k \in DOMAIN s
    BY LenProperties
  <1> QED
    BY <1>1, <1>2 DEF Has

LEMMA QuietHas ==
  ASSUME NEW o, Quiet(o), NEW m, m.type # "Select"
  PROVE  ~Has(inbox[o], m)
  BY DEF Quiet, Has

LEMMA LifeTypes ==
  /\ Appeared.type = "Appeared" /\ Disappeared.type = "Disappeared"
  /\ Accepted.type = "Registered" /\ Accepted.ok = TRUE
  /\ Appeared # Disappeared /\ Accepted # Appeared /\ Accepted # Disappeared
  <1>1. Appeared.type = "Appeared" /\ Disappeared.type = "Disappeared" /\ Accepted.type = "Registered"
        /\ Accepted.ok = TRUE
    BY DEF Appeared, Disappeared, Accepted, Signal
  <1> QED
    BY <1>1

\* The calls of a registration are none but those there were.
CallsShrink == \A o \in Buses, k \in {"Register", "GetBlocked"} :
                   calls'[o][k] \in Nat /\ calls'[o][k] <= calls[o][k]

\* Messages join the ones from home.
LEMMA HomeSent ==
  ASSUME Types, NEW h \in Buses, Home(h), NEW t \in Seq(News), Send(h, t),
         UNCHANGED << registered, bus >>, daemon' \in {h, NoBus}, CallsShrink,
         daemon = h => Lasts(t, 0, daemon' = h),
         daemon' = h => daemon = h \/ Has(t, Appeared),
         \A i \in DOMAIN t : t[i] = Accepted => bus = h \/ Has(inbox[h], Appeared),
         \A i \in DOMAIN t : t[i].type = "Registered" => calls[h]["Register"] > 0
  PROVE  Home(h)'
  <1>1. /\ inbox[h] \in Seq(News) /\ inbox'[h] = inbox[h] \o t
        /\ \A o \in Buses \ {h} : inbox'[o] = inbox[o]
    BY SendFacts DEF Types
  <1>2. ASSUME NEW o \in Buses \ {h} PROVE Quiet(o)'
    <2>1. Quiet(o) /\ inbox'[o] = inbox[o]
      BY <1>1 DEF Home
    <2>2. calls'[o]["Register"] = 0 /\ calls'[o]["GetBlocked"] = 0
      BY <2>1 DEF Quiet, CallsShrink
    <2> QED
      BY <2>1, <2>2 DEF Quiet
  <1>3. registered => Lasts(inbox'[h], 0, daemon' = h)
    <2> SUFFICES ASSUME registered PROVE Lasts(inbox[h] \o t, 0, daemon' = h)
      BY <1>1
    <2>1. Lasts(inbox[h], 0, daemon = h)
      BY DEF Home, Registration
    <2>2. 0 \in 0 .. Len(inbox[h])
      BY <1>1, LenProperties
    <2> QED
      BY <1>1, <2>1, <2>2, LastsConcat
  <1>4. \A m : Has(inbox[h], m) \/ Has(t, m) => Has(inbox'[h], m)
    BY <1>1, HasConcat
  <1>5. Expected(inbox'[h], bus = h)
    <2>1. Expected(inbox[h], bus = h)
      BY DEF Home, Registration
    <2> QED
      BY <1>1, <2>1, ExpectedConcat
  <1>6. Registering(h)' => Registering(h)
    <2>1. calls'[h]["Register"] > 0 => calls[h]["Register"] > 0
      <3>1. calls \in [Buses -> [CallKinds -> Nat]] /\ "Register" \in CallKinds
        BY KindsAre DEF Types, WireTypes
      <3>2. calls[h]["Register"] \in Nat /\ calls'[h]["Register"] \in Nat
            /\ calls'[h]["Register"] <= calls[h]["Register"]
        BY <3>1 DEF CallsShrink
      <3> QED
        BY <3>2
    <2>2. ASSUME NEW i \in DOMAIN inbox'[h], inbox'[h][i].type = "Registered"
          PROVE  Registering(h)
      <3>1. CASE i \in DOMAIN inbox[h]
        BY <1>1, <2>2, <3>1, ConcatPositions DEF Registering
      <3>2. CASE \E j \in DOMAIN t : inbox'[h][i] = t[j]
        BY <2>2, <3>2 DEF Registering
      <3> QED
        BY <1>1, <3>1, <3>2, ConcatPositions
    <2> QED
      BY <2>1, <2>2 DEF Registering
  <1>7. calls'[h]["Register"] > 0 => calls[h]["Register"] > 0
    <2>1. calls \in [Buses -> [CallKinds -> Nat]] /\ "Register" \in CallKinds
      BY KindsAre DEF Types, WireTypes
    <2>2. calls[h]["Register"] \in Nat /\ calls'[h]["Register"] \in Nat
          /\ calls'[h]["Register"] <= calls[h]["Register"]
      BY <2>1 DEF CallsShrink
    <2> QED
      BY <2>2
  <1>8. Registration(h)'
    <2>1. Registration(h)
      BY DEF Home
    <2>2. registered' => Lasts(inbox'[h], 0, daemon' = h)
      BY <1>3
    <2>3. registered' => bus' = h \/ Has(inbox'[h], Disappeared)
      BY <1>4, <2>1 DEF Registration
    <2>4. calls'[h]["Register"] > 0 /\ daemon' = h => bus' = h \/ Has(inbox'[h], Appeared)
      BY <1>4, <1>7, <2>1 DEF Registration
    <2>5. Registering(h)' => bus' \in {h, NoBus}
      BY <1>6, <2>1 DEF Registration
    <2> QED
      BY <1>5, <2>2, <2>3, <2>4, <2>5 DEF Registration
  <1> QED
    BY <1>2, <1>8 DEF Home

\* The other bus goes on with the selection, or nothing happens to either.
LEMMA HomeElsewhere ==
  ASSUME Types, NEW h \in Buses, Home(h), UNCHANGED << registered, bus, daemon >>, CallsShrink,
         inbox'[h] = inbox[h],
         \A o \in Buses \ {h} : \A i \in DOMAIN inbox'[o] : inbox'[o][i].type = "Select"
  PROVE  Home(h)'
  <1>1. ASSUME NEW o \in Buses \ {h} PROVE Quiet(o)'
    <2>1. calls'[o]["Register"] = 0 /\ calls'[o]["GetBlocked"] = 0
      BY DEF Home, Quiet, CallsShrink
    <2> QED
      BY <2>1 DEF Quiet
  <1>2. calls'[h]["Register"] > 0 => calls[h]["Register"] > 0
    <2>1. calls \in [Buses -> [CallKinds -> Nat]] /\ "Register" \in CallKinds
      BY KindsAre DEF Types, WireTypes
    <2>2. calls[h]["Register"] \in Nat /\ calls'[h]["Register"] \in Nat
          /\ calls'[h]["Register"] <= calls[h]["Register"]
      BY <2>1 DEF CallsShrink
    <2> QED
      BY <2>2
  <1>3. Registering(h)' => Registering(h)
    BY <1>2 DEF Registering
  <1>4. Registration(h)'
    BY <1>2, <1>3 DEF Home, Registration
  <1> QED
    BY <1>1, <1>4 DEF Home

\* The next message from home is received.
LEMMA HomeReceived ==
  ASSUME Types, NEW h \in Buses, Home(h), NEW type, Receives(h, type), daemon' = daemon,
         bus' = h \/ (bus' = bus /\ type # "Appeared"),
         registered' => Lasts(Tail(inbox[h]), 0, daemon = h),
         registered' => bus' = h \/ Has(Tail(inbox[h]), Disappeared),
         \A o \in Buses \ {h}, k \in {"Register", "GetBlocked"} : calls'[o][k] = calls[o][k],
         calls'[h]["Register"] > 0 => calls[h]["Register"] > 0 \/ bus' = h
  PROVE  Home(h)'
  <1>1. /\ inbox[h] \in Seq(News) /\ inbox[h] # << >> /\ inbox'[h] = Tail(inbox[h])
        /\ Head(inbox[h]).type = type /\ \A o \in Buses \ {h} : inbox'[o] = inbox[o]
    BY ReceivesFacts DEF Types
  <1>2. /\ inbox[h][1].type = type
        /\ \A i \in DOMAIN inbox'[h] : i + 1 \in DOMAIN inbox[h] /\ inbox'[h][i] = inbox[h][i + 1]
    BY <1>1, TailFacts
  <1>3. ASSUME NEW o \in Buses \ {h} PROVE Quiet(o)'
    <2>1. Quiet(o) /\ inbox'[o] = inbox[o] /\ calls'[o]["Register"] = calls[o]["Register"]
          /\ calls'[o]["GetBlocked"] = calls[o]["GetBlocked"]
      BY <1>1 DEF Home
    <2> QED
      BY <2>1 DEF Quiet
  <1>4. Registration(h)
    BY DEF Home
  <1>5. CASE bus' = h
    <2>1. Expected(inbox'[h], bus' = h)
      BY <1>5 DEF Expected
    <2>2. Registration(h)'
      BY <1>1, <1>5, <2>1 DEF Registration
    <2> QED
      BY <1>3, <2>2 DEF Home
  <1>6. CASE bus' # h
    <2>1. bus' = bus /\ inbox[h][1] # Appeared
      BY <1>2, <1>6, LifeTypes
    <2>2. Expected(inbox'[h], bus = h)
      BY <1>1, <1>4, <2>1, ExpectedTail DEF Registration
    <2>3. calls'[h]["Register"] > 0 /\ daemon' = h => bus' = h \/ Has(inbox'[h], Appeared)
      BY <1>1, <1>4, <1>6, <2>1, HasTail DEF Registration
    <2>4. Registering(h)' => bus' \in {h, NoBus}
      <3>1. Registering(h)' => Registering(h)
        BY <1>2, <1>6 DEF Registering
      <3> QED
        BY <1>4, <2>1, <3>1 DEF Registration
    <2>5. Registration(h)'
      BY <1>1, <2>1, <2>2, <2>3, <2>4 DEF Registration
    <2> QED
      BY <1>3, <2>5 DEF Home
  <1> QED
    BY <1>5, <1>6

\* Crossed news stays crossed.
LEMMA CrossedStays == [Next]_vars /\ Types /\ ~crossed' => ~crossed
  <1> SUFFICES ASSUME [Next]_vars, Types, crossed PROVE crossed'
    OBVIOUS
  <1>1. CASE CompositorStep \/ LoopStep \/ UNCHANGED vars
    BY <1>1, CompositorStepTypes, LoopStepTypes DEF dbusVars, vars
  <1>2. ASSUME NEW b \in Buses, ReceiveStep(b) PROVE crossed'
    BY <1>2 DEF ReceiveStep, OnBusSelectReply, FinishBusSelection, OnRegisterReply,
                OnGetBlockedAppsReply, OnAppBlocked, OnDisappeared, OnAppeared
  <1>3. CASE DaemonStep
    BY <1>3, DaemonStepIs DEF BusStep, Started, daemonVars
  <1> QED
    BY <1>1, <1>2, <1>3, NextIs

\* A message of the selection is received.
LEMMA HomeSelects ==
  ASSUME Types, SelectInv, LifeInv, LifeInv', NEW b \in Buses, OnBusSelectReply(b), ~crossed',
         NEW h \in Buses, Home(h)
  PROVE  Home(h)'
  <1> DEFINE m == Head(inbox[b])
             next == IF m.ok THEN OnSuccess[select] ELSE OnFailure[select]
  <1>1. /\ inbox[b] \in Seq(News) /\ inbox[b] # << >> /\ m.type = "Select" /\ m \in News
        /\ inbox'[b] = Tail(inbox[b]) /\ \A o \in Buses \ {b} : inbox'[o] = inbox[o]
        /\ inbox' \in [Buses -> Seq(News)]
    BY ReceivesFacts DEF OnBusSelectReply, Types
  <1>2. /\ 1 \in DOMAIN inbox[b] /\ inbox[b][1] = m /\ 1 \in 1 .. Len(inbox[b])
        /\ \A i \in DOMAIN inbox'[b] : i + 1 \in DOMAIN inbox[b] /\ inbox'[b][i] = inbox[b][i + 1]
    BY <1>1, TailFacts
  <1>3. select \in DOMAIN OnSuccess /\ StepCall(select)[1] = b
    <2>1. select # "Idle" /\ StepCall(select)[1] = b
      BY <1>1, <1>2 DEF SelectInv
    <2> QED
      BY <2>1 DEF Types, DbusTypes
  <1>4. /\ UNCHANGED << registered, daemon >> /\ Receives(b, "Select")
        /\ IF next \in Buses \cup {NoBus} THEN FinishBusSelection(next)
           ELSE /\ calls' = Calling(calls, StepCall(next)[1], StepCall(next)[2])
                /\ UNCHANGED << bus, crossed >>
    BY DEF OnBusSelectReply, daemonVars
  <1>5. m.type # "Appeared" /\ m # Disappeared /\ m # Appeared
    BY <1>1, LifeTypes
  <1>6. next \in Buses => m.ok /\ next = b
    <2>1. CASE ~m.ok
      <3>1. next \in DOMAIN OnSuccess \cup {NoBus} /\ next = OnFailure[select]
        BY <1>3, <2>1, StepTypes
      <3>2. DOMAIN OnSuccess \cap Buses = {}
        BY DEF OnSuccess, Buses
      <3> QED
        BY <3>1, <3>2, BusesAre
    <2>2. CASE m.ok
      BY <1>3, <2>2 DEF OnSuccess, StepCall, Buses
    <2> QED
      BY <2>1, <2>2
  <1> HIDE DEF m, next
  <1>7. calls \in [Buses -> [CallKinds -> Nat]] /\ bus \in Buses \cup {NoBus}
    BY DEF Types, DbusTypes, WireTypes
  <1>14. "Register" \in CallKinds /\ "GetBlocked" \in CallKinds
         /\ "Register" \notin SelectKinds /\ "GetBlocked" \notin SelectKinds
    BY DEF CallKinds, SelectKinds
  <1>8. registered => Lasts(inbox[h], 0, daemon = h)
    BY DEF Home, Registration
  <1>9. registered => Lasts(inbox'[h], 0, daemon = h)
    <2>1. CASE b = h
      BY <1>1, <1>2, <1>5, <1>8, <2>1, LastsFromHead
    <2>2. CASE b # h
      BY <1>1, <1>8, <2>2
    <2> QED
      BY <2>1, <2>2
  <1>10. \A o \in Buses \ {h} : \A i \in DOMAIN inbox'[o] : inbox'[o][i].type = "Select"
    <2> SUFFICES ASSUME NEW o \in Buses \ {h}, NEW i \in DOMAIN inbox'[o]
                 PROVE  inbox'[o][i].type = "Select"
      OBVIOUS
    <2>1. Quiet(o)
      BY DEF Home
    <2>2. CASE o = b
      BY <1>2, <2>1, <2>2 DEF Quiet
    <2>3. CASE o # b
      <3>1. inbox'[o] = inbox[o]
        BY <1>1, <2>3
      <3> QED
        BY <2>1, <3>1 DEF Quiet
    <2> QED
      BY <2>2, <2>3
  <1>11. CASE next \in Buses
    <2>1. bus' = next /\ calls' = Calling(calls, next, "Register") /\ next = b /\ m.ok
      BY <1>4, <1>6, <1>11, BusesAre DEF FinishBusSelection, SetupDaemonProxy
    <2>2. b = h
      <3> SUFFICES ASSUME b # h PROVE FALSE
        OBVIOUS
      <3>1. Quiet(b) /\ daemon # b
        BY BusesAre DEF Home
      <3>2. Granted(inbox[b][1])
        BY <1>1, <1>2, <2>1 DEF Granted
      <3>3. Lasts(inbox[b], 1, daemon = b)
        BY <1>2, <3>2 DEF LifeInv, LifeOK
      <3>4. Lasts(inbox[b], 1, FALSE)
        <4>1. (daemon = b) = FALSE
          BY <3>1
        <4> QED
          BY <3>3, <4>1
      <3>5. Has(inbox[b], Disappeared)
        BY <1>1, <3>4, LastsHas
      <3> QED
        BY <3>1, <3>5, QuietHas, LifeTypes
    <2>3. \A o \in Buses, k \in CallKinds : calls'[o][k] =
              IF o = h /\ k = "Register" THEN calls[o][k] + 1 ELSE calls[o][k]
      <3>1. calls' = Calling(calls, h, "Register")
        BY <2>1, <2>2
      <3>2. \A o \in Buses, k \in CallKinds : Calling(calls, h, "Register")[o][k] =
                IF o = h /\ k = "Register" THEN calls[o][k] + 1 ELSE calls[o][k]
        BY <1>7, <1>14, CallingType
      <3> QED
        BY <3>1, <3>2
    <2>4. \A o \in Buses \ {h}, k \in {"Register", "GetBlocked"} : calls'[o][k] = calls[o][k]
      BY <1>14, <2>3
    <2>5. registered' => Lasts(Tail(inbox[h]), 0, daemon = h)
      BY <1>1, <1>4, <1>9, <2>2
    <2> QED
      BY <1>4, <2>1, <2>2, <2>4, <2>5, HomeReceived
  <1>12. CASE next = NoBus
    <2>1. /\ bus' = NoBus /\ UNCHANGED calls /\ daemon = NoBus
      BY <1>4, <1>12 DEF FinishBusSelection
    <2>2. (daemon' = h) = FALSE /\ (daemon = h) = FALSE /\ daemon' # h
      BY <1>4, <2>1, BusesAre
    <2>3. registered' => Lasts(inbox'[h], 0, FALSE)
      BY <1>4, <1>9, <2>2
    <2>4. inbox'[h] \in Seq(News)
      BY <1>1
    <2>5. registered' => Has(inbox'[h], Disappeared)
      BY <2>3, <2>4, LastsHas
    <2>6. Expected(inbox'[h], bus' = h)
      <3> SUFFICES ASSUME NEW i \in DOMAIN inbox'[h], inbox'[h][i] = Accepted
                   PROVE  \E j \in i + 1 .. Len(inbox'[h]) : inbox'[h][j] = Disappeared
        BY DEF Expected
      <3>1. Granted(inbox'[h][i])
        BY LifeTypes DEF Granted
      <3>2. Lasts(inbox'[h], i, daemon' = h)
        BY <3>1 DEF LifeInv, LifeOK
      <3> QED
        BY <2>2, <3>2 DEF Lasts
    <2>7. Registration(h)'
      BY <2>1, <2>2, <2>3, <2>5, <2>6 DEF Registration
    <2>8. \A o \in Buses \ {h} : Quiet(o)'
      BY <1>10, <2>1 DEF Home, Quiet
    <2> QED
      BY <1>4, <2>1, <2>7, <2>8 DEF Home
  <1>13. CASE next \notin Buses \cup {NoBus}
    <2>1. /\ calls' = Calling(calls, StepCall(next)[1], StepCall(next)[2]) /\ bus' = bus
      BY <1>4, <1>13
    <2>2. \A o \in Buses, k \in {"Register", "GetBlocked"} : calls'[o][k] = calls[o][k]
      <3> DEFINE p == StepCall(next)[1]
                 q == StepCall(next)[2]
      <3>1. p \in Buses /\ q \in CallKinds /\ q \notin {"Register", "GetBlocked"}
        BY <1>14, StepCallTypes, KindsAre
      <3>2. calls' = Calling(calls, p, q)
        BY <2>1
      <3> HIDE DEF p, q
      <3>3. \A o \in Buses, k \in CallKinds : calls'[o][k] =
                IF o = p /\ k = q THEN calls[o][k] + 1 ELSE calls[o][k]
        BY <1>7, <3>1, <3>2, CallingType
      <3>4. \A k \in {"Register", "GetBlocked"} : k \in CallKinds /\ k # q
        BY <1>14, <3>1
      <3> QED
        BY <3>3, <3>4
    <2>3. CASE b = h
      <3>1. registered' => Lasts(Tail(inbox[h]), 0, daemon = h)
        BY <1>1, <1>4, <1>9, <2>3
      <3>2. registered' => bus' = h \/ Has(Tail(inbox[h]), Disappeared)
        BY <1>1, <1>2, <1>4, <1>5, <2>1, <2>3, HasTail DEF Home, Registration
      <3>3. Receives(h, "Select")
        BY <1>4, <2>3
      <3> QED
        BY <1>4, <2>1, <2>2, <3>1, <3>2, <3>3, HomeReceived
    <2>4. CASE b # h
      <3>1. CallsShrink
        BY <1>7, <1>14, <2>2 DEF CallsShrink
      <3> QED
        BY <1>1, <1>4, <1>10, <2>1, <2>4, <3>1, HomeElsewhere
    <2> QED
      BY <2>3, <2>4
  <1> QED
    BY <1>11, <1>12, <1>13

\* Another message is received.
LEMMA HomeHears ==
  ASSUME Types, LifeInv, NEW b \in Buses, ReceiveStep(b), ~OnBusSelectReply(b),
         NEW h \in Buses, Home(h)
  PROVE  Home(h)'
  <1> DEFINE m == Head(inbox[b])
  <1>1. PICK type : Receives(b, type) /\ type # "Select"
    BY DEF ReceiveStep, OnRegisterReply, OnGetBlockedAppsReply, OnAppBlocked, OnDisappeared, OnAppeared
  <1>2. /\ inbox[b] \in Seq(News) /\ inbox[b] # << >> /\ m.type = type /\ m \in News
        /\ inbox'[b] = Tail(inbox[b]) /\ m = inbox[b][1]
        /\ 1 \in DOMAIN inbox[b] /\ 1 \in 1 .. Len(inbox[b])
    BY <1>1, ReceivesFacts, TailFacts DEF Types
  <1>3. b = h
    <2> SUFFICES ASSUME b # h PROVE FALSE
      OBVIOUS
    <2>1. Quiet(b)
      BY DEF Home
    <2> QED
      BY <1>1, <1>2, <2>1 DEF Quiet
  <1>4. daemon' = daemon /\ Registration(h)
    BY ReceiveStepIs DEF daemonVars, Home
  <1> HIDE DEF m
  <1>5. m # Disappeared => (registered => Lasts(Tail(inbox[h]), 0, daemon = h))
                          /\ (registered => m # Appeared)
    BY <1>2, <1>3, <1>4, LastsFromHead DEF Registration
  <1>6. m # Disappeared => (registered => bus = h \/ Has(Tail(inbox[h]), Disappeared))
    BY <1>2, <1>3, <1>4, HasTail DEF Registration
  <1>7. type = "Disappeared" <=> m = Disappeared
    BY <1>2, NewsFields
  <1>8. type = "Appeared" <=> m = Appeared
    BY <1>2, NewsFields
  <1>9. calls \in [Buses -> [CallKinds -> Nat]] /\ bus \in Buses \cup {NoBus}
        /\ "Register" \in CallKinds /\ "GetBlocked" \in CallKinds
    BY KindsAre DEF Types, DbusTypes, WireTypes
  <1>10. ASSUME NEW kind \in {"Register", "GetBlocked"}, calls' = Calling(calls, h, kind) \/ calls' = calls
         PROVE  /\ \A o \in Buses \ {h}, k \in {"Register", "GetBlocked"} : calls'[o][k] = calls[o][k]
                /\ kind = "GetBlocked" => calls'[h]["Register"] = calls[h]["Register"]
    <2>1. \A o \in Buses, k \in CallKinds : Calling(calls, h, kind)[o][k] =
              IF o = h /\ k = kind THEN calls[o][k] + 1 ELSE calls[o][k]
      BY <1>9, CallingType
    <2> QED
      BY <1>9, <1>10, <2>1
  <1>11. CASE OnRegisterReply(b)
    <2>1. /\ Receives(h, "Registered") /\ bus' = bus
          /\ registered' = (registered \/ m.ok)
          /\ calls' = calls \/ (bus # NoBus /\ calls' = Calling(calls, bus, "GetBlocked"))
      <3>1. registered \in BOOLEAN
        BY DEF Types, DbusTypes
      <3> QED
        BY <1>3, <1>11, <3>1 DEF OnRegisterReply, m
    <2>2. type = "Registered"
      BY <1>2, <1>3, <2>1 DEF Receives, m
    <2>3. bus \in {h, NoBus}
      BY <1>2, <1>3, <1>4, <2>2 DEF Registration, Registering
    <2>4. calls' = calls \/ calls' = Calling(calls, h, "GetBlocked")
      BY <2>1, <2>3
    <2>5. m.ok => Lasts(Tail(inbox[h]), 0, daemon = h)
      <3> SUFFICES ASSUME m.ok PROVE Lasts(Tail(inbox[h]), 0, daemon = h)
        OBVIOUS
      <3>1. Granted(inbox[h][1])
        BY <1>2, <1>3, <2>2 DEF Granted
      <3>2. Lasts(inbox[h], 1, daemon = h)
        BY <1>2, <1>3, <3>1 DEF LifeInv, LifeOK
      <3>3. Lasts(Tail(inbox[h]), 1 - 1, daemon = h)
        BY <1>2, <1>3, <3>2, LastsTail
      <3> QED
        BY <3>3
    <2>6. m.ok => bus = h \/ Has(Tail(inbox[h]), Disappeared)
      <3> SUFFICES ASSUME m.ok, bus # h PROVE Has(Tail(inbox[h]), Disappeared)
        OBVIOUS
      <3>1. inbox[h][1] = Accepted
        BY <1>2, <1>3, <2>2, NewsFields
      <3>2. \/ \E j \in 1 .. 1 - 1 : inbox[h][j] = Appeared
            \/ \E j \in 1 + 1 .. Len(inbox[h]) : inbox[h][j] = Disappeared
        <4>1. Expected(inbox[h], bus = h) /\ 1 \in DOMAIN inbox[h]
          BY <1>2, <1>3, <1>4 DEF Registration
        <4> QED
          BY <3>1, <4>1 DEF Expected
      <3>3. PICK j \in 2 .. Len(inbox[h]) : inbox[h][j] = Disappeared
        BY <3>2
      <3>4. Has(inbox[h], Disappeared)
        BY <1>2, <1>3, <3>3, TailFacts DEF Has
      <3>5. inbox[h][1] # Disappeared
        BY <3>1, LifeTypes
      <3> QED
        BY <1>2, <1>3, <3>4, <3>5, HasTail
    <2>7. m # Disappeared /\ "Registered" # "Appeared"
      BY <1>7, <2>2
    <2>8. registered' => Lasts(Tail(inbox[h]), 0, daemon = h)
      BY <1>5, <2>1, <2>5, <2>7
    <2>9. registered' => bus' = h \/ Has(Tail(inbox[h]), Disappeared)
      BY <1>6, <2>1, <2>6, <2>7
    <2>10. calls'[h]["Register"] > 0 => calls[h]["Register"] > 0 \/ bus' = h
      BY <1>10, <2>4
    <2>11. \A o \in Buses \ {h}, k \in {"Register", "GetBlocked"} : calls'[o][k] = calls[o][k]
      BY <1>10, <2>4
    <2> QED
      BY <1>4, <2>1, <2>7, <2>8, <2>9, <2>10, <2>11, HomeReceived
  <1>12. CASE OnGetBlockedAppsReply(b) \/ OnAppBlocked(b)
    <2>1. /\ Receives(h, "BlockedApps") \/ Receives(h, "AppBlocked")
          /\ UNCHANGED << bus, registered, calls >>
      BY <1>3, <1>12 DEF OnGetBlockedAppsReply, OnAppBlocked
    <2>2. type \notin {"Appeared", "Disappeared"}
      BY <1>2, <1>3, <2>1 DEF Receives, m
    <2>3. registered' => Lasts(Tail(inbox[h]), 0, daemon = h)
      BY <1>5, <1>7, <2>1, <2>2
    <2>4. registered' => bus' = h \/ Has(Tail(inbox[h]), Disappeared)
      BY <1>6, <1>7, <2>1, <2>2
    <2> QED
      BY <1>1, <1>3, <1>4, <2>1, <2>2, <2>3, <2>4, HomeReceived
  <1>13. CASE OnDisappeared(b)
    <2>1. Receives(h, "Disappeared") /\ UNCHANGED << bus, calls >> /\ registered' = FALSE
      BY <1>3, <1>13 DEF OnDisappeared
    <2> QED
      BY <1>4, <2>1, HomeReceived
  <1>14. CASE OnAppeared(b)
    <2>1. /\ Receives(h, "Appeared") /\ registered' = registered
          /\ ~registered => bus' = h /\ calls' = Calling(calls, h, "Register")
      BY <1>3, <1>14 DEF OnAppeared, SetupDaemonProxy
    <2>2. type = "Appeared"
      BY <1>2, <1>3, <2>1 DEF Receives, m
    <2>3. ~registered
      BY <1>5, <1>7, <1>8, <2>2, LifeTypes
    <2>4. bus' = h /\ \A o \in Buses \ {h}, k \in {"Register", "GetBlocked"} : calls'[o][k] = calls[o][k]
      BY <1>10, <2>1, <2>3
    <2> QED
      BY <1>4, <2>1, <2>3, <2>4, HomeReceived
  <1> QED
    BY <1>11, <1>12, <1>13, <1>14 DEF ReceiveStep

\* The bus or the daemon sends messages that tell nothing of the daemon's life.
LEMMA HomeTold ==
  ASSUME Types, NEW h \in Buses, Home(h), NEW t \in Seq(News), Send(h, t),
         UNCHANGED << registered, bus, daemon >>, CallsShrink,
         \A i \in DOMAIN t : t[i] # Appeared,
         \A i \in DOMAIN t : t[i] = Accepted => bus = h \/ Has(inbox[h], Appeared),
         \A i \in DOMAIN t : t[i].type = "Registered" => calls[h]["Register"] > 0
  PROVE  Home(h)'
  <1>1. daemon = h => Lasts(t, 0, daemon' = h)
    <2>1. DOMAIN t = 1 .. Len(t) /\ Len(t) \in Nat
      BY LenProperties
    <2> QED
      BY <2>1 DEF Lasts
  <1>2. daemon \in {h, NoBus}
    BY DEF Home
  <1> QED
    BY <1>1, <1>2, HomeSent

LEMMA CallsAnswered ==
  ASSUME Types, NEW b \in Buses, NEW kind \in CallKinds, Answers(b, kind)
  PROVE  CallsShrink /\ calls[b][kind] > 0
  <1>1. calls \in [Buses -> [CallKinds -> Nat]] /\ {"Register", "GetBlocked"} \subseteq CallKinds
    BY KindsAre DEF Types, WireTypes
  <1>2. /\ calls' \in [Buses -> [CallKinds -> Nat]] /\ calls[b][kind] > 0
        /\ \A o \in Buses, k \in CallKinds : calls'[o][k] =
                IF o = b /\ k = kind THEN calls[o][k] - 1 ELSE calls[o][k]
    BY AnswersFacts DEF Types
  <1>3. ASSUME NEW o \in Buses, NEW k \in {"Register", "GetBlocked"}
        PROVE  calls'[o][k] \in Nat /\ calls'[o][k] <= calls[o][k]
    BY <1>1, <1>2
  <1> QED
    BY <1>2, <1>3 DEF CallsShrink

LEMMA CallsKept == ASSUME Types, UNCHANGED calls PROVE CallsShrink
  <1>1. calls \in [Buses -> [CallKinds -> Nat]] /\ {"Register", "GetBlocked"} \subseteq CallKinds
    BY KindsAre DEF Types, WireTypes
  <1>2. \A o \in Buses, k \in {"Register", "GetBlocked"} : calls[o][k] \in Nat
    BY <1>1
  <1> QED
    BY <1>2 DEF CallsShrink

\* A daemon starts on b, and the news is not crossed.
LEMMA HomeStarts ==
  ASSUME Types, NEW b \in Buses, Started(b), ~crossed', NEW t \in Seq(News), Send(b, t), Has(t, Appeared),
         \A i \in DOMAIN t : t[i] \in {Appeared, Chosen},
         UNCHANGED << registered, bus >>, CallsShrink, NEW h \in Buses, Home(h)
  PROVE  Home(b)'
  <1>1. daemon = NoBus /\ daemon' = b
    BY DEF Started
  <1>2. \A i \in DOMAIN t : t[i] # Accepted /\ t[i].type # "Registered"
    BY LifeTypes, StartNoteIs
  <1>3. CASE b = h
    <2>1. (daemon = h) = FALSE
      BY <1>1, BusesAre
    <2> QED
      BY <1>1, <1>2, <1>3, <2>1, HomeSent
  <1>4. CASE b # h
    <2>1. /\ inbox[b] \in Seq(News) /\ inbox'[b] = inbox[b] \o t
          /\ \A o \in Buses \ {b} : inbox'[o] = inbox[o]
      BY SendFacts DEF Types
    <2>2. Quiet(b) /\ Registration(h)
      BY <1>4 DEF Home
    <2>3. \A o \in Buses \ {b} : Quiet(o)
      <3> SUFFICES ASSUME NEW o \in Buses \ {b} PROVE Quiet(o)
        OBVIOUS
      <3>1. ~(\/ \E m \in ToSet(inbox[o]) : m.type # "Select"
              \/ calls[o]["Register"] + calls[o]["GetBlocked"] > 0)
        BY DEF Started
      <3>2. \A i \in DOMAIN inbox[o] : inbox[o][i].type = "Select"
        BY <3>1 DEF ToSet
      <3>3. calls[o]["Register"] \in Nat /\ calls[o]["GetBlocked"] \in Nat
        <4>1. calls \in [Buses -> [CallKinds -> Nat]] /\ "Register" \in CallKinds /\ "GetBlocked" \in CallKinds
          BY KindsAre DEF Types, WireTypes
        <4> QED
          BY <4>1
      <3>4. calls[o]["Register"] = 0 /\ calls[o]["GetBlocked"] = 0
        BY <3>1, <3>3
      <3> QED
        BY <3>2, <3>4 DEF Quiet
    <2>4. ~registered
      <3> SUFFICES ASSUME registered PROVE FALSE
        OBVIOUS
      <3>1. Lasts(inbox[h], 0, daemon = h) /\ (daemon = h) = FALSE
        BY <1>1, <2>2, BusesAre DEF Registration
      <3>2. inbox[h] \in Seq(News)
        BY DEF Types, WireTypes
      <3>3. Has(inbox[h], Disappeared)
        BY <3>1, <3>2, LastsHas
      <3> QED
        BY <1>4, <2>3, <3>3, QuietHas, LifeTypes
    <2>5. Has(inbox'[b], Appeared)
      BY <2>1, HasConcat
    <2>6. \A i \in DOMAIN inbox'[b] : inbox'[b][i].type # "Registered"
      <3> SUFFICES ASSUME NEW i \in DOMAIN inbox'[b] PROVE inbox'[b][i].type # "Registered"
        OBVIOUS
      <3>1. CASE i \in DOMAIN inbox[b]
        <4>1. inbox'[b][i] = inbox[b][i]
          BY <2>1, <3>1, ConcatPositions
        <4> QED
          BY <2>2, <3>1, <4>1 DEF Quiet
      <3>2. CASE \E j \in DOMAIN t : inbox'[b][i] = t[j]
        BY <1>2, <3>2
      <3> QED
        BY <2>1, <3>1, <3>2, ConcatPositions
    <2>7. \A o \in Buses : Quiet(o) => calls'[o]["Register"] = 0 /\ calls'[o]["GetBlocked"] = 0
      BY DEF Quiet, CallsShrink
    <2>8. Registration(b)'
      <3>1. Expected(inbox'[b], bus' = b)
        BY <2>6, LifeTypes DEF Expected
      <3>2. ~Registering(b)'
        BY <2>2, <2>6, <2>7 DEF Registering
      <3> QED
        BY <2>4, <2>5, <3>1, <3>2 DEF Registration
    <2>9. \A o \in Buses \ {b} : Quiet(o)'
      BY <2>1, <2>3, <2>7 DEF Quiet
    <2> QED
      BY <1>1, <2>8, <2>9 DEF Home
  <1> QED
    BY <1>3, <1>4

LEMMA HomeServes ==
  ASSUME Types, DaemonStep, ~crossed', NEW h \in Buses, Home(h)
  PROVE  \E o \in Buses : Home(o)'
  <1>1. UNCHANGED << registered, bus >>
    BY DaemonStepTypes DEF threadVars
  <1>2. daemon \in {h, NoBus} /\ \A o \in Buses \ {h} : Quiet(o)
    BY DEF Home
  <1>3. \A o \in Buses \ {h} : calls[o]["Register"] = 0 /\ calls[o]["GetBlocked"] = 0
    BY <1>2 DEF Quiet
  <1>4. {"HasOwner", "Start", "Register", "GetBlocked"} \subseteq CallKinds
    BY KindsAre
  <1>5. ASSUME NEW m \in News, Send(h, << m >>), UNCHANGED daemon, CallsShrink, m # Appeared,
               m = Accepted => bus = h \/ Has(inbox[h], Appeared),
               m.type = "Registered" => calls[h]["Register"] > 0
        PROVE  Home(h)'
    <2>1. << m >> \in Seq(News) /\ \A i \in DOMAIN << m >> : << m >>[i] = m
      BY OneMessage
    <2> DEFINE t == << m >>
    <2>2. t \in Seq(News) /\ Send(h, t) /\ \A i \in DOMAIN t : t[i] = m
      BY <1>5, <2>1
    <2> HIDE DEF t
    <2>3. /\ \A i \in DOMAIN t : t[i] # Appeared
          /\ \A i \in DOMAIN t : t[i] = Accepted => bus = h \/ Has(inbox[h], Appeared)
          /\ \A i \in DOMAIN t : t[i].type = "Registered" => calls[h]["Register"] > 0
      BY <1>5, <2>2
    <2> QED
      BY <1>1, <1>5, <2>2, <2>3, HomeTold
  <1>6. ASSUME NEW b \in Buses, NEW m \in News, Send(b, << m >>), UNCHANGED daemon, CallsShrink,
               m.type = "Select"
        PROVE  Home(h)'
    <2>1. CASE b = h
      BY <1>5, <1>6, <2>1, LifeTypes
    <2>2. CASE b # h
      <3>1. /\ inbox[b] \in Seq(News) /\ inbox'[b] = inbox[b] \o << m >>
            /\ \A o \in Buses \ {b} : inbox'[o] = inbox[o]
            /\ << m >> \in Seq(News) /\ \A i \in DOMAIN << m >> : << m >>[i] = m
        <4>1. << m >> \in Seq(News) /\ \A i \in DOMAIN << m >> : << m >>[i] = m
          BY OneMessage
        <4>2. /\ inbox[b] \in Seq(News) /\ inbox'[b] = inbox[b] \o << m >>
              /\ \A o \in Buses \ {b} : inbox'[o] = inbox[o]
          BY <1>6, <4>1, SendFacts DEF Types
        <4> QED
          BY <4>1, <4>2
      <3>2. ASSUME NEW i \in DOMAIN inbox'[b] PROVE inbox'[b][i].type = "Select"
        <4>1. CASE i \in DOMAIN inbox[b]
          <5>1. inbox'[b][i] = inbox[b][i]
            BY <3>1, <4>1, ConcatPositions
          <5> QED
            BY <1>2, <2>2, <4>1, <5>1 DEF Quiet
        <4>2. CASE \E j \in DOMAIN << m >> : inbox'[b][i] = << m >>[j]
          BY <1>6, <3>1, <4>2
        <4> QED
          BY <3>1, <4>1, <4>2, ConcatPositions
      <3>3. ASSUME NEW o \in Buses \ {h}, NEW i \in DOMAIN inbox'[o] PROVE inbox'[o][i].type = "Select"
        <4>1. CASE o = b
          BY <3>2, <4>1
        <4>2. CASE o # b
          <5>1. inbox'[o] = inbox[o]
            BY <3>1, <4>2
          <5> QED
            BY <1>2, <5>1 DEF Quiet
        <4> QED
          BY <4>1, <4>2
      <3>4. inbox'[h] = inbox[h]
        BY <2>2, <3>1
      <3> QED
        BY <1>1, <1>6, <3>3, <3>4, HomeElsewhere
    <2> QED
      BY <2>1, <2>2
  <1>7. ASSUME NEW b \in Buses, BusStep(b) PROVE \E o \in Buses : Home(o)'
    <2>1. CASE /\ Answers(b, "HasOwner") \/ Answers(b, "Start")
               /\ Send(b, << [type |-> "Select", ok |-> daemon = b] >>)
               /\ UNCHANGED daemon
      <3> DEFINE m == [type |-> "Select", ok |-> daemon = b]
      <3>1. m \in News /\ m.type = "Select"
        BY NewsTypes
      <3>2. CallsShrink
        BY <1>4, <2>1, CallsAnswered
      <3>3. Send(b, << m >>)
        BY <2>1
      <3> HIDE DEF m
      <3> QED
        BY <1>6, <2>1, <3>1, <3>2, <3>3
    <2>2. CASE Answers(b, "Start") /\ Started(b) /\ Send(b, << Appeared, Chosen >>)
      <3> DEFINE t == << Appeared, Chosen >>
      <3>1. t \in Seq(News) /\ Send(b, t) /\ DOMAIN t = {1, 2} /\ t[1] = Appeared /\ t[2] = Chosen
        BY <2>2, StartNoteIs
      <3> HIDE DEF t
      <3>2. Has(t, Appeared) /\ \A i \in DOMAIN t : t[i] \in {Appeared, Chosen}
        BY <3>1 DEF Has
      <3>3. CallsShrink
        BY <1>4, <2>2, CallsAnswered
      <3> QED
        BY <1>1, <2>2, <3>1, <3>2, <3>3, HomeStarts
    <2>3. CASE Started(b) /\ Send(b, << Appeared >>) /\ UNCHANGED calls
      <3> DEFINE t == << Appeared >>
      <3>1. t \in Seq(News) /\ Send(b, t) /\ DOMAIN t = {1} /\ t[1] = Appeared
        BY <2>3, OneMessage, NewsTypes
      <3> HIDE DEF t
      <3>2. Has(t, Appeared) /\ \A i \in DOMAIN t : t[i] \in {Appeared, Chosen}
        BY <3>1 DEF Has
      <3>3. CallsShrink
        BY <2>3, CallsKept
      <3> QED
        BY <1>1, <2>3, <3>1, <3>2, <3>3, HomeStarts
    <2>4. CASE /\ Answers(b, "Register") /\ UNCHANGED daemon
               /\ \E ok \in BOOLEAN : /\ Send(b, << [type |-> "Registered", ok |-> ok] >>)
                                      /\ ok => daemon = b
      <3>0. PICK ok \in BOOLEAN : /\ Send(b, << [type |-> "Registered", ok |-> ok] >>)
                                  /\ ok => daemon = b
        BY <2>4
      <3> DEFINE m == [type |-> "Registered", ok |-> ok]
      <3>1. m \in News /\ m.type = "Registered" /\ m.ok = ok
        BY NewsTypes
      <3>2. CallsShrink /\ calls[b]["Register"] > 0
        BY <1>4, <2>4, CallsAnswered
      <3>3. b = h
        BY <1>3, <3>2
      <3>4. Send(h, << m >>)
        BY <3>0, <3>3
      <3> HIDE DEF m
      <3>5. m = Accepted => bus = h \/ Has(inbox[h], Appeared)
        BY <3>0, <3>1, <3>2, <3>3, LifeTypes DEF Home, Registration
      <3>6. m # Appeared
        BY <3>1, LifeTypes
      <3> QED
        BY <1>5, <2>4, <3>1, <3>2, <3>3, <3>4, <3>5, <3>6
    <2>5. CASE Answers(b, "GetBlocked") /\ Send(b, << Failure >>) /\ UNCHANGED daemon
      <3>1. CallsShrink /\ calls[b]["GetBlocked"] > 0
        BY <1>4, <2>5, CallsAnswered
      <3>2. b = h
        BY <1>3, <3>1
      <3>3. Failure \in News /\ Failure.type = "BlockedApps"
        BY DeathNoteIs
      <3>4. Failure # Appeared /\ Failure # Accepted
        BY <3>3, LifeTypes
      <3> QED
        BY <1>5, <2>5, <3>1, <3>2, <3>3, <3>4
    <2>6. CASE Answers(b, "GetBlocked") /\ UNCHANGED << inbox, daemon >>
      <3>1. CallsShrink
        BY <1>4, <2>6, CallsAnswered
      <3>2. \A o \in Buses \ {h} : \A i \in DOMAIN inbox'[o] : inbox'[o][i].type = "Select"
        BY <1>2, <2>6 DEF Quiet
      <3> QED
        BY <1>1, <2>6, <3>1, <3>2, HomeElsewhere
    <2> QED
      BY <1>7, <2>1, <2>2, <2>3, <2>4, <2>5, <2>6 DEF BusStep, daemonVars
  <1>8. ASSUME daemon \in Buses, answer[1] \in SUBSET Apps, UNCHANGED << daemon, calls >>,
               Send(daemon, << [type |-> "BlockedApps", ok |-> TRUE, apps |-> answer[1]] >>)
        PROVE  \E o \in Buses : Home(o)'
    <2> DEFINE m == [type |-> "BlockedApps", ok |-> TRUE, apps |-> answer[1]]
    <2>1. m \in News /\ m.type = "BlockedApps"
      BY <1>8, NewsTypes
    <2>2. daemon = h /\ Send(daemon, << m >>)
      BY <1>2, <1>8, BusesAre
    <2> HIDE DEF m
    <2>3. m # Appeared /\ m # Accepted
      BY <2>1, LifeTypes
    <2> QED
      BY <1>5, <1>8, <2>1, <2>2, <2>3, CallsKept
  <1>9. ASSUME daemon \in Buses, daemon' = NoBus, Send(daemon, DeathNote), UNCHANGED calls
        PROVE  \E o \in Buses : Home(o)'
    <2>1. daemon = h /\ (daemon' = h) = FALSE
      BY <1>2, <1>9, BusesAre
    <2>2. \A i \in DOMAIN DeathNote : DeathNote[i] \in {Disappeared, Failure}
      BY DeathNoteIs
    <2>3. \A i \in DOMAIN DeathNote : DeathNote[i] # Accepted /\ DeathNote[i].type # "Registered"
      BY <2>2, LifeTypes, DeathNoteIs
    <2>4. DeathNote \in Seq(News) /\ Lasts(DeathNote, 0, daemon' = h)
      BY <2>1, DeathNoteIs, DeathTold
    <2>5. Home(h)'
      BY <1>1, <1>9, <2>1, <2>3, <2>4, CallsKept, HomeSent
    <2> QED
      BY <2>5
  <1>10. ASSUME NEW a \in Apps, daemon \in Buses, matches[daemon] \in Nat, UNCHANGED << daemon, calls >>,
                Send(daemon, ToggleNote(a))
         PROVE  \E o \in Buses : Home(o)'
    <2> DEFINE m == [type |-> "AppBlocked", app |-> a, on |-> a \notin blocked]
    <2>1. daemon = h
      BY <1>2, <1>10, BusesAre
    <2>2. ToggleNote(a) \in Seq(News) /\ \A i \in DOMAIN ToggleNote(a) : ToggleNote(a)[i] = m
      BY <1>10, ToggleNoteIs
    <2>3. m.type = "AppBlocked"
      OBVIOUS
    <2> HIDE DEF m
    <2>4. \A i \in DOMAIN ToggleNote(a) : /\ ToggleNote(a)[i] # Appeared /\ ToggleNote(a)[i] # Accepted
                                          /\ ToggleNote(a)[i].type # "Registered"
      BY <2>2, <2>3, LifeTypes
    <2>5. Home(h)'
      BY <1>1, <1>10, <2>1, <2>2, <2>4, CallsKept, HomeTold
    <2> QED
      BY <2>5
  <1> QED
    BY <1>7, <1>8, <1>9, <1>10, DaemonStepIs

LEMMA HomeNext == Types /\ SelectInv /\ LifeInv /\ HomeInv /\ [Next]_vars => HomeInv'
  <1> SUFFICES ASSUME Types, SelectInv, LifeInv, HomeInv, [Next]_vars, ~crossed'
               PROVE  \E h \in Buses : Home(h)'
    BY DEF HomeInv
  <1>1. PICK h \in Buses : Home(h)
    BY CrossedStays DEF HomeInv
  <1>2. ASSUME UNCHANGED << registered, bus, daemon, inbox, calls >> PROVE Home(h)'
    BY <1>1, <1>2 DEF Home, Quiet, Registration, Registering
  <1>3. CASE CompositorStep \/ LoopStep \/ UNCHANGED vars
    BY <1>2, <1>3, CompositorStepTypes, LoopStepTypes DEF dbusVars, daemonVars, vars
  <1>4. ASSUME NEW b \in Buses, ReceiveStep(b) PROVE Home(h)'
    BY <1>1, <1>4, LifeNext, HomeSelects, HomeHears
  <1>5. CASE DaemonStep
    BY <1>1, <1>5, HomeServes
  <1> QED
    BY <1>3, <1>4, <1>5, NextIs

LEMMA HomeInit == Init => LifeInv /\ HomeInv
  <1> SUFFICES ASSUME Init PROVE LifeInv /\ HomeInv
    OBVIOUS
  <1>1. \A b \in Buses : inbox[b] = << >>
    BY DEF Init
  <1>2. \A b \in Buses : DOMAIN inbox[b] = {} /\ Len(inbox[b]) = 0
    BY <1>1
  <1>3. \A b \in Buses : calls[b]["Register"] = 0 /\ calls[b]["GetBlocked"] = 0
    <2>1. calls = [b \in Buses |-> [k \in CallKinds |-> IF b = "system" /\ k = "HasOwner" THEN 1 ELSE 0]]
      BY DEF Init
    <2> QED
      BY <2>1, KindsAre
  <1>4. LifeInv
    BY <1>2 DEF LifeInv, LifeOK
  <1>5. registered = FALSE /\ bus = NoBus /\ daemon \in Buses \cup {NoBus}
    BY DEF Init
  <1>6. PICK h \in Buses : daemon \in {h, NoBus}
    BY <1>5, BusesAre
  <1>7. \A o \in Buses : Quiet(o) /\ ~Registering(o) /\ Expected(inbox[o], bus = o)
    BY <1>2, <1>3 DEF Quiet, Registering, Expected
  <1>8. Registration(h)
    BY <1>3, <1>5, <1>7 DEF Registration
  <1>9. Home(h)
    BY <1>6, <1>7, <1>8 DEF Home
  <1> QED
    BY <1>4, <1>9 DEF HomeInv

LEMMA PluginHome == Spec => [](Types /\ SelectInv /\ LifeInv /\ HomeInv)
  <1>1. Init => Types /\ SelectInv /\ LifeInv /\ HomeInv
    BY TypesInit, HomeInit
  <1>2. Types /\ SelectInv /\ LifeInv /\ HomeInv /\ [Next]_vars
        => Types' /\ SelectInv' /\ LifeInv' /\ HomeInv'
    BY TypesNext, SelectNext, LifeNext, HomeNext
  <1> QED
    BY <1>1, <1>2, PTL DEF Spec

\* RegisteredMeansServed, whatever the order of the daemon's restarts, of its
\* appearances on the two buses and of the answers: while m_registered is set,
\* m_daemonBus is the bus of a daemon that is alive, or the NameOwnerChanged
\* that tells its end is on its way.
THEOREM ServedWhenRegistered == Spec => []RegisteredMeansServed
  <1>1. Types /\ HomeInv => RegisteredMeansServed
    <2> SUFFICES ASSUME Types, HomeInv, registered, ~crossed
                 PROVE  \/ bus # NoBus /\ daemon = bus
                        \/ \E b \in Buses : Disappeared \in ToSet(inbox[b])
      BY DEF RegisteredMeansServed, Disappeared
    <2>1. PICK h \in Buses : Home(h)
      BY DEF HomeInv
    <2>2. Lasts(inbox[h], 0, daemon = h) /\ (bus = h \/ Has(inbox[h], Disappeared))
      BY <2>1 DEF Home, Registration
    <2>3. inbox[h] \in Seq(News)
      BY DEF Types, WireTypes
    <2>4. Has(inbox[h], Disappeared) => Disappeared \in ToSet(inbox[h])
      BY DEF Has, ToSet
    <2>5. CASE daemon = h
      BY <2>2, <2>4, <2>5, BusesAre
    <2>6. CASE daemon # h
      <3>1. (daemon = h) = FALSE
        BY <2>6
      <3>2. Has(inbox[h], Disappeared)
        BY <2>2, <2>3, <3>1, LastsHas
      <3> QED
        BY <2>4, <3>2
    <2> QED
      BY <2>5, <2>6
  <1> QED
    BY <1>1, PluginHome, PTL
-----------------------------------------------------------------------------
(* What this daemon was told *)

\* Either no message is an event or one of them is the last.
LEMMA EventCases ==
  ASSUME NEW S, NEW ms \in Seq(S)
  PROVE  \/ LastEvent(ms) = 0 /\ \A i \in 1 .. Len(ms) : ~IsEvent(ms[i])
         \/ /\ LastEvent(ms) \in 1 .. Len(ms) /\ IsEvent(ms[LastEvent(ms)])
            /\ \A j \in LastEvent(ms) + 1 .. Len(ms) : ~IsEvent(ms[j])
  <1> DEFINE I == {j \in 1 .. Len(ms) : IsEvent(ms[j])}
  <1>1. LastEvent(ms) = IF I # {} THEN Max(I) ELSE 0
    BY DEF LastEvent, SelectLastInSeq
  <1>2. CASE I = {}
    BY <1>1, <1>2
  <1>3. CASE I # {}
    <2>1. Len(ms) \in Nat /\ I \in SUBSET (1 .. Len(ms))
      BY LenProperties
    <2>2. /\ LastEvent(ms) = Max(I) /\ \A j \in I : j \in 1 .. Len(ms) /\ IsEvent(ms[j])
          /\ \A j \in 1 .. Len(ms) : IsEvent(ms[j]) => j \in I
      BY <1>1, <1>3
    <2> HIDE DEF I
    <2>3. PICK k : k = LastEvent(ms) /\ k \in I /\ \A j \in I : j <= k
      BY <1>3, <2>1, <2>2, LastPosition
    <2>4. k \in 1 .. Len(ms) /\ \A j \in k + 1 .. Len(ms) : j \in 1 .. Len(ms) /\ ~(j <= k)
      BY <2>1, <2>3
    <2> QED
      BY <2>2, <2>3, <2>4
  <1> QED
    BY <1>2, <1>3

\* The batch that makes the plugin tell an idle or a focus event ends, for the
\* focus, with that event or before it.
LEMMA HandledTold ==
  ASSUME Types, HandleMessages
  PROVE  \/ UNCHANGED << current, told >>
         \/ \E m : told' = Heard(registered, m) /\ (m = current' \/ m.type \in {"Idle", "Resume"})
  <1> DEFINE batch == SubSeq(msgs.queue, 1, msgs.reading)
             k == LastEvent(batch)
  <1>1. /\ batch \in Seq(Message) /\ current' = FocusAfter(batch, current)
        /\ told' = IF k = 0 THEN told ELSE Heard(registered, EventOf(batch[k]))
    BY DrainFacts DEF Types, DbusTypes, HandleMessages
  <1> HIDE DEF batch
  <1>2. \A m : ~IsEvent(m) => ~IsFocus(m)
    BY DEF IsEvent, IsFocus, ShutdownMsg
  <1>3. CASE k = 0 /\ \A i \in 1 .. Len(batch) : ~IsEvent(batch[i])
    <2>1. current' = current
      BY <1>1, <1>2, <1>3, NoFocus
    <2> QED
      BY <1>1, <1>3, <2>1
  <1>4. CASE /\ k \in 1 .. Len(batch) /\ IsEvent(batch[k])
             /\ \A j \in k + 1 .. Len(batch) : ~IsEvent(batch[j])
    <2>1. told' = Heard(registered, EventOf(batch[k]))
      BY <1>1, <1>4
    <2> HIDE DEF k
    <2>2. CASE IsFocus(batch[k])
      <3>1. current' = batch[k]
        BY <1>1, <1>2, <1>4, <2>2, SomeFocus
      <3> QED
        BY <2>1, <2>2, <3>1 DEF EventOf
    <2>3. CASE ~IsFocus(batch[k])
      <3>1. EventOf(batch[k]) = Signal(IF batch[k].idle THEN "Idle" ELSE "Resume")
        BY <2>3 DEF EventOf
      <3>2. EventOf(batch[k]).type \in {"Idle", "Resume"}
        BY <3>1 DEF Signal
      <3> QED
        BY <2>1, <3>2
    <2> QED
      BY <2>2, <2>3
  <1> QED
    BY <1>1, <1>3, <1>4, EventCases

\* ToldInv, of one connection.
Closed(s) == \A i \in DOMAIN s : s[i] = Accepted => Ended(s, i)

LEMMA ToldInvIs ==
  ToldInv <=> (told = Signal("unregistered") =>
                   /\ registered => \E b \in Buses : Ended(inbox[b], 0)
                   /\ \A b \in Buses : Closed(inbox[b]))
  BY DEF ToldInv, Closed

LEMMA EndedTail ==
  ASSUME NEW s \in Seq(News), s # << >>, NEW i \in Nat, Ended(s, i + 1)
  PROVE  Ended(Tail(s), i)
  <1> DEFINE t == Tail(s)
             n == Len(s)
  <1>1. /\ n \in Nat \ {0} /\ Len(t) = n - 1 /\ \A j \in 1 .. n - 1 : t[j] = s[j + 1]
    BY TailFacts
  <1> HIDE DEF t
  <1>2. PICK j \in i + 1 + 1 .. n : s[j] = Disappeared
    BY DEF Ended
  <1>3. j - 1 \in i + 1 .. n - 1 /\ j - 1 \in 1 .. n - 1 /\ (j - 1) + 1 = j
    BY <1>1, <1>2
  <1>4. t[j - 1] = Disappeared
    BY <1>1, <1>2, <1>3
  <1> QED
    BY <1>1, <1>3, <1>4 DEF Ended, t

LEMMA EndedAfter ==
  ASSUME NEW s \in Seq(News), s # << >>, Ended(s, 0), s[1] # Disappeared
  PROVE  Ended(Tail(s), 0)
  <1>1. Len(s) \in Nat
    BY LenProperties
  <1>2. PICK j \in 0 + 1 .. Len(s) : s[j] = Disappeared
    BY DEF Ended
  <1>3. j \in 0 + 1 + 1 .. Len(s)
    BY <1>1, <1>2
  <1>4. Ended(s, 0 + 1)
    BY <1>2, <1>3 DEF Ended
  <1> QED
    BY <1>4, EndedTail

LEMMA ClosedTail ==
  ASSUME NEW s \in Seq(News), s # << >>, Closed(s)
  PROVE  Closed(Tail(s))
  <1> DEFINE t == Tail(s)
  <1>1. /\ Len(s) \in Nat \ {0} /\ DOMAIN s = 1 .. Len(s) /\ DOMAIN t = 1 .. Len(s) - 1
        /\ \A j \in 1 .. Len(s) - 1 : t[j] = s[j + 1]
    BY TailFacts
  <1>2. ASSUME NEW i \in DOMAIN t, t[i] = Accepted PROVE Ended(t, i)
    <2>1. i \in Nat /\ i + 1 \in DOMAIN s /\ s[i + 1] = Accepted
      BY <1>1, <1>2
    <2>2. Ended(s, i + 1)
      BY <2>1 DEF Closed
    <2> QED
      BY <2>1, <2>2, EndedTail
  <1> QED
    BY <1>2 DEF Closed

LEMMA EndedConcat ==
  ASSUME NEW s \in Seq(News), NEW t \in Seq(News), NEW i \in Nat, Ended(s, i)
  PROVE  Ended(s \o t, i)
  <1> DEFINE u == s \o t
  <1>1. /\ Len(s) \in Nat /\ Len(t) \in Nat /\ Len(u) = Len(s) + Len(t)
        /\ \A j \in 1 .. Len(s) : u[j] = s[j]
    BY ConcatFacts
  <1> HIDE DEF u
  <1>2. PICK j \in i + 1 .. Len(s) : s[j] = Disappeared
    BY DEF Ended
  <1>3. j \in i + 1 .. Len(u) /\ u[j] = Disappeared
    BY <1>1, <1>2
  <1> QED
    BY <1>3 DEF Ended, u

\* Messages that accept nothing.
LEMMA ClosedConcat ==
  ASSUME NEW s \in Seq(News), NEW t \in Seq(News), Closed(s), \A i \in DOMAIN t : t[i] # Accepted
  PROVE  Closed(s \o t)
  <1>1. ASSUME NEW i \in DOMAIN (s \o t), (s \o t)[i] = Accepted PROVE Ended(s \o t, i)
    <2>1. i \in DOMAIN s /\ s[i] = Accepted
      BY <1>1, ConcatPositions
    <2>2. Ended(s, i) /\ i \in Nat
      BY <2>1, LenProperties DEF Closed
    <2> QED
      BY <2>2, EndedConcat
  <1> QED
    BY <1>1 DEF Closed

\* The daemon dies: all that its connection carries comes before its end.
LEMMA ClosedByDeath ==
  ASSUME NEW s \in Seq(News)
  PROVE  Ended(s \o DeathNote, 0) /\ Closed(s \o DeathNote)
  <1> DEFINE u == s \o DeathNote
             n == Len(s)
  <1>1. /\ n \in Nat /\ DOMAIN s = 1 .. n /\ n + 1 \in DOMAIN u /\ u[n + 1] = Disappeared
    BY DeathNoteIs, ConcatPositions, LenProperties
  <1>2. DOMAIN u = 1 .. Len(u) /\ Len(u) \in Nat
    BY DeathNoteIs, ConcatFacts, LenProperties
  <1>3. ASSUME NEW i \in 0 .. n PROVE Ended(u, i)
    <2>1. n + 1 \in i + 1 .. Len(u)
      BY <1>1, <1>2
    <2> QED
      BY <1>1, <2>1 DEF Ended
  <1>4. ASSUME NEW i \in DOMAIN u, u[i] = Accepted PROVE i \in 0 .. n
    <2>1. i \in DOMAIN s \/ \E j \in DOMAIN DeathNote : u[i] = DeathNote[j]
      BY DeathNoteIs, ConcatPositions
    <2>2. \A j \in DOMAIN DeathNote : DeathNote[j] # Accepted
      BY DeathNoteIs, LifeTypes
    <2> QED
      BY <1>1, <1>4, <2>1, <2>2
  <1>5. 0 \in 0 .. n
    BY <1>1
  <1> QED
    BY <1>3, <1>4, <1>5 DEF Closed

\* A step of the D-Bus thread tells nothing to a daemon that does not know it,
\* and makes no daemon forget it.
LEMMA ToldBefore ==
  ASSUME LoopStep \/ \E b \in Buses : ReceiveStep(b)
  PROVE  told = Signal("unregistered") => told' = told
  BY HeardFacts DEF LoopStep, CommitCommand, OpenMessages, HandleMessages, ScreenLock, PrepareForSleep,
     ReceiveStep, OnBusSelectReply, OnRegisterReply, OnGetBlockedAppsReply, OnAppBlocked,
     OnDisappeared, OnAppeared, EmitCurrentFocus

LEMMA SignalTypes ==
  /\ \A t : Signal(t).type = t
  /\ \A m \in FocusMessage : m # Signal("unregistered")
  /\ Subscribed # Signal("unregistered")
  <1>1. \A t : Signal(t).type = t
    BY DEF Signal
  <1>2. ASSUME NEW m \in FocusMessage PROVE m # Signal("unregistered")
    BY <1>1, <1>2 DEF FocusMessage, IsFocus
  <1>3. Signal("nothing") # Signal("unregistered")
    BY <1>1
  <1> QED
    BY <1>1, <1>2, <1>3 DEF Subscribed

LEMMA ToldAfter ==
  ASSUME Types, LoopStep \/ \E b \in Buses : ReceiveStep(b), told' = Signal("unregistered")
  PROVE  told = Signal("unregistered")
  <1>1. ASSUME NEW m, told' = Heard(registered, m), m # Signal("unregistered")
        PROVE  told = Signal("unregistered")
    BY <1>1 DEF Heard
  <1>2. current \in FocusMessage
    BY DEF Types, DbusTypes
  <1>3. ASSUME NEW m, m = current \/ m = Signal("Locked") \/ m = Signal("Power")
        PROVE  m # Signal("unregistered")
    BY <1>2, <1>3, SignalTypes
  <1>4. CASE HandleMessages
    <2>1. current' \in FocusMessage
      BY <1>4, LoopStepTypes DEF LoopStep, Types, DbusTypes
    <2>2. \A m : m = current' \/ m.type \in {"Idle", "Resume"} => m # Signal("unregistered")
      BY <2>1, SignalTypes
    <2> QED
      BY <1>1, <1>4, <2>2, HandledTold
  <1>5. CASE ScreenLock
    BY <1>1, <1>3, <1>5 DEF ScreenLock
  <1>6. CASE PrepareForSleep
    BY <1>1, <1>3, <1>6 DEF PrepareForSleep
  <1>7. CASE \E b \in Buses : OnGetBlockedAppsReply(b)
    BY <1>1, <1>3, <1>7 DEF OnGetBlockedAppsReply, EmitCurrentFocus
  <1>8. CASE told' = told
    BY <1>8
  <1> QED
    BY <1>4, <1>5, <1>6, <1>7, <1>8 DEF LoopStep, CommitCommand, OpenMessages, ReceiveStep, OnBusSelectReply,
       OnRegisterReply, OnAppBlocked, OnDisappeared, OnAppeared

LEMMA ToldReceives ==
  ASSUME Types, ToldInv, NEW b \in Buses, ReceiveStep(b), told' = Signal("unregistered")
  PROVE  /\ registered' => \E o \in Buses : Ended(inbox'[o], 0)
         /\ \A o \in Buses : Closed(inbox'[o])
  <1> DEFINE s == inbox[b]
  <1>1. /\ registered => \E o \in Buses : Ended(inbox[o], 0)
        /\ \A o \in Buses : Closed(inbox[o])
    BY ToldAfter, ToldInvIs
  <1>2. PICK type : Receives(b, type)
    BY ReceiveStepIs
  <1>3. /\ s \in Seq(News) /\ s # << >> /\ inbox'[b] = Tail(s) /\ Head(s) \in News /\ Head(s).type = type
        /\ \A o \in Buses \ {b} : inbox'[o] = inbox[o]
    BY <1>2, ReceivesFacts DEF Types
  <1>4. Head(s) = s[1] /\ 1 \in DOMAIN s
    BY <1>3, TailFacts
  <1>5. \A o \in Buses : Closed(inbox'[o])
    <2>1. Closed(inbox'[b])
      BY <1>1, <1>3, ClosedTail
    <2> QED
      BY <1>1, <1>3, <2>1
  <1>6. ASSUME registered, type # "Disappeared" PROVE \E o \in Buses : Ended(inbox'[o], 0)
    <2>1. PICK o \in Buses : Ended(inbox[o], 0)
      BY <1>1, <1>6
    <2>2. s[1] # Disappeared
      BY <1>3, <1>4, <1>6, LifeTypes
    <2>3. CASE o = b
      BY <1>3, <2>1, <2>2, <2>3, EndedAfter
    <2>4. CASE o # b
      BY <1>3, <2>1, <2>4
    <2> QED
      BY <2>3, <2>4
  <1>7. ASSUME s[1] = Accepted PROVE Ended(inbox'[b], 0)
    <2>1. Ended(s, 0 + 1)
      BY <1>1, <1>4, <1>7 DEF Closed
    <2> QED
      BY <1>3, <2>1, EndedTail
  <1>8. CASE OnRegisterReply(b)
    <2>1. Head(s).type = "Registered" /\ type # "Disappeared"
      BY <1>3, <1>8 DEF OnRegisterReply, Receives
    <2>2. CASE Head(s).ok
      <3>1. s[1] = Accepted
        BY <1>3, <1>4, <2>1, <2>2, NewsFields
      <3> QED
        BY <1>5, <1>7, <3>1
    <2>3. CASE ~Head(s).ok
      <3>1. registered' = registered
        BY <1>8, <2>3 DEF OnRegisterReply
      <3> QED
        BY <1>5, <1>6, <2>1, <3>1
    <2> QED
      BY <2>2, <2>3
  <1>9. CASE OnDisappeared(b)
    BY <1>5, <1>9 DEF OnDisappeared
  <1>10. CASE ~OnRegisterReply(b) /\ ~OnDisappeared(b)
    <2>1. registered' = registered /\ Head(s).type # "Disappeared"
      BY <1>10 DEF ReceiveStep, OnBusSelectReply, OnGetBlockedAppsReply, OnAppBlocked, OnAppeared, Receives
    <2> QED
      BY <1>3, <1>5, <1>6, <2>1
  <1> QED
    BY <1>8, <1>9, <1>10

LEMMA ToldAnswers ==
  ASSUME Types, LifeInv, ToldInv, DaemonStep, told' = Signal("unregistered")
  PROVE  /\ registered' => \E o \in Buses : Ended(inbox'[o], 0)
         /\ \A o \in Buses : Closed(inbox'[o])
  <1>1. registered' = registered
    BY DaemonStepTypes DEF threadVars
  <1>2. ASSUME told' = told
        PROVE  /\ registered => \E o \in Buses : Ended(inbox[o], 0)
               /\ \A o \in Buses : Closed(inbox[o])
    BY <1>2, ToldInvIs
  <1>3. ASSUME NEW b \in Buses, NEW t \in Seq(News), Send(b, t), told' = told,
               \A i \in DOMAIN t : t[i] # Accepted
        PROVE  /\ registered' => \E o \in Buses : Ended(inbox'[o], 0)
               /\ \A o \in Buses : Closed(inbox'[o])
    <2>1. /\ inbox[b] \in Seq(News) /\ inbox'[b] = inbox[b] \o t
          /\ \A o \in Buses \ {b} : inbox'[o] = inbox[o]
      BY <1>3, SendFacts DEF Types
    <2>2. Closed(inbox'[b])
      BY <1>2, <1>3, <2>1, ClosedConcat
    <2>3. ASSUME NEW o \in Buses, Ended(inbox[o], 0) PROVE Ended(inbox'[o], 0)
      <3>1. CASE o = b
        BY <1>3, <2>1, <2>3, <3>1, EndedConcat
      <3>2. CASE o # b
        BY <2>1, <2>3, <3>2
      <3> QED
        BY <3>1, <3>2
    <2> QED
      BY <1>1, <1>2, <1>3, <2>1, <2>2, <2>3
  <1>4. ASSUME NEW b \in Buses, NEW m \in News, Send(b, << m >>), told' = told, m # Accepted
        PROVE  /\ registered' => \E o \in Buses : Ended(inbox'[o], 0)
               /\ \A o \in Buses : Closed(inbox'[o])
    <2> DEFINE t == << m >>
    <2>1. t \in Seq(News) /\ Send(b, t) /\ \A i \in DOMAIN t : t[i] = m
      BY <1>4, OneMessage
    <2> HIDE DEF t
    <2>2. \A i \in DOMAIN t : t[i] # Accepted
      BY <1>4, <2>1
    <2> QED
      BY <1>3, <1>4, <2>1, <2>2
  <1>5. ASSUME NEW b \in Buses, BusStep(b)
        PROVE  /\ registered' => \E o \in Buses : Ended(inbox'[o], 0)
               /\ \A o \in Buses : Closed(inbox'[o])
    <2>1. CASE Send(b, << [type |-> "Select", ok |-> daemon = b] >>) /\ UNCHANGED told
      <3> DEFINE m == [type |-> "Select", ok |-> daemon = b]
      <3>1. m \in News /\ m.type = "Select" /\ Send(b, << m >>)
        BY <2>1, NewsTypes
      <3> HIDE DEF m
      <3> QED
        BY <1>4, <2>1, <3>1, LifeTypes
    <2>2. CASE Send(b, << Appeared, Chosen >>) /\ UNCHANGED told
      <3> DEFINE t == << Appeared, Chosen >>
      <3>1. t \in Seq(News) /\ Send(b, t) /\ DOMAIN t = {1, 2} /\ t[1] = Appeared /\ t[2] = Chosen
        BY <2>2, StartNoteIs
      <3> HIDE DEF t
      <3>2. \A i \in DOMAIN t : t[i] # Accepted
        BY <3>1, StartNoteIs, LifeTypes
      <3> QED
        BY <1>3, <2>2, <3>1, <3>2
    <2>3. CASE Send(b, << Appeared >>) /\ UNCHANGED told
      BY <1>4, <2>3, NewsTypes, LifeTypes
    <2>4. CASE /\ \E ok \in BOOLEAN : /\ Send(b, << [type |-> "Registered", ok |-> ok] >>)
                                      /\ ok => told' = Subscribed
               /\ told' = told \/ told' = Subscribed
      <3>1. PICK ok \in BOOLEAN : /\ Send(b, << [type |-> "Registered", ok |-> ok] >>)
                                  /\ ok => told' = Subscribed
        BY <2>4
      <3> DEFINE m == [type |-> "Registered", ok |-> ok]
      <3>2. m \in News /\ m.ok = ok /\ Send(b, << m >>)
        BY <3>1, NewsTypes
      <3> HIDE DEF m
      <3>3. ok = FALSE /\ told' = told
        BY <2>4, <3>1, SignalTypes
      <3>4. m # Accepted
        BY <3>2, <3>3, LifeTypes
      <3> QED
        BY <1>4, <3>2, <3>3, <3>4
    <2>5. CASE Send(b, << Failure >>) /\ UNCHANGED told
      BY <1>4, <2>5, DeathNoteIs, LifeTypes
    <2>6. CASE UNCHANGED << inbox, told >>
      BY <1>1, <1>2, <2>6
    <2> QED
      BY <1>5, <2>1, <2>2, <2>3, <2>4, <2>5, <2>6 DEF BusStep
  <1>6. ASSUME daemon \in Buses, answer[1] \in SUBSET Apps, UNCHANGED told,
               Send(daemon, << [type |-> "BlockedApps", ok |-> TRUE, apps |-> answer[1]] >>)
        PROVE  /\ registered' => \E o \in Buses : Ended(inbox'[o], 0)
               /\ \A o \in Buses : Closed(inbox'[o])
    <2> DEFINE m == [type |-> "BlockedApps", ok |-> TRUE, apps |-> answer[1]]
    <2>1. m \in News /\ m.type = "BlockedApps" /\ Send(daemon, << m >>)
      BY <1>6, NewsTypes
    <2> HIDE DEF m
    <2> QED
      BY <1>4, <1>6, <2>1, LifeTypes
  <1>7. ASSUME daemon \in Buses, Send(daemon, DeathNote)
        PROVE  /\ registered' => \E o \in Buses : Ended(inbox'[o], 0)
               /\ \A o \in Buses : Closed(inbox'[o])
    <2>1. /\ inbox[daemon] \in Seq(News) /\ inbox'[daemon] = inbox[daemon] \o DeathNote
          /\ \A o \in Buses \ {daemon} : inbox'[o] = inbox[o]
      BY <1>7, DeathNoteIs, SendFacts DEF Types
    <2>2. Ended(inbox'[daemon], 0) /\ Closed(inbox'[daemon])
      BY <2>1, ClosedByDeath
    <2>3. ASSUME NEW o \in Buses \ {daemon} PROVE Closed(inbox'[o])
      <3>1. (daemon = o) = FALSE /\ LifeOK(inbox[o], daemon = o)
        BY DEF LifeInv
      <3>2. LifeOK(inbox[o], FALSE)
        BY <3>1
      <3>3. ASSUME NEW i \in DOMAIN inbox[o], inbox[o][i] = Accepted PROVE Ended(inbox[o], i)
        <4>1. Lasts(inbox[o], i, FALSE)
          BY <3>2, <3>3, LifeTypes DEF LifeOK, Granted
        <4> QED
          BY <4>1 DEF Lasts, Ended
      <3> QED
        BY <2>1, <3>3 DEF Closed
    <2> QED
      BY <1>7, <2>2, <2>3
  <1>8. ASSUME NEW a \in Apps, daemon \in Buses, matches[daemon] \in Nat, UNCHANGED told,
               Send(daemon, ToggleNote(a))
        PROVE  /\ registered' => \E o \in Buses : Ended(inbox'[o], 0)
               /\ \A o \in Buses : Closed(inbox'[o])
    <2>1. \A i \in DOMAIN ToggleNote(a) : ToggleNote(a)[i].type = "AppBlocked"
      BY <1>8, ToggleNoteIs
    <2>2. ToggleNote(a) \in Seq(News) /\ \A i \in DOMAIN ToggleNote(a) : ToggleNote(a)[i] # Accepted
      BY <1>8, <2>1, ToggleNoteIs, LifeTypes
    <2> QED
      BY <1>3, <1>8, <2>2
  <1> QED
    BY <1>5, <1>6, <1>7, <1>8, DaemonStepIs

LEMMA ToldNext == Types /\ LifeInv /\ ToldInv /\ [Next]_vars => ToldInv'
  <1> SUFFICES ASSUME Types, LifeInv, ToldInv, [Next]_vars, told' = Signal("unregistered")
               PROVE  /\ registered' => \E o \in Buses : Ended(inbox'[o], 0)
                      /\ \A o \in Buses : Closed(inbox'[o])
    BY DEF ToldInv, Closed
  <1>1. CASE CompositorStep \/ LoopStep \/ UNCHANGED vars
    <2>1. UNCHANGED << registered, inbox >> /\ told = Signal("unregistered")
      BY <1>1, CompositorStepTypes, LoopStepTypes, ToldAfter DEF dbusVars, vars
    <2> QED
      BY <2>1, ToldInvIs
  <1>2. ASSUME NEW b \in Buses, ReceiveStep(b)
        PROVE  /\ registered' => \E o \in Buses : Ended(inbox'[o], 0)
               /\ \A o \in Buses : Closed(inbox'[o])
    BY <1>2, ToldReceives
  <1>3. CASE DaemonStep
    BY <1>3, ToldAnswers
  <1> QED
    BY <1>1, <1>2, <1>3, NextIs
-----------------------------------------------------------------------------
(* Who is served *)

\* The list is asked for, or its reply is under way.
Asking == \E b \in Buses : \/ calls[b]["GetBlocked"] > 0
                           \/ \E m \in ToSet(inbox[b]) : m.type = "BlockedApps"

LEMMA GettingIs == GettingBlocked <=> answer # << >> \/ Asking
  BY DEF GettingBlocked, Asking

\* What is asked is still asked until its reply is received.
LEMMA AskingReceived ==
  ASSUME Types, NEW b \in Buses, NEW type, Receives(b, type), type # "BlockedApps",
         \A o \in Buses : calls[o]["GetBlocked"] > 0 => calls'[o]["GetBlocked"] > 0,
         Asking
  PROVE  Asking'
  <1>1. /\ inbox[b] \in Seq(News) /\ inbox[b] # << >> /\ inbox'[b] = Tail(inbox[b])
        /\ Head(inbox[b]).type = type /\ \A o \in Buses \ {b} : inbox'[o] = inbox[o]
    BY ReceivesFacts DEF Types
  <1>2. CASE \E o \in Buses : calls[o]["GetBlocked"] > 0
    BY <1>2 DEF Asking
  <1>3. CASE \E o \in Buses : \E m \in ToSet(inbox[o]) : m.type = "BlockedApps"
    <2>1. PICK o \in Buses : \E m \in ToSet(inbox[o]) : m.type = "BlockedApps"
      BY <1>3
    <2>2. PICK i \in DOMAIN inbox[o] : inbox[o][i].type = "BlockedApps"
      BY <2>1 DEF ToSet
    <2>3. CASE o = b
      <3>1. /\ Len(inbox[b]) \in Nat /\ DOMAIN inbox[b] = 1 .. Len(inbox[b]) /\ Head(inbox[b]) = inbox[b][1]
            /\ DOMAIN Tail(inbox[b]) = 1 .. Len(inbox[b]) - 1
            /\ \A j \in 1 .. Len(inbox[b]) - 1 : Tail(inbox[b])[j] = inbox[b][j + 1]
        BY <1>1, TailFacts
      <3>2. i # 1 /\ i \in 1 .. Len(inbox[b])
        BY <1>1, <2>2, <2>3, <3>1
      <3>3. i - 1 \in 1 .. Len(inbox[b]) - 1 /\ (i - 1) + 1 = i
        BY <3>1, <3>2
      <3>4. i - 1 \in DOMAIN inbox'[b] /\ inbox'[b][i - 1].type = "BlockedApps"
        BY <1>1, <2>2, <2>3, <3>1, <3>3
      <3> QED
        BY <3>4 DEF Asking, ToSet
    <2>4. CASE o # b
      BY <1>1, <2>1, <2>4 DEF Asking
    <2> QED
      BY <2>3, <2>4
  <1> QED
    BY <1>2, <1>3 DEF Asking

LEMMA AskingSent ==
  ASSUME Types, NEW b \in Buses, NEW t \in Seq(News), Send(b, t),
         \/ \E i \in DOMAIN t : t[i].type = "BlockedApps"
         \/ Asking /\ \A o \in Buses : calls[o]["GetBlocked"] > 0 => calls'[o]["GetBlocked"] > 0
  PROVE  Asking'
  <1>1. /\ inbox[b] \in Seq(News) /\ inbox'[b] = inbox[b] \o t
        /\ \A o \in Buses \ {b} : inbox'[o] = inbox[o]
    BY SendFacts DEF Types
  <1>2. ASSUME NEW i \in DOMAIN t, t[i].type = "BlockedApps" PROVE Asking'
    <2>1. Len(inbox[b]) + i \in DOMAIN inbox'[b] /\ inbox'[b][Len(inbox[b]) + i] = t[i]
      BY <1>1, ConcatPositions
    <2> QED
      BY <1>2, <2>1 DEF Asking, ToSet
  <1>4. \A i \in DOMAIN inbox[b] : i \in DOMAIN inbox'[b] /\ inbox'[b][i] = inbox[b][i]
    BY <1>1, ConcatPositions
  <1>3. ASSUME NEW o \in Buses, NEW i \in DOMAIN inbox[o], inbox[o][i].type = "BlockedApps"
        PROVE  Asking'
    <2>1. i \in DOMAIN inbox'[o] /\ inbox'[o][i] = inbox[o][i]
      <3>1. CASE o = b
        BY <1>3, <1>4, <3>1
      <3>2. CASE o # b
        BY <1>1, <1>3, <3>2
      <3> QED
        BY <3>1, <3>2
    <2> QED
      BY <1>3, <2>1 DEF Asking, ToSet
  <1> QED
    BY <1>2, <1>3 DEF Asking, ToSet

\* No acceptance and no end is under way on one connection.
Calm(s) == \A i \in DOMAIN s : s[i] # Accepted /\ s[i] # Disappeared

LEMMA ServedIs == Served <=> /\ registered /\ bus # NoBus /\ daemon = bus
                              /\ told # Signal("unregistered") /\ answer = << >> /\ ~Asking
                              /\ Calm(inbox[daemon])
  BY GettingIs DEF Served, Calm, ToSet

LEMMA CalmTail ==
  ASSUME NEW s \in Seq(News), s # << >>, Calm(Tail(s)), s[1] # Accepted, s[1] # Disappeared
  PROVE  Calm(s)
  <1> DEFINE t == Tail(s)
  <1>1. /\ Len(s) \in Nat \ {0} /\ DOMAIN s = 1 .. Len(s) /\ DOMAIN t = 1 .. Len(s) - 1
        /\ \A j \in 1 .. Len(s) - 1 : t[j] = s[j + 1]
    BY TailFacts
  <1> HIDE DEF t
  <1>2. ASSUME NEW i \in DOMAIN s, i # 1 PROVE s[i] # Accepted /\ s[i] # Disappeared
    <2>1. i - 1 \in 1 .. Len(s) - 1 /\ (i - 1) + 1 = i
      BY <1>1, <1>2
    <2>2. t[i - 1] = s[i] /\ i - 1 \in DOMAIN t
      BY <1>1, <2>1
    <2> QED
      BY <2>2 DEF Calm, t
  <1> QED
    BY <1>2 DEF Calm

LEMMA CalmConcat ==
  ASSUME NEW s \in Seq(News), NEW t \in Seq(News), Calm(s \o t)
  PROVE  Calm(s) /\ \A i \in DOMAIN t : t[i] # Accepted /\ t[i] # Disappeared
  <1>1. /\ \A i \in DOMAIN s : i \in DOMAIN (s \o t) /\ (s \o t)[i] = s[i]
        /\ \A j \in DOMAIN t : Len(s) + j \in DOMAIN (s \o t) /\ (s \o t)[Len(s) + j] = t[j]
    BY ConcatPositions
  <1> QED
    BY <1>1 DEF Calm

\* Where the daemon is, the other bus has nothing but the selection.
LEMMA HomeOnly ==
  ASSUME HomeInv, ~crossed, daemon # NoBus, NEW b \in Buses, NEW i \in DOMAIN inbox[b],
         inbox[b][i].type # "Select"
  PROVE  b = daemon
  BY DEF HomeInv, Home, Quiet

LEMMA HomeOnlyReceives ==
  ASSUME Types, HomeInv, ~crossed, daemon # NoBus, NEW b \in Buses, NEW type, Receives(b, type),
         type # "Select"
  PROVE  b = daemon
  <1>1. /\ inbox[b] \in Seq(News) /\ inbox[b] # << >> /\ Head(inbox[b]).type = type
    BY ReceivesFacts DEF Types
  <1>2. 1 \in DOMAIN inbox[b] /\ inbox[b][1].type = type
    BY <1>1, TailFacts
  <1> QED
    BY <1>2, HomeOnly

\* The calls of the selection are none of the registration's.
LEMMA SelectionCalls ==
  ASSUME Types, NEW s
  PROVE  \A o \in Buses, k \in {"Register", "GetBlocked"} :
             Calling(calls, StepCall(s)[1], StepCall(s)[2])[o][k] = calls[o][k]
  <1>1. calls \in [Buses -> [CallKinds -> Nat]] /\ StepCall(s)[1] \in Buses /\ StepCall(s)[2] \in SelectKinds
    BY StepCallTypes DEF Types, WireTypes
  <1>2. StepCall(s)[2] \notin {"Register", "GetBlocked"} /\ {"Register", "GetBlocked"} \subseteq CallKinds
    BY <1>1, KindsAre DEF SelectKinds
  <1> QED
    BY <1>1, <1>2, CallingType, KindsAre

LEMMA CallingAsks ==
  ASSUME Types, NEW b \in Buses, calls' = Calling(calls, b, "GetBlocked")
  PROVE  Asking'
  <1>1. calls \in [Buses -> [CallKinds -> Nat]]
    BY DEF Types, WireTypes
  <1>2. calls'[b]["GetBlocked"] = calls[b]["GetBlocked"] + 1 /\ calls[b]["GetBlocked"] \in Nat
    BY <1>1, CallingType, KindsAre
  <1> QED
    BY <1>2 DEF Asking

LEMMA CallingRegister ==
  ASSUME Types, NEW b \in Buses, calls' = Calling(calls, b, "Register")
  PROVE  \A o \in Buses : calls'[o]["GetBlocked"] = calls[o]["GetBlocked"]
  <1>1. calls \in [Buses -> [CallKinds -> Nat]]
    BY DEF Types, WireTypes
  <1>2. "Register" \in CallKinds /\ "GetBlocked" \in CallKinds
    BY KindsAre
  <1>3. \A o \in Buses, k \in CallKinds : Calling(calls, b, "Register")[o][k] =
            IF o = b /\ k = "Register" THEN calls[o][k] + 1 ELSE calls[o][k]
    BY <1>1, <1>2, CallingType
  <1>4. \A o \in Buses : calls'[o]["GetBlocked"] =
            IF o = b /\ "GetBlocked" = "Register" THEN calls[o]["GetBlocked"] + 1
                                                   ELSE calls[o]["GetBlocked"]
    BY <1>2, <1>3
  <1> QED
    BY <1>4

LEMMA ServedThen ==
  Served' <=> /\ registered' /\ bus' # NoBus /\ daemon' = bus'
              /\ told' # Signal("unregistered") /\ answer' = << >> /\ ~Asking'
              /\ Calm(inbox'[daemon'])
  BY DEF Served, GettingBlocked, Asking, Calm, ToSet

\* Only the answer for the list makes the plugin served, where it was not.
LEMMA ServedReceives ==
  ASSUME Types, HomeInv, NEW b \in Buses, ReceiveStep(b), Served', ~crossed'
  PROVE  Served \/ (OnGetBlockedAppsReply(b) /\ daemon = b)
  <1>1. ~crossed /\ daemon' = daemon /\ answer' = answer
    <2>1. [Next]_vars
      BY DEF Next, DbusThread, ReceiveStep
    <2> QED
      BY <2>1, CrossedStays, ReceiveStepIs DEF daemonVars
  <1>2. /\ registered' /\ bus' # NoBus /\ daemon = bus' /\ told # Signal("unregistered")
        /\ answer = << >> /\ ~Asking' /\ Calm(inbox'[daemon])
    BY <1>1, ServedThen, ToldBefore
  <1>3. daemon # NoBus /\ daemon \in Buses
    BY <1>2 DEF Types, DaemonTypes
  <1>4. ASSUME NEW type, Receives(b, type), type # "BlockedApps",
               Head(inbox[b]) # Accepted, Head(inbox[b]) # Disappeared,
               \A o \in Buses : calls'[o]["GetBlocked"] = calls[o]["GetBlocked"]
        PROVE  ~Asking /\ Calm(inbox[daemon])
    <2>1. ~Asking
      BY <1>2, <1>4, AskingReceived
    <2>2. /\ inbox[b] \in Seq(News) /\ inbox[b] # << >> /\ inbox'[b] = Tail(inbox[b])
          /\ \A o \in Buses \ {b} : inbox'[o] = inbox[o]
      BY <1>4, ReceivesFacts DEF Types
    <2>3. CASE daemon = b
      <3>1. inbox[b][1] # Accepted /\ inbox[b][1] # Disappeared
        BY <1>4, <2>2, TailFacts
      <3>2. Calm(inbox[b])
        BY <1>2, <2>2, <2>3, <3>1, CalmTail
      <3> QED
        BY <2>1, <2>3, <3>2
    <2>4. CASE daemon # b
      BY <1>2, <1>3, <2>1, <2>2, <2>4
    <2> QED
      BY <2>3, <2>4
  <1>5. ASSUME NEW type, Receives(b, type), type \in {"Select", "AppBlocked", "Appeared"}
        PROVE  Head(inbox[b]) # Accepted /\ Head(inbox[b]) # Disappeared
    BY <1>5, LifeTypes DEF Receives
  <1>6. CASE OnBusSelectReply(b)
    <2> DEFINE next == IF Head(inbox[b]).ok THEN OnSuccess[select] ELSE OnFailure[select]
    <2>1. /\ Receives(b, "Select") /\ registered' = registered
          /\ IF next \in Buses \cup {NoBus} THEN FinishBusSelection(next)
             ELSE /\ calls' = Calling(calls, StepCall(next)[1], StepCall(next)[2])
                  /\ UNCHANGED bus
      BY <1>6 DEF OnBusSelectReply
    <2> HIDE DEF next
    <2>2. CASE next \in Buses \cup {NoBus}
      <3>1. bus' = next
        BY <2>1, <2>2 DEF FinishBusSelection
      <3>2. calls' = Calling(calls, next, "Register") /\ next \in Buses
        BY <1>2, <2>1, <2>2, <3>1 DEF FinishBusSelection, SetupDaemonProxy
      <3>3. ~Asking /\ Calm(inbox[daemon])
        BY <1>4, <1>5, <2>1, <3>2, CallingRegister
      <3>4. PICK h \in Buses : Home(h)
        BY <1>1 DEF HomeInv
      <3>5. h = daemon /\ (bus = h \/ Has(inbox[h], Disappeared))
        BY <1>2, <1>3, <2>1, <3>4 DEF Home, Registration
      <3>6. bus = daemon
        BY <3>3, <3>5 DEF Calm, Has
      <3> QED
        BY <1>2, <1>3, <2>1, <3>3, <3>6, ServedIs
    <2>3. CASE next \notin Buses \cup {NoBus}
      <3>1. \A o \in Buses : calls'[o]["GetBlocked"] = calls[o]["GetBlocked"]
        BY <2>1, <2>3, SelectionCalls
      <3>2. ~Asking /\ Calm(inbox[daemon])
        BY <1>4, <1>5, <2>1, <3>1
      <3> QED
        BY <1>2, <2>1, <2>3, <3>2, ServedIs
    <2> QED
      BY <2>2, <2>3
  <1>7. CASE OnRegisterReply(b)
    <2>1. CASE Head(inbox[b]).ok
      <3>1. calls' = Calling(calls, bus, "GetBlocked") /\ bus \in Buses
        BY <1>2, <1>3, <1>7, <2>1 DEF OnRegisterReply
      <3> QED
        BY <1>2, <3>1, CallingAsks
    <2>2. CASE ~Head(inbox[b]).ok
      <3>1. Receives(b, "Registered") /\ UNCHANGED << registered, bus, calls >>
        BY <1>7, <2>2 DEF OnRegisterReply
      <3>2. Head(inbox[b]) # Accepted /\ Head(inbox[b]) # Disappeared
        BY <2>2, <3>1, LifeTypes DEF Receives
      <3>3. ~Asking /\ Calm(inbox[daemon])
        BY <1>4, <3>1, <3>2
      <3> QED
        BY <1>2, <3>1, <3>3, ServedIs
    <2> QED
      BY <2>1, <2>2
  <1>8. CASE OnGetBlockedAppsReply(b)
    <2>1. Receives(b, "BlockedApps")
      BY <1>8 DEF OnGetBlockedAppsReply
    <2> QED
      BY <1>1, <1>3, <1>8, <2>1, HomeOnlyReceives
  <1>9. CASE OnAppBlocked(b)
    <2>1. Receives(b, "AppBlocked") /\ UNCHANGED << registered, bus, calls >>
      BY <1>9 DEF OnAppBlocked
    <2>2. ~Asking /\ Calm(inbox[daemon])
      BY <1>4, <1>5, <2>1
    <2> QED
      BY <1>2, <2>1, <2>2, ServedIs
  <1>10. CASE OnDisappeared(b)
    BY <1>2, <1>10 DEF OnDisappeared
  <1>11. CASE OnAppeared(b)
    <2>1. Receives(b, "Appeared") /\ registered' = registered
      BY <1>11 DEF OnAppeared
    <2>2. IF registered THEN UNCHANGED << bus, matches, calls >> ELSE TRUE
      BY <1>11 DEF OnAppeared
    <2>3. UNCHANGED << registered, bus, calls >>
      BY <1>2, <2>1, <2>2
    <2>4. ~Asking /\ Calm(inbox[daemon])
      BY <1>4, <1>5, <2>1, <2>3
    <2> QED
      BY <1>2, <2>3, <2>4, ServedIs
  <1> QED
    BY <1>6, <1>7, <1>8, <1>9, <1>10, <1>11 DEF ReceiveStep

\* A daemon that hears nothing of a registered plugin has told its end.
LEMMA UnheardEnds ==
  ASSUME Types, HomeInv, ToldInv, ~crossed, daemon \in Buses, registered, Calm(inbox[daemon])
  PROVE  told # Signal("unregistered")
  <1> SUFFICES ASSUME told = Signal("unregistered") PROVE FALSE
    OBVIOUS
  <1>1. PICK b \in Buses : Ended(inbox[b], 0)
    BY ToldInvIs
  <1>2. inbox[b] \in Seq(News) /\ daemon # NoBus
    BY BusesAre DEF Types, WireTypes
  <1>3. PICK j \in 0 + 1 .. Len(inbox[b]) : inbox[b][j] = Disappeared
    BY <1>1 DEF Ended
  <1>4. j \in DOMAIN inbox[b] /\ inbox[b][j].type # "Select"
    BY <1>2, <1>3, LenProperties, LifeTypes
  <1>5. b = daemon
    BY <1>2, <1>4, HomeOnly
  <1> QED
    BY <1>3, <1>4, <1>5 DEF Calm

LEMMA ServedAnswers ==
  ASSUME Types, HomeInv, ToldInv, DaemonStep, Served', ~crossed'
  PROVE  Served /\ told' = told
  <1>1. UNCHANGED << registered, bus >> /\ ~crossed
    <2>1. UNCHANGED << registered, bus >>
      BY DaemonStepTypes DEF threadVars
    <2>2. crossed => crossed'
      BY DaemonStepIs DEF BusStep, Started, daemonVars
    <2> QED
      BY <2>1, <2>2
  <1>2. /\ registered /\ bus # NoBus /\ daemon' = bus /\ told' # Signal("unregistered")
        /\ answer' = << >> /\ ~Asking' /\ Calm(inbox'[daemon']) /\ bus \in Buses
    BY <1>1, ServedThen DEF Types, DbusTypes
  <1>3. calls \in [Buses -> [CallKinds -> Nat]] /\ {"HasOwner", "Start", "Register", "GetBlocked"} \subseteq CallKinds
    BY KindsAre DEF Types, WireTypes
  <1>4. ASSUME NEW b \in Buses, NEW t \in Seq(News), Send(b, t), daemon' = daemon, answer = << >>,
               told' = told \/ told' = Subscribed,
               \A o \in Buses : calls'[o]["GetBlocked"] = calls[o]["GetBlocked"]
        PROVE  Served /\ told' = told
    <2>1. ~Asking
      BY <1>2, <1>4, AskingSent
    <2>2. /\ inbox[b] \in Seq(News) /\ inbox'[b] = inbox[b] \o t
          /\ \A o \in Buses \ {b} : inbox'[o] = inbox[o]
      BY <1>4, SendFacts DEF Types
    <2>3. daemon = bus /\ daemon \in Buses
      BY <1>2, <1>4
    <2>4. Calm(inbox[daemon])
      <3>1. CASE b = daemon
        <4>1. Calm(inbox[b] \o t)
          BY <1>2, <1>4, <2>2, <3>1
        <4> QED
          BY <1>4, <2>2, <3>1, <4>1, CalmConcat
      <3>2. CASE b # daemon
        BY <1>2, <1>4, <2>2, <2>3, <3>2
      <3> QED
        BY <3>1, <3>2
    <2>5. told # Signal("unregistered")
      BY <1>1, <1>2, <2>3, <2>4, UnheardEnds
    <2>6. told' = told
      BY <1>4, <2>5 DEF Subscribed
    <2> QED
      BY <1>2, <1>4, <2>1, <2>3, <2>4, <2>5, <2>6, ServedIs
  <1>5. ASSUME NEW b \in Buses, NEW m \in News, Send(b, << m >>), m.type = "BlockedApps"
        PROVE  FALSE
    <2> DEFINE t == << m >>
    <2>1. t \in Seq(News) /\ Send(b, t) /\ 1 \in DOMAIN t /\ t[1] = m
      BY <1>5, OneMessage
    <2> HIDE DEF t
    <2> QED
      BY <1>2, <1>5, <2>1, AskingSent
  <1>6. ASSUME NEW b \in Buses, NEW kind \in {"HasOwner", "Start", "Register"}, Answers(b, kind)
        PROVE  \A o \in Buses : calls'[o]["GetBlocked"] = calls[o]["GetBlocked"]
    BY <1>3, <1>6, AnswersFacts DEF Types
  <1>7. ASSUME NEW b \in Buses, BusStep(b) PROVE Served /\ told' = told
    <2>1. CASE /\ Answers(b, "HasOwner") \/ Answers(b, "Start")
               /\ Send(b, << [type |-> "Select", ok |-> daemon = b] >>)
               /\ UNCHANGED << daemonVars, told >>
      <3> DEFINE m == [type |-> "Select", ok |-> daemon = b]
      <3>1. m \in News /\ Send(b, << m >>)
        BY <2>1, NewsTypes
      <3> HIDE DEF m
      <3>2. << m >> \in Seq(News)
        BY <3>1, OneMessage
      <3>3. \A o \in Buses : calls'[o]["GetBlocked"] = calls[o]["GetBlocked"]
        BY <1>6, <2>1
      <3>4. daemon' = daemon /\ answer = << >>
        BY <1>2, <2>1 DEF daemonVars
      <3> QED
        BY <1>4, <2>1, <3>1, <3>2, <3>3, <3>4
    <2>2. CASE Started(b) /\ UNCHANGED told
      BY <1>2, <2>2 DEF Started, Types, ToldType
    <2>3. CASE /\ Answers(b, "Register")
               /\ \E ok \in BOOLEAN : Send(b, << [type |-> "Registered", ok |-> ok] >>)
               /\ told' = told \/ told' = Subscribed
               /\ UNCHANGED << daemon, answer >>
      <3>1. PICK ok \in BOOLEAN : Send(b, << [type |-> "Registered", ok |-> ok] >>)
        BY <2>3
      <3> DEFINE m == [type |-> "Registered", ok |-> ok]
      <3>2. m \in News /\ Send(b, << m >>)
        BY <3>1, NewsTypes
      <3> HIDE DEF m
      <3>3. << m >> \in Seq(News)
        BY <3>2, OneMessage
      <3>4. \A o \in Buses : calls'[o]["GetBlocked"] = calls[o]["GetBlocked"]
        BY <1>6, <2>3
      <3> QED
        BY <1>2, <1>4, <2>3, <3>2, <3>3, <3>4
    <2>4. CASE Send(b, << Failure >>)
      BY <1>5, <2>4, DeathNoteIs
    <2>5. CASE answer' = << blocked >>
      <3>1. << blocked >> # << >>
        OBVIOUS
      <3> QED
        BY <1>2, <2>5, <3>1
    <2> QED
      BY <1>7, <2>1, <2>2, <2>3, <2>4, <2>5 DEF BusStep
  <1>8. ASSUME daemon \in Buses, answer[1] \in SUBSET Apps,
               Send(daemon, << [type |-> "BlockedApps", ok |-> TRUE, apps |-> answer[1]] >>)
        PROVE  FALSE
    <2> DEFINE m == [type |-> "BlockedApps", ok |-> TRUE, apps |-> answer[1]]
    <2>1. m \in News /\ m.type = "BlockedApps" /\ Send(daemon, << m >>)
      BY <1>8, NewsTypes
    <2> HIDE DEF m
    <2> QED
      BY <1>5, <1>8, <2>1
  <1>9. CASE daemon' = NoBus
    BY <1>2, <1>9
  <1>10. ASSUME NEW a \in Apps, daemon \in Buses, matches[daemon] \in Nat, Send(daemon, ToggleNote(a)),
                UNCHANGED << daemon, answer, told, calls >>
         PROVE  Served /\ told' = told
    <2>1. ToggleNote(a) \in Seq(News)
      BY <1>10, ToggleNoteIs
    <2> QED
      BY <1>2, <1>4, <1>10, <2>1
  <1> QED
    BY <1>7, <1>8, <1>9, <1>10, DaemonStepIs
-----------------------------------------------------------------------------
(* The daemon is told the focus *)

LEMMA FocusToldNext ==
  Types /\ HomeInv /\ ToldInv /\ DaemonToldFocus /\ [Next]_vars => DaemonToldFocus'
  <1> DEFINE Known(m, c) == m = c \/ m.type \in {"Idle", "Resume", "Locked", "Power"}
  <1> SUFFICES ASSUME Types, HomeInv, ToldInv, DaemonToldFocus, [Next]_vars, Served', ~crossed'
               PROVE  Known(told', current')
    BY DEF DaemonToldFocus
  <1>1. ~crossed /\ (Served => Known(told, current))
    BY CrossedStays DEF DaemonToldFocus
  <1>2. ASSUME Served, NEW m, told' = Heard(registered, m), Known(m, current')
        PROVE  Known(told', current')
    BY <1>2 DEF Served, Heard
  <1>3. ASSUME Served, UNCHANGED << told, current >> PROVE Known(told', current')
    BY <1>1, <1>3
  <1>4. Known(Signal("Locked"), current') /\ Known(Signal("Power"), current')
    BY DEF Signal
  <1>5. CASE CompositorStep \/ LoopStep \/ UNCHANGED vars
    <2>1. /\ UNCHANGED << registered, bus, daemon, answer, inbox, calls >>
          /\ told = Signal("unregistered") => told' = told
      BY <1>5, CompositorStepTypes, LoopStepTypes, ToldBefore DEF dbusVars, daemonVars, vars
    <2>2. Served
      BY <2>1 DEF Served, GettingBlocked
    <2>3. CASE CompositorStep \/ UNCHANGED vars
      BY <1>3, <2>2, <2>3, CompositorStepTypes DEF dbusVars, vars
    <2>4. CASE CommitCommand \/ OpenMessages
      BY <1>3, <2>2, <2>4 DEF CommitCommand, OpenMessages
    <2>5. CASE HandleMessages
      <3>1. CASE UNCHANGED << current, told >>
        BY <1>3, <2>2, <3>1
      <3>2. CASE \E m : told' = Heard(registered, m) /\ (m = current' \/ m.type \in {"Idle", "Resume"})
        BY <1>2, <2>2, <3>2
      <3> QED
        BY <2>5, <3>1, <3>2, HandledTold
    <2>6. CASE ScreenLock
      <3>1. current' = current
        BY <2>6 DEF ScreenLock
      <3>2. \/ told' = Heard(registered, Signal("Locked"))
            \/ told' = Heard(registered, current)
            \/ told' = told
        BY <2>6 DEF ScreenLock
      <3> QED
        BY <1>2, <1>3, <1>4, <2>2, <3>1, <3>2
    <2>7. CASE PrepareForSleep
      <3>1. current' = current
        BY <2>7 DEF PrepareForSleep
      <3>2. \/ told' = Heard(registered, Signal("Power"))
            \/ told' = Heard(registered, current)
            \/ told' = told
        BY <2>7 DEF PrepareForSleep
      <3> QED
        BY <1>2, <1>3, <1>4, <2>2, <3>1, <3>2
    <2> QED
      BY <1>5, <2>3, <2>4, <2>5, <2>6, <2>7 DEF LoopStep
  <1>6. ASSUME NEW b \in Buses, ReceiveStep(b) PROVE Known(told', current')
    <2>1. current' = current
      BY <1>6, ReceiveStepIs
    <2>2. CASE OnGetBlockedAppsReply(b)
      <3>1. told' = Heard(registered, current) /\ UNCHANGED << registered, bus, daemon >>
        BY <2>2 DEF OnGetBlockedAppsReply, EmitCurrentFocus, daemonVars
      <3>2. /\ registered /\ bus # NoBus /\ daemon = bus
            /\ told # Signal("unregistered")
        BY <1>6, <3>1, ToldBefore DEF Served
      <3>3. told' = current
        BY <3>1, <3>2 DEF Heard
      <3> QED
        BY <2>1, <3>3
    <2>3. CASE ~OnGetBlockedAppsReply(b)
      <3>1. Served
        BY <1>6, <2>3, ServedReceives
      <3>2. told' = told
        BY <1>6, <2>3 DEF ReceiveStep, OnBusSelectReply, OnRegisterReply, OnAppBlocked, OnDisappeared,
                          OnAppeared
      <3> QED
        BY <1>3, <2>1, <3>1, <3>2
    <2> QED
      BY <2>2, <2>3
  <1>7. CASE DaemonStep
    <2>1. current' = current
      BY <1>7, DaemonStepTypes DEF threadVars
    <2> QED
      BY <1>3, <1>7, <2>1, ServedAnswers
  <1> QED
    BY <1>5, <1>6, <1>7, NextIs

LEMMA PluginTold ==
  Spec => [](Types /\ SelectInv /\ LifeInv /\ HomeInv /\ ToldInv /\ DaemonToldFocus)
  <1>1. Init => ToldInv /\ DaemonToldFocus
    <2> SUFFICES ASSUME Init PROVE ToldInv /\ DaemonToldFocus
      OBVIOUS
    <2>1. registered = FALSE /\ \A b \in Buses : DOMAIN inbox[b] = {}
      BY DEF Init
    <2> QED
      BY <2>1 DEF ToldInv, DaemonToldFocus, Served
  <1>2. Types /\ SelectInv /\ LifeInv /\ HomeInv /\ ToldInv /\ DaemonToldFocus /\ [Next]_vars
        => ToldInv' /\ DaemonToldFocus'
    BY ToldNext, FocusToldNext
  <1> QED
    BY <1>1, <1>2, PluginHome, PTL DEF Spec

\* DaemonToldFocus: whatever the order of the registration, of the answers, of
\* the focus changes and of the daemon's restarts, a daemon that registered the
\* plugin and answered for its blocked apps has been told m_focusedApp by
\* emitCurrentFocusEvent, or a later idle, lock or power event.
THEOREM FocusIsTold == Spec => []DaemonToldFocus
  BY PluginTold, PTL
-----------------------------------------------------------------------------
(* Who asks for the list has subscribed *)

Wants(b) == \/ bus = b \/ calls[b]["GetBlocked"] > 0
            \/ answer # << >> /\ daemon = b
            \/ \E i \in DOMAIN inbox[b] : inbox[b][i].type = "BlockedApps"

LEMMA SubscribedInvIs == SubscribedInv <=> \A b \in Buses : Wants(b) => matches[b] > 0
  BY DEF SubscribedInv, Wants

LEMMA InboxShrinks ==
  ASSUME Types, NEW b \in Buses, NEW type, Receives(b, type), NEW o \in Buses, NEW i \in DOMAIN inbox'[o]
  PROVE  \E j \in DOMAIN inbox[o] : inbox'[o][i] = inbox[o][j]
  <1>1. /\ inbox[b] \in Seq(News) /\ inbox[b] # << >> /\ inbox'[b] = Tail(inbox[b])
        /\ \A x \in Buses \ {b} : inbox'[x] = inbox[x]
    BY ReceivesFacts DEF Types
  <1>2. CASE o = b
    <2>1. i \in 1 .. Len(inbox[b]) - 1 /\ Len(inbox[b]) \in Nat /\ DOMAIN inbox[b] = 1 .. Len(inbox[b])
          /\ \A j \in 1 .. Len(inbox[b]) - 1 : Tail(inbox[b])[j] = inbox[b][j + 1]
      BY <1>1, <1>2, TailFacts
    <2>2. i + 1 \in DOMAIN inbox[b] /\ inbox'[b][i] = inbox[b][i + 1]
      BY <1>1, <2>1
    <2> QED
      BY <1>2, <2>2
  <1>3. CASE o # b
    BY <1>1, <1>3
  <1> QED
    BY <1>2, <1>3

LEMMA ListCalls ==
  ASSUME Types, NEW h \in Buses, NEW o \in Buses
  PROVE  /\ Calling(calls, h, "Register")[o]["GetBlocked"] = calls[o]["GetBlocked"]
         /\ Calling(calls, h, "GetBlocked")[o]["GetBlocked"] =
                IF o = h THEN calls[o]["GetBlocked"] + 1 ELSE calls[o]["GetBlocked"]
  <1>1. calls \in [Buses -> [CallKinds -> Nat]] /\ "Register" \in CallKinds /\ "GetBlocked" \in CallKinds
    BY KindsAre DEF Types, WireTypes
  <1>2. \A k \in CallKinds : Calling(calls, h, "Register")[o][k] =
                              IF o = h /\ k = "Register" THEN calls[o][k] + 1 ELSE calls[o][k]
    BY <1>1, CallingType
  <1>3. \A k \in CallKinds : Calling(calls, h, "GetBlocked")[o][k] =
                              IF o = h /\ k = "GetBlocked" THEN calls[o][k] + 1 ELSE calls[o][k]
    BY <1>1, CallingType
  <1> QED
    BY <1>1, <1>2, <1>3

LEMMA SubscribedReceives ==
  ASSUME Types, SubscribedInv, NEW b \in Buses, ReceiveStep(b)
  PROVE  SubscribedInv'
  <1>1. /\ UNCHANGED << answer, daemon >> /\ matches \in [Buses -> Nat] /\ bus \in Buses \cup {NoBus}
        /\ calls \in [Buses -> [CallKinds -> Nat]] /\ "GetBlocked" \in CallKinds /\ "Register" \in CallKinds
    BY ReceiveStepIs, KindsAre DEF daemonVars, Types, DbusTypes, WireTypes
  <1>2. PICK type : Receives(b, type)
    BY ReceiveStepIs
  <1>3. ASSUME NEW o \in Buses, Wants(o)'
        PROVE  Wants(o) \/ bus' = o \/ (calls'[o]["GetBlocked"] > 0 /\ ~(calls[o]["GetBlocked"] > 0))
    <2>1. ASSUME NEW i \in DOMAIN inbox'[o], inbox'[o][i].type = "BlockedApps"
          PROVE  \E j \in DOMAIN inbox[o] : inbox[o][j].type = "BlockedApps"
      <3>1. PICK j \in DOMAIN inbox[o] : inbox'[o][i] = inbox[o][j]
        BY <1>2, InboxShrinks
      <3> QED
        BY <2>1, <3>1
    <2>2. answer' = answer /\ daemon' = daemon
      BY <1>1
    <2> QED
      BY <1>3, <2>1, <2>2 DEF Wants
  <1>4. ASSUME UNCHANGED matches, \A o \in Buses : bus' = o => bus = o,
               \A o \in Buses : calls'[o]["GetBlocked"] > 0 => calls[o]["GetBlocked"] > 0 \/ bus = o
        PROVE  SubscribedInv'
    <2>1. \A o \in Buses : Wants(o)' => Wants(o)
      BY <1>3, <1>4 DEF Wants
    <2> QED
      BY <1>4, <2>1, SubscribedInvIs DEF SubscribedInv, Wants
  <1>5. ASSUME NEW h \in Buses, bus' = h,
               \/ matches' = [matches EXCEPT ![h] = @ + 1]
               \/ bus = h /\ UNCHANGED matches,
               \A o \in Buses : calls'[o]["GetBlocked"] = calls[o]["GetBlocked"]
        PROVE  SubscribedInv'
    <2>1. matches'[h] > 0
      BY <1>1, <1>5, SubscribedInvIs DEF Wants
    <2>2. \A o \in Buses \ {h} : matches'[o] = matches[o] /\ (Wants(o)' => Wants(o))
      BY <1>1, <1>3, <1>5
    <2>3. \A o \in Buses : Wants(o)' => matches'[o] > 0
      BY <2>1, <2>2, SubscribedInvIs
    <2> QED
      BY <2>3 DEF SubscribedInv, Wants
  <1>6. CASE OnBusSelectReply(b)
    <2> DEFINE next == IF Head(inbox[b]).ok THEN OnSuccess[select] ELSE OnFailure[select]
    <2>1. IF next \in Buses \cup {NoBus} THEN FinishBusSelection(next)
          ELSE /\ calls' = Calling(calls, StepCall(next)[1], StepCall(next)[2])
               /\ UNCHANGED << bus, matches >>
      BY <1>6 DEF OnBusSelectReply
    <2> HIDE DEF next
    <2>2. CASE next \in Buses /\ FinishBusSelection(next)
      <3>1. /\ bus' = next /\ matches' = [matches EXCEPT ![next] = @ + 1]
            /\ calls' = Calling(calls, next, "Register")
        BY <2>2, BusesAre DEF FinishBusSelection, Subscribe, SetupDaemonProxy
      <3>2. \A o \in Buses : calls'[o]["GetBlocked"] = calls[o]["GetBlocked"]
        BY <2>2, <3>1, ListCalls
      <3> QED
        BY <1>5, <2>2, <3>1, <3>2
    <2>3. CASE next = NoBus /\ FinishBusSelection(next)
      BY <1>4, <2>3, BusesAre DEF FinishBusSelection
    <2>4. CASE /\ calls' = Calling(calls, StepCall(next)[1], StepCall(next)[2])
               /\ UNCHANGED << bus, matches >>
      BY <1>4, <2>4, SelectionCalls
    <2> QED
      BY <2>1, <2>2, <2>3, <2>4
  <1>7. CASE OnRegisterReply(b)
    <2>1. UNCHANGED << bus, matches >>
      BY <1>7 DEF OnRegisterReply
    <2>2. calls' = calls \/ (bus # NoBus /\ calls' = Calling(calls, bus, "GetBlocked"))
      BY <1>7 DEF OnRegisterReply
    <2>3. CASE calls' = calls
      BY <1>4, <2>1, <2>3
    <2>4. CASE bus # NoBus /\ calls' = Calling(calls, bus, "GetBlocked")
      <3>1. \A o \in Buses : calls'[o]["GetBlocked"] = IF o = bus THEN calls[o]["GetBlocked"] + 1
                                                       ELSE calls[o]["GetBlocked"]
        BY <1>1, <2>4, ListCalls
      <3>2. \A o \in Buses : calls'[o]["GetBlocked"] > 0 => calls[o]["GetBlocked"] > 0 \/ bus = o
        BY <3>1
      <3> QED
        BY <1>4, <2>1, <3>2
    <2> QED
      BY <2>2, <2>3, <2>4
  <1>8. CASE OnGetBlockedAppsReply(b) \/ OnAppBlocked(b) \/ OnDisappeared(b)
    BY <1>4, <1>8 DEF OnGetBlockedAppsReply, OnAppBlocked, OnDisappeared
  <1>9. CASE OnAppeared(b)
    <2>1. CASE registered
      BY <1>4, <1>9, <2>1 DEF OnAppeared
    <2>2. CASE ~registered
      <3>1. /\ bus' = b /\ calls' = Calling(calls, b, "Register")
            /\ IF bus # b THEN matches' = [matches EXCEPT ![b] = @ + 1] ELSE UNCHANGED matches
        BY <1>9, <2>2 DEF OnAppeared, Subscribe, SetupDaemonProxy
      <3>2. \A o \in Buses : calls'[o]["GetBlocked"] = calls[o]["GetBlocked"]
        BY <3>1, ListCalls
      <3> QED
        BY <1>5, <3>1, <3>2
    <2> QED
      BY <2>1, <2>2
  <1> QED
    BY <1>6, <1>7, <1>8, <1>9 DEF ReceiveStep

LEMMA SubscribedAnswers ==
  ASSUME Types, SubscribedInv, DaemonStep
  PROVE  SubscribedInv'
  <1>1. UNCHANGED << bus, matches >>
    BY DaemonStepTypes DEF threadVars
  <1>2. calls \in [Buses -> [CallKinds -> Nat]] /\ {"HasOwner", "Start", "Register", "GetBlocked"} = CallKinds
    BY KindsAre DEF Types, WireTypes
  <1>3. SUFFICES \A o \in Buses : Wants(o)' => Wants(o)
    BY <1>1, SubscribedInvIs DEF SubscribedInv, Wants
  <1>4. ASSUME NEW b \in Buses, NEW kind \in CallKinds, Answers(b, kind)
        PROVE  \A o \in Buses : calls'[o]["GetBlocked"] > 0 => calls[o]["GetBlocked"] > 0
    <2>1. /\ calls[b][kind] > 0
          /\ \A o \in Buses, k \in CallKinds : calls'[o][k] =
                 IF o = b /\ k = kind THEN calls[o][k] - 1 ELSE calls[o][k]
      BY <1>4, AnswersFacts DEF Types
    <2>2. \A o \in Buses : calls[o]["GetBlocked"] \in Nat
      BY <1>2
    <2> QED
      BY <1>2, <2>1, <2>2
  <1>5. ASSUME NEW b \in Buses, NEW t \in Seq(News), Send(b, t),
               \A o \in Buses : calls'[o]["GetBlocked"] > 0 => calls[o]["GetBlocked"] > 0,
               answer' # << >> => answer # << >> /\ daemon' = daemon,
               (\E i \in DOMAIN t : t[i].type = "BlockedApps") => Wants(b)
        PROVE  \A o \in Buses : Wants(o)' => Wants(o)
    <2>1. /\ inbox[b] \in Seq(News) /\ inbox'[b] = inbox[b] \o t
          /\ \A o \in Buses \ {b} : inbox'[o] = inbox[o]
      BY <1>5, SendFacts DEF Types
    <2>2. \A i \in DOMAIN inbox'[b] : \/ i \in DOMAIN inbox[b] /\ inbox'[b][i] = inbox[b][i]
                                      \/ \E j \in DOMAIN t : inbox'[b][i] = t[j]
      BY <2>1, ConcatPositions
    <2>3. ASSUME NEW o \in Buses, NEW i \in DOMAIN inbox'[o], inbox'[o][i].type = "BlockedApps"
          PROVE  Wants(o)
      <3>1. CASE o = b
        <4>1. CASE i \in DOMAIN inbox[b] /\ inbox'[b][i] = inbox[b][i]
          BY <2>3, <3>1, <4>1 DEF Wants
        <4>2. CASE \E j \in DOMAIN t : inbox'[b][i] = t[j]
          BY <1>5, <2>3, <3>1, <4>2
        <4> QED
          BY <2>2, <2>3, <3>1, <4>1, <4>2
      <3>2. CASE o # b
        BY <2>1, <2>3, <3>2 DEF Wants
      <3> QED
        BY <3>1, <3>2
    <2> QED
      BY <1>1, <1>5, <2>3 DEF Wants
  <1>6. ASSUME NEW b \in Buses, NEW m \in News, Send(b, << m >>),
               \A o \in Buses : calls'[o]["GetBlocked"] > 0 => calls[o]["GetBlocked"] > 0,
               answer' # << >> => answer # << >> /\ daemon' = daemon,
               m.type = "BlockedApps" => Wants(b)
        PROVE  \A o \in Buses : Wants(o)' => Wants(o)
    <2> DEFINE t == << m >>
    <2>1. t \in Seq(News) /\ Send(b, t) /\ \A i \in DOMAIN t : t[i] = m
      BY <1>6, OneMessage
    <2> HIDE DEF t
    <2> QED
      BY <1>5, <1>6, <2>1
  <1>7. ASSUME NEW b \in Buses, BusStep(b) PROVE \A o \in Buses : Wants(o)' => Wants(o)
    <2>1. ASSUME NEW kind \in {"HasOwner", "Start", "Register"}, Answers(b, kind),
                 NEW ty \in {"Select", "Registered"}, NEW ok \in BOOLEAN,
                 Send(b, << [type |-> ty, ok |-> ok] >>), UNCHANGED << daemon, answer >>
          PROVE  \A o \in Buses : Wants(o)' => Wants(o)
      <3> DEFINE m == [type |-> ty, ok |-> ok]
      <3>1. m \in News /\ Send(b, << m >>) /\ m.type # "BlockedApps"
        BY <2>1, NewsTypes
      <3> HIDE DEF m
      <3>2. kind \in CallKinds
        BY <1>2
      <3> QED
        BY <1>4, <1>6, <2>1, <3>1, <3>2
    <2>2. CASE Started(b) /\ (Send(b, << Appeared >>) \/ Send(b, << Appeared, Chosen >>))
               /\ UNCHANGED answer /\ (UNCHANGED calls \/ Answers(b, "Start"))
      <3>1. answer' = << >>
        BY <2>2 DEF Started, Types, DaemonTypes
      <3>2. \A o \in Buses : calls'[o]["GetBlocked"] > 0 => calls[o]["GetBlocked"] > 0
        BY <1>2, <1>4, <2>2
      <3>3. CASE Send(b, << Appeared >>)
        BY <1>6, <3>1, <3>2, <3>3, NewsTypes, LifeTypes
      <3>4. CASE Send(b, << Appeared, Chosen >>)
        <4> DEFINE t == << Appeared, Chosen >>
        <4>1. t \in Seq(News) /\ Send(b, t) /\ \A i \in DOMAIN t : t[i] \in {Appeared, Chosen}
          BY <3>4, StartNoteIs
        <4> HIDE DEF t
        <4>2. \A i \in DOMAIN t : t[i].type # "BlockedApps"
          BY <4>1, LifeTypes, StartNoteIs
        <4> QED
          BY <1>5, <3>1, <3>2, <4>1, <4>2
      <3> QED
        BY <2>2, <3>3, <3>4
    <2>3. CASE Answers(b, "GetBlocked") /\ Send(b, << Failure >>) /\ UNCHANGED << daemon, answer >>
      <3>1. Wants(b) /\ \A o \in Buses : calls'[o]["GetBlocked"] > 0 => calls[o]["GetBlocked"] > 0
        BY <1>2, <1>4, <2>3 DEF Wants, Answers
      <3> QED
        BY <1>6, <2>3, <3>1, DeathNoteIs
    <2>4. CASE Answers(b, "GetBlocked") /\ daemon = b /\ UNCHANGED << inbox, daemon >>
      <3>1. Wants(b) /\ \A o \in Buses : calls'[o]["GetBlocked"] > 0 => calls[o]["GetBlocked"] > 0
        BY <1>2, <1>4, <2>4 DEF Wants, Answers
      <3> QED
        BY <1>1, <2>4, <3>1 DEF Wants
    <2>5. (daemon = b) \in BOOLEAN
      OBVIOUS
    <2> QED
      BY <1>7, <2>1, <2>2, <2>3, <2>4, <2>5 DEF BusStep, daemonVars
  <1>8. ASSUME daemon \in Buses, answer # << >>, answer' = << >>, answer[1] \in SUBSET Apps, UNCHANGED calls,
               Send(daemon, << [type |-> "BlockedApps", ok |-> TRUE, apps |-> answer[1]] >>)
        PROVE  \A o \in Buses : Wants(o)' => Wants(o)
    <2> DEFINE m == [type |-> "BlockedApps", ok |-> TRUE, apps |-> answer[1]]
    <2>1. m \in News /\ Send(daemon, << m >>) /\ Wants(daemon)
      BY <1>8, NewsTypes DEF Wants
    <2> HIDE DEF m
    <2> QED
      BY <1>6, <1>8, <2>1
  <1>9. ASSUME daemon \in Buses, answer' = << >>, Send(daemon, DeathNote), UNCHANGED calls
        PROVE  \A o \in Buses : Wants(o)' => Wants(o)
    <2>1. (\E i \in DOMAIN DeathNote : DeathNote[i].type = "BlockedApps") => Wants(daemon)
      BY DeathNoteIs, LifeTypes DEF Wants
    <2> QED
      BY <1>5, <1>9, <2>1, DeathNoteIs
  <1>10. ASSUME NEW a \in Apps, daemon \in Buses, matches[daemon] \in Nat, Send(daemon, ToggleNote(a)),
                UNCHANGED << daemon, answer, calls >>
         PROVE  \A o \in Buses : Wants(o)' => Wants(o)
    <2> DEFINE m == [type |-> "AppBlocked", app |-> a, on |-> a \notin blocked]
    <2>1. ToggleNote(a) \in Seq(News) /\ m.type # "BlockedApps" /\ \A i \in DOMAIN ToggleNote(a) : ToggleNote(a)[i] = m
      BY <1>10, ToggleNoteIs
    <2> HIDE DEF m
    <2> QED
      BY <1>5, <1>10, <2>1
  <1> QED
    BY <1>7, <1>8, <1>9, <1>10, DaemonStepIs

LEMMA SubscribedNext == Types /\ SubscribedInv /\ [Next]_vars => SubscribedInv'
  <1> SUFFICES ASSUME Types, SubscribedInv, [Next]_vars PROVE SubscribedInv'
    OBVIOUS
  <1>1. CASE CompositorStep \/ LoopStep \/ UNCHANGED vars
    <2>1. UNCHANGED << bus, matches, calls, answer, daemon, inbox >>
      BY <1>1, CompositorStepTypes, LoopStepTypes DEF dbusVars, daemonVars, vars
    <2> QED
      BY <2>1 DEF SubscribedInv
  <1> QED
    BY <1>1, SubscribedReceives, SubscribedAnswers, NextIs

\* The snapshot is the list, as long as nothing was blocked or unblocked since.
LEMMA AnswerNext == Types /\ AnswerInv /\ [Next]_vars => AnswerInv'
  <1> SUFFICES ASSUME Types, AnswerInv, [Next]_vars PROVE AnswerInv'
    OBVIOUS
  <1>1. ASSUME UNCHANGED << answer, blocked, overtaken >> PROVE AnswerInv'
    BY <1>1 DEF AnswerInv
  <1>2. CASE CompositorStep \/ LoopStep \/ UNCHANGED vars
    BY <1>1, <1>2, CompositorStepTypes, LoopStepTypes DEF dbusVars, daemonVars, vars
  <1>3. ASSUME NEW b \in Buses, ReceiveStep(b) PROVE AnswerInv'
    BY <1>1, <1>3, ReceiveStepIs DEF daemonVars
  <1>4. CASE DaemonStep
    <2>1. CASE answer' = << >>
      BY <2>1 DEF AnswerInv
    <2>2. CASE answer' = << blocked >> /\ UNCHANGED blocked
      <3>1. answer'[1] = blocked
        BY <2>2
      <3> QED
        BY <2>2, <3>1 DEF AnswerInv
    <2>3. CASE UNCHANGED answer /\ overtaken' = (overtaken \/ answer # << >>)
      BY <2>3 DEF AnswerInv
    <2> QED
      BY <1>1, <1>4, <2>1, <2>2, <2>3, DaemonStepIs DEF BusStep, daemonVars
  <1> QED
    BY <1>2, <1>3, <1>4, NextIs
-----------------------------------------------------------------------------
(* The last word on an app *)

LEMMA LastWordIs ==
  ASSUME NEW xs, NEW a
  PROVE  LastWord(xs, a) = LET I == {i \in 1 .. Len(xs) : Settles(xs[i], a)} IN
                           IF I # {} THEN Max(I) ELSE 0
  BY DEF LastWord, SelectLastInSeq

\* Whether a is blocked after the words xs, when c says whether it was before.
Says(xs, a, c) == IF LastWord(xs, a) = 0 THEN c ELSE Leaves(xs[LastWord(xs, a)], a)

LEMMA OutcomeIs ==
  ASSUME NEW xs, NEW bs
  PROVE  Outcome(xs, bs) = {a \in Apps : Says(xs, a, a \in bs)}
  BY DEF Outcome, Says

LEMMA NoWord ==
  ASSUME NEW S, NEW xs \in Seq(S), NEW a, NEW c, \A i \in 1 .. Len(xs) : ~Settles(xs[i], a)
  PROVE  Says(xs, a, c) = c
  <1>1. LastWord(xs, a) = 0
    BY LastWordIs
  <1> QED
    BY <1>1 DEF Says

LEMMA SomeWord ==
  ASSUME NEW S, NEW xs \in Seq(S), NEW a, NEW c, NEW i \in 1 .. Len(xs), Settles(xs[i], a),
         \A j \in i + 1 .. Len(xs) : ~Settles(xs[j], a)
  PROVE  Says(xs, a, c) = Leaves(xs[i], a)
  <1> DEFINE I == {j \in 1 .. Len(xs) : Settles(xs[j], a)}
  <1>1. I # {} /\ Max(I) = i
    <2>1. I \subseteq 1 .. Len(xs) /\ i \in I /\ \A j \in i + 1 .. Len(xs) : j \notin I
      OBVIOUS
    <2> HIDE DEF I
    <2> QED
      BY <2>1, LastOfSome
  <1>2. LastWord(xs, a) = IF I # {} THEN Max(I) ELSE 0
    BY LastWordIs
  <1> HIDE DEF I
  <1>3. LastWord(xs, a) = i /\ i # 0
    BY <1>1, <1>2
  <1> QED
    BY <1>3 DEF Says

LEMMA WordCases ==
  ASSUME NEW S, NEW xs \in Seq(S), NEW a
  PROVE  \/ \A i \in 1 .. Len(xs) : ~Settles(xs[i], a)
         \/ \E i \in 1 .. Len(xs) : /\ Settles(xs[i], a)
                                    /\ \A j \in i + 1 .. Len(xs) : ~Settles(xs[j], a)
  <1> DEFINE I == {j \in 1 .. Len(xs) : Settles(xs[j], a)}
  <1> SUFFICES ASSUME I # {}
               PROVE  \E i \in I : \A j \in i + 1 .. Len(xs) : j \notin I
    OBVIOUS
  <1>1. Len(xs) \in Nat /\ I \subseteq 1 .. Len(xs)
    BY LenProperties
  <1> HIDE DEF I
  <1>2. Max(I) \in I /\ \A j \in I : j <= Max(I)
    BY <1>1, LastPosition
  <1>3. PICK k \in I : \A j \in I : j <= k
    BY <1>2
  <1>4. k \in Nat /\ \A j \in k + 1 .. Len(xs) : ~(j <= k)
    BY <1>1
  <1> QED
    BY <1>3, <1>4

LEMMA WordConcat ==
  ASSUME NEW S, NEW s \in Seq(S), NEW t \in Seq(S), NEW a, NEW c
  PROVE  Says(s \o t, a, c) = Says(t, a, Says(s, a, c))
  <1> DEFINE n == Len(s)
             m == Len(t)
             u == s \o t
  <1>1. /\ u \in Seq(S) /\ n \in Nat /\ m \in Nat /\ Len(u) = n + m
        /\ \A i \in 1 .. n : u[i] = s[i]
        /\ \A i \in 1 .. m : u[n + i] = t[i]
    BY ConcatFacts
  <1> HIDE DEF n, m, u
  <1>2. \A j \in n + 1 .. n + m : j - n \in 1 .. m /\ u[j] = t[j - n]
    <2>1. \A j \in n + 1 .. n + m : j - n \in 1 .. m /\ n + (j - n) = j
      BY <1>1
    <2> QED
      BY <1>1, <2>1
  <1>3. CASE \E i \in 1 .. m : Settles(t[i], a) /\ \A j \in i + 1 .. m : ~Settles(t[j], a)
    <2>1. PICK i \in 1 .. m : Settles(t[i], a) /\ \A j \in i + 1 .. m : ~Settles(t[j], a)
      BY <1>3
    <2>2. n + i \in 1 .. Len(u) /\ Settles(u[n + i], a) /\ u[n + i] = t[i]
      BY <1>1, <2>1
    <2>3. \A j \in n + i + 1 .. Len(u) : ~Settles(u[j], a)
      <3>1. \A j \in n + i + 1 .. n + m : j \in n + 1 .. n + m /\ j - n \in i + 1 .. m
        BY <1>1
      <3> QED
        BY <1>1, <1>2, <2>1, <3>1
    <2>4. Says(u, a, c) = Leaves(u[n + i], a)
      BY <1>1, <2>2, <2>3, SomeWord
    <2>5. Says(t, a, Says(s, a, c)) = Leaves(t[i], a)
      BY <2>1, SomeWord DEF m
    <2> QED
      BY <2>2, <2>4, <2>5 DEF u
  <1>4. CASE \A i \in 1 .. m : ~Settles(t[i], a)
    <2>1. Says(t, a, Says(s, a, c)) = Says(s, a, c)
      BY <1>4, NoWord DEF m
    <2>2. CASE \A i \in 1 .. n : ~Settles(s[i], a)
      <3>1. \A i \in 1 .. Len(u) : ~Settles(u[i], a)
        <4>1. \A i \in 1 .. n + m : i \in 1 .. n \/ i \in n + 1 .. n + m
          BY <1>1
        <4> QED
          BY <1>1, <1>2, <1>4, <2>2, <4>1
      <3>2. Says(u, a, c) = c /\ Says(s, a, c) = c
        BY <1>1, <2>2, <3>1, NoWord DEF n
      <3> QED
        BY <2>1, <3>2 DEF u
    <2>3. CASE \E i \in 1 .. n : Settles(s[i], a) /\ \A j \in i + 1 .. n : ~Settles(s[j], a)
      <3>1. PICK i \in 1 .. n : Settles(s[i], a) /\ \A j \in i + 1 .. n : ~Settles(s[j], a)
        BY <2>3
      <3>2. i \in 1 .. Len(u) /\ u[i] = s[i]
        BY <1>1
      <3>3. \A j \in i + 1 .. Len(u) : ~Settles(u[j], a)
        <4>1. \A j \in i + 1 .. n + m : j \in i + 1 .. n \/ j \in n + 1 .. n + m
          BY <1>1
        <4>2. \A j \in i + 1 .. n : j \in 1 .. n
          BY <1>1
        <4> QED
          BY <1>1, <1>2, <1>4, <3>1, <4>1, <4>2
      <3>4. Says(u, a, c) = Leaves(u[i], a)
        BY <1>1, <3>1, <3>2, <3>3, SomeWord
      <3>5. Says(s, a, c) = Leaves(s[i], a)
        BY <3>1, SomeWord DEF n
      <3> QED
        BY <2>1, <3>2, <3>4, <3>5 DEF u
    <2> QED
      BY <2>2, <2>3, WordCases DEF n
  <1> QED
    BY <1>3, <1>4, WordCases DEF m

LEMMA SaysSame ==
  ASSUME NEW xs, NEW a, NEW c, NEW d, c <=> d
  PROVE  Says(xs, a, c) <=> Says(xs, a, d)
  BY DEF Says

LEMMA OutcomeConcat ==
  ASSUME NEW S, NEW s \in Seq(S), NEW t \in Seq(S), NEW bs
  PROVE  Outcome(s \o t, bs) = Outcome(t, Outcome(s, bs))
  <1>1. ASSUME NEW a \in Apps
        PROVE  Says(s \o t, a, a \in bs) <=> Says(t, a, a \in Outcome(s, bs))
    <2>1. Says(s, a, a \in bs) <=> a \in Outcome(s, bs)
      BY OutcomeIs
    <2>2. Says(t, a, Says(s, a, a \in bs)) <=> Says(t, a, a \in Outcome(s, bs))
      BY <2>1, SaysSame
    <2> QED
      BY <2>2, WordConcat
  <1> DEFINE p == s \o t
             q == Outcome(s, bs)
  <1>2. Outcome(p, bs) = {a \in Apps : Says(p, a, a \in bs)} /\ Outcome(t, q) = {a \in Apps : Says(t, a, a \in q)}
    BY OutcomeIs
  <1> QED
    BY <1>1, <1>2

LEMMA OutcomeOfOne ==
  ASSUME NEW S, NEW x \in S, NEW bs
  PROVE  Outcome(<< x >>, bs) = {a \in Apps : IF Settles(x, a) THEN Leaves(x, a) ELSE a \in bs}
  <1> DEFINE t == << x >>
  <1>1. t \in Seq(S) /\ Len(t) = 1 /\ t[1] = x
    BY SingletonFacts
  <1> HIDE DEF t
  <1>2. ASSUME NEW a PROVE Says(t, a, a \in bs) <=> IF Settles(x, a) THEN Leaves(x, a) ELSE a \in bs
    <2>1. CASE Settles(x, a)
      <3>1. 1 \in 1 .. Len(t) /\ \A j \in 1 + 1 .. Len(t) : ~Settles(t[j], a)
        BY <1>1
      <3>2. Says(t, a, a \in bs) = Leaves(t[1], a)
        BY <1>1, <2>1, <3>1, SomeWord
      <3> QED
        BY <1>1, <2>1, <3>2
    <2>2. CASE ~Settles(x, a)
      <3>1. \A j \in 1 .. Len(t) : ~Settles(t[j], a)
        BY <1>1, <2>2
      <3>2. Says(t, a, a \in bs) = (a \in bs)
        BY <1>1, <3>1, NoWord
      <3> QED
        BY <2>2, <3>2
    <2> QED
      BY <2>1, <2>2
  <1>3. Outcome(t, bs) = {a \in Apps : Says(t, a, a \in bs)}
    BY OutcomeIs
  <1> QED
    BY <1>2, <1>3 DEF t

\* Words after a list leave no trace of what was before it.
LEMMA OutcomeSettled ==
  ASSUME NEW S, NEW xs \in Seq(S), NEW i \in 1 .. Len(xs), \A a \in Apps : Settles(xs[i], a), NEW bs, NEW cs
  PROVE  Outcome(xs, bs) = Outcome(xs, cs)
  <1>1. ASSUME NEW a \in Apps PROVE Says(xs, a, a \in bs) <=> Says(xs, a, a \in cs)
    <2>1. PICK k \in 1 .. Len(xs) : Settles(xs[k], a) /\ \A j \in k + 1 .. Len(xs) : ~Settles(xs[j], a)
      BY WordCases
    <2>2. Says(xs, a, a \in bs) = Leaves(xs[k], a) /\ Says(xs, a, a \in cs) = Leaves(xs[k], a)
      BY <2>1, SomeWord
    <2> QED
      BY <2>2
  <1>2. Outcome(xs, bs) = {a \in Apps : Says(xs, a, a \in bs)} /\ Outcome(xs, cs) = {a \in Apps : Says(xs, a, a \in cs)}
    BY OutcomeIs
  <1> QED
    BY <1>1, <1>2

LEMMA OutcomeOfNone ==
  ASSUME NEW S, NEW xs \in Seq(S), NEW bs \in SUBSET Apps, \A i \in 1 .. Len(xs), a \in Apps : ~Settles(xs[i], a)
  PROVE  Outcome(xs, bs) = bs
  <1>1. ASSUME NEW a \in Apps PROVE Says(xs, a, a \in bs) <=> a \in bs
    <2>1. \A i \in 1 .. Len(xs) : ~Settles(xs[i], a)
      BY <1>1
    <2>2. Says(xs, a, a \in bs) = (a \in bs)
      BY <2>1, NoWord
    <2> QED
      BY <2>2
  <1>2. Outcome(xs, bs) = {a \in Apps : Says(xs, a, a \in bs)}
    BY OutcomeIs
  <1> QED
    BY <1>1, <1>2

LEMMA OutcomeType == ASSUME NEW xs, NEW bs PROVE Outcome(xs, bs) \in SUBSET Apps
  BY DEF Outcome

\* A command does what it says ...
LEMMA OutcomeApplied ==
  ASSUME NEW c \in Command, NEW bs \in SUBSET Apps
  PROVE  Outcome(<< c >>, bs) = Applied(bs, c)
  <1>1. Outcome(<< c >>, bs) = {a \in Apps : IF Settles(c, a) THEN Leaves(c, a) ELSE a \in bs}
    BY OutcomeOfOne
  <1>2. CASE c.type = "SyncAll" /\ c.apps \in SUBSET Apps
    <2>1. \A a : Settles(c, a) /\ (Leaves(c, a) <=> a \in c.apps)
      BY <1>2 DEF Settles, Leaves
    <2>2. Applied(bs, c) = c.apps
      BY <1>2 DEF Applied
    <2> QED
      BY <1>1, <1>2, <2>1, <2>2
  <1>3. CASE c.type = "Block" /\ c.app \in Apps
    <2>1. \A a : (Settles(c, a) <=> c.app = a) /\ Leaves(c, a)
      BY <1>3 DEF Settles, Leaves
    <2>2. Applied(bs, c) = bs \cup {c.app}
      BY <1>3 DEF Applied
    <2> QED
      BY <1>1, <1>3, <2>1, <2>2
  <1>4. CASE c.type = "Unblock" /\ c.app \in Apps
    <2>1. \A a : (Settles(c, a) <=> c.app = a) /\ ~Leaves(c, a)
      BY <1>4 DEF Settles, Leaves
    <2>2. Applied(bs, c) = bs \ {c.app}
      BY <1>4 DEF Applied
    <2> QED
      BY <1>1, <1>4, <2>1, <2>2
  <1> QED
    BY <1>2, <1>3, <1>4 DEF Command

\* ... and a message what the command says that it becomes.
LEMMA OutcomeSame ==
  ASSUME NEW S, NEW x \in S, NEW y \in S, NEW bs,
         \A a \in Apps : (Settles(x, a) <=> Settles(y, a)) /\ (Settles(x, a) => (Leaves(x, a) <=> Leaves(y, a)))
  PROVE  Outcome(<< x >>, bs) = Outcome(<< y >>, bs)
  <1>1. Outcome(<< x >>, bs) = {a \in Apps : IF Settles(x, a) THEN Leaves(x, a) ELSE a \in bs}
    BY OutcomeOfOne
  <1>2. Outcome(<< y >>, bs) = {a \in Apps : IF Settles(y, a) THEN Leaves(y, a) ELSE a \in bs}
    BY OutcomeOfOne
  <1> QED
    BY <1>1, <1>2
-----------------------------------------------------------------------------
(* What the compositor will block *)

\* What is blocked once the commands on their way are handled.
Will == Outcome(CommandsLeft, blocks)

\* CommandsLeft, of queue q when k commands of the batch are handled.
LeftOf(q, k) == SubSeq(Pending(q), k + 1, Len(Pending(q)))

LEMMA LeftIs == CommandsLeft = LeftOf(cmds, handled)
  BY DEF CommandsLeft, LeftOf

LEMMA LeftOfType ==
  ASSUME NEW q, QueueOK(q, Command), NEW k \in Nat, k <= q.reading
  PROVE  /\ Pending(q) \in Seq(Command) /\ LeftOf(q, k) \in Seq(Command)
         /\ SubSeq(Pending(q), 1, k) \in Seq(Command)
         /\ Len(SubSeq(Pending(q), 1, k)) = k
         /\ Pending(q) = SubSeq(Pending(q), 1, k) \o LeftOf(q, k)
  <1> DEFINE p == Pending(q)
             l == Len(q.queue)
             w == Len(q.writing)
  <1>1. /\ q.queue \in Seq(Command) /\ q.writing \in Seq(Command)
        /\ q.reading \in Nat /\ q.reading <= l
    BY DEF QueueOK, Slots
  <1>2. p \in Seq(Command) /\ Len(p) = l + w /\ l \in Nat /\ w \in Nat
    BY <1>1, ConcatFacts DEF Pending
  <1>3. LeftOf(q, k) = SubSeq(p, k + 1, Len(p))
    BY DEF LeftOf
  <1> HIDE DEF p, l, w
  <1>4. k \in 0 .. Len(p)
    BY <1>1, <1>2
  <1>5. /\ SubSeq(p, 1, k) \in Seq(Command) /\ Len(SubSeq(p, 1, k)) = k
        /\ LeftOf(q, k) \in Seq(Command) /\ p = SubSeq(p, 1, k) \o LeftOf(q, k)
    <2>1. p \in Seq(Command)
      BY <1>2
    <2> QED
      BY <1>3, <1>4, <2>1, SplitAt, ZenonT(40)
  <1> QED
    BY <1>2, <1>5 DEF p

LEMMA LeftType ==
  ASSUME Types
  PROVE  /\ Pending(cmds) \in Seq(Command) /\ CommandsLeft \in Seq(Command)
         /\ SubSeq(Pending(cmds), 1, handled) \in Seq(Command)
         /\ Len(SubSeq(Pending(cmds), 1, handled)) = handled
         /\ Pending(cmds) = SubSeq(Pending(cmds), 1, handled) \o CommandsLeft
  BY LeftIs, LeftOfType DEF Types, CompositorTypes, QueueTypes

LEMMA WillPushed ==
  ASSUME Types, NEW c \in Command, cmds.writing = << >>, PushCmd(c), UNCHANGED << handled, blocks >>
  PROVE  Will' = IF HasRoom(cmds) THEN Outcome(<< c >>, Will) ELSE Will
  <1> DEFINE p == Pending(cmds)
             q == Pending(cmds')
             d == SubSeq(p, 1, handled)
             t == << c >>
  <1>1. q = IF HasRoom(cmds) THEN p \o t ELSE p
    BY QueueWritten DEF PushCmd, Types, QueueTypes
  <1>2. /\ p \in Seq(Command) /\ CommandsLeft \in Seq(Command) /\ d \in Seq(Command)
        /\ Len(d) = handled /\ p = d \o CommandsLeft
    BY LeftType
  <1>3. t \in Seq(Command)
    BY SingletonFacts
  <1>4. CommandsLeft' = SubSeq(q, handled + 1, Len(q)) /\ CommandsLeft = SubSeq(p, handled + 1, Len(p))
    BY DEF CommandsLeft
  <1> HIDE DEF p, q, d, t
  <1>5. CASE HasRoom(cmds)
    <2>1. CommandsLeft \o t \in Seq(Command)
      BY <1>2, <1>3, ConcatFacts
    <2>2. q = d \o (CommandsLeft \o t)
      BY <1>1, <1>2, <1>3, <1>5, ConcatAssociative, SMTT(40)
    <2>3. CommandsLeft' = CommandsLeft \o t
      <3>1. CommandsLeft \o t = SubSeq(d \o (CommandsLeft \o t), Len(d) + 1, Len(d \o (CommandsLeft \o t)))
        BY <1>2, <2>1, DropFirst
      <3> QED
        BY <1>2, <1>4, <2>2, <3>1
    <2>4. Outcome(CommandsLeft \o t, blocks) = Outcome(t, Will)
      BY <1>2, <1>3, OutcomeConcat DEF Will
    <2> QED
      BY <1>5, <2>3, <2>4 DEF Will, t
  <1>6. CASE ~HasRoom(cmds)
    BY <1>1, <1>4, <1>6 DEF Will
  <1> QED
    BY <1>5, <1>6

\* The compositor applies a command.
LEMMA WillHandled == ASSUME Types, HandleCommand PROVE Will' = Will
  <1> DEFINE p == Pending(cmds)
             d == SubSeq(p, 1, handled)
             s == CommandsLeft
             c == cmds.queue[handled + 1]
             t == << c >>
             r == SubSeq(s, 1 + 1, Len(s))
  <1>1. /\ handled < cmds.reading /\ blocks' = Applied(blocks, c) /\ handled' = handled + 1 /\ cmds' = cmds
    BY DEF HandleCommand
  <1>2. /\ p \in Seq(Command) /\ s \in Seq(Command) /\ d \in Seq(Command)
        /\ Len(d) = handled /\ p = d \o s
    BY LeftType
  <1>3. /\ cmds.queue \in Seq(Command) /\ cmds.writing \in Seq(Command) /\ blocks \in SUBSET Apps
        /\ handled \in Nat /\ cmds.reading \in Nat /\ cmds.reading <= Len(cmds.queue)
        /\ Len(cmds.queue) \in Nat /\ Len(cmds.writing) \in Nat
    BY LenProperties DEF Types, CompositorTypes, QueueTypes, QueueOK, Slots
  <1>4. c \in Command /\ p[handled + 1] = c /\ handled + 1 <= Len(p)
    <2>1. handled + 1 \in 1 .. Len(cmds.queue)
      BY <1>1, <1>3
    <2>2. c \in Command
      BY <1>3, <2>1, ElementOfSeq
    <2>3. p[handled + 1] = c /\ Len(p) = Len(cmds.queue) + Len(cmds.writing)
      BY <1>3, <2>1, ConcatFacts DEF Pending
    <2> DEFINE k == Len(cmds.queue)
               w == Len(cmds.writing)
    <2>4. handled + 1 \in 1 .. k /\ Len(p) = k + w /\ k \in Nat /\ w \in Nat
      BY <1>3, <2>1, <2>3
    <2> HIDE DEF k, w, p, c
    <2>5. handled + 1 <= Len(p)
      BY <1>3, <2>4
    <2> QED
      BY <2>2, <2>3, <2>5
  <1>5. CommandsLeft' = SubSeq(p, handled + 1 + 1, Len(p))
    BY <1>1 DEF CommandsLeft
  <1>6. t \in Seq(Command) /\ Len(t) = 1 /\ t[1] = c
    BY <1>4, SingletonFacts
  <1> HIDE DEF p, d, s, c, t
  <1>7. Len(s) \in Nat \ {0} /\ s[1] = c
    <2>1. Len(p) = handled + Len(s) /\ Len(s) \in Nat
      BY <1>2, ConcatFacts
    <2>2. Len(s) \in Nat \ {0} /\ 1 \in 1 .. Len(s)
      BY <1>3, <1>4, <2>1
    <2>3. p[handled + 1] = s[1]
      BY <1>2, <2>2, ConcatFacts
    <2> QED
      BY <1>4, <2>2, <2>3
  <1>8. s = t \o r /\ r \in Seq(Command)
    <2> DEFINE f == SubSeq(s, 1, 1)
    <2>1. 1 \in 0 .. Len(s)
      BY <1>7
    <2>2. f \in Seq(Command) /\ Len(f) = 1 /\ r \in Seq(Command) /\ s = f \o r
      BY <1>2, <2>1, SplitAt
    <2> HIDE DEF f, r
    <2>3. f[1] = c
      <3>1. (f \o r)[1] = f[1]
        <4>1. \A i \in 1 .. Len(f) : (f \o r)[i] = f[i]
          BY <2>2, ConcatFacts, ZenonT(40)
        <4>2. 1 \in 1 .. Len(f)
          BY <2>2
        <4> QED
          BY <4>1, <4>2
      <3> QED
        BY <1>7, <2>2, <3>1
    <2>4. f = t
      BY <1>6, <2>2, <2>3, SeqEqual
    <2> QED
      BY <2>2, <2>4
  <1> HIDE DEF r
  <1>9. CommandsLeft' = r
    <2>1. d \o t \in Seq(Command) /\ Len(d \o t) = handled + 1
      <3>1. d \o t \in Seq(Command) /\ Len(d \o t) = Len(d) + Len(t)
        BY <1>2, <1>6, ConcatFacts
      <3> QED
        BY <1>2, <1>6, <3>1
    <2>2. p = (d \o t) \o r
      BY <1>2, <1>6, <1>8, ConcatAssociative, SMTT(40)
    <2>3. r = SubSeq((d \o t) \o r, Len(d \o t) + 1, Len((d \o t) \o r))
      BY <1>8, <2>1, DropFirst
    <2> QED
      BY <1>5, <2>1, <2>2, <2>3
  <1>10. Outcome(t \o r, blocks) = Outcome(r, Outcome(t, blocks))
    BY <1>6, <1>8, OutcomeConcat
  <1>11. Outcome(t, blocks) = Applied(blocks, c)
    BY <1>3, <1>4, OutcomeApplied DEF t
  <1> QED
    BY <1>1, <1>8, <1>9, <1>10, <1>11 DEF Will, s

LEMMA WillStays ==
  ASSUME Types, \/ CompositorStep \/ LoopStep \/ UNCHANGED vars
                \/ UNCHANGED << cmds, handled, blocks >>
  PROVE  Will' = Will
  <1>1. ASSUME Pending(cmds') = Pending(cmds), UNCHANGED << handled, blocks >> PROVE Will' = Will
    BY <1>1 DEF Will, CommandsLeft
  <1>2. CASE HandleCommand
    BY <1>2, WillHandled
  <1>3. CASE OpenCommands
    <2>1. Pending(cmds') = Pending(cmds) /\ cmds.reading = 0 /\ handled' = 0 /\ UNCHANGED blocks
      BY <1>3, QueueOpened DEF OpenCommands, CompositorFree, Types, QueueTypes
    <2>2. handled = 0
      BY <2>1 DEF Types, QueueTypes, CompositorTypes
    <2> QED
      BY <1>1, <2>1, <2>2
  <1>4. CASE CloseCommands
    <2>1. /\ cmds' = Freed(cmds) /\ handled = cmds.reading /\ handled' = 0 /\ UNCHANGED blocks
      BY <1>4 DEF CloseCommands
    <2>2. /\ Pending(cmds') \in Seq(Command)
          /\ Pending(cmds') = SubSeq(Pending(cmds), handled + 1, Len(Pending(cmds)))
      BY <2>1, QueueFreed DEF Types, QueueTypes
    <2>3. Pending(cmds') = CommandsLeft
      BY <2>2 DEF CommandsLeft
    <2>4. CommandsLeft' = SubSeq(Pending(cmds'), 1, Len(Pending(cmds')))
      BY <2>1 DEF CommandsLeft
    <2>5. SubSeq(Pending(cmds'), 1, Len(Pending(cmds'))) = Pending(cmds')
      BY <2>2, SubSeqFull
    <2> QED
      BY <2>1, <2>3, <2>4, <2>5 DEF Will
  <1>5. CASE CommitCommand
    BY <1>1, <1>5, QueueCommitted DEF CommitCommand, compositorVars, Types, QueueTypes
  <1>6. CASE UNCHANGED << cmds, handled, blocks >>
    BY <1>1, <1>6
  <1>7. CASE \/ CommitMessage \/ RequestShutdown \/ Joined \/ TitleChanges \/ IdleTransition
             \/ ExitBegins \/ \E w \in Window : WindowActive(w)
    BY <1>6, <1>7 DEF CommitMessage, RequestShutdown, Joined, TitleChanges, IdleTransition, ExitBegins,
                      WindowActive, compositorVars
  <1>8. CASE OpenMessages \/ HandleMessages \/ ScreenLock \/ PrepareForSleep \/ UNCHANGED vars
    BY <1>6, <1>8 DEF OpenMessages, HandleMessages, ScreenLock, PrepareForSleep, vars, compositorVars
  <1> QED
    BY <1>2, <1>3, <1>4, <1>5, <1>6, <1>7, <1>8 DEF CompositorStep, CompositorThread, LoopStep
-----------------------------------------------------------------------------
(* The list is under way, or has arrived *)

LEMMA ServedLoops ==
  ASSUME Types, CompositorStep \/ LoopStep \/ UNCHANGED vars, Served'
  PROVE  Served
  <1>1. /\ UNCHANGED << registered, bus, daemon, answer, inbox, calls >>
        /\ told = Signal("unregistered") => told' = told
    BY CompositorStepTypes, LoopStepTypes, ToldBefore DEF dbusVars, daemonVars, vars
  <1> QED
    BY <1>1, ServedIs, ServedThen DEF Asking

\* What the D-Bus thread and the compositor are told.
Word == Command \cup News

LEMMA OutcomeUnderWay ==
  ASSUME NEW q, QueueOK(q, Command), NEW k \in Nat, k <= q.reading, NEW s \in Seq(News), NEW bs
  PROVE  Outcome(LeftOf(q, k) \o s, bs) = Outcome(s, Outcome(LeftOf(q, k), bs))
  <1> DEFINE l == LeftOf(q, k)
  <1>1. s \in Seq(Word) /\ l \in Seq(Word)
    <2>1. l \in Seq(Command)
      BY LeftOfType
    <2>2. Seq(News) \subseteq Seq(Word) /\ Seq(Command) \subseteq Seq(Word)
      BY DEF Word
    <2> QED
      BY <2>1, <2>2
  <1> HIDE DEF l
  <1>2. Outcome(l \o s, bs) = Outcome(s, Outcome(l, bs))
    BY <1>1, OutcomeConcat
  <1> QED
    BY <1>2 DEF l

LEMMA UnderWayIs ==
  ASSUME Types, daemon \in Buses
  PROVE  BlocksUnderWay = Outcome(inbox[daemon], Will)
  <1>1. QueueOK(cmds, Command) /\ handled \in Nat /\ handled <= cmds.reading /\ inbox[daemon] \in Seq(News)
    BY DEF Types, CompositorTypes, QueueTypes, WireTypes
  <1>2. /\ BlocksUnderWay = Outcome(LeftOf(cmds, handled) \o inbox[daemon], blocks)
        /\ Will = Outcome(LeftOf(cmds, handled), blocks)
    BY LeftIs DEF BlocksUnderWay, Will
  <1> QED
    BY <1>1, <1>2, OutcomeUnderWay

LEMMA UnderWayThen ==
  ASSUME Types', daemon' \in Buses
  PROVE  BlocksUnderWay' = Outcome(inbox'[daemon'], Will')
  <1>1. QueueOK(cmds', Command) /\ handled' \in Nat /\ handled' <= cmds'.reading /\ inbox'[daemon'] \in Seq(News)
    BY DEF Types, CompositorTypes, QueueTypes, WireTypes
  <1>2. /\ BlocksUnderWay' = Outcome(LeftOf(cmds', handled') \o inbox'[daemon'], blocks')
        /\ Will' = Outcome(LeftOf(cmds', handled'), blocks')
    BY DEF BlocksUnderWay, Will, CommandsLeft, LeftOf
  <1> QED
    BY <1>1, <1>2, OutcomeUnderWay

LEMMA OutcomeReceived ==
  ASSUME NEW S, NEW s \in Seq(S), s # << >>, NEW bs
  PROVE  Outcome(s, bs) = Outcome(Tail(s), Outcome(<< Head(s) >>, bs))
  <1> DEFINE f == SubSeq(s, 1, 1)
             r == SubSeq(s, 1 + 1, Len(s))
             h == << Head(s) >>
             t == Tail(s)
             n == Len(s)
  <1>1. /\ t \in Seq(S) /\ n \in Nat \ {0} /\ Len(t) = n - 1 /\ Head(s) \in S
        /\ \A i \in 1 .. n - 1 : t[i] = s[i + 1]
    BY TailFacts
  <1>2. h \in Seq(S) /\ Len(h) = 1 /\ h[1] = s[1]
    BY <1>1, TailFacts, SingletonFacts
  <1> DEFINE u == h \o t
  <1>3. /\ u \in Seq(S) /\ Len(u) = Len(h) + Len(t)
        /\ \A i \in 1 .. Len(h) : u[i] = h[i]
        /\ \A i \in 1 .. Len(t) : u[Len(h) + i] = t[i]
    BY <1>1, <1>2, ConcatFacts
  <1> HIDE DEF h, t, n, u
  <1>4. Len(u) = n /\ u[1] = s[1] /\ \A i \in 1 .. n - 1 : u[1 + i] = s[i + 1]
    <2>1. Len(u) = n
      BY <1>1, <1>2, <1>3
    <2>2. u[1] = s[1]
      <3>1. 1 \in 1 .. Len(h)
        BY <1>2
      <3> QED
        BY <1>2, <1>3, <3>1
    <2>3. ASSUME NEW i \in 1 .. n - 1 PROVE u[1 + i] = s[i + 1]
      <3>1. i \in 1 .. Len(t) /\ t[i] = s[i + 1]
        BY <1>1
      <3>2. u[Len(h) + i] = t[i]
        BY <1>3, <3>1
      <3> QED
        BY <1>2, <3>1, <3>2
    <2> QED
      BY <2>1, <2>2, <2>3
  <1>5. \A i \in 1 .. n : i = 1 \/ (i - 1 \in 1 .. n - 1 /\ 1 + (i - 1) = i /\ (i - 1) + 1 = i)
    BY <1>1
  <1>6. \A i \in 1 .. n : u[i] = s[i]
    BY <1>4, <1>5
  <1>7. u = s
    BY <1>3, <1>4, <1>6, SeqEqual DEF n
  <1>8. Outcome(h \o t, bs) = Outcome(t, Outcome(h, bs))
    BY <1>1, <1>2, OutcomeConcat
  <1> QED
    BY <1>7, <1>8 DEF u, h, t

\* What says nothing of any app.
Silent(m) == \A a \in Apps : ~Settles(m, a)

LEMMA SilentWords ==
  /\ \A m : m.type \in {"Select", "Registered", "Appeared"} => Silent(m)
  /\ \A m : m.type = "BlockedApps" /\ ~m.ok => Silent(m)
  BY DEF Silent, Settles

LEMMA OutcomeSilent ==
  ASSUME NEW S, NEW m \in S, Silent(m), NEW bs \in SUBSET Apps
  PROVE  Outcome(<< m >>, bs) = bs
  <1>1. Outcome(<< m >>, bs) = {a \in Apps : IF Settles(m, a) THEN Leaves(m, a) ELSE a \in bs}
    BY OutcomeOfOne
  <1> QED
    BY <1>1 DEF Silent

\* ListUnderWay, of one connection.
IsList(m) == m.type = "BlockedApps" /\ m.ok
Lists(s) == \E i \in DOMAIN s : IsList(s[i]) /\ \A k \in i + 1 .. Len(s) : s[k] # Disappeared

LEMMA ListUnderWayIs == ListUnderWay <=> Lists(inbox[daemon])
  BY DEF ListUnderWay, Lists, IsList

LEMMA ListsTail ==
  ASSUME NEW s \in Seq(News), s # << >>, Lists(Tail(s))
  PROVE  Lists(s)
  <1> DEFINE t == Tail(s)
             n == Len(s)
  <1>1. /\ n \in Nat \ {0} /\ DOMAIN s = 1 .. n /\ DOMAIN t = 1 .. n - 1 /\ Len(t) = n - 1
        /\ \A j \in 1 .. n - 1 : t[j] = s[j + 1]
    BY TailFacts
  <1> HIDE DEF t
  <1>2. PICK i \in DOMAIN t : IsList(t[i]) /\ \A k \in i + 1 .. Len(t) : t[k] # Disappeared
    BY DEF Lists, t
  <1>3. i + 1 \in DOMAIN s /\ IsList(s[i + 1])
    BY <1>1, <1>2
  <1>4. \A k \in i + 1 + 1 .. n : k - 1 \in i + 1 .. n - 1 /\ k - 1 \in 1 .. n - 1 /\ (k - 1) + 1 = k
    BY <1>1
  <1>5. \A k \in i + 1 + 1 .. n : s[k] # Disappeared
    BY <1>1, <1>2, <1>4
  <1> QED
    BY <1>3, <1>5 DEF Lists

LEMMA ListsConcat ==
  ASSUME NEW s \in Seq(News), NEW t \in Seq(News), \A i \in DOMAIN t : ~IsList(t[i]), Lists(s \o t)
  PROVE  Lists(s)
  <1> DEFINE n == Len(s)
             u == s \o t
  <1>1. /\ n \in Nat /\ DOMAIN s = 1 .. n /\ Len(u) \in Nat /\ n <= Len(u)
        /\ \A j \in 1 .. n : u[j] = s[j]
    BY ConcatFacts
  <1>2. \A i \in DOMAIN u : i \in DOMAIN s \/ \E j \in DOMAIN t : u[i] = t[j]
    BY ConcatPositions
  <1> HIDE DEF u
  <1>3. PICK i \in DOMAIN u : IsList(u[i]) /\ \A k \in i + 1 .. Len(u) : u[k] # Disappeared
    BY DEF Lists, u
  <1>4. i \in 1 .. n
    BY <1>1, <1>2, <1>3
  <1>5. \A k \in i + 1 .. n : k \in i + 1 .. Len(u) /\ k \in 1 .. n
    BY <1>1, <1>4
  <1>6. i \in DOMAIN s /\ IsList(s[i]) /\ \A k \in i + 1 .. Len(s) : s[k] # Disappeared
    BY <1>1, <1>3, <1>4, <1>5
  <1> QED
    BY <1>6 DEF Lists

\* A list without the end of its daemon behind it is the list of a daemon that
\* is alive.
LEMMA ListsAlive ==
  ASSUME NEW s \in Seq(News), LifeOK(s, FALSE)
  PROVE  ~Lists(s)
  <1> SUFFICES ASSUME Lists(s) PROVE FALSE
    OBVIOUS
  <1>1. PICK i \in DOMAIN s : IsList(s[i]) /\ \A k \in i + 1 .. Len(s) : s[k] # Disappeared
    BY DEF Lists
  <1>2. Granted(s[i])
    BY <1>1 DEF IsList, Granted
  <1>3. Lasts(s, i, FALSE)
    BY <1>2 DEF LifeOK
  <1> QED
    BY <1>1, <1>3 DEF Lasts

LEMMA ListsSettle ==
  ASSUME NEW s \in Seq(News), Lists(s), NEW bs, NEW cs
  PROVE  Outcome(s, bs) = Outcome(s, cs)
  <1>1. PICK i \in DOMAIN s : IsList(s[i])
    BY DEF Lists
  <1>2. i \in 1 .. Len(s) /\ \A a \in Apps : Settles(s[i], a)
    BY <1>1, LenProperties DEF IsList, Settles
  <1> QED
    BY <1>2, OutcomeSettled

\* The signals of one toggle.
LEMMA OutcomeToggled ==
  ASSUME NEW a \in Apps, matches[daemon] \in Nat \ {0}, blocked \in SUBSET Apps
  PROVE  Outcome(ToggleNote(a), blocked) = IF a \in blocked THEN blocked \ {a} ELSE blocked \cup {a}
  <1> DEFINE t == ToggleNote(a)
             m == [type |-> "AppBlocked", app |-> a, on |-> a \notin blocked]
             n == matches[daemon]
  <1>1. t \in Seq(News) /\ Len(t) = n /\ n \in Nat \ {0} /\ \A i \in 1 .. n : t[i] = m
    BY ToggleNoteIs
  <1>2. \A x : (Settles(m, x) <=> x = a) /\ (Leaves(m, x) <=> a \notin blocked)
    BY DEF Settles, Leaves
  <1>3. Outcome(t, blocked) = {x \in Apps : Says(t, x, x \in blocked)}
    BY OutcomeIs
  <1> HIDE DEF t, m, n
  <1>4. Says(t, a, a \in blocked) <=> a \notin blocked
    <2>1. n \in 1 .. Len(t) /\ Settles(t[n], a) /\ \A j \in n + 1 .. Len(t) : ~Settles(t[j], a)
      BY <1>1, <1>2
    <2>2. Says(t, a, a \in blocked) = Leaves(t[n], a)
      BY <1>1, <2>1, SomeWord
    <2>3. t[n] = m
      BY <1>1
    <2> QED
      BY <1>2, <2>2, <2>3
  <1>5. ASSUME NEW x \in Apps, x # a PROVE Says(t, x, x \in blocked) <=> x \in blocked
    <2>1. \A i \in 1 .. Len(t) : ~Settles(t[i], x)
      BY <1>1, <1>2, <1>5
    <2>2. Says(t, x, x \in blocked) = (x \in blocked)
      BY <1>1, <2>1, NoWord
    <2> QED
      BY <2>2
  <1> QED
    BY <1>3, <1>4, <1>5 DEF t
-----------------------------------------------------------------------------
(* The compositor blocks what the daemon blocks *)

\* A message is received, and a command pushed for it.
LEMMA UnderWayPushed ==
  ASSUME Types, daemon \in Buses, UNCHANGED << daemon, handled, blocks >>, Types',
         NEW type, Receives(daemon, type),
         NEW c \in Command, PushCmd(c), cmds.writing = << >>,
         \A a \in Apps : /\ Settles(Head(inbox[daemon]), a) <=> Settles(c, a)
                         /\ Settles(c, a) => (Leaves(Head(inbox[daemon]), a) <=> Leaves(c, a)),
         lostCmd' => Lists(inbox'[daemon])
  PROVE  BlocksUnderWay' = BlocksUnderWay
  <1> DEFINE s == inbox[daemon]
             m == Head(inbox[daemon])
             t == Tail(inbox[daemon])
  <1>1. /\ s \in Seq(News) /\ s # << >> /\ inbox'[daemon] = t /\ m \in News /\ t \in Seq(News)
    BY ReceivesFacts, TailFacts DEF Types
  <1>2. BlocksUnderWay = Outcome(s, Will)
    BY UnderWayIs
  <1>3. BlocksUnderWay' = Outcome(t, Will')
    BY <1>1, UnderWayThen
  <1>4. Will' = IF HasRoom(cmds) THEN Outcome(<< c >>, Will) ELSE Will
    BY WillPushed
  <1>5. Outcome(s, Will) = Outcome(t, Outcome(<< m >>, Will))
    BY <1>1, OutcomeReceived
  <1> HIDE DEF s, m, t
  <1>6. Outcome(<< m >>, Will) = Outcome(<< c >>, Will)
    <2>1. m \in Word /\ c \in Word
      BY <1>1 DEF Word
    <2>2. \A a \in Apps : (Settles(m, a) <=> Settles(c, a)) /\ (Settles(m, a) => (Leaves(m, a) <=> Leaves(c, a)))
      BY DEF m
    <2> QED
      BY <2>1, <2>2, OutcomeSame
  <1>7. CASE HasRoom(cmds)
    BY <1>2, <1>3, <1>4, <1>5, <1>6, <1>7
  <1>8. CASE ~HasRoom(cmds)
    <2>1. lostCmd'
      BY <1>8 DEF PushCmd
    <2>2. Lists(t)
      BY <1>1, <2>1
    <2>3. Outcome(t, Will) = Outcome(t, Outcome(<< m >>, Will))
      BY <1>1, <2>2, ListsSettle
    <2> QED
      BY <1>2, <1>3, <1>4, <1>5, <1>8, <2>3
  <1> QED
    BY <1>7, <1>8

\* A message is received that says nothing of the blocks.
LEMMA UnderWayRead ==
  ASSUME Types, daemon \in Buses, UNCHANGED << daemon, handled, blocks, cmds >>, Types',
         NEW type, Receives(daemon, type), Silent(Head(inbox[daemon]))
  PROVE  BlocksUnderWay' = BlocksUnderWay
  <1> DEFINE s == inbox[daemon]
             m == Head(inbox[daemon])
             t == Tail(inbox[daemon])
  <1>1. /\ s \in Seq(News) /\ s # << >> /\ inbox'[daemon] = t /\ m \in News
    BY ReceivesFacts DEF Types
  <1>2. BlocksUnderWay = Outcome(s, Will)
    BY UnderWayIs
  <1>3. BlocksUnderWay' = Outcome(t, Will')
    BY <1>1, UnderWayThen
  <1>4. Will' = Will /\ Will \in SUBSET Apps
    BY WillStays, OutcomeType DEF Will
  <1>5. Outcome(s, Will) = Outcome(t, Outcome(<< m >>, Will))
    BY <1>1, OutcomeReceived
  <1>6. Outcome(<< m >>, Will) = Will
    BY <1>1, <1>4, OutcomeSilent
  <1> QED
    BY <1>2, <1>3, <1>4, <1>5, <1>6

LEMMA ListReceives ==
  ASSUME Types, Types', HomeInv, ListInv, NEW b \in Buses, ReceiveStep(b), Synced'
  PROVE  BlocksUnderWay' = blocked'
  <1>1. UNCHANGED << daemon, blocked, answer, overtaken, handled, blocks >>
    BY ReceiveStepIs DEF daemonVars, compositorVars
  <1>2. /\ daemon # NoBus /\ answer = << >> /\ ~crossed' /\ ~overtaken
        /\ Lists(inbox'[daemon]) \/ (Served' /\ ~lostCmd')
    <2>1. ListUnderWay' <=> Lists(inbox'[daemon'])
      BY DEF ListUnderWay, Lists, IsList
    <2> QED
      BY <1>1, <2>1 DEF Synced
  <1>3. ~crossed /\ daemon \in Buses
    <2>1. [Next]_vars
      BY DEF Next, DbusThread, ReceiveStep
    <2> QED
      BY <1>2, <2>1, CrossedStays DEF Types, DaemonTypes
  <1>4. ASSUME Lists(inbox[daemon]) \/ (Served /\ ~lostCmd), BlocksUnderWay' = BlocksUnderWay
        PROVE  BlocksUnderWay' = blocked'
    BY <1>1, <1>2, <1>3, <1>4, ListUnderWayIs DEF ListInv, Synced
  <1>5. ASSUME NEW type, Receives(b, type)
        PROVE  /\ type # "Select" => b = daemon
               /\ Lists(inbox'[daemon]) => Lists(inbox[daemon])
    <2>1. /\ inbox[b] \in Seq(News) /\ inbox[b] # << >> /\ inbox'[b] = Tail(inbox[b])
          /\ \A o \in Buses \ {b} : inbox'[o] = inbox[o]
      BY <1>5, ReceivesFacts DEF Types
    <2>2. CASE b = daemon
      BY <2>1, <2>2, ListsTail
    <2>3. CASE b # daemon
      BY <1>2, <1>3, <1>5, <2>1, <2>3, HomeOnlyReceives
    <2> QED
      BY <2>2, <2>3
  <1>6. CASE \/ OnBusSelectReply(b) \/ OnRegisterReply(b) \/ OnAppeared(b)
             \/ OnGetBlockedAppsReply(b) /\ ~Head(inbox[b]).ok
    <2>1. UNCHANGED cmds /\ (lostCmd => lostCmd')
      BY <1>6 DEF OnBusSelectReply, OnRegisterReply, OnAppeared, OnGetBlockedAppsReply
    <2>2. PICK type : Receives(b, type)
      BY ReceiveStepIs
    <2>6. Silent(Head(inbox[b]))
      <3> DEFINE m == Head(inbox[b])
      <3>1. m.type \in {"Select", "Registered", "Appeared"} \/ (m.type = "BlockedApps" /\ ~m.ok)
        BY <1>6 DEF OnBusSelectReply, OnRegisterReply, OnAppeared, OnGetBlockedAppsReply, Receives
      <3> HIDE DEF m
      <3> QED
        BY <3>1, SilentWords DEF m
    <2>3. Served' /\ ~lostCmd' => Served
      <3>1. Served' => Served \/ OnGetBlockedAppsReply(b)
        BY <1>2, ServedReceives
      <3>2. OnGetBlockedAppsReply(b) => lostCmd'
        BY <1>6 DEF OnBusSelectReply, OnRegisterReply, OnAppeared, OnGetBlockedAppsReply, Receives
      <3> QED
        BY <3>1, <3>2
    <2>4. Lists(inbox[daemon]) \/ (Served /\ ~lostCmd)
      BY <1>2, <1>5, <2>1, <2>2, <2>3
    <2>5. BlocksUnderWay' = BlocksUnderWay
      <3>1. CASE b = daemon
        <4>1. Silent(Head(inbox[daemon]))
          BY <2>6, <3>1
        <4> QED
          BY <1>1, <1>3, <2>1, <2>2, <3>1, <4>1, UnderWayRead
      <3>2. CASE b # daemon
        <4>1. inbox'[daemon] = inbox[daemon]
          BY <1>3, <2>2, <3>2, ReceivesFacts DEF Types
        <4>2. CommandsLeft' = CommandsLeft
          BY <1>1, <2>1 DEF CommandsLeft
        <4> QED
          BY <1>1, <4>1, <4>2 DEF BlocksUnderWay
      <3> QED
        BY <3>1, <3>2
    <2> QED
      BY <1>4, <2>4, <2>5
  <1>7. ASSUME NEW type, Receives(daemon, type), NEW c \in Command, PushCmd(c),
               \A a \in Apps : /\ Settles(Head(inbox[daemon]), a) <=> Settles(c, a)
                               /\ Settles(c, a) => (Leaves(Head(inbox[daemon]), a) <=> Leaves(c, a)),
               Lists(inbox[daemon]) \/ (Served /\ ~lostCmd)
        PROVE  BlocksUnderWay' = blocked'
    <2>1. cmds.writing = << >>
      BY <1>7 DEF Receives, DbusFree
    <2>2. lostCmd' => Lists(inbox'[daemon])
      BY <1>2
    <2>3. BlocksUnderWay' = BlocksUnderWay
      BY <1>1, <1>3, <1>7, <2>1, <2>2, UnderWayPushed
    <2> QED
      BY <1>4, <1>7, <2>3
  <1>8. CASE OnGetBlockedAppsReply(b) /\ Head(inbox[b]).ok
    <2>1. Receives(b, "BlockedApps") /\ b = daemon
      BY <1>5, <1>8 DEF OnGetBlockedAppsReply
    <2> DEFINE s == inbox[daemon]
               m == Head(inbox[daemon])
               c == SyncAllCmd(m.apps)
               n == Len(s)
    <2>2. m \in News /\ m.type = "BlockedApps" /\ m.ok /\ s \in Seq(News) /\ s # << >> /\ inbox'[daemon] = Tail(s)
      BY <1>8, <2>1, ReceivesFacts DEF Types
    <2>3. PushCmd(c)
      BY <1>8, <2>1 DEF OnGetBlockedAppsReply
    <2>4. c \in Command /\ c.type = "SyncAll" /\ c.apps = m.apps
      <3>1. m.apps \in SUBSET Apps
        BY <2>2, NewsFields
      <3> QED
        BY <3>1, CommandTypes DEF SyncAllCmd
    <2> HIDE DEF c
    <2>5. \A a \in Apps : Settles(m, a) /\ Settles(c, a) /\ (Leaves(m, a) <=> Leaves(c, a))
      BY <2>2, <2>4 DEF Settles, Leaves
    <2>6. Lists(s)
      <3>1. CASE Lists(inbox'[daemon])
        BY <1>5, <2>1, <3>1
      <3>2. CASE Served'
        <4>1. /\ n \in Nat \ {0} /\ DOMAIN s = 1 .. n /\ s[1] = m /\ DOMAIN Tail(s) = 1 .. n - 1
              /\ \A j \in 1 .. n - 1 : Tail(s)[j] = s[j + 1]
          BY <2>2, TailFacts
        <4>2. \A k \in DOMAIN inbox'[daemon'] : inbox'[daemon'][k] # Disappeared
          BY <3>2, ServedThen DEF Calm
        <4>3. \A k \in 1 .. n - 1 : s[k + 1] # Disappeared
          <5>1. inbox'[daemon'] = Tail(s)
            BY <1>1, <2>2
          <5>2. \A k \in 1 .. n - 1 : Tail(s)[k] # Disappeared
            BY <4>1, <4>2, <5>1
          <5> QED
            BY <4>1, <5>2
        <4>4. \A k \in 1 + 1 .. n : k - 1 \in 1 .. n - 1 /\ (k - 1) + 1 = k
          BY <4>1
        <4>5. \A k \in 1 + 1 .. n : s[k] # Disappeared
          BY <4>3, <4>4
        <4>6. 1 \in DOMAIN s /\ IsList(s[1])
          BY <2>2, <4>1 DEF IsList
        <4> QED
          BY <4>5, <4>6 DEF Lists
      <3> QED
        BY <1>2, <3>1, <3>2
    <2> QED
      BY <1>7, <2>1, <2>3, <2>4, <2>5, <2>6
  <1>9. CASE OnAppBlocked(b)
    <2>1. Receives(b, "AppBlocked") /\ b = daemon
      BY <1>5, <1>9 DEF OnAppBlocked
    <2> DEFINE m == Head(inbox[daemon])
               c == IF m.on THEN BlockCmd(m.app) ELSE UnblockCmd(m.app)
    <2>2. m \in News /\ m.type = "AppBlocked"
      BY <2>1, ReceivesFacts DEF Types
    <2>3. PushCmd(c)
      BY <1>9, <2>1 DEF OnAppBlocked
    <2>4. m.app \in Apps /\ m.on \in BOOLEAN
      BY <2>2, NewsFields
    <2>5. /\ c \in Command /\ c.type = (IF m.on THEN "Block" ELSE "Unblock") /\ c.app = m.app
      BY <2>4, CommandTypes DEF BlockCmd, UnblockCmd
    <2> HIDE DEF c
    <2>6. \A a \in Apps : /\ Settles(m, a) <=> Settles(c, a)
                          /\ Settles(c, a) => (Leaves(m, a) <=> Leaves(c, a))
      BY <2>2, <2>4, <2>5 DEF Settles, Leaves
    <2>7. Lists(inbox[daemon]) \/ (Served /\ ~lostCmd)
      <3>1. CASE Lists(inbox'[daemon])
        BY <1>5, <2>1, <3>1
      <3>2. CASE Served' /\ ~lostCmd'
        <4>1. Served
          <5>1. ~OnGetBlockedAppsReply(b)
            BY <2>1 DEF OnGetBlockedAppsReply, Receives
          <5> QED
            BY <1>2, <3>2, <5>1, ServedReceives
        <4>2. lostCmd' = (~HasRoom(cmds) \/ (lostCmd /\ c.type # "SyncAll")) /\ c.type # "SyncAll"
          BY <2>3, <2>5 DEF PushCmd
        <4> QED
          BY <3>2, <4>1, <4>2
      <3> QED
        BY <1>2, <3>1, <3>2
    <2> QED
      BY <1>7, <2>1, <2>3, <2>5, <2>6, <2>7
  <1>10. CASE OnDisappeared(b)
    <2>1. Receives(b, "Disappeared") /\ b = daemon
      BY <1>5, <1>10 DEF OnDisappeared
    <2> DEFINE m == Head(inbox[daemon])
               c == SyncAllCmd({})
    <2>2. m.type = "Disappeared" /\ PushCmd(c) /\ ~registered'
      BY <1>10, <2>1 DEF OnDisappeared, Receives
    <2>3. c \in Command /\ c.type = "SyncAll" /\ c.apps = {}
      <3>1. {} \in SUBSET Apps
        OBVIOUS
      <3> QED
        BY <3>1, CommandTypes DEF SyncAllCmd
    <2> HIDE DEF c
    <2>4. \A a \in Apps : Settles(m, a) /\ Settles(c, a) /\ ~Leaves(m, a) /\ ~Leaves(c, a)
      BY <2>2, <2>3 DEF Settles, Leaves
    <2>5. Lists(inbox[daemon])
      BY <1>2, <1>5, <2>1, <2>2 DEF Served
    <2> QED
      BY <1>7, <2>1, <2>2, <2>3, <2>4, <2>5
  <1> QED
    BY <1>6, <1>8, <1>9, <1>10 DEF ReceiveStep

\* Messages are sent on the bus of the daemon.
LEMMA UnderWaySent ==
  ASSUME Types, Types', daemon \in Buses, daemon' = daemon, UNCHANGED threadVars,
         NEW t \in Seq(News), Send(daemon, t)
  PROVE  BlocksUnderWay' = Outcome(t, BlocksUnderWay)
  <1> DEFINE s == inbox[daemon]
  <1>1. s \in Seq(News) /\ inbox'[daemon] = s \o t
    BY SendFacts DEF Types
  <1>2. BlocksUnderWay = Outcome(s, Will)
    BY UnderWayIs
  <1>3. BlocksUnderWay' = Outcome(s \o t, Will')
    BY <1>1, UnderWayThen
  <1>4. Will' = Will
    <2>1. UNCHANGED << cmds, handled, blocks >>
      BY DEF threadVars, compositorVars
    <2> QED
      BY <2>1, WillStays
  <1> HIDE DEF s
  <1>5. Outcome(s \o t, Will) = Outcome(t, Outcome(s, Will))
    BY <1>1, OutcomeConcat
  <1> QED
    BY <1>2, <1>3, <1>4, <1>5

\* Messages are sent that say nothing of the blocks.
LEMMA ListSent ==
  ASSUME Types, Types', ListInv, UNCHANGED threadVars,
         UNCHANGED << daemon, blocked, answer, overtaken >>, ~crossed, Served' => Served,
         NEW b \in Buses, NEW t \in Seq(News), Send(b, t), \A i \in DOMAIN t : Silent(t[i]) /\ ~IsList(t[i]),
         Synced'
  PROVE  BlocksUnderWay' = blocked'
  <1>1. /\ daemon \in Buses /\ answer = << >> /\ ~overtaken /\ UNCHANGED lostCmd
        /\ Lists(inbox'[daemon]) \/ (Served' /\ ~lostCmd')
    <2>1. ListUnderWay' <=> Lists(inbox'[daemon'])
      BY DEF ListUnderWay, Lists, IsList
    <2>2. UNCHANGED lostCmd
      BY DEF threadVars
    <2> QED
      BY <2>1, <2>2 DEF Synced, Types, DaemonTypes
  <1>2. /\ inbox[b] \in Seq(News) /\ inbox'[b] = inbox[b] \o t
        /\ \A o \in Buses \ {b} : inbox'[o] = inbox[o]
    BY SendFacts DEF Types
  <1>3. Lists(inbox'[daemon]) => Lists(inbox[daemon])
    <2>1. CASE b = daemon
      <3>1. \A i \in DOMAIN t : ~IsList(t[i])
        OBVIOUS
      <3>2. Lists(inbox[b] \o t) => Lists(inbox[b])
        BY <1>2, <3>1, ListsConcat
      <3> QED
        BY <1>2, <2>1, <3>2
    <2>2. CASE b # daemon
      BY <1>1, <1>2, <2>2
    <2> QED
      BY <2>1, <2>2
  <1>4. BlocksUnderWay = blocked
    <2>1. Lists(inbox[daemon]) \/ (Served /\ ~lostCmd)
      BY <1>1, <1>3
    <2> QED
      BY <1>1, <2>1, ListUnderWayIs, BusesAre DEF ListInv, Synced
  <1>5. BlocksUnderWay' = BlocksUnderWay
    <2>1. CASE b = daemon
      <3>1. BlocksUnderWay' = Outcome(t, BlocksUnderWay)
        BY <1>1, <2>1, UnderWaySent
      <3>2. BlocksUnderWay \in SUBSET Apps
        BY OutcomeType DEF BlocksUnderWay
      <3>3. \A i \in 1 .. Len(t), a \in Apps : ~Settles(t[i], a)
        BY LenProperties DEF Silent
      <3> QED
        BY <3>1, <3>2, <3>3, OutcomeOfNone
    <2>2. CASE b # daemon
      <3>1. inbox'[daemon] = inbox[daemon] /\ UNCHANGED << daemon, blocks >>
        BY <1>1, <1>2, <2>2 DEF threadVars, compositorVars
      <3>2. CommandsLeft' = CommandsLeft
        BY DEF threadVars, compositorVars, CommandsLeft
      <3> QED
        BY <3>1, <3>2 DEF BlocksUnderWay
    <2> QED
      BY <2>1, <2>2
  <1> QED
    BY <1>4, <1>5

LEMMA ListAnswers ==
  ASSUME Types, Types', LifeInv, HomeInv, ToldInv, AnswerInv, SubscribedInv, ListInv, [Next]_vars,
         DaemonStep, Synced'
  PROVE  BlocksUnderWay' = blocked'
  <1>1. UNCHANGED threadVars /\ UNCHANGED lostCmd
    BY DaemonStepTypes DEF threadVars
  <1>2. /\ daemon' \in Buses /\ answer' = << >> /\ ~crossed' /\ ~overtaken' /\ ~crossed
        /\ Lists(inbox'[daemon']) \/ (Served' /\ ~lostCmd')
    <2>1. ListUnderWay' <=> Lists(inbox'[daemon'])
      BY DEF ListUnderWay, Lists, IsList
    <2>2. ~crossed' /\ daemon' \in Buses
      BY DEF Synced, Types, DaemonTypes
    <2> QED
      BY <2>1, <2>2, CrossedStays DEF Synced
  <1>3. Served' => Served
    BY <1>2, ServedAnswers
  <1>4. ASSUME NEW b \in Buses, NEW m \in News, Send(b, << m >>), Silent(m), ~IsList(m),
               UNCHANGED << daemon, blocked, answer, overtaken >>
        PROVE  BlocksUnderWay' = blocked'
    <2> DEFINE t == << m >>
    <2>1. t \in Seq(News) /\ Send(b, t) /\ \A i \in DOMAIN t : Silent(t[i]) /\ ~IsList(t[i])
      BY <1>4, OneMessage
    <2> HIDE DEF t
    <2> QED
      BY <1>1, <1>2, <1>3, <1>4, <2>1, ListSent
  <1>5. ASSUME NEW b \in Buses, BusStep(b) PROVE BlocksUnderWay' = blocked'
    <2>1. ASSUME NEW ty \in {"Select", "Registered"}, NEW ok \in BOOLEAN,
                 Send(b, << [type |-> ty, ok |-> ok] >>),
                 UNCHANGED << daemon, blocked, answer, overtaken >>
          PROVE  BlocksUnderWay' = blocked'
      <3> DEFINE m == [type |-> ty, ok |-> ok]
      <3>1. m \in News /\ Send(b, << m >>) /\ m.type \in {"Select", "Registered"}
        BY <2>1, NewsTypes
      <3> HIDE DEF m
      <3>2. Silent(m) /\ ~IsList(m)
        BY <3>1, SilentWords DEF IsList
      <3> QED
        BY <1>4, <2>1, <3>1, <3>2
    <2>2. CASE Started(b) /\ (Send(b, << Appeared >>) \/ Send(b, << Appeared, Chosen >>))
      <3>1. daemon = NoBus /\ daemon' = b
        BY <2>2 DEF Started
      <3>2. ~Served'
        BY <1>3, <3>1 DEF Served
      <3>3. inbox[b] \in Seq(News) /\ LifeOK(inbox[b], FALSE)
        <4>1. (daemon = b) = FALSE
          BY <3>1, BusesAre
        <4>2. LifeOK(inbox[b], daemon = b)
          BY DEF LifeInv
        <4>3. inbox[b] \in Seq(News)
          BY DEF Types, WireTypes
        <4> QED
          BY <4>1, <4>2, <4>3
      <3>4. ~Lists(inbox[b])
        BY <3>3, ListsAlive
      <3>5. ASSUME NEW t \in Seq(News), Send(b, t), \A i \in DOMAIN t : t[i] \in {Appeared, Chosen}
            PROVE  FALSE
        <4>1. inbox'[b] = inbox[b] \o t
          BY <3>5, SendFacts DEF Types
        <4>2. \A i \in DOMAIN t : ~IsList(t[i])
          BY <3>5, LifeTypes, StartNoteIs DEF IsList
        <4>3. ~Lists(inbox[b] \o t)
          BY <3>3, <3>4, <4>2, ListsConcat
        <4> QED
          BY <1>2, <3>1, <3>2, <4>1, <4>3
      <3>6. CASE Send(b, << Appeared >>)
        <4> DEFINE t == << Appeared >>
        <4>1. t \in Seq(News) /\ Send(b, t) /\ \A i \in DOMAIN t : t[i] \in {Appeared, Chosen}
          BY <3>6, NewsTypes, OneMessage
        <4> HIDE DEF t
        <4> QED
          BY <3>5, <4>1
      <3>7. CASE Send(b, << Appeared, Chosen >>)
        <4> DEFINE t == << Appeared, Chosen >>
        <4>1. t \in Seq(News) /\ Send(b, t) /\ \A i \in DOMAIN t : t[i] \in {Appeared, Chosen}
          BY <3>7, StartNoteIs
        <4> HIDE DEF t
        <4> QED
          BY <3>5, <4>1
      <3> QED
        BY <2>2, <3>6, <3>7
    <2>3. CASE Send(b, << Failure >>) /\ UNCHANGED << daemon, blocked, answer, overtaken >>
      <3>1. Failure \in News /\ Silent(Failure) /\ ~IsList(Failure)
        BY DeathNoteIs, SilentWords DEF IsList
      <3> QED
        BY <1>4, <2>3, <3>1
    <2>4. CASE answer' = << blocked >>
      <3>1. << blocked >> # << >>
        OBVIOUS
      <3> QED
        BY <1>2, <2>4, <3>1
    <2>5. (daemon = b) \in BOOLEAN
      OBVIOUS
    <2> QED
      BY <1>5, <2>1, <2>2, <2>3, <2>4, <2>5 DEF BusStep, daemonVars
  <1>6. ASSUME answer # << >>, daemon \in Buses, answer[1] \in SUBSET Apps,
               Send(daemon, << [type |-> "BlockedApps", ok |-> TRUE, apps |-> answer[1]] >>),
               UNCHANGED << daemon, blocked, overtaken >>
        PROVE  BlocksUnderWay' = blocked'
    <2> DEFINE m == [type |-> "BlockedApps", ok |-> TRUE, apps |-> answer[1]]
    <2>1. m \in News /\ m.type = "BlockedApps" /\ m.ok /\ m.apps = answer[1] /\ Send(daemon, << m >>)
      BY <1>6, NewsTypes
    <2>2. answer[1] = blocked /\ blocked \in SUBSET Apps
      BY <1>2, <1>6 DEF AnswerInv, Types, DaemonTypes
    <2> HIDE DEF m
    <2>3. \A a \in Apps : Settles(m, a) /\ (Leaves(m, a) <=> a \in blocked)
      BY <2>1, <2>2 DEF Settles, Leaves
    <2> DEFINE t == << m >>
    <2>4. t \in Seq(News) /\ Send(daemon, t)
      BY <2>1, OneMessage
    <2>5. Outcome(t, BlocksUnderWay) = {a \in Apps : IF Settles(m, a) THEN Leaves(m, a) ELSE a \in BlocksUnderWay}
      BY <2>1, OutcomeOfOne
    <2> HIDE DEF t
    <2>6. BlocksUnderWay' = Outcome(t, BlocksUnderWay)
      BY <1>1, <1>6, <2>4, UnderWaySent
    <2> QED
      BY <1>6, <2>2, <2>3, <2>5, <2>6
  <1>7. CASE daemon' = NoBus
    BY <1>2, <1>7, BusesAre
  <1>8. ASSUME daemon \in Buses, matches[daemon] \in Nat, NEW a \in Apps,
               blocked' = IF a \in blocked THEN blocked \ {a} ELSE blocked \cup {a}, Send(daemon, ToggleNote(a)),
               overtaken' = (overtaken \/ answer # << >>), UNCHANGED << daemon, answer >>
        PROVE  BlocksUnderWay' = blocked'
    <2>1. ToggleNote(a) \in Seq(News) /\ \A i \in DOMAIN ToggleNote(a) : ~IsList(ToggleNote(a)[i])
      <3> DEFINE m == [type |-> "AppBlocked", app |-> a, on |-> a \notin blocked]
                 t == ToggleNote(a)
      <3>1. t \in Seq(News) /\ m.type # "BlockedApps" /\ \A i \in DOMAIN t : t[i] = m
        BY <1>8, ToggleNoteIs
      <3> HIDE DEF m, t
      <3>2. \A i \in DOMAIN t : ~IsList(t[i])
        BY <3>1 DEF IsList
      <3> QED
        BY <3>1, <3>2 DEF t
    <2>2. inbox[daemon] \in Seq(News) /\ inbox'[daemon] = inbox[daemon] \o ToggleNote(a)
      BY <1>8, <2>1, SendFacts DEF Types
    <2>3. Lists(inbox'[daemon]) => Lists(inbox[daemon])
      BY <2>1, <2>2, ListsConcat
    <2>4. answer = << >> /\ ~overtaken /\ (Lists(inbox[daemon]) \/ (Served /\ ~lostCmd))
      BY <1>1, <1>2, <1>3, <1>8, <2>3
    <2>5. BlocksUnderWay = blocked
      BY <1>2, <1>8, <2>4, ListUnderWayIs, BusesAre DEF ListInv, Synced
    <2>6. matches[daemon] > 0
      <3>1. CASE Lists(inbox[daemon])
        <4>1. \E i \in DOMAIN inbox[daemon] : inbox[daemon][i].type = "BlockedApps"
          BY <3>1 DEF Lists, IsList
        <4> QED
          BY <1>8, <4>1, SubscribedInvIs DEF Wants
      <3>2. CASE Served
        BY <1>8, <3>2, SubscribedInvIs DEF Wants, Served
      <3> QED
        BY <2>4, <3>1, <3>2
    <2>7. BlocksUnderWay' = Outcome(ToggleNote(a), blocked)
      BY <1>1, <1>8, <2>1, <2>5, UnderWaySent
    <2>8. Outcome(ToggleNote(a), blocked) = blocked'
      <3>1. blocked \in SUBSET Apps /\ matches[daemon] \in Nat \ {0}
        BY <1>8, <2>6 DEF Types, DaemonTypes
      <3> QED
        BY <1>8, <3>1, OutcomeToggled
    <2> QED
      BY <2>7, <2>8
  <1> QED
    BY <1>5, <1>6, <1>7, <1>8, DaemonStepIs

LEMMA ListNext ==
  Types /\ SelectInv /\ LifeInv /\ HomeInv /\ ToldInv /\ SubscribedInv /\ AnswerInv /\ ListInv /\ [Next]_vars
  => ListInv'
  <1> SUFFICES ASSUME Types, SelectInv, LifeInv, HomeInv, ToldInv, SubscribedInv, AnswerInv, ListInv,
                      [Next]_vars, Synced'
               PROVE  BlocksUnderWay' = blocked'
    BY DEF ListInv
  <1>1. Types'
    BY TypesNext
  <1>2. CASE CompositorStep \/ LoopStep \/ UNCHANGED vars
    <2>1. UNCHANGED << daemon, blocked, answer, overtaken, crossed, inbox >>
      BY <1>2, CompositorStepTypes, LoopStepTypes DEF dbusVars, daemonVars, vars
    <2>2. Will' = Will
      BY <1>2, WillStays
    <2>3. UNCHANGED lostCmd
      BY <1>2, CompositorStepTypes DEF LoopStep, CommitCommand, OpenMessages, HandleMessages, ScreenLock,
                                       PrepareForSleep, dbusVars, vars
    <2>4. Served' => Served
      BY <1>2, ServedLoops
    <2>5. ListUnderWay' <=> ListUnderWay
      BY <2>1 DEF ListUnderWay
    <2>6. Synced
      BY <2>1, <2>3, <2>4, <2>5 DEF Synced
    <2>7. daemon \in Buses
      BY <2>6 DEF Synced, Types, DaemonTypes
    <2>8. BlocksUnderWay = Outcome(inbox[daemon], Will) /\ BlocksUnderWay = blocked
      BY <2>6, <2>7, UnderWayIs DEF ListInv
    <2>9. BlocksUnderWay' = Outcome(inbox'[daemon'], Will')
      BY <1>1, <2>1, <2>7, UnderWayThen
    <2> QED
      BY <2>1, <2>2, <2>8, <2>9
  <1>3. ASSUME NEW b \in Buses, ReceiveStep(b) PROVE BlocksUnderWay' = blocked'
    BY <1>1, <1>3, ListReceives
  <1>4. CASE DaemonStep
    BY <1>1, <1>4, ListAnswers
  <1> QED
    BY <1>2, <1>3, <1>4, NextIs

LEMMA PluginList ==
  Spec => [](Types /\ SelectInv /\ LifeInv /\ HomeInv /\ ToldInv /\ DaemonToldFocus
             /\ SubscribedInv /\ AnswerInv /\ ListInv)
  <1>1. Init => SubscribedInv /\ AnswerInv /\ ListInv
    <2> SUFFICES ASSUME Init PROVE SubscribedInv /\ AnswerInv /\ ListInv
      OBVIOUS
    <2>1. /\ bus = NoBus /\ answer = << >> /\ told = Signal("unregistered")
          /\ inbox = [b \in Buses |-> << >>] /\ daemon \in Buses \cup {NoBus}
          /\ \A b \in Buses : calls[b]["GetBlocked"] = 0
      BY KindsAre DEF Init
    <2>2. \A b \in Buses : DOMAIN inbox[b] = {}
      BY <2>1
    <2>3. SubscribedInv
      BY <2>1, <2>2, BusesAre DEF SubscribedInv
    <2>4. AnswerInv
      BY <2>1 DEF AnswerInv
    <2>5. ~Synced
      <3>1. ~Served
        BY <2>1 DEF Served
      <3>2. daemon # NoBus => ~ListUnderWay
        BY <2>1, <2>2 DEF ListUnderWay
      <3> QED
        BY <3>1, <3>2 DEF Synced
    <2> QED
      BY <2>3, <2>4, <2>5 DEF ListInv
  <1>2. Types /\ SelectInv /\ LifeInv /\ HomeInv /\ ToldInv /\ SubscribedInv /\ AnswerInv /\ ListInv /\ [Next]_vars
        => SubscribedInv' /\ AnswerInv' /\ ListInv'
    BY SubscribedNext, AnswerNext, ListNext
  <1> QED
    BY <1>1, <1>2, PluginTold, PTL DEF Spec

\* BlocksAgree: with the commands, replies and signals under way handled in
\* order, LockManager::m_blocks is the list the daemon enforces, through every
\* order of registration, snapshot, AppBlocked signals and restarts that loses
\* no command, outruns no snapshot and crosses no news of the two buses.
THEOREM BlocksHold == Spec => []BlocksAgree
  <1>1. Types /\ ListInv => BlocksAgree
    BY DEF ListInv, Synced, BlocksAgree, Served, GettingBlocked
  <1> QED
    BY <1>1, PluginList, PTL
=============================================================================
