--------------------------- MODULE SchedulerProofs ---------------------------
(***************************************************************************)
(* Proofs about Scheduler, for every word size of millis(), any jobs,      *)
(* tasks and intervals: the list of timers stays in order, no chain of     *)
(* timers breaks, jobs keep their intervals, events do not wait for ever,  *)
(* and the list implements one alarm per id.                               *)
(***************************************************************************)
EXTENDS Scheduler, FiniteSetTheorems, SequenceTheorems,
        WellFoundedInduction, TLAPS

-----------------------------------------------------------------------------
\* Induction over natural numbers, for sets of them.

LEMMA LeastExists ==
    ASSUME NEW S, S \subseteq Nat, S # {}
    PROVE  Min(S) \in S /\ \A n \in S : Min(S) <= n
<1> DEFINE Less == {p \in Nat \X Nat : p[1] < p[2]}
<1>1. IsWellFoundedOn(Less, Nat)
  BY NatLessThanWellFounded DEF OpToRel
<1> HIDE DEF Less
<1>2. PICK m \in S : \A n \in S : <<n, m>> \notin Less
  BY <1>1, WFMin
<1>3. \A n \in S : m <= n
  <2> SUFFICES ASSUME NEW n \in S PROVE m <= n
    OBVIOUS
  <2>1. m \in Nat /\ n \in Nat
    BY <1>2
  <2>2. n < m => <<n, m>> \in Less
    BY <2>1 DEF Less
  <2> QED
    BY <1>2, <2>1, <2>2, SMT
<1>4. Min(S) = CHOOSE x \in S : \A y \in S : x <= y
  BY DEF Min
<1> QED
  BY <1>2, <1>3, <1>4

LEMMA Induction ==
    ASSUME NEW n \in Nat, NEW S, 0 \in S,
           \A i \in 1..n : i - 1 \in S => i \in S
    PROVE  0..n \subseteq S
<1> DEFINE Bad == {i \in 0..n : i \notin S}
<1> SUFFICES ASSUME Bad # {} PROVE FALSE
  BY SMT
<1>1. Bad \subseteq Nat
  BY SMT
<1>2. Min(Bad) \in Bad /\ \A i \in Bad : Min(Bad) <= i
  BY <1>1, LeastExists, Zenon
<1> DEFINE m == Min(Bad)
<1>3. m \in 0..n /\ m \notin S /\ \A i \in Bad : m <= i
  BY <1>2
<1> HIDE DEF m
<1>4. m \in 1..n /\ m - 1 \in 0..n /\ m - 1 < m
  BY <1>3, SMT
<1>5. m - 1 \in S
  BY <1>3, <1>4, SMT
<1> QED
  BY <1>3, <1>4, <1>5

\* A function that is defined by recursion, from a, with these steps.
IsRun(f, n, V, a, step) ==
    /\ f \in [0..n -> V]
    /\ f[0] = a /\ \A i \in 1..n : f[i] = step[<<i, f[i - 1]>>]

LEMMA RecursionExists ==
    ASSUME NEW n \in Nat, NEW V, NEW a \in V, NEW step \in [(1..n) \X V -> V]
    PROVE  \E f : IsRun(f, n, V, a, step)
<1> DEFINE Good(k) == {f \in [0..n -> V] :
                         f[0] = a /\ \A i \in 1..k : f[i] = step[<<i, f[i - 1]>>]}
           S == {k \in 0..n : Good(k) # {}}
<1>1. 0 \in S
  <2>1. [i \in 0..n |-> a] \in Good(0)
    BY SMT
  <2> QED
    BY <2>1, SMT
<1>2. ASSUME NEW k \in 1..n, k - 1 \in S PROVE k \in S
  <2>1. PICK f \in Good(k - 1) : TRUE
    BY <1>2
  <2> DEFINE v == step[<<k, f[k - 1]>>]
             g == [f EXCEPT ![k] = v]
  <2>2. f \in [0..n -> V] /\ f[0] = a
        /\ \A i \in 1..(k - 1) : f[i] = step[<<i, f[i - 1]>>]
    BY <2>1
  <2>3. k \in 0..n /\ k - 1 \in 0..n /\ k # 0
    BY SMT
  <2>4. v \in V
    BY <2>2, <2>3
  <2> HIDE DEF v
  <2>5. g \in [0..n -> V] /\ g[0] = a
    BY <2>2, <2>3, <2>4
  <2>6. ASSUME NEW i \in 1..k PROVE g[i] = step[<<i, g[i - 1]>>]
    <3>1. i \in 0..n /\ i - 1 \in 0..n /\ i - 1 # k
      BY SMT
    <3>2. g[i - 1] = f[i - 1]
      BY <2>2, <3>1
    <3>3. CASE i = k
      BY <2>2, <2>3, <3>2, <3>3 DEF v
    <3>4. CASE i # k
      <4>1. i \in 1..(k - 1)
        BY <3>4, SMT
      <4> QED
        BY <2>2, <3>1, <3>2, <3>4, <4>1
    <3> QED
      BY <3>3, <3>4
  <2>7. g \in Good(k)
    BY <2>5, <2>6
  <2> QED
    BY <2>3, <2>7
<1>3. n \in S
  <2> HIDE DEF S
  <2>1. 0..n \subseteq S
    BY <1>1, <1>2, Induction
  <2> QED
    BY <2>1, SMT
<1> QED
  BY <1>3 DEF IsRun

-----------------------------------------------------------------------------
\* Arithmetic of millis().

LEMMA ConstantTypes ==
    /\ HalfMax \in Nat /\ HalfMax > 0
    /\ Step \in [Jobs -> 1..HalfMax] /\ Restarted \subseteq Jobs
    /\ Intervals \subseteq 0..HalfMax /\ 0 \in Intervals
    /\ Nobody \notin Ids /\ Idle \notin Ids /\ Idle # Nobody
    /\ OverrideTime \in 1..HalfMax /\ TasksMax \in 0..HalfMax
    /\ MaxWait \in Nat /\ MaxBusy \in Nat /\ MaxLate \in Nat
    /\ MaxEvents \in Nat
BY TimeCalcAssumption, SchedulerAssumption, SMT

LEMMA ULongFacts ==
    /\ 0 \in ULong /\ ULongMax \in ULong /\ 0..HalfMax \subseteq ULong
    /\ 1 \in 0..HalfMax /\ ULong \subseteq Int /\ Long \subseteq Int
BY TimeCalcAssumption, SMT DEF ULong, ULongMax, Long

LEMMA PlusType ==
    ASSUME NEW t \in ULong, NEW d \in ULong
    PROVE  Plus(t, d) \in ULong
BY TimeCalcAssumption, SMT DEF Plus, ULong, ULongMax

LEMMA PassedType ==
    ASSUME NEW t \in ULong, NEW n \in ULong
    PROVE  timePassedSince(t, n) \in Long
BY TimeCalcAssumption, SMT
DEF timePassedSince, timeDiff, AsLong, Negated, Long, ULong, ULongMax

\* What is now has not passed, and what is set ahead of now is as far ahead.
LEMMA PassedAhead ==
    ASSUME NEW n \in ULong, NEW d \in 0..HalfMax
    PROVE  timePassedSince(Plus(n, d), n) = -d
BY TimeCalcAssumption, SMT
DEF timePassedSince, timeDiff, Plus, AsLong, Negated, ULong, ULongMax

\* To add the largest number is to take one off.
LEMMA PassedBefore ==
    ASSUME NEW n \in ULong
    PROVE  timePassedSince(Plus(n, ULongMax), n) = 1
BY TimeCalcAssumption, SMT
DEF timePassedSince, timeDiff, Plus, AsLong, Negated, ULong, ULongMax

\* What is set ahead of a time that has passed.
LEMMA PassedLater ==
    ASSUME NEW t \in ULong, NEW n \in ULong, NEW d \in 0..HalfMax,
           timePassedSince(t, n) >= 0
    PROVE  timePassedSince(Plus(t, d), n) = timePassedSince(t, n) - d
BY TimeCalcAssumption, SMT
DEF timePassedSince, timeDiff, Plus, AsLong, Negated, ULong, ULongMax

\* A tick of the clock.
LEMMA PassedTick ==
    ASSUME NEW t \in ULong, NEW n \in ULong,
           timePassedSince(t, n) < HalfMax, timePassedSince(t, n) >= -HalfMax
    PROVE  timePassedSince(t, Plus(n, 1)) = timePassedSince(t, n) + 1
BY TimeCalcAssumption, SMT
DEF timePassedSince, timeDiff, Plus, AsLong, Negated, ULong, ULongMax

\* The next run of an interval timer that is due: now or up to one step ahead.
LEMMA NextRun ==
    ASSUME NEW t \in ULong, NEW n \in ULong, NEW step \in 1..HalfMax,
           timePassedSince(t, n) >= 0
    PROVE  /\ setNextTimeInterval(t, step, n) \in ULong
           /\ timePassedSince(setNextTimeInterval(t, step, n), n) \in (-step)..0
<1> DEFINE passed == timePassedSince(Plus(t, step), n)
<1>1. step \in 0..HalfMax /\ step \in ULong
  BY ULongFacts, SMT
<1>2. passed = timePassedSince(t, n) - step
  BY <1>1, PassedLater
<1>3. timePassedSince(t, n) \in Int /\ Plus(t, step) \in ULong
  BY <1>1, PassedType, PlusType, ULongFacts
<1> HIDE DEF passed
<1>4. CASE passed < 0
  <2>1. setNextTimeInterval(t, step, n) = Plus(t, step)
    BY <1>4 DEF setNextTimeInterval, passed
  <2>2. passed \in (-step)..0
    BY <1>2, <1>3, <1>4, SMT
  <2> QED
    BY <1>3, <2>1, <2>2 DEF passed
<1>5. CASE passed >= 0
  <2> DEFINE d == IF passed > step THEN step ELSE step - passed
  <2>1. passed \in Int
    BY <1>2, <1>3, SMT
  <2>2. d \in 0..step /\ d \in 0..HalfMax
    BY <1>1, <1>5, <2>1, ConstantTypes, SMT
  <2>3. setNextTimeInterval(t, step, n) = Plus(n, d)
    BY <1>5, <2>1, SMT DEF setNextTimeInterval, passed
  <2> HIDE DEF d
  <2>4. Plus(n, d) \in ULong /\ timePassedSince(Plus(n, d), n) = -d
    BY <2>2, PlusType, PassedAhead, ULongFacts
  <2>5. -d \in (-step)..0
    BY <2>2, SMT
  <2> QED
    BY <2>3, <2>4, <2>5
<1> QED
  BY <1>2, <1>3, <1>4, <1>5, SMT

\* The next run when an interval timer is set from now on.
LEMMA NextRunFromNow ==
    ASSUME NEW n \in ULong
    PROVE  /\ setNextTimeInterval(n, 1, n) \in ULong
           /\ timePassedSince(setNextTimeInterval(n, 1, n), n) = -1
<1>1. timePassedSince(Plus(n, 1), n) = -1 /\ Plus(n, 1) \in ULong
  BY PassedAhead, PlusType, ULongFacts
<1>2. setNextTimeInterval(n, 1, n) = Plus(n, 1)
  BY <1>1, SMT DEF setNextTimeInterval
<1> QED
  BY <1>1, <1>2

-----------------------------------------------------------------------------
\* The list of timers.

Timer == [id : Ids, at : ULong]

Has(list, e) == \E i \in 1..Len(list) : list[i] = e

HasId(list, id) == \E i \in 1..Len(list) : list[i].id = id

Sorted(list) ==
    /\ list \in Seq(Timer)
    /\ \A i, j \in 1..Len(list) : i < j =>
          /\ list[i].id # list[j].id
          /\ Late(list[i].at) >= Late(list[j].at)

LEMMA LateType == ASSUME now \in ULong, NEW t \in ULong PROVE Late(t) \in Int
BY PassedType, ULongFacts DEF Late

LEMMA SortedIds ==
    ASSUME NEW list, Sorted(list), NEW i \in 1..Len(list),
           NEW j \in 1..Len(list), list[i].id = list[j].id
    PROVE  i = j
BY LenProperties, SMT DEF Sorted

\* There is one timer for an id.
LEMMA OnlyOne ==
    ASSUME NEW list, Sorted(list), NEW d, Has(list, d), NEW e, Has(list, e),
           d.id = e.id
    PROVE  d = e
BY SortedIds DEF Has

LEMMA HasType ==
    ASSUME NEW list, Sorted(list), NEW e, Has(list, e)
    PROVE  e \in Timer /\ e.id \in Ids /\ e.at \in ULong
<1>1. e \in Timer
  BY ElementOfSeq DEF Sorted, Has
<1> QED
  BY <1>1 DEF Timer

LEMMA RemoveAtFacts ==
    ASSUME NEW S, NEW s \in Seq(S), NEW k \in 1..Len(s)
    PROVE  /\ RemoveAt(s, k) \in Seq(S)
           /\ Len(RemoveAt(s, k)) = Len(s) - 1
           /\ \A i \in 1..(Len(s) - 1) :
                RemoveAt(s, k)[i] = IF i < k THEN s[i] ELSE s[i + 1]
<1> DEFINE f == SubSeq(s, 1, k - 1)
           g == SubSeq(s, k + 1, Len(s))
<1>1. Len(s) \in Nat
  BY LenProperties
<1>2. f \in Seq(S) /\ Len(f) = k - 1 /\ \A i \in 1..(k - 1) : f[i] = s[i]
  <2>1. 1 \in Int /\ k - 1 \in Int /\ \A i \in 1..(k - 1) : s[i] \in S
    BY <1>1, ElementOfSeq, SMT
  <2>2. /\ f \in Seq(S) /\ Len(f) = IF 1 <= k - 1 THEN k - 1 - 1 + 1 ELSE 0
        /\ \A i \in 1..(k - 1 - 1 + 1) : f[i] = s[1 + i - 1]
    BY <2>1, SubSeqProperties
  <2> QED
    BY <1>1, <2>2, SMT
<1>3. /\ g \in Seq(S) /\ Len(g) = Len(s) - k
      /\ \A i \in 1..(Len(s) - k) : g[i] = s[k + i]
  <2>1. k + 1 \in Int /\ Len(s) \in Int /\ \A i \in (k + 1)..Len(s) : s[i] \in S
    BY <1>1, ElementOfSeq, SMT
  <2>2. /\ g \in Seq(S)
        /\ Len(g) = IF k + 1 <= Len(s) THEN Len(s) - (k + 1) + 1 ELSE 0
        /\ \A i \in 1..(Len(s) - (k + 1) + 1) : g[i] = s[k + 1 + i - 1]
    BY <2>1, SubSeqProperties
  <2> QED
    BY <1>1, <2>2, SMT
<1> HIDE DEF f, g
<1>4. /\ f \o g \in Seq(S) /\ Len(f \o g) = Len(f) + Len(g)
      /\ \A i \in 1..(Len(f) + Len(g)) :
           (f \o g)[i] = IF i <= Len(f) THEN f[i] ELSE g[i - Len(f)]
  BY <1>2, <1>3, ConcatProperties
<1>5. RemoveAt(s, k) = f \o g
  BY DEF RemoveAt, f, g
<1>6. ASSUME NEW i \in 1..(Len(s) - 1)
      PROVE  (f \o g)[i] = IF i < k THEN s[i] ELSE s[i + 1]
  <2>1. CASE i < k
    <3>1. i \in 1..(k - 1) /\ i <= Len(f) /\ i \in 1..(Len(f) + Len(g))
      BY <1>1, <1>2, <1>3, <2>1, SMT
    <3> QED
      BY <1>2, <1>4, <2>1, <3>1
  <2>2. CASE ~(i < k)
    <3>1. /\ i - (k - 1) \in 1..(Len(s) - k) /\ ~(i <= Len(f))
          /\ i \in 1..(Len(f) + Len(g)) /\ k + (i - (k - 1)) = i + 1
      BY <1>1, <1>2, <1>3, <2>2, SMT
    <3>2. (f \o g)[i] = g[i - (k - 1)]
      BY <1>2, <1>4, <3>1
    <3>3. g[i - (k - 1)] = s[i + 1]
      BY <1>3, <3>1
    <3> QED
      BY <2>2, <3>2, <3>3
  <2> QED
    BY <2>1, <2>2
<1>7. Len(f) + Len(g) = Len(s) - 1
  BY <1>1, <1>2, <1>3, SMT
<1> QED
  BY <1>4, <1>5, <1>6, <1>7

LEMMA InsertAtFacts ==
    ASSUME NEW S, NEW s \in Seq(S), NEW k \in 1..(Len(s) + 1), NEW e \in S
    PROVE  /\ InsertAt(s, k, e) \in Seq(S)
           /\ Len(InsertAt(s, k, e)) = Len(s) + 1
           /\ \A i \in 1..(Len(s) + 1) :
                InsertAt(s, k, e)[i] = IF i < k THEN s[i]
                                       ELSE IF i = k THEN e ELSE s[i - 1]
<1> DEFINE f == SubSeq(s, 1, k - 1)
           g == SubSeq(s, k, Len(s))
           m == <<e>>
<1>1. Len(s) \in Nat
  BY LenProperties
<1>2. f \in Seq(S) /\ Len(f) = k - 1 /\ \A i \in 1..(k - 1) : f[i] = s[i]
  <2>1. 1 \in Int /\ k - 1 \in Int /\ \A i \in 1..(k - 1) : s[i] \in S
    BY <1>1, ElementOfSeq, SMT
  <2>2. /\ f \in Seq(S) /\ Len(f) = IF 1 <= k - 1 THEN k - 1 - 1 + 1 ELSE 0
        /\ \A i \in 1..(k - 1 - 1 + 1) : f[i] = s[1 + i - 1]
    BY <2>1, SubSeqProperties
  <2> QED
    BY <1>1, <2>2, SMT
<1>3. /\ g \in Seq(S) /\ Len(g) = Len(s) - k + 1
      /\ \A i \in 1..(Len(s) - k + 1) : g[i] = s[k + i - 1]
  <2>1. k \in Int /\ Len(s) \in Int /\ \A i \in k..Len(s) : s[i] \in S
    BY <1>1, ElementOfSeq, SMT
  <2>2. /\ g \in Seq(S)
        /\ Len(g) = IF k <= Len(s) THEN Len(s) - k + 1 ELSE 0
        /\ \A i \in 1..(Len(s) - k + 1) : g[i] = s[k + i - 1]
    BY <2>1, SubSeqProperties
  <2> QED
    BY <1>1, <2>2, SMT
<1>4. m \in Seq(S) /\ Len(m) = 1 /\ m[1] = e
  BY SMT
<1> HIDE DEF f, g, m
<1> DEFINE h == f \o m
<1>5. /\ h \in Seq(S) /\ Len(h) = k
      /\ \A i \in 1..k : h[i] = IF i < k THEN s[i] ELSE e
  <2>1. /\ f \o m \in Seq(S) /\ Len(f \o m) = Len(f) + Len(m)
        /\ \A i \in 1..(Len(f) + Len(m)) :
             (f \o m)[i] = IF i <= Len(f) THEN f[i] ELSE m[i - Len(f)]
    BY <1>2, <1>4, ConcatProperties
  <2>2. Len(f) + Len(m) = k
    BY <1>1, <1>2, <1>4, SMT
  <2> HIDE DEF h
  <2>3. ASSUME NEW i \in 1..k, i < k PROVE h[i] = s[i]
    <3>1. i \in 1..(k - 1) /\ i <= Len(f)
      BY <1>1, <1>2, <2>3, SMT
    <3> QED
      BY <1>2, <2>1, <2>2, <3>1 DEF h
  <2>4. ASSUME NEW i \in 1..k, ~(i < k) PROVE h[i] = e
    <3>1. ~(i <= Len(f)) /\ i - Len(f) = 1
      BY <1>1, <1>2, <2>4, SMT
    <3> QED
      BY <1>4, <2>1, <2>2, <3>1 DEF h
  <2> QED
    BY <2>1, <2>2, <2>3, <2>4 DEF h
<1> HIDE DEF h
<1> DEFINE r == h \o g
<1>6. /\ r \in Seq(S) /\ Len(r) = Len(h) + Len(g)
      /\ \A i \in 1..(Len(h) + Len(g)) :
           r[i] = IF i <= Len(h) THEN h[i] ELSE g[i - Len(h)]
  BY <1>3, <1>5, ConcatProperties
<1>7. InsertAt(s, k, e) = r
  BY DEF InsertAt, f, g, m, h, r
<1>8. Len(h) + Len(g) = Len(s) + 1
  BY <1>1, <1>3, <1>5, SMT
<1> HIDE DEF r
<1>9. ASSUME NEW i \in 1..(Len(s) + 1)
      PROVE  r[i] = IF i < k THEN s[i] ELSE IF i = k THEN e ELSE s[i - 1]
  <2>1. CASE i <= k
    <3>1. i \in 1..k
      BY <2>1, SMT
    <3>2. r[i] = IF i < k THEN s[i] ELSE e
      BY <1>5, <1>6, <1>8, <2>1, <3>1
    <3> QED
      BY <2>1, <3>2, SMT
  <2>2. CASE ~(i <= k)
    <3>1. /\ ~(i < k) /\ i # k /\ i - k \in 1..(Len(s) - k + 1)
          /\ k + (i - k) - 1 = i - 1
      BY <1>1, <2>2, SMT
    <3>2. r[i] = g[i - k]
      BY <1>5, <1>6, <1>8, <2>2
    <3> QED
      BY <1>3, <3>1, <3>2
  <2> QED
    BY <2>1, <2>2
<1> QED
  BY <1>6, <1>7, <1>8, <1>9

\* remove_if(): the others stay, in their order.
LEMMA WithoutFacts ==
    ASSUME NEW list, Sorted(list), NEW id
    PROVE  /\ Sorted(Without(list, id))
           /\ \A e : Has(Without(list, id), e) <=> Has(list, e) /\ e.id # id
<1>1. list \in Seq(Timer) /\ Len(list) \in Nat
  BY LenProperties DEF Sorted
<1>2. CASE ~ \E i \in 1..Len(list) : list[i].id = id
  <2>1. Without(list, id) = list
    BY <1>2 DEF Without
  <2> QED
    BY <1>2, <2>1 DEF Has
<1>3. CASE \E i \in 1..Len(list) : list[i].id = id
  <2> DEFINE k == CHOOSE i \in 1..Len(list) : list[i].id = id
             r == RemoveAt(list, k)
  <2>1. k \in 1..Len(list) /\ list[k].id = id
    BY <1>3
  <2>2. Without(list, id) = r
    BY <1>3 DEF Without
  <2> HIDE DEF k
  <2>3. /\ r \in Seq(Timer) /\ Len(r) = Len(list) - 1
        /\ \A i \in 1..(Len(list) - 1) :
             r[i] = IF i < k THEN list[i] ELSE list[i + 1]
    BY <1>1, <2>1, RemoveAtFacts
  <2> HIDE DEF r
  <2> DEFINE at(i) == IF i < k THEN i ELSE i + 1
  <2>4. ASSUME NEW i \in 1..Len(r)
        PROVE  at(i) \in 1..Len(list) /\ at(i) # k /\ r[i] = list[at(i)]
    <3>1. i \in 1..(Len(list) - 1)
      BY <2>3
    <3>2. at(i) \in 1..Len(list) /\ at(i) # k
      BY <1>1, <2>1, <3>1, SMT
    <3>3. r[i] = list[at(i)]
      BY <2>3, <3>1
    <3> QED
      BY <3>2, <3>3
  <2>5. ASSUME NEW i \in 1..Len(r), NEW j \in 1..Len(r), i < j
        PROVE  at(i) < at(j)
    BY <1>1, <2>1, <2>3, <2>5, SMT
  <2>6. ASSUME NEW i \in 1..Len(list), i # k
        PROVE  \E j \in 1..Len(r) : at(j) = i
    <3>1. CASE i < k
      BY <1>1, <2>1, <2>3, <3>1, SMT
    <3>2. CASE i > k
      <4>1. i - 1 \in 1..Len(r) /\ at(i - 1) = i
        BY <1>1, <2>1, <2>3, <3>2, SMT
      <4> QED
        BY <4>1
    <3> QED
      BY <1>1, <2>1, <2>6, <3>1, <3>2, SMT
  <2> HIDE DEF at
  <2>7. Sorted(r)
    <3>1. ASSUME NEW i \in 1..Len(r), NEW j \in 1..Len(r), i < j
          PROVE  r[i].id # r[j].id /\ Late(r[i].at) >= Late(r[j].at)
      BY <2>4, <2>5, <3>1 DEF Sorted
    <3> QED
      BY <2>3, <3>1 DEF Sorted
  <2>8. ASSUME NEW e, Has(r, e) PROVE Has(list, e) /\ e.id # id
    <3>1. PICK i \in 1..Len(r) : r[i] = e
      BY <2>8 DEF Has
    <3>2. at(i) \in 1..Len(list) /\ at(i) # k /\ e = list[at(i)]
      BY <2>4, <3>1
    <3>3. list[at(i)].id # id
      BY <2>1, <3>2, SortedIds
    <3> QED
      BY <3>2, <3>3 DEF Has
  <2>9. ASSUME NEW e, Has(list, e), e.id # id PROVE Has(r, e)
    <3>1. PICK i \in 1..Len(list) : list[i] = e
      BY <2>9 DEF Has
    <3>2. PICK j \in 1..Len(r) : at(j) = i
      BY <2>1, <2>6, <2>9, <3>1
    <3> QED
      BY <2>4, <3>1, <3>2 DEF Has
  <2> QED
    BY <2>2, <2>7, <2>8, <2>9
<1> QED
  BY <1>2, <1>3

\* insert(): the list stays in order, and has the new timer and the others.
LEMMA InsertFacts ==
    ASSUME now \in ULong, NEW list, Sorted(list), NEW id \in Ids,
           NEW at \in ULong
    PROVE  /\ Sorted(Insert(list, id, at))
           /\ \A e : Has(Insert(list, id, at), e)
                       <=> \/ e = [id |-> id, at |-> at]
                           \/ Has(list, e) /\ e.id # id
<1> DEFINE o == Without(list, id)
           new == [id |-> id, at |-> at]
<1>1. Sorted(o) /\ \A e : Has(o, e) <=> Has(list, e) /\ e.id # id
  BY WithoutFacts
<1> HIDE DEF o
<1>2. o \in Seq(Timer) /\ Len(o) \in Nat /\ new \in Timer
  BY <1>1, LenProperties DEF Sorted, Timer
<1>3. \A i \in 1..Len(o) : Late(o[i].at) \in Int /\ o[i].id # id
  <2> SUFFICES ASSUME NEW i \in 1..Len(o)
               PROVE  Late(o[i].at) \in Int /\ o[i].id # id
    OBVIOUS
  <2>1. Has(o, o[i])
    BY DEF Has
  <2> QED
    BY <1>1, <2>1, HasType, LateType
<1>4. Late(at) \in Int
  BY LateType
<1> DEFINE noLater == {i \in 1..Len(o) : Late(o[i].at) <= Late(at)}
           S == noLater \cup {Len(o) + 1}
           k == Min(S)
           r == InsertAt(o, k, new)
<1>5. Insert(list, id, at) = r
  BY DEF Insert, o
<1>6. k \in S /\ \A n \in S : k <= n
  <2>1. S \subseteq Nat /\ S # {}
    BY <1>2, SMT
  <2> HIDE DEF S
  <2> QED
    BY <2>1, LeastExists
<1> HIDE DEF k
<1>7. k \in 1..(Len(o) + 1)
  BY <1>2, <1>6, SMT
<1>8. ASSUME NEW i \in 1..Len(o), i < k PROVE Late(o[i].at) >= Late(at)
  <2>1. i \notin noLater
    BY <1>2, <1>6, <1>7, <1>8, SMT
  <2> QED
    BY <1>3, <1>4, <2>1, SMT
<1>9. ASSUME NEW i \in 1..Len(o), k <= i PROVE Late(at) >= Late(o[i].at)
  <2>1. k \in 1..Len(o) /\ k # Len(o) + 1
    BY <1>2, <1>7, <1>9, SMT
  <2>2. Late(o[k].at) <= Late(at)
    BY <1>6, <2>1
  <2>3. k < i => Late(o[k].at) >= Late(o[i].at)
    BY <1>1, <2>1 DEF Sorted
  <2>4. Late(o[k].at) \in Int /\ Late(o[i].at) \in Int
    BY <1>3, <2>1
  <2>5. k = i \/ k < i
    BY <1>9, <2>1, SMT
  <2> QED
    BY <1>4, <2>2, <2>3, <2>4, <2>5, SMT
<1> HIDE DEF S, noLater
<1>10. /\ r \in Seq(Timer) /\ Len(r) = Len(o) + 1
       /\ \A i \in 1..(Len(o) + 1) :
            r[i] = IF i < k THEN o[i] ELSE IF i = k THEN new ELSE o[i - 1]
  BY <1>2, <1>7, InsertAtFacts
<1> HIDE DEF r
<1>11. ASSUME NEW i \in 1..Len(r), NEW j \in 1..Len(r), i < j
       PROVE  r[i].id # r[j].id /\ Late(r[i].at) >= Late(r[j].at)
  <2>1. i \in 1..(Len(o) + 1) /\ j \in 1..(Len(o) + 1) /\ Len(o) \in Int
        /\ k \in Int /\ i \in Int /\ j \in Int
    BY <1>2, <1>7, <1>10, SMT
  <2>2. CASE j < k
    <3>1. i < k /\ i \in 1..Len(o) /\ j \in 1..Len(o)
      BY <1>7, <1>11, <2>1, <2>2, SMT
    <3>2. r[i] = o[i] /\ r[j] = o[j]
      BY <1>10, <2>1, <2>2, <3>1
    <3> QED
      BY <1>1, <1>11, <3>1, <3>2 DEF Sorted
  <2>3. CASE j = k
    <3>1. i < k /\ i \in 1..Len(o) /\ ~(j < k)
      BY <1>7, <1>11, <2>1, <2>3, SMT
    <3>2. r[i] = o[i] /\ r[j] = new
      BY <1>10, <2>1, <2>3, <3>1
    <3> QED
      BY <1>3, <1>8, <3>1, <3>2
  <2>4. CASE k < j
    <3>1. j - 1 \in 1..Len(o) /\ ~(j < k) /\ j # k /\ k <= j - 1
      BY <1>7, <2>1, <2>4, SMT
    <3>2. r[j] = o[j - 1]
      BY <1>10, <2>1, <3>1
    <3>3. CASE i < k
      <4>1. i \in 1..Len(o) /\ i < j - 1
        BY <1>7, <2>1, <3>1, <3>3, SMT
      <4> QED
        BY <1>1, <1>10, <2>1, <3>1, <3>2, <3>3, <4>1 DEF Sorted
    <3>4. CASE i = k
      <4>1. ~(i < k)
        BY <2>1, <3>4, SMT
      <4>2. r[i] = new
        BY <1>10, <2>1, <3>4, <4>1
      <4> QED
        BY <1>3, <1>9, <3>1, <3>2, <4>2
    <3>5. CASE k < i
      <4>1. i - 1 \in 1..Len(o) /\ i - 1 < j - 1 /\ ~(i < k) /\ i # k
        BY <1>7, <1>11, <2>1, <3>5, SMT
      <4>2. r[i] = o[i - 1]
        BY <1>10, <2>1, <4>1
      <4> QED
        BY <1>1, <3>1, <3>2, <4>1, <4>2 DEF Sorted
    <3> QED
      BY <2>1, <3>3, <3>4, <3>5, SMT
  <2> QED
    BY <2>1, <2>2, <2>3, <2>4, SMT
<1>12. Sorted(r)
  BY <1>10, <1>11 DEF Sorted
<1>13. ASSUME NEW e, Has(r, e) PROVE e = new \/ Has(o, e)
  <2>1. PICK i \in 1..Len(r) : r[i] = e
    BY <1>13 DEF Has
  <2>2. i \in 1..(Len(o) + 1)
    BY <1>10
  <2>3. CASE i < k
    <3>1. i \in 1..Len(o) /\ o[i] = e
      BY <1>2, <1>7, <1>10, <2>1, <2>2, <2>3, SMT
    <3> QED
      BY <3>1 DEF Has
  <2>4. CASE i = k
    BY <1>10, <2>1, <2>2, <2>4, <1>7, SMT
  <2>5. CASE k < i
    <3>1. i - 1 \in 1..Len(o) /\ ~(i < k) /\ i # k
      BY <1>2, <1>7, <2>2, <2>5, SMT
    <3>2. o[i - 1] = e
      BY <1>10, <2>1, <2>2, <3>1
    <3> QED
      BY <3>1, <3>2 DEF Has
  <2> QED
    BY <1>7, <2>2, <2>3, <2>4, <2>5, SMT
<1>14. Has(r, new)
  <2>1. k \in 1..Len(r) /\ ~(k < k)
    BY <1>7, <1>10, SMT
  <2>2. r[k] = new
    BY <1>7, <1>10, <2>1
  <2> QED
    BY <2>1, <2>2 DEF Has
<1>15. ASSUME NEW e, Has(o, e) PROVE Has(r, e)
  <2>1. PICK i \in 1..Len(o) : o[i] = e
    BY <1>15 DEF Has
  <2>2. CASE i < k
    <3>1. i \in 1..Len(r) /\ i \in 1..(Len(o) + 1)
      BY <1>2, <1>10, SMT
    <3> QED
      BY <1>10, <2>1, <2>2, <3>1 DEF Has
  <2>3. CASE ~(i < k)
    <3>1. /\ i + 1 \in 1..Len(r) /\ i + 1 \in 1..(Len(o) + 1)
          /\ ~(i + 1 < k) /\ i + 1 # k /\ i + 1 - 1 = i
      BY <1>2, <1>7, <1>10, <2>3, SMT
    <3>2. r[i + 1] = e
      BY <1>10, <2>1, <3>1
    <3> QED
      BY <3>1, <3>2 DEF Has
  <2> QED
    BY <2>2, <2>3
<1> QED
  BY <1>1, <1>5, <1>12, <1>13, <1>14, <1>15

\* The timer that is due is taken from the list.
LEMMA TailFacts ==
    ASSUME NEW list, Sorted(list), list # <<>>
    PROVE  /\ Has(list, Head(list)) /\ Head(list) \in Timer
           /\ Sorted(Tail(list))
           /\ \A e : Has(Tail(list), e)
                       <=> Has(list, e) /\ e.id # Head(list).id
           /\ \A e : Has(list, e) => Late(Head(list).at) >= Late(e.at)
                                      \/ e = Head(list)
<1>1. /\ list \in Seq(Timer) /\ Len(list) \in Nat /\ Len(list) >= 1
      /\ Head(list) = list[1]
  BY LenProperties, EmptySeq, SMT DEF Sorted
<1>2. /\ Tail(list) \in Seq(Timer) /\ Len(Tail(list)) = Len(list) - 1
      /\ \A i \in 1..Len(Tail(list)) : Tail(list)[i] = list[i + 1]
      /\ Head(list) \in Timer
  BY <1>1, HeadTailProperties
<1> DEFINE r == Tail(list)
<1> HIDE DEF r
<1>3. 1 \in 1..Len(list) /\ \A i \in 1..Len(r) : i + 1 \in 1..Len(list)
  BY <1>1, <1>2, SMT DEF r
<1>4. Has(list, Head(list))
  BY <1>1, <1>3 DEF Has
<1>5. Sorted(r)
  <2>1. ASSUME NEW i \in 1..Len(r), NEW j \in 1..Len(r), i < j
        PROVE  r[i].id # r[j].id /\ Late(r[i].at) >= Late(r[j].at)
    <3>1. i + 1 < j + 1
      BY <1>1, <1>2, <2>1, SMT DEF r
    <3> QED
      BY <1>2, <1>3, <3>1 DEF Sorted, r
  <2> QED
    BY <1>2, <2>1 DEF Sorted, r
<1>6. ASSUME NEW e, Has(r, e) PROVE Has(list, e) /\ e.id # Head(list).id
  <2>1. PICK i \in 1..Len(r) : r[i] = e
    BY <1>6 DEF Has
  <2>2. i + 1 \in 1..Len(list) /\ list[i + 1] = e /\ 1 < i + 1
    BY <1>2, <1>3, <2>1, SMT DEF r
  <2> QED
    BY <1>1, <1>3, <2>2 DEF Has, Sorted
<1>7. ASSUME NEW e, Has(list, e), e # Head(list)
      PROVE  Has(r, e) /\ Late(Head(list).at) >= Late(e.at)
  <2>1. PICK i \in 1..Len(list) : list[i] = e
    BY <1>7 DEF Has
  <2>2. i # 1
    BY <1>1, <1>7, <2>1
  <2>3. 1 < i /\ i - 1 \in 1..Len(r) /\ i - 1 + 1 = i
    BY <1>1, <1>2, <2>2, SMT DEF r
  <2>4. r[i - 1] = e
    BY <1>2, <2>1, <2>3 DEF r
  <2> QED
    BY <1>1, <1>3, <2>1, <2>3, <2>4 DEF Has, Sorted
<1> QED
  BY <1>2, <1>4, <1>5, <1>6, <1>7 DEF r

-----------------------------------------------------------------------------
\* Timers of tasks.

InReach(list) ==
    \A i \in 1..Len(list) : Late(list[i].at) \in (-HalfMax)..HalfMax

Keeps(list, longer) == \A id \in Ids : HasId(list, id) => HasId(longer, id)

LEMMA TimeInReach ==
    ASSUME NEW list, InReach(list), NEW e, Has(list, e)
    PROVE  Late(e.at) \in (-HalfMax)..HalfMax
BY DEF InReach, Has

LEMMA InsertIds ==
    ASSUME now \in ULong, NEW list, Sorted(list), NEW id \in Ids,
           NEW at \in ULong
    PROVE  /\ Keeps(list, Insert(list, id, at))
           /\ HasId(Insert(list, id, at), id)
<1> DEFINE r == Insert(list, id, at)
           new == [id |-> id, at |-> at]
<1>1. \A e : Has(r, e) <=> e = new \/ (Has(list, e) /\ e.id # id)
  BY InsertFacts
<1> HIDE DEF r
<1>2. HasId(r, id)
  <2>1. Has(r, new) /\ new.id = id
    BY <1>1
  <2> QED
    BY <2>1 DEF Has, HasId
<1>3. ASSUME NEW x \in Ids, HasId(list, x) PROVE HasId(r, x)
  <2>1. PICK i \in 1..Len(list) : list[i].id = x
    BY <1>3 DEF HasId
  <2>2. Has(list, list[i])
    BY DEF Has
  <2>3. x = id \/ Has(r, list[i])
    BY <1>1, <2>1, <2>2
  <2> QED
    BY <1>2, <2>1, <2>3 DEF Has, HasId
<1> QED
  BY <1>2, <1>3 DEF Keeps, r

LEMMA InsertInReach ==
    ASSUME now \in ULong, NEW list, Sorted(list), InReach(list),
           NEW id \in Ids, NEW at \in ULong, Late(at) \in (-HalfMax)..HalfMax
    PROVE  InReach(Insert(list, id, at))
<1> DEFINE r == Insert(list, id, at)
<1> SUFFICES ASSUME NEW i \in 1..Len(r)
             PROVE  Late(r[i].at) \in (-HalfMax)..HalfMax
  BY DEF InReach
<1>1. Has(r, r[i])
  BY DEF Has
<1>2. r[i] = [id |-> id, at |-> at] \/ Has(list, r[i])
  BY <1>1, InsertFacts
<1> QED
  BY <1>2, TimeInReach

\* What a timer that is set for a task does to the list.
LEMMA TaskFacts ==
    ASSUME now \in ULong, NEW list, Sorted(list), InReach(list), NEW ts,
           NEW t \in Tasks, NEW at \in ULong,
           Late(at) \in (-HalfMax)..HalfMax
    PROVE  LET l == ScheduleTask(list, ts, t, at)
           IN  /\ Sorted(l) /\ InReach(l) /\ Keeps(list, l)
               /\ ts[t].plugin /\ ts[t].enabled => HasId(l, t)
               /\ \A e : Has(l, e) => \/ Has(list, e)
                                      \/ e = [id |-> t, at |-> at]
               /\ \A e : Has(list, e) /\ e.id # t => Has(l, e)
<1>1. t \in Ids
  BY DEF Ids
<1>2. CASE ts[t].plugin /\ ts[t].enabled
  <2>1. ScheduleTask(list, ts, t, at) = Insert(list, t, at)
    BY <1>2 DEF ScheduleTask
  <2>2. /\ Sorted(Insert(list, t, at)) /\ InReach(Insert(list, t, at))
        /\ Keeps(list, Insert(list, t, at)) /\ HasId(Insert(list, t, at), t)
    BY <1>1, InsertFacts, InsertIds, InsertInReach
  <2>3. ASSUME NEW e, Has(Insert(list, t, at), e)
        PROVE  Has(list, e) \/ e = [id |-> t, at |-> at]
    BY <1>1, <2>3, InsertFacts
  <2>4. ASSUME NEW e, Has(list, e), e.id # t
        PROVE  Has(Insert(list, t, at), e)
    BY <1>1, <2>4, InsertFacts
  <2> QED
    BY <2>1, <2>2, <2>3, <2>4
<1>3. CASE ~(ts[t].plugin /\ ts[t].enabled)
  <2>1. ScheduleTask(list, ts, t, at) = list
    BY <1>3 DEF ScheduleTask
  <2> QED
    BY <1>3, <2>1 DEF Keeps
<1> QED
  BY <1>2, <1>3

LEMMA InitTime ==
    ASSUME now \in ULong, NEW t \in Tasks
    PROVE  /\ Plus(now, t) \in ULong
           /\ Late(Plus(now, t)) \in (-HalfMax)..HalfMax
           /\ Late(Plus(now, t)) <= -1
<1>1. t \in 0..HalfMax /\ t >= 1
  BY ConstantTypes, SMT DEF Tasks
<1>2. Plus(now, t) \in ULong /\ Late(Plus(now, t)) = -t
  BY <1>1, PlusType, PassedAhead, ULongFacts DEF Late
<1> QED
  BY <1>1, <1>2, ConstantTypes, SMT

\* The loop over the tasks: what each run of its body keeps, the loop does.
LEMMA LoopUnfolds ==
    ASSUME now \in ULong, NEW list, Sorted(list), InReach(list), NEW ts, NEW S
    PROVE  \E upTo : /\ ScheduleAll(list, ts, S) = upTo[TasksMax]
                     /\ upTo[0] = list
                     /\ \A t \in Tasks :
                          upTo[t] = IF t \in S
                                      THEN ScheduleAtInit(upTo[t - 1], ts, t)
                                      ELSE upTo[t - 1]
<1> DEFINE upTo[t \in 0..TasksMax] ==
             IF t = 0 THEN list
             ELSE IF t \in S THEN ScheduleAtInit(upTo[t - 1], ts, t)
             ELSE upTo[t - 1]
           body(f) == [t \in 0..TasksMax |->
             IF t = 0 THEN list
             ELSE IF t \in S THEN ScheduleAtInit(f[t - 1], ts, t)
             ELSE f[t - 1]]
           V == {l \in Seq(Timer) : Sorted(l) /\ InReach(l)}
           step == [p \in (1..TasksMax) \X V |->
                      IF p[1] \in S THEN ScheduleAtInit(p[2], ts, p[1])
                      ELSE p[2]]
<1>1. TasksMax \in Nat /\ list \in V
  BY ConstantTypes, SMT DEF Sorted
<1>2. step \in [(1..TasksMax) \X V -> V]
  <2> SUFFICES ASSUME NEW t \in 1..TasksMax, NEW l \in V
               PROVE  (IF t \in S THEN ScheduleAtInit(l, ts, t) ELSE l) \in V
    OBVIOUS
  <2>1. t \in Tasks
    BY DEF Tasks
  <2>2. /\ Sorted(ScheduleAtInit(l, ts, t))
        /\ InReach(ScheduleAtInit(l, ts, t))
    BY <2>1, InitTime, TaskFacts DEF ScheduleAtInit
  <2> QED
    BY <2>2 DEF Sorted
<1>3. PICK f \in [0..TasksMax -> V] :
         f[0] = list /\ \A i \in 1..TasksMax : f[i] = step[<<i, f[i - 1]>>]
  <2> HIDE DEF step, V, upTo, body
  <2>1. \E f : IsRun(f, TasksMax, V, list, step)
    BY <1>1, <1>2, RecursionExists
  <2> QED
    BY <2>1 DEF IsRun
<1>4. f = body(f)
  <2>1. ASSUME NEW t \in 0..TasksMax PROVE f[t] = body(f)[t]
    <3>1. CASE t = 0
      BY <1>3, <3>1
    <3>2. CASE t # 0
      <4>1. t \in 1..TasksMax /\ t - 1 \in 0..TasksMax
        BY <1>1, <3>2, SMT
      <4>2. f[t - 1] \in V
        BY <4>1
      <4>3. f[t] = step[<<t, f[t - 1]>>]
        BY <1>3, <4>1
      <4> QED
        BY <3>2, <4>1, <4>2, <4>3
    <3> QED
      BY <3>1, <3>2
  <2>2. f = [t \in 0..TasksMax |-> f[t]]
    OBVIOUS
  <2>3. body(f) = [t \in 0..TasksMax |-> body(f)[t]]
    OBVIOUS
  <2> HIDE DEF body
  <2> QED
    BY <2>1, <2>2, <2>3
<1>5. upTo = body(upTo)
  BY <1>4
<1>6. ScheduleAll(list, ts, S) = upTo[TasksMax]
  BY DEF ScheduleAll
<1> HIDE DEF upTo
<1>7. upTo[0] = list
  <2>1. 0 \in 0..TasksMax
    BY <1>1, SMT
  <2> QED
    BY <1>5, <2>1
<1>8. ASSUME NEW t \in Tasks
      PROVE  upTo[t] = IF t \in S THEN ScheduleAtInit(upTo[t - 1], ts, t)
                       ELSE upTo[t - 1]
  <2>1. t \in 0..TasksMax /\ t # 0
    BY <1>1, SMT DEF Tasks
  <2> QED
    BY <1>5, <2>1
<1> QED
  BY <1>6, <1>7, <1>8

LEMMA AllFacts ==
    ASSUME now \in ULong, NEW list, Sorted(list), InReach(list), NEW ts,
           NEW S \in SUBSET Tasks
    PROVE  LET l == ScheduleAll(list, ts, S)
           IN  /\ Sorted(l) /\ InReach(l) /\ Keeps(list, l)
               /\ \A t \in S : ts[t].plugin /\ ts[t].enabled => HasId(l, t)
               /\ \A e : Has(l, e) => \/ Has(list, e)
                                      \/ e.id \in Tasks /\ Late(e.at) <= -1
<1> DEFINE New(e) == e.id \in Tasks /\ Late(e.at) <= -1
           P(l, n) ==
             /\ Sorted(l) /\ InReach(l) /\ Keeps(list, l)
             /\ \A t \in S : t <= n /\ ts[t].plugin /\ ts[t].enabled
                               => HasId(l, t)
             /\ \A e : Has(l, e) => Has(list, e) \/ New(e)
<1>1. PICK upTo : /\ ScheduleAll(list, ts, S) = upTo[TasksMax]
                  /\ upTo[0] = list
                  /\ \A t \in Tasks :
                       upTo[t] = IF t \in S
                                   THEN ScheduleAtInit(upTo[t - 1], ts, t)
                                   ELSE upTo[t - 1]
  BY LoopUnfolds
<1>2. TasksMax \in Nat /\ S \subseteq Tasks /\ Tasks = 1..TasksMax
  BY ConstantTypes, SMT DEF Tasks
<1>3. P(upTo[0], 0)
  <2>1. \A t \in S : ~(t <= 0)
    BY <1>2, SMT
  <2> QED
    BY <1>1, <2>1 DEF Keeps
<1>4. ASSUME NEW n \in 1..TasksMax, P(upTo[n - 1], n - 1)
      PROVE  P(upTo[n], n)
  <2> DEFINE l == upTo[n - 1]
  <2>1. n \in Tasks /\ n \in Ids /\ \A t \in S : t <= n => t = n \/ t <= n - 1
    BY <1>2, SMT DEF Ids
  <2>2. CASE n \notin S
    <3>1. upTo[n] = l
      BY <1>1, <2>1, <2>2
    <3>2. \A t \in S : t <= n => t <= n - 1
      BY <2>1, <2>2
    <3> QED
      BY <1>4, <3>1, <3>2
  <2>3. CASE n \in S
    <3> DEFINE at == Plus(now, n)
               r  == ScheduleTask(l, ts, n, at)
    <3>1. upTo[n] = r
      BY <1>1, <2>1, <2>3 DEF ScheduleAtInit
    <3>2. at \in ULong /\ Late(at) \in (-HalfMax)..HalfMax /\ Late(at) <= -1
      BY <2>1, InitTime
    <3> HIDE DEF l, at
    <3>3. Sorted(l) /\ InReach(l) /\ Keeps(list, l)
      BY <1>4 DEF l
    <3>4. /\ Sorted(r) /\ InReach(r) /\ Keeps(l, r)
          /\ ts[n].plugin /\ ts[n].enabled => HasId(r, n)
          /\ \A e : Has(r, e) => Has(l, e) \/ e = [id |-> n, at |-> at]
      BY <2>1, <3>2, <3>3, TaskFacts
    <3> HIDE DEF r
    <3>5. Keeps(list, r)
      BY <3>3, <3>4 DEF Keeps
    <3>6. ASSUME NEW t \in S, t <= n, ts[t].plugin, ts[t].enabled
          PROVE  HasId(r, t)
      <4>1. CASE t = n
        BY <3>4, <3>6, <4>1
      <4>2. CASE t <= n - 1
        <5>1. HasId(l, t) /\ t \in Ids
          BY <1>2, <1>4, <3>6, <4>2 DEF l, Ids
        <5> QED
          BY <3>4, <5>1 DEF Keeps
      <4> QED
        BY <2>1, <3>6, <4>1, <4>2
    <3>7. ASSUME NEW e, Has(r, e) PROVE Has(list, e) \/ New(e)
      <4>1. CASE Has(l, e)
        BY <1>4, <4>1 DEF l
      <4>2. CASE e = [id |-> n, at |-> at]
        BY <2>1, <3>2, <4>2
      <4> QED
        BY <3>4, <3>7, <4>1, <4>2
    <3> QED
      BY <3>1, <3>4, <3>5, <3>6, <3>7
  <2> QED
    BY <2>2, <2>3
<1> DEFINE Done == {n \in 0..TasksMax : P(upTo[n], n)}
<1> HIDE DEF P
<1>5. TasksMax \in Done
  <2>1. 0 \in Done
    BY <1>2, <1>3, SMT
  <2>2. ASSUME NEW n \in 1..TasksMax, n - 1 \in Done PROVE n \in Done
    <3>1. n \in 0..TasksMax
      BY <1>2, SMT
    <3> QED
      BY <1>4, <2>2, <3>1
  <2> HIDE DEF Done
  <2>3. 0..TasksMax \subseteq Done
    BY <1>2, <2>1, <2>2, Induction
  <2> QED
    BY <1>2, <2>3, SMT
<1>6. P(ScheduleAll(list, ts, S), TasksMax)
  BY <1>1, <1>5
<1>7. \A t \in S : t <= TasksMax
  BY <1>2, SMT
<1> QED
  BY <1>6, <1>7 DEF P

-----------------------------------------------------------------------------
\* The invariant: what is in order stays so, since no timer is further away
\* than half the range of the clock.

TypeInv ==
    /\ now \in ULong /\ lastEvent \in ULong
    /\ tasks \in [Tasks -> TaskSettings]
    /\ serving \in Ids \cup {Nobody, Idle}
    /\ busy \in Nat /\ events \in 0..MaxEvents

ListInv == Sorted(timers) /\ InReach(timers)

\* No timer is further behind than the bound on lateness allows it to get.
NotTooLate == MaxLate <= HalfMax

LEMMA TaskFields ==
    ASSUME NEW ts \in [Tasks -> TaskSettings], NEW t \in Tasks
    PROVE  ts[t].interval \in 0..HalfMax
<1>1. ts[t] = Cleared \/ ts[t] \in [plugin : {TRUE}, enabled : BOOLEAN,
                                     interval : Intervals]
  BY DEF TaskSettings
<1>2. CASE ts[t] = Cleared
  BY <1>2, ConstantTypes DEF Cleared
<1>3. CASE ts[t] \in [plugin : {TRUE}, enabled : BOOLEAN,
                      interval : Intervals]
  BY <1>3, ConstantTypes
<1> QED
  BY <1>1, <1>2, <1>3

LEMMA InitList ==
    ASSUME Init
    PROVE  /\ Sorted(timers) /\ InReach(timers)
           /\ \A e : Has(timers, e) => Late(e.at) <= -1
           /\ \A j \in Jobs : HasId(timers, j)
           /\ \A t \in Tasks :
                tasks[t].plugin /\ tasks[t].enabled => HasId(timers, t)
           /\ \A e : Has(timers, e) /\ e.id \in Jobs => Late(e.at) = -1
<1> DEFINE n  == Cardinality(Jobs)
           at == setNextTimeInterval(now, 1, now)
           l  == ScheduleAll(<<>>, tasks, Tasks)
<1>1. PICK order \in Bijection(1..n, Jobs) :
         timers = [i \in 1..n |-> [id |-> order[i], at |-> at]] \o l
  BY DEF Init
<1> DEFINE f == [i \in 1..n |-> [id |-> order[i], at |-> at]]
<1>2. n \in Nat
  BY SchedulerAssumption, FS_CardinalityType
<1>3. /\ order \in [1..n -> Jobs]
      /\ \A i, j \in 1..n : order[i] = order[j] => i = j
      /\ \A j \in Jobs : \E i \in 1..n : order[i] = j
  BY DEF Bijection, Injection, Surjection, IsInjective
<1>4. now \in ULong /\ at \in ULong /\ Late(at) = -1
  <2>1. now \in ULong
    BY ULongFacts DEF Init
  <2> QED
    BY <2>1, NextRunFromNow DEF Late
<1> HIDE DEF n, at
<1>5. f \in Seq(Timer) /\ Len(f) = n
  BY <1>2, <1>3, <1>4, SMT DEF Timer, Ids
<1>6. /\ Sorted(l) /\ InReach(l)
      /\ \A t \in Tasks : tasks[t].plugin /\ tasks[t].enabled => HasId(l, t)
      /\ \A e : Has(l, e) => e.id \in Tasks /\ Late(e.at) <= -1
  <2>1. Sorted(<<>>) /\ InReach(<<>>) /\ \A e : ~Has(<<>>, e)
    BY EmptySeq, SMT DEF Sorted, InReach, Has
  <2> QED
    BY <1>4, <2>1, AllFacts
<1>7. \A i \in 1..n : f[i].id = order[i] /\ f[i].at = at
  OBVIOUS
<1> HIDE DEF f, l
<1> DEFINE r == f \o l
<1>8. l \in Seq(Timer) /\ Len(l) \in Nat
  BY <1>6, LenProperties DEF Sorted
<1>9. /\ r \in Seq(Timer) /\ Len(r) = n + Len(l)
      /\ \A i \in 1..(n + Len(l)) :
           r[i] = IF i <= n THEN f[i] ELSE l[i - n]
  BY <1>5, <1>8, ConcatProperties
<1> HIDE DEF r
<1>10. timers = r
  BY <1>1 DEF r, f
<1>11. ASSUME NEW i \in 1..Len(l)
       PROVE  /\ l[i].id \in Tasks /\ l[i].id \notin Jobs
              /\ Late(l[i].at) \in Int /\ Late(l[i].at) <= -1
  <2>1. Has(l, l[i])
    BY DEF Has
  <2> QED
    BY <1>4, <1>6, <2>1, HasType, LateType, SchedulerAssumption
<1>12. ASSUME NEW i \in 1..Len(r)
       PROVE  \/ i \in 1..n /\ r[i] = f[i]
              \/ i > n /\ i - n \in 1..Len(l) /\ r[i] = l[i - n]
  <2>1. i \in 1..(n + Len(l)) /\ i \in Int
    BY <1>2, <1>8, <1>9, SMT
  <2>2. CASE i <= n
    BY <1>2, <1>9, <2>1, <2>2, SMT
  <2>3. CASE ~(i <= n)
    BY <1>2, <1>8, <1>9, <2>1, <2>3, SMT
  <2> QED
    BY <2>2, <2>3
<1>13. ASSUME NEW i \in 1..Len(r), NEW j \in 1..Len(r), i < j
       PROVE  r[i].id # r[j].id /\ Late(r[i].at) >= Late(r[j].at)
  <2>1. CASE i \in 1..n /\ r[i] = f[i] /\ j \in 1..n /\ r[j] = f[j]
    <3>1. i # j
      BY <1>2, <1>13, <2>1, SMT
    <3>2. order[i] # order[j]
      BY <1>3, <2>1, <3>1
    <3> QED
      BY <1>4, <1>7, <2>1, <3>2, SMT
  <2>2. CASE i \in 1..n /\ r[i] = f[i]
             /\ j > n /\ j - n \in 1..Len(l) /\ r[j] = l[j - n]
    <3>1. r[i].id \in Jobs /\ Late(r[i].at) = -1
      BY <1>3, <1>4, <1>7, <2>2
    <3> QED
      BY <1>11, <2>2, <3>1, SMT
  <2>3. CASE /\ i > n /\ i - n \in 1..Len(l) /\ r[i] = l[i - n]
             /\ j > n /\ j - n \in 1..Len(l) /\ r[j] = l[j - n]
    <3>1. i - n < j - n
      BY <1>2, <1>13, <2>3, SMT
    <3> QED
      BY <1>6, <2>3, <3>1 DEF Sorted
  <2>4. ~(i > n /\ j \in 1..n)
    BY <1>2, <1>13, SMT
  <2> QED
    BY <1>12, <2>1, <2>2, <2>3, <2>4
<1>14. Sorted(r)
  BY <1>9, <1>13 DEF Sorted
<1>15. ASSUME NEW e, Has(r, e)
       PROVE  /\ Late(e.at) \in (-HalfMax)..HalfMax /\ Late(e.at) <= -1
              /\ e.id \in Jobs => Late(e.at) = -1
  <2>1. PICK i \in 1..Len(r) : r[i] = e
    BY <1>15 DEF Has
  <2>2. CASE i \in 1..n /\ r[i] = f[i]
    <3>1. Late(e.at) = -1
      BY <1>4, <1>7, <2>1, <2>2
    <3> QED
      BY <3>1, ConstantTypes, SMT
  <2>3. CASE i - n \in 1..Len(l) /\ r[i] = l[i - n]
    <3>1. Has(l, e)
      BY <2>1, <2>3 DEF Has
    <3>2. Late(e.at) \in (-HalfMax)..HalfMax
      BY <1>6, <3>1, TimeInReach
    <3> QED
      BY <1>11, <2>1, <2>3, <3>2
  <2> QED
    BY <1>12, <2>2, <2>3
<1>16. ASSUME NEW j \in Jobs PROVE HasId(r, j)
  <2>1. PICK i \in 1..n : order[i] = j
    BY <1>3
  <2>2. i \in 1..Len(r) /\ i \in 1..(n + Len(l)) /\ i <= n
    BY <1>2, <1>8, <1>9, SMT
  <2>3. r[i].id = j
    BY <1>7, <1>9, <2>1, <2>2
  <2> QED
    BY <2>2, <2>3 DEF HasId
<1>17. ASSUME NEW t \in Tasks, tasks[t].plugin, tasks[t].enabled
       PROVE  HasId(r, t)
  <2>1. PICK i \in 1..Len(l) : l[i].id = t
    BY <1>6, <1>17 DEF HasId
  <2> DEFINE k == i + n
  <2>2. k \in 1..Len(r) /\ k \in 1..(n + Len(l)) /\ ~(k <= n) /\ k - n = i
    BY <1>2, <1>8, <1>9, SMT
  <2> HIDE DEF k
  <2>3. r[k].id = t
    BY <1>9, <2>1, <2>2
  <2> QED
    BY <2>2, <2>3 DEF HasId
<1>18. InReach(r)
  BY <1>15 DEF InReach, Has
<1> QED
  BY <1>10, <1>14, <1>15, <1>16, <1>17, <1>18

-----------------------------------------------------------------------------
\* What each action does to the list.

\* The list as requests change it: timers of tasks are set, and jobs that are
\* restarted; none is taken away.
Grown(l) ==
    /\ Sorted(l) /\ InReach(l) /\ Keeps(timers, l)
    /\ \A e : Has(l, e) => \/ Has(timers, e)
                           \/ e.id \in Tasks
                           \/ e.id \in Jobs /\ Late(e.at) = -1

LEMMA GrownByTask ==
    ASSUME TypeInv, ListInv, NEW ts, NEW t \in Tasks, NEW at \in ULong,
           Late(at) \in (-HalfMax)..HalfMax
    PROVE  /\ Grown(ScheduleTask(timers, ts, t, at))
           /\ ts[t].plugin /\ ts[t].enabled
                => HasId(ScheduleTask(timers, ts, t, at), t)
<1> DEFINE l == ScheduleTask(timers, ts, t, at)
<1>1. /\ Sorted(l) /\ InReach(l) /\ Keeps(timers, l)
      /\ ts[t].plugin /\ ts[t].enabled => HasId(l, t)
      /\ \A e : Has(l, e) => Has(timers, e) \/ e = [id |-> t, at |-> at]
  BY TaskFacts DEF TypeInv, ListInv
<1> HIDE DEF l
<1> QED
  BY <1>1 DEF Grown, l

LEMMA NotGrown == ASSUME ListInv PROVE Grown(timers)
BY DEF ListInv, Grown, Keeps

LEMMA SaveTaskGrows ==
    ASSUME TypeInv, ListInv, NEW t \in Tasks, SaveTask(t)
    PROVE  /\ Grown(timers') /\ now' = now
           /\ tasks'[t].plugin /\ tasks'[t].enabled => HasId(timers', t)
<1>1. timers' = ScheduleTask(timers, tasks', t, Plus(now, t)) /\ now' = now
  BY DEF SaveTask, ScheduleAtInit
<1> QED
  BY <1>1, InitTime, GrownByTask DEF TypeInv

LEMMA EnableTaskGrows ==
    ASSUME TypeInv, ListInv, NEW t \in Tasks, EnableTask(t)
    PROVE  /\ Grown(timers') /\ now' = now
           /\ tasks'[t].plugin /\ tasks'[t].enabled => HasId(timers', t)
<1>1. timers' = ScheduleTask(timers, tasks', t, Plus(now, 1)) /\ now' = now
  BY DEF EnableTask
<1>2. Plus(now, 1) \in ULong /\ Late(Plus(now, 1)) \in (-HalfMax)..HalfMax
  <2>1. Plus(now, 1) \in ULong /\ Late(Plus(now, 1)) = -1
    BY PlusType, PassedAhead, ULongFacts DEF Late, TypeInv
  <2> QED
    BY <2>1, ConstantTypes, SMT
<1> QED
  BY <1>1, <1>2, GrownByTask

LEMMA RequestReadGrows ==
    ASSUME TypeInv, ListInv, NEW t \in Tasks, RequestRead(t)
    PROVE  Grown(timers') /\ now' = now
<1>1. PICK at \in {Plus(now, 1), Plus(now, ULongMax)} :
         timers' = ScheduleTask(timers, tasks, t, at)
  BY DEF RequestRead
<1>2. at \in ULong /\ Late(at) \in {-1, 1}
  BY PlusType, PassedAhead, PassedBefore, ULongFacts DEF Late, TypeInv
<1>3. Late(at) \in (-HalfMax)..HalfMax
  BY <1>2, ConstantTypes, SMT
<1> QED
  BY <1>1, <1>2, <1>3, GrownByTask DEF RequestRead

LEMMA ConnectMQTTGrows ==
    ASSUME TypeInv, ListInv, ConnectMQTT
    PROVE  Grown(timers') /\ now' = now
<1>1. PICK S \in SUBSET Tasks : timers' = ScheduleAll(timers, tasks, S)
  BY DEF ConnectMQTT
<1> DEFINE l == ScheduleAll(timers, tasks, S)
<1>2. /\ Sorted(l) /\ InReach(l) /\ Keeps(timers, l)
      /\ \A e : Has(l, e) => \/ Has(timers, e)
                             \/ e.id \in Tasks /\ Late(e.at) <= -1
  BY AllFacts DEF TypeInv, ListInv
<1> HIDE DEF l
<1>3. Grown(l)
  BY <1>2 DEF Grown
<1> QED
  BY <1>1, <1>3 DEF ConnectMQTT, l

LEMMA OverrideGrows ==
    ASSUME TypeInv, ListInv, NEW j \in Restarted, Override(j)
    PROVE  Grown(timers') /\ now' = now
<1> DEFINE at == setNextTimeInterval(now, 1, now)
           l  == Insert(timers, j, at)
<1>1. timers' = l /\ now' = now
  BY DEF Override, OverrideTimer
<1>2. at \in ULong /\ Late(at) = -1 /\ j \in Ids /\ j \in Jobs
  BY NextRunFromNow, ConstantTypes DEF Late, TypeInv, Ids
<1>3. Late(at) \in (-HalfMax)..HalfMax
  BY <1>2, ConstantTypes, SMT
<1> HIDE DEF at
<1>4. /\ Sorted(l) /\ InReach(l) /\ Keeps(timers, l)
      /\ \A e : Has(l, e) => Has(timers, e) \/ e = [id |-> j, at |-> at]
  BY <1>2, <1>3, InsertFacts, InsertIds, InsertInReach DEF TypeInv, ListInv
<1> HIDE DEF l
<1>5. Grown(l)
  BY <1>2, <1>4 DEF Grown
<1> QED
  BY <1>1, <1>5

\* The actions that request something, and those that leave the list alone.
Requests ==
    \/ \E t \in Tasks : \/ SaveTask(t) \/ ClearTask(t) \/ EnableTask(t)
                        \/ DisableTask(t) \/ RequestRead(t)
    \/ ConnectMQTT
    \/ \E j \in Restarted : Override(j)
    \/ PostEvent \/ StartIdle \/ Finish

LEMMA RequestsGrow ==
    ASSUME TypeInv, ListInv, Requests
    PROVE  Grown(timers') /\ now' = now
<1>1. ASSUME NEW t \in Tasks, SaveTask(t) PROVE Grown(timers') /\ now' = now
  BY <1>1, SaveTaskGrows
<1>2. ASSUME NEW t \in Tasks, EnableTask(t) PROVE Grown(timers') /\ now' = now
  BY <1>2, EnableTaskGrows
<1>3. ASSUME NEW t \in Tasks, RequestRead(t)
      PROVE  Grown(timers') /\ now' = now
  BY <1>3, RequestReadGrows
<1>4. CASE ConnectMQTT
  BY <1>4, ConnectMQTTGrows
<1>5. ASSUME NEW j \in Restarted, Override(j)
      PROVE  Grown(timers') /\ now' = now
  BY <1>5, OverrideGrows
<1>6. ASSUME timers' = timers, now' = now PROVE Grown(timers') /\ now' = now
  BY <1>6, NotGrown
<1>7. ASSUME NEW t \in Tasks, ClearTask(t) \/ DisableTask(t)
      PROVE  timers' = timers /\ now' = now
  BY <1>7 DEF ClearTask, DisableTask
<1>8. CASE PostEvent \/ StartIdle \/ Finish
  BY <1>6, <1>8
  DEF PostEvent, StartIdle, StartPass, Finish, FinishTimer, FinishIdle
<1> QED
  BY <1>1, <1>2, <1>3, <1>4, <1>5, <1>6, <1>7, <1>8 DEF Requests

\* The timer of a job goes off, and is set again.
LEMMA StartJobList ==
    ASSUME TypeInv, ListInv, NEW j \in Jobs, StartJob(j)
    PROVE  /\ Sorted(timers') /\ InReach(timers') /\ now' = now
           /\ Has(timers, Head(timers)) /\ Head(timers).id = j
           /\ Late(Head(timers).at) >= 0
           /\ \E at \in ULong :
                /\ Late(at) \in (-Step[j])..0
                /\ \A e : Has(timers', e)
                            <=> \/ e = [id |-> j, at |-> at]
                                \/ Has(timers, e) /\ e.id # j
<1> DEFINE at == setNextTimeInterval(Head(timers).at, Step[j], now)
           l  == Insert(Tail(timers), j, at)
<1>1. /\ timers # <<>> /\ timeOutReached(Head(timers).at, now)
      /\ Head(timers).id = j /\ timers' = l /\ now' = now
  BY DEF StartJob, TimerDue, StartPass
<1>2. /\ Has(timers, Head(timers)) /\ Sorted(Tail(timers))
      /\ \A e : Has(Tail(timers), e)
                  <=> Has(timers, e) /\ e.id # Head(timers).id
      /\ Head(timers) \in Timer
  BY <1>1, TailFacts DEF ListInv
<1>3. /\ Head(timers).at \in ULong /\ Late(Head(timers).at) >= 0
      /\ now \in ULong /\ j \in Ids /\ Step[j] \in 1..HalfMax
  BY <1>1, <1>2, ConstantTypes
  DEF timeOutReached, Late, TypeInv, Ids, Timer
<1>4. at \in ULong /\ Late(at) \in (-Step[j])..0
  BY <1>3, NextRun DEF Late
<1>5. Late(at) \in (-HalfMax)..HalfMax
  BY <1>3, <1>4, ConstantTypes, SMT
<1>6. InReach(Tail(timers))
  <2>1. ASSUME NEW e, Has(Tail(timers), e)
        PROVE  Late(e.at) \in (-HalfMax)..HalfMax
    BY <1>2, <2>1, TimeInReach DEF ListInv
  <2> QED
    BY <2>1 DEF InReach, Has
<1> HIDE DEF at
<1>7. /\ Sorted(l) /\ InReach(l)
      /\ \A e : Has(l, e) <=> \/ e = [id |-> j, at |-> at]
                              \/ Has(Tail(timers), e) /\ e.id # j
  BY <1>2, <1>3, <1>4, <1>5, <1>6, InsertFacts, InsertInReach
<1> HIDE DEF l
<1> QED
  BY <1>1, <1>2, <1>3, <1>4, <1>7

\* The timer of a task goes off; it is set again if the task has an interval.
LEMMA StartTaskList ==
    ASSUME TypeInv, ListInv, NEW t \in Tasks, StartTask(t)
    PROVE  /\ Sorted(timers') /\ InReach(timers') /\ now' = now
           /\ Has(timers, Head(timers)) /\ Head(timers).id = t
           /\ Late(Head(timers).at) >= 0
           /\ \A e : e.id # t => (Has(timers', e) <=> Has(timers, e))
           /\ tasks[t].plugin /\ tasks[t].enabled /\ tasks[t].interval > 0
                => HasId(timers', t)
<1> DEFINE at == Plus(Head(timers).at, tasks[t].interval)
           r  == Tail(timers)
<1>1. /\ timers # <<>> /\ timeOutReached(Head(timers).at, now)
      /\ Head(timers).id = t /\ now' = now
      /\ timers' = IF tasks[t].interval = 0 THEN r
                   ELSE ScheduleTask(r, tasks, t, at)
  BY DEF StartTask, TimerDue, StartPass
<1>2. /\ Has(timers, Head(timers)) /\ Sorted(r)
      /\ \A e : Has(r, e) <=> Has(timers, e) /\ e.id # Head(timers).id
      /\ Head(timers) \in Timer
  BY <1>1, TailFacts DEF ListInv
<1>3. /\ Head(timers).at \in ULong /\ Late(Head(timers).at) >= 0
      /\ now \in ULong /\ tasks[t].interval \in 0..HalfMax
  BY <1>1, <1>2, TaskFields DEF timeOutReached, Late, TypeInv, Timer
<1>4. at \in ULong /\ Late(at) = Late(Head(timers).at) - tasks[t].interval
  BY <1>3, PlusType, PassedLater, ULongFacts DEF Late
<1>5. Late(at) \in (-HalfMax)..HalfMax
  <2>1. Late(Head(timers).at) \in (-HalfMax)..HalfMax
    BY <1>2, TimeInReach DEF ListInv
  <2> QED
    BY <1>3, <1>4, <2>1, ConstantTypes, SMT
<1>6. InReach(r)
  <2>1. ASSUME NEW e, Has(r, e) PROVE Late(e.at) \in (-HalfMax)..HalfMax
    BY <1>2, <2>1, TimeInReach DEF ListInv
  <2> QED
    BY <2>1 DEF InReach, Has
<1> HIDE DEF at, r
<1>7. CASE tasks[t].interval = 0
  BY <1>1, <1>2, <1>3, <1>6, <1>7, SMT
<1>8. CASE tasks[t].interval # 0
  <2> DEFINE l == ScheduleTask(r, tasks, t, at)
  <2>1. /\ Sorted(l) /\ InReach(l)
        /\ tasks[t].plugin /\ tasks[t].enabled => HasId(l, t)
        /\ \A e : Has(l, e) => Has(r, e) \/ e = [id |-> t, at |-> at]
        /\ \A e : Has(r, e) /\ e.id # t => Has(l, e)
    BY <1>2, <1>3, <1>4, <1>5, <1>6, TaskFacts
  <2>2. timers' = l
    BY <1>1, <1>8
  <2> HIDE DEF l
  <2>3. ASSUME NEW e, e.id # t PROVE Has(l, e) <=> Has(timers, e)
    <3>1. e # [id |-> t, at |-> at]
      BY <2>3
    <3> QED
      BY <1>1, <1>2, <2>1, <2>3, <3>1
  <2> QED
    BY <1>1, <1>2, <1>3, <2>1, <2>2, <2>3
<1> QED
  BY <1>7, <1>8

\* A tick: every timer is one msec later.
LEMMA TickList ==
    ASSUME TypeInv, ListInv, NotTooLate, Tick
    PROVE  /\ timers' = timers /\ now' = Plus(now, 1) /\ now' \in ULong
           /\ \A i \in 1..Len(timers) :
                /\ timers[i].at \in ULong
                /\ Late(timers[i].at) \in (-HalfMax)..(MaxLate - 1)
                /\ Late(timers[i].at)' = Late(timers[i].at) + 1
<1>1. /\ timers' = timers /\ now' = Plus(now, 1)
      /\ \A i \in 1..Len(timers) : Late(timers[i].at) < MaxLate
  BY DEF Tick
<1>2. now \in ULong /\ now' \in ULong
  BY <1>1, PlusType, ULongFacts DEF TypeInv
<1>3. ASSUME NEW i \in 1..Len(timers)
      PROVE  /\ timers[i].at \in ULong
             /\ Late(timers[i].at) \in (-HalfMax)..(MaxLate - 1)
             /\ Late(timers[i].at)' = Late(timers[i].at) + 1
  <2>1. timers[i].at \in ULong
    <3>1. Has(timers, timers[i])
      BY DEF Has
    <3> QED
      BY <3>1, HasType DEF ListInv
  <2>2. Late(timers[i].at) \in (-HalfMax)..HalfMax
    BY DEF ListInv, InReach
  <2>3. Late(timers[i].at) < HalfMax /\ Late(timers[i].at) >= -HalfMax
        /\ Late(timers[i].at) \in (-HalfMax)..(MaxLate - 1)
    BY <1>1, <2>2, ConstantTypes, SMT DEF NotTooLate
  <2>4. timePassedSince(timers[i].at, now') = Late(timers[i].at) + 1
    BY <1>1, <1>2, <2>1, <2>3, PassedTick DEF Late
  <2>5. Late(timers[i].at)' = timePassedSince(timers[i].at, now')
    BY <1>1 DEF Late
  <2> QED
    BY <2>1, <2>3, <2>4, <2>5
<1> QED
  BY <1>1, <1>2, <1>3

-----------------------------------------------------------------------------
\* The list stays in order.

LEMMA NextKinds ==
    ASSUME Next
    PROVE  \/ Requests \/ Tick
           \/ \E j \in Jobs : StartJob(j)
           \/ \E t \in Tasks : StartTask(t)
BY DEF Next, Pass, Requests

LEMMA TaskChanges ==
    ASSUME NEW ts \in [Tasks -> TaskSettings], NEW t \in Tasks, ts[t].plugin,
           NEW e \in BOOLEAN, NEW i \in Intervals
    PROVE  /\ [ts EXCEPT ![t].enabled = e] \in [Tasks -> TaskSettings]
           /\ [ts EXCEPT ![t].enabled = e, ![t].interval = i]
                \in [Tasks -> TaskSettings]
<1>1. ts[t] \in [plugin : {TRUE}, enabled : BOOLEAN, interval : Intervals]
  <2>1. ts[t] \in TaskSettings
    OBVIOUS
  <2>2. ts[t] # Cleared
    BY DEF Cleared
  <2> QED
    BY <2>1, <2>2 DEF TaskSettings
<1>2. [ts[t] EXCEPT !.enabled = e] \in TaskSettings
  BY <1>1 DEF TaskSettings
<1>3. [ts[t] EXCEPT !.enabled = e, !.interval = i] \in TaskSettings
  BY <1>1 DEF TaskSettings
<1> QED
  BY <1>2, <1>3

LEMMA TypeInit == ASSUME Init PROVE TypeInv
BY ConstantTypes, ULongFacts, SMT DEF Init, TypeInv

LEMMA TaskStepType ==
    ASSUME TypeInv, NEW t \in Tasks,
           \/ SaveTask(t) \/ ClearTask(t) \/ EnableTask(t)
           \/ DisableTask(t) \/ RequestRead(t)
    PROVE  TypeInv'
<1>1. /\ now' = now /\ lastEvent' = lastEvent /\ serving' = serving
      /\ busy' = busy /\ events' = events
  BY DEF SaveTask, ClearTask, EnableTask, DisableTask, RequestRead
<1>2. tasks' \in [Tasks -> TaskSettings]
  <2>1. CASE SaveTask(t)
    <3>1. PICK e \in BOOLEAN, i \in Intervals :
             tasks' = [tasks EXCEPT ![t].enabled = e, ![t].interval = i]
      BY <2>1 DEF SaveTask
    <3>2. tasks[t].plugin
      BY <2>1 DEF SaveTask
    <3> QED
      BY <3>1, <3>2, TaskChanges DEF TypeInv
  <2>2. CASE ClearTask(t)
    <3>1. PICK p \in BOOLEAN :
             tasks' = [tasks EXCEPT ![t] = [Cleared EXCEPT !.plugin = p]]
      BY <2>2 DEF ClearTask
    <3>2. [Cleared EXCEPT !.plugin = p] \in TaskSettings
      <4>1. CASE p = TRUE
        BY <4>1, ConstantTypes DEF TaskSettings, Cleared
      <4>2. CASE p = FALSE
        <5>1. Cleared \in [plugin : BOOLEAN, enabled : BOOLEAN,
                           interval : {0}]
          BY DEF Cleared
        <5>2. Cleared.plugin = p
          BY <4>2 DEF Cleared
        <5>3. [Cleared EXCEPT !.plugin = Cleared.plugin] = Cleared
          BY <5>1
        <5> QED
          BY <5>2, <5>3 DEF TaskSettings
      <4> QED
        BY <4>1, <4>2
    <3> QED
      BY <3>1, <3>2 DEF TypeInv
  <2>3. CASE EnableTask(t)
    BY <2>3, TaskChanges, ConstantTypes DEF EnableTask, TypeInv
  <2>4. CASE DisableTask(t)
    BY <2>4, TaskChanges, ConstantTypes DEF DisableTask, TypeInv
  <2>5. CASE RequestRead(t)
    BY <2>5 DEF RequestRead, TypeInv
  <2> QED
    BY <2>1, <2>2, <2>3, <2>4, <2>5
<1> QED
  BY <1>1, <1>2 DEF TypeInv

LEMMA TypeStep == ASSUME TypeInv, Next PROVE TypeInv'
<1>1. ASSUME NEW id \in Ids \cup {Idle}, StartPass(id) PROVE TypeInv'
  BY <1>1 DEF StartPass, TypeInv
<1>2. ASSUME NEW j \in Jobs, StartJob(j) PROVE TypeInv'
  BY <1>1, <1>2 DEF StartJob, Ids
<1>3. ASSUME NEW t \in Tasks, StartTask(t) PROVE TypeInv'
  BY <1>1, <1>3 DEF StartTask, Ids
<1>4. CASE StartIdle
  BY <1>1, <1>4 DEF StartIdle
<1>5. CASE FinishTimer
  BY <1>5 DEF FinishTimer, TypeInv
<1>6. CASE FinishIdle
  <2>1. events' \in 0..MaxEvents
    BY <1>6, ConstantTypes, SMT DEF FinishIdle, TypeInv
  <2> QED
    BY <1>6, <2>1 DEF FinishIdle, TypeInv
<1>7. CASE Tick
  <2>1. now' \in ULong /\ busy' \in Nat
    BY <1>7, PlusType, ULongFacts, SMT DEF Tick, TypeInv
  <2> QED
    BY <1>7, <2>1 DEF Tick, TypeInv
<1>8. ASSUME NEW t \in Tasks,
             \/ SaveTask(t) \/ ClearTask(t) \/ EnableTask(t)
             \/ DisableTask(t) \/ RequestRead(t)
      PROVE  TypeInv'
  BY <1>8, TaskStepType
<1>9. CASE ConnectMQTT
  BY <1>9 DEF ConnectMQTT, TypeInv
<1>10. ASSUME NEW j \in Restarted, Override(j) PROVE TypeInv'
  BY <1>10 DEF Override, TypeInv
<1>11. CASE PostEvent
  <2>1. events' \in 0..MaxEvents
    BY <1>11, ConstantTypes, SMT DEF PostEvent, TypeInv
  <2> QED
    BY <1>11, <2>1 DEF PostEvent, TypeInv
<1> QED
  BY <1>2, <1>3, <1>4, <1>5, <1>6, <1>7, <1>8, <1>9, <1>10, <1>11
  DEF Next, Pass, Finish

\* In a step that takes no time a timer is as late after it as before.
LEMMA SameTime ==
    ASSUME now' = now
    PROVE  /\ \A t : timePassedSince(t, now') = Late(t)
           /\ Sorted(timers') /\ InReach(timers') => ListInv'
BY DEF ListInv, Sorted, InReach, Late

LEMMA ListInit == ASSUME Init PROVE ListInv
BY InitList DEF ListInv

LEMMA ListStep ==
    ASSUME NotTooLate, TypeInv, ListInv, Next
    PROVE  ListInv'
<1>1. CASE Requests
  BY <1>1, RequestsGrow, SameTime DEF Grown
<1>2. ASSUME NEW j \in Jobs, StartJob(j) PROVE ListInv'
  BY <1>2, StartJobList, SameTime
<1>3. ASSUME NEW t \in Tasks, StartTask(t) PROVE ListInv'
  BY <1>3, StartTaskList, SameTime
<1>4. CASE Tick
  <2>1. /\ timers' = timers
        /\ \A i \in 1..Len(timers) :
             /\ timers[i].at \in ULong
             /\ Late(timers[i].at) \in (-HalfMax)..(MaxLate - 1)
             /\ Late(timers[i].at)' = Late(timers[i].at) + 1
    BY <1>4, TickList
  <2>2. timers \in Seq(Timer)
    BY DEF ListInv, Sorted
  <2>3. ASSUME NEW i \in 1..Len(timers), NEW j \in 1..Len(timers), i < j
        PROVE  /\ timers[i].id # timers[j].id
               /\ Late(timers[i].at)' >= Late(timers[j].at)'
    <3>1. /\ timers[i].id # timers[j].id
          /\ Late(timers[i].at) >= Late(timers[j].at)
      BY <2>3 DEF ListInv, Sorted
    <3> QED
      BY <2>1, <3>1, ConstantTypes, SMT
  <2>4. ASSUME NEW i \in 1..Len(timers)
        PROVE  Late(timers[i].at)' \in (-HalfMax)..HalfMax
    BY <2>1, ConstantTypes, SMT DEF NotTooLate
  <2> QED
    BY <2>1, <2>2, <2>3, <2>4 DEF ListInv, Sorted, InReach, Timer
<1> QED
  BY <1>1, <1>2, <1>3, <1>4, NextKinds

\* The type invariant: the clock and what is kept of it are unsigned longs,
\* the tasks have settings that can be saved, and one handler runs at a time.
THEOREM TypeCorrect == Spec => []TypeInv
<1>1. Init => TypeInv
  BY TypeInit
<1>2. TypeInv /\ [Next]_vars => TypeInv'
  <2>1. ASSUME TypeInv, UNCHANGED vars PROVE TypeInv'
    BY <2>1 DEF TypeInv, vars
  <2> QED
    BY <2>1, TypeStep
<1> QED
  BY <1>1, <1>2, PTL DEF Spec

\* msecTimerHandlerStruct: the list has one timer per id and is in order at any
\* time, though it is sorted only when a timer is set: time passes for all
\* timers alike, and none gets further away than half the range of the clock.
THEOREM ListInOrder == ASSUME NotTooLate PROVE Spec => []ListInv
<1>1. Init => ListInv
  BY ListInit
<1>2. TypeInv /\ ListInv /\ [Next]_vars => ListInv'
  <2>1. ASSUME ListInv, UNCHANGED vars PROVE ListInv'
    BY <2>1 DEF ListInv, Sorted, InReach, Late, vars
  <2> QED
    BY <2>1, ListStep
<1> QED
  BY <1>1, <1>2, TypeCorrect, PTL DEF Spec

\* InOrder, which the run checks on a clock of ten values, for every clock.
THEOREM AlwaysInOrder == ASSUME NotTooLate PROVE Spec => []InOrder
<1>1. ListInv => InOrder
  BY DEF ListInv, Sorted, InOrder, Timer
<1> QED
  BY <1>1, ListInOrder, PTL

-----------------------------------------------------------------------------
\* Jobs keep their intervals.

JobsOnTime ==
    \A i \in 1..Len(timers) : timers[i].id \in Jobs =>
      Late(timers[i].at) \in (-Step[timers[i].id])..MaxLate

LEMMA JobOnTime ==
    ASSUME JobsOnTime, NEW e, Has(timers, e), e.id \in Jobs
    PROVE  Late(e.at) \in (-Step[e.id])..MaxLate
BY DEF JobsOnTime, Has

LEMMA JobJustSet ==
    ASSUME NEW j \in Jobs
    PROVE  -1 \in (-Step[j])..MaxLate /\ 0 \in (-Step[j])..MaxLate
           /\ (-Step[j])..0 \subseteq (-Step[j])..MaxLate
           /\ j \notin Tasks
<1>1. Step[j] \in 1..HalfMax /\ j \notin Tasks
  BY ConstantTypes, SchedulerAssumption
<1> QED
  BY <1>1, ConstantTypes, SMT

LEMMA OnTimeInit == ASSUME Init PROVE JobsOnTime
<1> SUFFICES ASSUME NEW i \in 1..Len(timers), timers[i].id \in Jobs
             PROVE  Late(timers[i].at) \in (-Step[timers[i].id])..MaxLate
  BY DEF JobsOnTime
<1>1. Has(timers, timers[i])
  BY DEF Has
<1>2. Late(timers[i].at) = -1
  BY <1>1, InitList
<1> QED
  BY <1>2, JobJustSet

LEMMA OnTimeStep ==
    ASSUME NotTooLate, TypeInv, ListInv, JobsOnTime, Next
    PROVE  JobsOnTime'
<1>1. CASE Tick
  <2>1. timers' = timers
    BY <1>1, TickList
  <2>2. ASSUME NEW i \in 1..Len(timers), timers[i].id \in Jobs
        PROVE  Late(timers[i].at)' \in (-Step[timers[i].id])..MaxLate
    <3>1. Late(timers[i].at) \in (-Step[timers[i].id])..MaxLate
      BY <2>2 DEF JobsOnTime
    <3>2. /\ Late(timers[i].at) <= MaxLate - 1
          /\ Late(timers[i].at)' = Late(timers[i].at) + 1
      BY <1>1, TickList, ConstantTypes, SMT
    <3>3. Step[timers[i].id] \in 1..HalfMax
      BY <2>2, ConstantTypes
    <3> QED
      BY <3>1, <3>2, <3>3, ConstantTypes, SMT
  <2> QED
    BY <2>1, <2>2 DEF JobsOnTime
<1>2. CASE ~Tick
  <2>1. now' = now
    BY <1>2, NextKinds, RequestsGrow, StartJobList, StartTaskList
  <2> SUFFICES ASSUME NEW e, Has(timers', e), e.id \in Jobs
               PROVE  Late(e.at) \in (-Step[e.id])..MaxLate
    <3>1. ASSUME NEW i \in 1..Len(timers'), timers'[i].id \in Jobs
          PROVE  Late(timers'[i].at) \in (-Step[timers'[i].id])..MaxLate
      BY <3>1 DEF Has
    <3> QED
      BY <2>1, <3>1 DEF JobsOnTime, Late
  <2>2. CASE Requests
    <3>1. Has(timers, e) \/ Late(e.at) = -1
      BY <2>2, RequestsGrow, JobJustSet DEF Grown
    <3> QED
      BY <3>1, JobOnTime, JobJustSet
  <2>3. ASSUME NEW j \in Jobs, StartJob(j)
        PROVE  Late(e.at) \in (-Step[e.id])..MaxLate
    <3>1. PICK at \in ULong :
            /\ Late(at) \in (-Step[j])..0
            /\ \A d : Has(timers', d) <=> \/ d = [id |-> j, at |-> at]
                                          \/ Has(timers, d) /\ d.id # j
      BY <2>3, StartJobList
    <3> QED
      BY <3>1, JobOnTime, JobJustSet
  <2>4. ASSUME NEW t \in Tasks, StartTask(t)
        PROVE  Late(e.at) \in (-Step[e.id])..MaxLate
    <3>1. e.id # t
      BY JobJustSet
    <3> QED
      BY <2>4, <3>1, StartTaskList, JobOnTime
  <2> QED
    BY <1>2, <2>2, <2>3, <2>4, NextKinds
<1> QED
  BY <1>1, <1>2

\* process_interval_timer(), setIntervalTimerOverride(): the next run of a job
\* is never further away than its interval, whatever else is scheduled, and
\* however late the job was: setNextTimeInterval() does not skip ahead.
THEOREM JobsAlwaysWithinStep ==
    ASSUME NotTooLate PROVE Spec => []JobsWithinStep
<1>1. Init => JobsOnTime
  BY OnTimeInit
<1>2. TypeInv /\ ListInv /\ JobsOnTime /\ [Next]_vars => JobsOnTime'
  <2>1. ASSUME JobsOnTime, UNCHANGED vars PROVE JobsOnTime'
    BY <2>1 DEF JobsOnTime, Late, vars
  <2> QED
    BY <2>1, OnTimeStep
<1>3. TypeInv /\ JobsOnTime => JobsWithinStep
  <2> SUFFICES ASSUME TypeInv, JobsOnTime, NEW j \in Jobs, NEW i \in InList(j)
               PROVE  -Late(timers[i].at) \in (-MaxLate)..Step[j]
    BY DEF JobsWithinStep
  <2>1. Late(timers[i].at) \in (-Step[j])..MaxLate
    BY DEF JobsOnTime, InList
  <2> QED
    BY <2>1, ConstantTypes, SMT
<1> QED
  BY <1>1, <1>2, <1>3, TypeCorrect, ListInOrder, PTL DEF Spec

-----------------------------------------------------------------------------
\* Nobody is forgotten.

LEMMA ListedIds == \A id : InList(id) # {} <=> HasId(timers, id)
BY DEF InList, HasId

\* An id stays in the list in a step that does not take its timer.
LEMMA IdStays ==
    ASSUME NEW x, HasId(timers, x), NEW l,
           \A e : e.id = x /\ Has(timers, e) => Has(l, e)
    PROVE  HasId(l, x)
<1>1. PICK i \in 1..Len(timers) : timers[i].id = x
  BY DEF HasId
<1>2. Has(timers, timers[i])
  BY DEF Has
<1>3. Has(l, timers[i])
  BY <1>1, <1>2
<1> QED
  BY <1>1, <1>3 DEF Has, HasId

LEMMA JobsStay ==
    ASSUME TypeInv, ListInv, NotTooLate, Next, NEW j \in Jobs,
           HasId(timers, j)
    PROVE  HasId(timers', j)
<1>1. CASE Requests
  BY <1>1, RequestsGrow DEF Grown, Keeps, Ids
<1>2. CASE Tick
  BY <1>2 DEF Tick
<1>3. ASSUME NEW k \in Jobs, StartJob(k) PROVE HasId(timers', j)
  <2>1. PICK at \in ULong :
           \A e : Has(timers', e) <=> \/ e = [id |-> k, at |-> at]
                                      \/ Has(timers, e) /\ e.id # k
    BY <1>3, StartJobList
  <2>2. CASE j = k
    <3>1. Has(timers', [id |-> k, at |-> at])
      BY <2>1
    <3> QED
      BY <2>2, <3>1 DEF Has, HasId
  <2>3. CASE j # k
    BY <2>1, <2>3, IdStays
  <2> QED
    BY <2>2, <2>3
<1>4. ASSUME NEW t \in Tasks, StartTask(t) PROVE HasId(timers', j)
  <2>1. j # t
    BY JobJustSet
  <2> QED
    BY <1>4, <2>1, StartTaskList, IdStays
<1> QED
  BY <1>1, <1>2, <1>3, <1>4, NextKinds

\* A task that is to be read now and then.
Chained(t) == tasks[t].plugin /\ tasks[t].enabled /\ tasks[t].interval > 0

LEMMA RequestsChain ==
    ASSUME TypeInv, ListInv, Requests, NEW t \in Tasks, Chained(t)',
           Chained(t) => HasId(timers, t)
    PROVE  HasId(timers', t)
<1>1. Chained(t) => HasId(timers', t)
  BY RequestsGrow DEF Grown, Keeps, Ids
<1>2. ASSUME NEW s \in Tasks, SaveTask(s) PROVE HasId(timers', t)
  <2>1. CASE s = t
    BY <1>2, <2>1, SaveTaskGrows DEF Chained
  <2>2. CASE s # t
    <3>1. tasks'[t] = tasks[t]
      BY <1>2, <2>2 DEF SaveTask, TypeInv
    <3> QED
      BY <1>1, <3>1 DEF Chained
  <2> QED
    BY <2>1, <2>2
<1>3. ASSUME NEW s \in Tasks, EnableTask(s) PROVE HasId(timers', t)
  <2>1. CASE s = t
    BY <1>3, <2>1, EnableTaskGrows DEF Chained
  <2>2. CASE s # t
    <3>1. tasks'[t] = tasks[t]
      BY <1>3, <2>2 DEF EnableTask, TypeInv
    <3> QED
      BY <1>1, <3>1 DEF Chained
  <2> QED
    BY <2>1, <2>2
<1>4. ASSUME NEW s \in Tasks, ClearTask(s) PROVE HasId(timers', t)
  <2>1. PICK p \in BOOLEAN :
           tasks' = [tasks EXCEPT ![s] = [Cleared EXCEPT !.plugin = p]]
    BY <1>4 DEF ClearTask
  <2>2. s # t
    <3>1. ASSUME s = t PROVE tasks'[t].enabled = FALSE
      BY <2>1, <3>1 DEF Cleared, TypeInv
    <3> QED
      BY <3>1 DEF Chained
  <2>3. tasks'[t] = tasks[t]
    BY <2>1, <2>2 DEF TypeInv
  <2> QED
    BY <1>1, <2>3 DEF Chained
<1>5. ASSUME NEW s \in Tasks, DisableTask(s) PROVE HasId(timers', t)
  <2>1. tasks' = tasks
    BY <1>5, ConstantTypes DEF DisableTask, EventTask, Ids
  <2> QED
    BY <1>1, <2>1 DEF Chained
<1>6. ASSUME tasks' = tasks PROVE HasId(timers', t)
  BY <1>1, <1>6 DEF Chained
<1>7. CASE \/ \E s \in Tasks : RequestRead(s)
           \/ ConnectMQTT \/ \E j \in Restarted : Override(j)
           \/ PostEvent \/ StartIdle \/ Finish
  BY <1>6, <1>7
  DEF RequestRead, ConnectMQTT, Override, PostEvent, StartIdle, StartPass,
      Finish, FinishTimer, FinishIdle
<1> QED
  BY <1>2, <1>3, <1>4, <1>5, <1>7 DEF Requests

LEMMA TasksStay ==
    ASSUME TypeInv, ListInv, NotTooLate, Next, NEW t \in Tasks, Chained(t)',
           Chained(t) => HasId(timers, t)
    PROVE  HasId(timers', t)
<1>1. CASE Requests
  BY <1>1, RequestsChain
<1>2. CASE Tick
  BY <1>2 DEF Tick, Chained
<1>3. ASSUME NEW j \in Jobs, StartJob(j) PROVE HasId(timers', t)
  <2>1. t # j /\ HasId(timers, t)
    BY <1>3, JobJustSet DEF StartJob, StartPass, Chained
  <2>2. ASSUME NEW e, e.id = t, Has(timers, e) PROVE Has(timers', e)
    BY <1>3, <2>1, <2>2, StartJobList
  <2> QED
    BY <2>1, <2>2, IdStays
<1>4. ASSUME NEW s \in Tasks, StartTask(s) PROVE HasId(timers', t)
  <2>1. Chained(t)
    BY <1>4 DEF StartTask, StartPass, Chained
  <2>2. CASE s = t
    BY <1>4, <2>1, <2>2, StartTaskList DEF Chained
  <2>3. CASE s # t
    BY <1>4, <2>1, <2>3, StartTaskList, IdStays
  <2> QED
    BY <2>2, <2>3
<1> QED
  BY <1>1, <1>2, <1>3, <1>4, NextKinds

\* Scheduler.ino: the chain of timers of an enabled task with an interval never
\* breaks, nor that of a job: whoever takes a timer from the list sets the next
\* one before anything else happens, and saving, enabling, clearing or
\* requesting never takes one away.
THEOREM NobodyIsForgotten == ASSUME NotTooLate PROVE Spec => []NobodyForgotten
<1> DEFINE Inv == /\ \A j \in Jobs : HasId(timers, j)
                  /\ \A t \in Tasks : Chained(t) => HasId(timers, t)
<1>1. Init => Inv
  BY InitList DEF Chained
<1>2. TypeInv /\ ListInv /\ Inv /\ [Next]_vars => Inv'
  <2>1. ASSUME Inv, UNCHANGED vars PROVE Inv'
    BY <2>1 DEF HasId, Chained, vars
  <2>2. ASSUME TypeInv, ListInv, Inv, Next PROVE Inv'
    <3>1. ASSUME NEW j \in Jobs PROVE HasId(timers, j)'
      BY <2>2, JobsStay DEF HasId
    <3>2. ASSUME NEW t \in Tasks, Chained(t)' PROVE HasId(timers, t)'
      BY <2>2, <3>2, TasksStay DEF HasId
    <3> QED
      BY <3>1, <3>2
  <2> QED
    BY <2>1, <2>2
<1>3. Inv => NobodyForgotten
  BY ListedIds DEF NobodyForgotten, Chained
<1> QED
  BY <1>1, <1>2, <1>3, TypeCorrect, ListInOrder, PTL DEF Spec

-----------------------------------------------------------------------------
\* Events do not wait for ever.

\* A handler takes a msec or more, and the longest that events can wait for
\* their turn is within half the range of the clock.
WaitBounded ==
    /\ MaxBusy > 0
    /\ OverrideTime - 1 + 2 * MaxBusy <= HalfMax

\* How long the events wait, by what runs.
EventsWait ==
    LET wait == timePassedSince(lastEvent, now)
    IN  /\ wait >= 0
        /\ serving = Nobody => wait <= OverrideTime - 1 + MaxBusy
        /\ serving \in Ids  => wait <= OverrideTime - 1 + busy
        /\ serving = Idle   => wait <= OverrideTime - 1 + MaxBusy + busy
        /\ serving # Nobody => busy <= MaxBusy

LEMMA WaitType ==
    ASSUME TypeInv
    PROVE  timePassedSince(lastEvent, now) \in Int
BY PassedType, ULongFacts DEF TypeInv

LEMMA WaitInit == ASSUME Init PROVE EventsWait
<1>1. timePassedSince(0, 0) = 0
  BY TimeCalcAssumption, SMT DEF timePassedSince, timeDiff
<1>2. serving = Nobody /\ serving \notin Ids /\ serving # Idle
  BY ConstantTypes DEF Init
<1> QED
  BY <1>1, <1>2, ConstantTypes, SMT DEF Init, EventsWait

LEMMA WaitStep ==
    ASSUME WaitBounded, TypeInv, EventsWait, Next
    PROVE  EventsWait'
<1> DEFINE wait == timePassedSince(lastEvent, now)
<1>1. /\ wait \in Int /\ wait >= 0
      /\ OverrideTime \in 1..HalfMax /\ MaxBusy \in Nat /\ MaxBusy > 0
      /\ busy \in Nat /\ OverrideTime - 1 + 2 * MaxBusy <= HalfMax
  BY WaitType, ConstantTypes DEF EventsWait, WaitBounded, TypeInv
<1>2. ASSUME UNCHANGED <<now, lastEvent, serving, busy>> PROVE EventsWait'
  BY <1>2 DEF EventsWait
<1>3. ASSUME NEW id \in Ids, StartPass(id), ~EventsWaitedLong
      PROVE  EventsWait'
  <2>1. wait < OverrideTime
    BY <1>3, <1>1, SMT DEF EventsWaitedLong
  <2>2. /\ timePassedSince(lastEvent', now') = wait /\ busy' = 0
        /\ serving' = id /\ id # Nobody /\ id # Idle
    BY <1>3, ConstantTypes DEF StartPass
  <2> HIDE DEF wait
  <2> QED
    BY <1>1, <2>1, <2>2, SMT DEF EventsWait
<1>4. CASE StartIdle
  <2>1. serving = Nobody /\ wait <= OverrideTime - 1 + MaxBusy
    BY <1>4 DEF StartIdle, StartPass, EventsWait
  <2>2. /\ timePassedSince(lastEvent', now') = wait /\ busy' = 0
        /\ serving' = Idle /\ Idle \notin Ids /\ Idle # Nobody
    BY <1>4, ConstantTypes DEF StartIdle, StartPass
  <2> HIDE DEF wait
  <2> QED
    BY <1>1, <2>1, <2>2, SMT DEF EventsWait
<1>5. CASE FinishTimer
  <2>1. wait <= OverrideTime - 1 + busy /\ busy <= MaxBusy
    BY <1>5, ConstantTypes DEF FinishTimer, EventsWait
  <2>2. /\ timePassedSince(lastEvent', now') = wait /\ serving' = Nobody
        /\ Nobody \notin Ids /\ Idle # Nobody
    BY <1>5, ConstantTypes DEF FinishTimer
  <2> HIDE DEF wait
  <2> QED
    BY <1>1, <2>1, <2>2, SMT DEF EventsWait
<1>6. CASE FinishIdle
  <2>1. now \in 0..(2 * HalfMax + 1) /\ timePassedSince(now, now) = 0
    BY TimeCalcAssumption, SMT
    DEF TypeInv, ULong, ULongMax, timePassedSince, timeDiff
  <2>2. /\ timePassedSince(lastEvent', now') = 0 /\ serving' = Nobody
        /\ Nobody \notin Ids /\ Idle # Nobody
    BY <1>6, <2>1, ConstantTypes DEF FinishIdle
  <2> HIDE DEF wait
  <2> QED
    BY <1>1, <2>2, SMT DEF EventsWait
<1>7. CASE Tick
  <2>1. /\ now' = Plus(now, 1) /\ busy' = busy + 1
        /\ lastEvent' = lastEvent /\ serving' = serving
    BY <1>7 DEF Tick
  <2>2. \/ serving = Nobody /\ wait < OverrideTime
        \/ serving # Nobody /\ busy < MaxBusy
    BY <1>1, <1>7, SMT DEF Tick, EventsWaitedLong
  <2>3. serving = Nobody \/ serving \in Ids \/ serving = Idle
    BY DEF TypeInv
  <2>4. /\ serving = Nobody => wait <= OverrideTime - 1 + MaxBusy
        /\ serving \in Ids  => wait <= OverrideTime - 1 + busy
        /\ serving = Idle   => wait <= OverrideTime - 1 + MaxBusy + busy
    BY DEF EventsWait
  <2> HIDE DEF wait
  <2>5. wait < HalfMax /\ wait >= -HalfMax
    BY <1>1, <2>2, <2>3, <2>4, ConstantTypes, SMT
  <2>6. timePassedSince(lastEvent', now') = wait + 1
    BY <2>1, <2>5, PassedTick DEF wait, TypeInv
  <2>7. Nobody \notin Ids /\ Idle \notin Ids /\ Idle # Nobody
    BY ConstantTypes
  <2> QED
    BY <1>1, <2>1, <2>2, <2>4, <2>6, <2>7, SMT DEF EventsWait
<1>8. ASSUME NEW j \in Jobs, StartJob(j) PROVE EventsWait'
  BY <1>3, <1>8 DEF StartJob, Ids
<1>9. ASSUME NEW t \in Tasks, StartTask(t) PROVE EventsWait'
  BY <1>3, <1>9 DEF StartTask, Ids
<1>10. ASSUME NEW t \in Tasks,
              \/ SaveTask(t) \/ ClearTask(t) \/ EnableTask(t)
              \/ DisableTask(t) \/ RequestRead(t)
       PROVE  EventsWait'
  BY <1>2, <1>10
  DEF SaveTask, ClearTask, EnableTask, DisableTask, RequestRead
<1>11. CASE ConnectMQTT \/ PostEvent \/ \E j \in Restarted : Override(j)
  BY <1>2, <1>11 DEF ConnectMQTT, PostEvent, Override
<1> QED
  BY <1>4, <1>5, <1>6, <1>7, <1>8, <1>9, <1>10, <1>11
  DEF Next, Pass, Finish

\* handle_schedule(): timers that are due keep the events waiting for one
\* override time, the handler that was running when it ended, and the
\* background tasks and events before them; no longer.
THEOREM EventsNeverStarved ==
    ASSUME WaitBounded PROVE Spec => []EventsNotStarved
<1>1. Init => EventsWait
  BY WaitInit
<1>2. TypeInv /\ EventsWait /\ [Next]_vars => EventsWait'
  <2>1. ASSUME EventsWait, UNCHANGED vars PROVE EventsWait'
    BY <2>1 DEF EventsWait, vars
  <2> QED
    BY <2>1, WaitStep
<1>3. TypeInv /\ EventsWait => EventsNotStarved
  <2> SUFFICES ASSUME TypeInv, EventsWait PROVE EventsNotStarved
    OBVIOUS
  <2>1. serving = Nobody \/ serving \in Ids \/ serving = Idle
    BY DEF TypeInv
  <2>2. busy \in Nat /\ timePassedSince(lastEvent, now) \in Int
    BY WaitType DEF TypeInv
  <2> QED
    BY <2>1, <2>2, ConstantTypes, SMT DEF EventsWait, EventsNotStarved
<1> QED
  BY <1>1, <1>2, <1>3, TypeCorrect, PTL DEF Spec

-----------------------------------------------------------------------------
\* The list implements one alarm per id.

\* When the alarms of a list are due.
DueIn(list) ==
    [id \in Ids |->
       LET at == {i \in 1..Len(list) : list[i].id = id}
       IN  IF at = {} THEN -1 ELSE list[CHOOSE i \in at : TRUE].at]

LEMMA DueNow == Due = DueIn(timers) /\ Due' = DueIn(timers')
BY DEF Due, DueIn, InList

LEMMA NoTimeIsNegative == -1 \notin ULong
BY TimeCalcAssumption, SMT DEF ULong, ULongMax

LEMMA DueFacts ==
    ASSUME NEW list, Sorted(list)
    PROVE  /\ DueIn(list) \in [Ids -> ULong \cup {-1}]
           /\ \A e : Has(list, e) => e.id \in Ids /\ DueIn(list)[e.id] = e.at
           /\ \A id \in Ids : \/ \E e : Has(list, e) /\ e.id = id
                              \/ ~HasId(list, id) /\ DueIn(list)[id] = -1
           /\ \A id \in Ids : DueIn(list)[id] = -1 <=> ~HasId(list, id)
<1> DEFINE at(id) == {i \in 1..Len(list) : list[i].id = id}
<1>1. ASSUME NEW e, Has(list, e)
      PROVE  e.id \in Ids /\ e.at \in ULong /\ DueIn(list)[e.id] = e.at
  <2>1. PICK i \in 1..Len(list) : list[i] = e
    BY <1>1 DEF Has
  <2>2. e.id \in Ids /\ e.at \in ULong
    BY <1>1, HasType
  <2>3. i \in at(e.id)
    BY <2>1
  <2> DEFINE k == CHOOSE k \in at(e.id) : TRUE
  <2>4. k \in at(e.id)
    BY <2>3
  <2>5. k = i
    BY <2>1, <2>4, SortedIds
  <2>6. DueIn(list)[e.id] = list[k].at
    BY <2>2, <2>3 DEF DueIn
  <2> HIDE DEF k
  <2> QED
    BY <2>1, <2>2, <2>5, <2>6
<1>2. ASSUME NEW id \in Ids, HasId(list, id)
      PROVE  \E e : Has(list, e) /\ e.id = id
  BY <1>2 DEF HasId, Has
<1>3. ASSUME NEW id \in Ids, ~HasId(list, id) PROVE DueIn(list)[id] = -1
  <2>1. at(id) = {}
    BY <1>3 DEF HasId
  <2> QED
    BY <2>1 DEF DueIn
<1>4. ASSUME NEW id \in Ids, HasId(list, id)
      PROVE  DueIn(list)[id] \in ULong /\ DueIn(list)[id] # -1
  <2>1. PICK e : Has(list, e) /\ e.id = id
    BY <1>2, <1>4
  <2> QED
    BY <1>1, <2>1, NoTimeIsNegative
<1>5. DueIn(list) \in [Ids -> ULong \cup {-1}]
  <2>1. ASSUME NEW id \in Ids PROVE DueIn(list)[id] \in ULong \cup {-1}
    BY <1>3, <1>4
  <2>2. DueIn(list) = [id \in Ids |-> DueIn(list)[id]]
    BY DEF DueIn
  <2> QED
    BY <2>1, <2>2
<1> QED
  BY <1>1, <1>2, <1>3, <1>4, <1>5

\* The two modules count time in the same way.
LEMMA SameClock ==
    /\ \A t, n : /\ Alarm!timePassedSince(t, n) = timePassedSince(t, n)
                 /\ Alarm!timeOutReached(t, n) <=> timeOutReached(t, n)
                 /\ Alarm!Plus(t, n) = Plus(t, n)
    /\ Alarm!ULong = ULong
BY DEF Alarm!timePassedSince, Alarm!timeDiff, Alarm!AsLong, Alarm!Negated,
       Alarm!ULongMax, Alarm!timeOutReached, Alarm!Plus, Alarm!ULong,
       timePassedSince, timeDiff, AsLong, Negated, ULongMax, timeOutReached,
       Plus, ULong

LEMMA InitImplements == ASSUME Init PROVE Alarm!Init
<1>1. Sorted(timers) /\ now \in ULong /\ serving = Nobody
  BY InitList, ULongFacts DEF Init
<1>2. Due \in [Ids -> ULong \cup {-1}]
  BY <1>1, DueNow, DueFacts
<1> QED
  BY <1>1, <1>2, SameClock, ConstantTypes DEF Alarm!Init, Alarm!NotSet

\* What is requested: any number of alarms is set, none is lost.
LEMMA RegisterImplements ==
    ASSUME TypeInv, ListInv, Requests, serving' = serving
    PROVE  Alarm!Register
<1>1. Grown(timers') /\ now' = now
  BY RequestsGrow
<1>2. Due' \in [Ids -> ULong \cup {-1}]
  BY <1>1, DueNow, DueFacts DEF Grown
<1>3. ASSUME NEW id \in Ids, Due[id] # -1 PROVE Due'[id] # -1
  <2>1. HasId(timers, id)
    BY <1>3, DueNow, DueFacts DEF ListInv
  <2>2. HasId(timers', id)
    BY <1>1, <2>1 DEF Grown, Keeps
  <2> QED
    BY <1>1, <2>2, DueNow, DueFacts DEF Grown
<1> QED
  BY <1>1, <1>2, <1>3, SameClock
  DEF Alarm!Register, Alarm!IsSet, Alarm!NotSet

\* The first timer of the list goes off: no other has waited longer.
LEMMA GoOffImplements ==
    ASSUME TypeInv, ListInv, Sorted(timers'), TimerDue,
           NEW id \in Ids, Head(timers).id = id, StartPass(id),
           \A e : e.id # id => (Has(timers', e) <=> Has(timers, e))
    PROVE  Alarm!GoOff(id)
<1> DEFINE h == Head(timers)
<1>1. /\ timers # <<>> /\ timeOutReached(h.at, now)
      /\ serving = Nobody /\ serving' = id /\ now' = now
      /\ id # Idle /\ Idle # Nobody
  BY ConstantTypes DEF TimerDue, StartPass
<1>2. /\ Has(timers, h)
      /\ \A e : Has(timers, e) => Late(h.at) >= Late(e.at) \/ e = h
  BY <1>1, TailFacts DEF ListInv
<1>3. Due[id] = h.at /\ h.at \in ULong /\ Late(h.at) \in Int /\ h.at # -1
  BY <1>2, DueNow, DueFacts, HasType, LateType, NoTimeIsNegative
  DEF ListInv, TypeInv
<1>4. ASSUME NEW other \in Ids, Due[other] # -1
      PROVE  Late(Due[id]) >= Late(Due[other])
  <2>1. PICK e : Has(timers, e) /\ e.id = other
    BY <1>4, DueNow, DueFacts DEF ListInv
  <2>2. Due[other] = e.at
    BY <2>1, DueNow, DueFacts DEF ListInv
  <2>3. CASE e = h
    BY <1>3, <2>2, <2>3, SMT
  <2>4. CASE e # h
    BY <1>2, <1>3, <2>1, <2>2, <2>4
  <2> QED
    BY <2>3, <2>4
<1>5. ASSUME NEW other \in Ids \ {id} PROVE Due'[other] = Due[other]
  <2>1. CASE \E e : Has(timers, e) /\ e.id = other
    <3>1. PICK e : Has(timers, e) /\ e.id = other
      BY <2>1
    <3>2. Has(timers', e)
      BY <3>1
    <3> QED
      BY <3>1, <3>2, DueNow, DueFacts DEF ListInv
  <2>2. CASE ~ \E e : Has(timers, e) /\ e.id = other
    <3>1. ~ \E e : Has(timers', e) /\ e.id = other
      BY <2>2
    <3> QED
      BY <2>2, <3>1, DueNow, DueFacts DEF ListInv
  <2> QED
    BY <2>1, <2>2
<1>6. Due' \in [Ids -> ULong \cup {-1}]
  BY DueNow, DueFacts
<1> HIDE DEF h
<1>7. \A other \in Ids :
        Due[other] # -1 => Alarm!timePassedSince(Due[id], now)
                             >= Alarm!timePassedSince(Due[other], now)
  BY <1>4, SameClock DEF Late
<1>8. Alarm!timeOutReached(Due[id], now)
  BY <1>1, <1>3, SameClock
<1> QED
  BY <1>1, <1>3, <1>5, <1>6, <1>7, <1>8, SameClock
  DEF Alarm!GoOff, Alarm!IsSet, Alarm!NotSet

LEMMA StepImplements ==
    ASSUME NotTooLate, TypeInv, ListInv, Next
    PROVE  \/ Alarm!Next
           \/ /\ now' = now /\ Due' = Due
              /\ (IF serving = Idle THEN Nobody ELSE serving)'
                   = (IF serving = Idle THEN Nobody ELSE serving)
<1>1. ASSUME NEW j \in Jobs, StartJob(j) PROVE Alarm!Next
  <2>1. /\ j \in Ids /\ TimerDue /\ Head(timers).id = j /\ StartPass(j)
    BY <1>1 DEF StartJob, Ids
  <2>2. Sorted(timers')
        /\ \A e : e.id # j => (Has(timers', e) <=> Has(timers, e))
    BY <1>1, StartJobList
  <2> QED
    BY <2>1, <2>2, GoOffImplements DEF Alarm!Next
<1>2. ASSUME NEW t \in Tasks, StartTask(t) PROVE Alarm!Next
  <2>1. /\ t \in Ids /\ TimerDue /\ Head(timers).id = t /\ StartPass(t)
    BY <1>2 DEF StartTask, Ids
  <2>2. Sorted(timers')
        /\ \A e : e.id # t => (Has(timers', e) <=> Has(timers, e))
    BY <1>2, StartTaskList
  <2> QED
    BY <2>1, <2>2, GoOffImplements DEF Alarm!Next
<1>3. CASE Tick
  <2>1. timers' = timers /\ now' = Plus(now, 1) /\ serving' = serving
    BY <1>3 DEF Tick
  <2>2. Due' = Due
    BY <2>1, DueNow
  <2> QED
    BY <2>1, <2>2, SameClock DEF Alarm!Next, Alarm!Tick
<1>4. CASE StartIdle \/ FinishIdle
  <2>1. /\ timers' = timers /\ now' = now
        /\ \/ serving = Nobody /\ serving' = Idle
           \/ serving = Idle /\ serving' = Nobody
    BY <1>4 DEF StartIdle, StartPass, FinishIdle
  <2>2. Due' = Due
    BY <2>1, DueNow
  <2> QED
    BY <2>1, <2>2, ConstantTypes
<1>5. CASE FinishTimer
  <2>1. /\ timers' = timers /\ now' = now
        /\ serving \in Ids /\ serving' = Nobody
    BY <1>5 DEF FinishTimer
  <2>2. Due' = Due
    BY <2>1, DueNow
  <2> QED
    BY <2>1, <2>2, ConstantTypes DEF Alarm!Next, Alarm!Return
<1>6. CASE Requests /\ serving' = serving
  BY <1>6, RegisterImplements DEF Alarm!Next
<1>7. Requests => \/ serving' = serving
                  \/ StartIdle \/ FinishIdle \/ FinishTimer
  BY DEF Requests, Finish, SaveTask, ClearTask, EnableTask, DisableTask,
         RequestRead, ConnectMQTT, Override, PostEvent
<1> QED
  BY <1>1, <1>2, <1>3, <1>4, <1>5, <1>6, <1>7, NextKinds

\* The scheduler implements one alarm per id: an alarm can be moved but not
\* lost, goes off once it is due and never after a later one, and one handler
\* runs at a time, whatever the list of timers looks like inside.
THEOREM SchedulerImplementsAlarms ==
    ASSUME NotTooLate PROVE Spec => ImplementsAlarms
<1>1. Init => Alarm!Init
  BY InitImplements
<1>2. TypeInv /\ ListInv /\ [Next]_vars
        => [Alarm!Next]_<<now, Due, IF serving = Idle THEN Nobody ELSE serving>>
  <2>1. ASSUME UNCHANGED vars
        PROVE  UNCHANGED <<now, Due,
                           IF serving = Idle THEN Nobody ELSE serving>>
    BY <2>1 DEF vars, Due, InList
  <2> QED
    BY <2>1, StepImplements
<1> QED
  BY <1>1, <1>2, TypeCorrect, ListInOrder, PTL
  DEF Spec, ImplementsAlarms, Alarm!Spec

=============================================================================
