--------------------------- MODULE BootGuardProofs ---------------------------
(***************************************************************************)
(* Theorems about BootGuard, for any set of items, defects and limit.      *)
(***************************************************************************)
EXTENDS BootGuard, FiniteSetTheorems, TLAPS

-----------------------------------------------------------------------------
\* Lists of items are finite, and items are numbers.
LEMMA ItemSets ==
    ASSUME NEW S \in SUBSET Items
    PROVE  IsFiniteSet(S) /\ Cardinality(S) \in Nat /\ S \subseteq Nat
BY BootGuardAssumption, FS_Subset, FS_CardinalityType

\* Of two enabled items the later one has the higher rank.
LEMMA RankIncreases ==
    ASSUME NEW S \in SUBSET Items, NEW i \in S, NEW j \in S, i < j
    PROVE  Rank(i, S) < Rank(j, S)
<1> DEFINE A == {k \in S : k <= i}
           B == {k \in S : k <= j}
<1>1. i \in Nat /\ j \in Nat /\ S \subseteq Nat
  BY ItemSets
<1>2. A \subseteq B /\ j \in B /\ j \notin A
  <2>1. j <= j /\ ~(j <= i)
    BY <1>1, SMT
  <2>2. ASSUME NEW k \in S, k <= i PROVE k <= j
    <3>1. k \in Nat
      BY <1>1
    <3> QED
      BY <1>1, <2>2, <3>1, SMT
  <2> QED
    BY <2>1, <2>2
<1>3. A \in SUBSET Items /\ B \in SUBSET Items
  OBVIOUS
<1>4. IsFiniteSet(B)
  BY <1>3, ItemSets
<1> HIDE DEF A, B
<1>5. Cardinality(A) < Cardinality(B)
  BY <1>2, <1>4, FS_Subset, FS_CardinalityType, SMT
<1> QED
  BY <1>5 DEF Rank, A, B

\* A rank is between 1 and the number of enabled items.
LEMMA RankBounds ==
    ASSUME NEW S \in SUBSET Items, NEW i \in S
    PROVE  Rank(i, S) \in 1..Cardinality(S)
<1> DEFINE A == {k \in S : k <= i}
<1>1. i \in Nat
  BY ItemSets
<1>2. i \in A /\ A \subseteq S
  BY <1>1, SMT
<1>3. A \in SUBSET Items
  OBVIOUS
<1> HIDE DEF A
<1>4. IsFiniteSet(A) /\ IsFiniteSet(S) /\ Cardinality(A) \in Nat
        /\ Cardinality(S) \in Nat
  BY <1>3, ItemSets
<1>5. Cardinality(A) <= Cardinality(S)
  BY <1>2, <1>4, FS_Subset
<1>6. A # {}
  BY <1>2
<1>7. Cardinality(A) # 0
  BY <1>4, <1>6, FS_EmptySet
<1> QED
  BY <1>4, <1>5, <1>7, SMT DEF Rank, A

-----------------------------------------------------------------------------
AtMostOne(S) == \A i, j \in S : i = j

LEMMA AtMostOneIsSmall ==
    ASSUME NEW S, AtMostOne(S) PROVE Cardinality(S) <= 1
<1>1. CASE S = {}
  <2>1. Cardinality(S) = 0
    BY <1>1, FS_EmptySet
  <2> QED
    BY <2>1, SMT
<1>2. CASE S # {}
  <2>1. PICK x : S = {x}
    BY <1>2 DEF AtMostOne
  <2>2. Cardinality(S) = 1
    BY <2>1, FS_Singleton
  <2> QED
    BY <2>2, SMT
<1> QED
  BY <1>1, <1>2

\* disablePlugin() and its likes find at most one item, and only if the number
\* they are given is that of an enabled item of their kind.
LEMMA WithoutOne ==
    ASSUME NEW n \in Nat, NEW kind \in SUBSET Items, NEW E \in SUBSET Items
    PROVE  /\ Without(n, kind, E) \in SUBSET E
           /\ AtMostOne(E \ Without(n, kind, E))
           /\ n \notin 1..Cardinality(E \cap kind) => Without(n, kind, E) = E
<1> DEFINE S == E \cap kind
           D == {i \in S : Rank(i, S) = n}
<1>1. Without(n, kind, E) = E \ D
  BY DEF Without
<1>2. S \in SUBSET Items /\ S \subseteq Nat
  BY ItemSets
<1>3. AtMostOne(D)
  <2> SUFFICES ASSUME NEW i \in D, NEW j \in D PROVE i = j
    BY DEF AtMostOne
  <2>1. i \in S /\ j \in S /\ Rank(i, S) = n /\ Rank(j, S) = n
    OBVIOUS
  <2>2. i \in Nat /\ j \in Nat
    BY <1>2, <2>1
  <2> HIDE DEF S, D
  <2>3. ~(i < j)
    BY <1>2, <2>1, RankIncreases, SMT
  <2>4. ~(j < i)
    BY <1>2, <2>1, RankIncreases, SMT
  <2> QED
    BY <2>2, <2>3, <2>4, SMT
<1>4. n \notin 1..Cardinality(S) => D = {}
  <2> HIDE DEF S
  <2> QED
    BY <1>2, RankBounds
<1>5. E \ (E \ D) = D
  OBVIOUS
<1> HIDE DEF D
<1> QED
  BY <1>1, <1>3, <1>4, <1>5

\* Each boot leaves out one item at most: the number that is passed on is
\* greater than 0 for the list that has the item, and for no other.
LEMMA LeaveOutOne ==
    ASSUME NEW n \in Nat, NEW E \in SUBSET Items
    PROVE  /\ LeaveOut(n, E) \in SUBSET E
           /\ AtMostOne(E \ LeaveOut(n, E))
<1> DEFINE t == Cardinality(E \cap Tasks)
           c == Cardinality(E \cap Controllers)
           m == Cardinality(E \cap Notifications)
           afterTasks == Remaining(n, Tasks, E)
           afterControllers == Remaining(afterTasks, Controllers, E)
           X == Without(n, Tasks, E)
           Y == Without(afterTasks, Controllers, X)
           Z == Without(afterControllers, Notifications, Y)
<1>1. LeaveOut(n, E) = Z
  BY DEF LeaveOut
<1>2. /\ Tasks \in SUBSET Items /\ Controllers \in SUBSET Items
      /\ Notifications \in SUBSET Items
  BY DEF Items
<1>3. t \in Nat /\ c \in Nat
  BY <1>2, ItemSets
<1>4. /\ afterTasks = IF n > t THEN n - t ELSE 0
      /\ afterControllers = IF afterTasks > c THEN afterTasks - c ELSE 0
  BY DEF Remaining
<1> HIDE DEF t, c
<1>5. /\ afterTasks \in Nat /\ afterControllers \in Nat
      /\ n > t => n \notin 1..t
      /\ afterTasks > c => afterTasks \notin 1..c
      /\ ~(n > t) => afterTasks = 0 /\ afterControllers = 0
      /\ ~(afterTasks > c) => afterControllers = 0
  <2> HIDE DEF afterTasks, afterControllers
  <2> QED
    BY <1>3, <1>4, SMT
<1> HIDE DEF afterTasks, afterControllers
<1>6. /\ X \in SUBSET E /\ AtMostOne(E \ X)
      /\ n > t => X = E
  BY <1>2, <1>5, WithoutOne DEF t
<1>7. ASSUME NEW kind \in SUBSET Items, NEW F \in SUBSET Items
      PROVE  Without(0, kind, F) = F
  <2>1. 0 \in Nat /\ 0 \notin 1..Cardinality(F \cap kind)
    BY ItemSets, SMT
  <2> QED
    BY <2>1, WithoutOne
<1> HIDE DEF X
<1>8. CASE ~(n > t)
  <2>1. Y = X
    BY <1>2, <1>5, <1>6, <1>7, <1>8
  <2>2. Z = X
    BY <1>2, <1>5, <1>6, <1>7, <1>8, <2>1
  <2> QED
    BY <1>1, <1>6, <2>2
<1>9. CASE n > t
  <2>1. X = E
    BY <1>6, <1>9
  <2>2. /\ Y \in SUBSET E /\ AtMostOne(E \ Y)
        /\ afterTasks > c => Y = E
    BY <1>2, <1>5, <2>1, WithoutOne DEF c
  <2> HIDE DEF Y
  <2>3. CASE ~(afterTasks > c)
    <3>1. Z = Y
      BY <1>2, <1>5, <1>7, <2>2, <2>3
    <3> QED
      BY <1>1, <2>2, <3>1
  <2>4. CASE afterTasks > c
    <3>1. Y = E
      BY <2>2, <2>4
    <3>2. Z \in SUBSET E /\ AtMostOne(E \ Z)
      BY <1>2, <1>5, <3>1, WithoutOne
    <3> QED
      BY <1>1, <3>2
  <2> QED
    BY <2>3, <2>4
<1> QED
  BY <1>8, <1>9

-----------------------------------------------------------------------------
\* The type invariant in parts: sets, truth values, counters.
Sets ==
    /\ flash \in SUBSET Items /\ ram \in SUBSET Items
    /\ phase \in {"off", "setup", "loop"} /\ defect \in Defects

Truth ==
    /\ powered \in BOOLEAN /\ firstLoop \in BOOLEAN
    /\ net \in BOOLEAN /\ outdated \in BOOLEAN

Counts ==
    /\ failed \in 0..(Bytes - 1) /\ boots \in 0..(Limit + 1)
    /\ wd \in 0..Settled /\ row \in 0..(Bytes + 1)

\* What is loaded lacks one item at most.
Loaded == phase # "off" => AtMostOne(flash \ ram)

IInv == Sets /\ Truth /\ Counts /\ Loaded

LEMMA InvImplies == IInv => TypeOK /\ AtMostOneLeftOut
<1> SUFFICES ASSUME IInv PROVE TypeOK /\ AtMostOneLeftOut
  OBVIOUS
<1>1. TypeOK
  BY Zenon DEF IInv, Sets, Truth, Counts, TypeOK
<1>2. AtMostOneLeftOut
  BY AtMostOneIsSmall DEF IInv, Loaded, AtMostOneLeftOut
<1> QED
  BY <1>1, <1>2

LEMMA Numbers == Limit \in Nat /\ Bytes \in Nat /\ Limit < Bytes
<1>1. Items \in SUBSET Items
  OBVIOUS
<1>2. Cardinality(Items) \in Nat
  BY <1>1, ItemSets
<1> QED
  BY <1>2, BootGuardAssumption, SMT

LEMMA InvInit == Init => IInv
<1> SUFFICES ASSUME Init PROVE IInv
  OBVIOUS
<1>1. Sets
  BY DEF Init, Sets
<1>2. Truth
  BY Zenon DEF Init, Truth
<1>3. Counts
  BY Numbers, SMT DEF Init, Counts, Settled
<1>4. Loaded
  BY DEF Init, Loaded
<1> QED
  BY <1>1, <1>2, <1>3, <1>4 DEF IInv

LEMMA BootLoads ==
    ASSUME IInv, Boot
    PROVE  /\ failed' \in 0..(Bytes - 1) /\ boots' \in 0..(Limit + 1)
           /\ ram' \in SUBSET flash' /\ flash' \in SUBSET flash
           /\ AtMostOne(flash' \ ram')
<1>1. failed' \in 0..(Bytes - 1)
  <2>1. failed' = CountBoot(failed) \/ failed' = 0
    BY DEF Boot
  <2> QED
    BY <2>1, Numbers, SMT DEF IInv, Counts, CountBoot
<1>2. boots' \in 0..(Limit + 1)
  <2>1. boots' = (IF boots > Limit THEN boots ELSE boots + 1) \/ boots' = 0
    BY DEF Boot
  <2> QED
    BY <2>1, Numbers, SMT DEF IInv, Counts
<1>3. ram' \in SUBSET flash /\ AtMostOne(flash \ ram')
  <2>1. ram' = LoadedSettings(failed', boots')
    BY DEF Boot
  <2>2. CASE Searching(failed', boots')
    <3>1. ram' = LeaveOut(failed' - Limit, flash)
      BY <2>1, <2>2 DEF LoadedSettings
    <3>2. failed' - Limit \in Nat
      <4>1. failed' > Limit
        BY <2>2, Zenon DEF Searching
      <4>2. failed' \in Int /\ Limit \in Int
        BY <1>1, Numbers, SMT
      <4>3. \A a, b \in Int : a > b => a - b \in Nat
        BY SMT
      <4> QED
        BY <4>1, <4>2, <4>3, Zenon
    <3>3. flash \in SUBSET Items
      BY DEF IInv, Sets
    <3> QED
      BY <3>1, <3>2, <3>3, LeaveOutOne
  <2>3. CASE ~Searching(failed', boots')
    BY <2>1, <2>3 DEF LoadedSettings, AtMostOne
  <2> QED
    BY <2>2, <2>3
<1>4. flash' = flash \/ flash' = ram'
  BY DEF Boot
<1> QED
  BY <1>1, <1>2, <1>3, <1>4 DEF AtMostOne

LEMMA InvStep == IInv /\ [Next]_vars => IInv'
<1> SUFFICES ASSUME IInv, [Next]_vars PROVE IInv'
  OBVIOUS
<1>1. CASE Boot
  <2>1. Sets' /\ Loaded'
    BY <1>1, BootLoads DEF Boot, IInv, Sets, Loaded
  <2>2. Truth'
    BY <1>1, Zenon DEF Boot, IInv, Truth
  <2>3. Counts'
    <3>1. wd' = 0 /\ row' = row
      BY <1>1 DEF Boot
    <3>2. 0 \in 0..Settled
      BY SMT DEF Settled
    <3> QED
      BY <1>1, <3>1, <3>2, BootLoads, Zenon DEF IInv, Counts
  <2> QED
    BY <2>1, <2>2, <2>3 DEF IInv
<1>2. CASE CrashInSetup \/ SetupDone \/ CrashInLoop \/ Restart
  <2>1. /\ UNCHANGED <<flash, ram, failed, boots, powered, firstLoop, wd, net,
                       outdated, defect>>
        /\ phase' \in {"off", "loop"} /\ (phase' = "loop" => phase = "setup")
        /\ row' = 0 \/ row' = (IF row <= Bytes THEN row + 1 ELSE row)
              \/ row' = row
    BY <1>2, Zenon DEF CrashInSetup, SetupDone, CrashInLoop, Restart
  <2>2. Truth'
    BY <2>1, Zenon DEF IInv, Truth
  <2>3. row' \in 0..(Bytes + 1)
    BY <2>1, Numbers, SMT DEF IInv, Counts
  <2>4. Counts'
    BY <2>1, <2>3 DEF IInv, Counts
  <2> QED
    BY <2>1, <2>2, <2>4 DEF IInv, Sets, Loaded
<1>3. CASE Loop \/ RunEach30Seconds \/ ClearRTC \/ NetworkChange
  <2>1. /\ UNCHANGED <<flash, ram, powered, outdated, defect, phase, row>>
        /\ failed' \in {failed, 0} /\ boots' \in {boots, 0}
        /\ wd' = wd \/ (wd < Settled /\ wd' = wd + 1)
    BY <1>3 DEF Loop, RunEach30Seconds, ClearRTC, NetworkChange
  <2>2. firstLoop' \in BOOLEAN /\ net' \in BOOLEAN
    BY <1>3, Zenon
    DEF Loop, RunEach30Seconds, ClearRTC, NetworkChange, IInv, Truth
  <2>3. Truth'
    BY <2>1, <2>2, Zenon DEF IInv, Truth
  <2>4. Counts'
    BY <2>1, Numbers, SMT DEF IInv, Counts, Settled
  <2> QED
    BY <2>1, <2>3, <2>4 DEF IInv, Sets, Loaded
<1>4. CASE PowerFailure \/ Upgrade
  <2>1. /\ UNCHANGED <<flash, ram, failed, boots, firstLoop, wd, net, defect>>
        /\ phase' = "off" /\ row' = 0
        /\ powered' \in {powered, FALSE} /\ outdated' \in {outdated, TRUE}
    BY <1>4 DEF PowerFailure, Upgrade
  <2>2. Truth'
    BY <2>1, Zenon DEF IInv, Truth
  <2>3. Counts'
    BY <2>1, Numbers, SMT DEF IInv, Counts
  <2> QED
    BY <2>1, <2>2, <2>3 DEF IInv, Sets, Loaded
<1>5. ASSUME NEW i \in Items, SavePage(i) PROVE IInv'
  <2>1. /\ flash' = ram' /\ ram' \in {ram \ {i}, ram \cup {i}}
        /\ UNCHANGED <<failed, boots, powered, phase, firstLoop, wd, net,
                       outdated, defect, row>>
    BY <1>5 DEF SavePage
  <2>2. Sets' /\ Loaded'
    BY <2>1 DEF IInv, Sets, Loaded, AtMostOne
  <2>3. Truth'
    BY <2>1, Zenon DEF IInv, Truth
  <2>4. Counts'
    BY <2>1 DEF IInv, Counts
  <2> QED
    BY <2>2, <2>3, <2>4 DEF IInv
<1>6. CASE UNCHANGED vars
  <2>1. Truth'
    BY <1>6, Zenon DEF vars, IInv, Truth
  <2> QED
    BY <1>6, <2>1 DEF vars, IInv, Sets, Counts, Loaded
<1> QED
  BY <1>1, <1>2, <1>3, <1>4, <1>5, <1>6, Zenon DEF Next

LEMMA InvAlways == Spec => []IInv
BY InvInit, InvStep, PTL DEF Spec

\* The counters stay in their bytes and the settings are those of items.
THEOREM TypeCorrect == Spec => []TypeOK
<1>1. IInv => TypeOK
  BY InvImplies
<1> QED
  BY <1>1, InvAlways, PTL

\* No boot leaves out more than one of the enabled items, however many tasks,
\* controllers and notifications there are and how high the count is.
THEOREM OneLeftOut == Spec => []AtMostOneLeftOut
<1>1. IInv => AtMostOneLeftOut
  BY InvImplies
<1> QED
  BY <1>1, InvAlways, PTL

-----------------------------------------------------------------------------
\* The number with which disablePlugin() and its likes leave out that item.
Position(x, E) ==
    LET t == Cardinality(E \cap Tasks)
        c == Cardinality(E \cap Controllers)
    IN  IF x \in Tasks THEN Rank(x, E \cap Tasks)
        ELSE IF x \in Controllers THEN t + Rank(x, E \cap Controllers)
        ELSE t + c + Rank(x, E \cap Notifications)

LEMMA KindsDisjoint ==
    /\ Tasks \cap Controllers = {} /\ Tasks \cap Notifications = {}
    /\ Controllers \cap Notifications = {}
<1>1. ASSUME NEW i \in Items PROVE ~(i < i)
  <2>1. i \in Nat
    BY BootGuardAssumption
  <2> QED
    BY <2>1, SMT
<1>2. /\ \A t \in Tasks, i \in Controllers \cup Notifications : t < i
      /\ \A c \in Controllers, n \in Notifications : c < n
  BY BootGuardAssumption
<1> QED
  BY <1>1, <1>2 DEF Items

\* There are no more positions than items.
LEMMA KindsAddUp ==
    ASSUME NEW E \in SUBSET Items
    PROVE  Cardinality(E \cap Tasks) + Cardinality(E \cap Controllers)
             + Cardinality(E \cap Notifications) <= Cardinality(Items)
<1> DEFINE T == E \cap Tasks
           C == E \cap Controllers
           N == E \cap Notifications
<1>1. /\ T \in SUBSET Items /\ C \in SUBSET Items /\ N \in SUBSET Items
      /\ T \cup C \in SUBSET Items /\ Items \in SUBSET Items
      /\ T \cap C = {} /\ (T \cup C) \cap N = {} /\ (T \cup C) \cup N = E
  BY KindsDisjoint DEF Items
<1> HIDE DEF T, C, N
<1>2. /\ IsFiniteSet(T) /\ IsFiniteSet(C) /\ IsFiniteSet(N)
      /\ IsFiniteSet(T \cup C) /\ IsFiniteSet(Items)
      /\ Cardinality(T) \in Nat /\ Cardinality(C) \in Nat
      /\ Cardinality(N) \in Nat /\ Cardinality(Items) \in Nat
      /\ Cardinality(E) \in Nat /\ Cardinality(T \cup C) \in Nat
  BY <1>1, ItemSets
<1>3. Cardinality({}) = 0
  BY FS_EmptySet
<1>4. Cardinality(T \cup C) = Cardinality(T) + Cardinality(C) - 0
  BY <1>1, <1>2, <1>3, FS_Union
<1>5. Cardinality(E) = Cardinality(T \cup C) + Cardinality(N) - 0
  BY <1>1, <1>2, <1>3, FS_Union
<1>6. Cardinality(E) <= Cardinality(Items)
  BY <1>2, FS_Subset
<1> QED
  BY <1>2, <1>4, <1>5, <1>6, SMT DEF T, C, N

LEMMA PositionFinds ==
    ASSUME NEW E \in SUBSET Items, NEW x \in E
    PROVE  /\ Position(x, E) \in 1..Cardinality(Items)
           /\ x \notin LeaveOut(Position(x, E), E)
<1> DEFINE t == Cardinality(E \cap Tasks)
           c == Cardinality(E \cap Controllers)
           m == Cardinality(E \cap Notifications)
           n == Position(x, E)
           afterTasks == Remaining(n, Tasks, E)
           afterControllers == Remaining(afterTasks, Controllers, E)
           X == Without(n, Tasks, E)
           Y == Without(afterTasks, Controllers, X)
           Z == Without(afterControllers, Notifications, Y)
<1>1. LeaveOut(n, E) = Z
  BY DEF LeaveOut
<1>2. /\ Tasks \in SUBSET Items /\ Controllers \in SUBSET Items
      /\ Notifications \in SUBSET Items
  BY DEF Items
<1>3. t \in Nat /\ c \in Nat /\ m \in Nat /\ Cardinality(Items) \in Nat
        /\ t + c + m <= Cardinality(Items)
  BY <1>2, ItemSets, KindsAddUp
<1>4. /\ afterTasks = IF n > t THEN n - t ELSE 0
      /\ afterControllers = IF afterTasks > c THEN afterTasks - c ELSE 0
  BY DEF Remaining
<1>5. ASSUME NEW kind \in SUBSET Items, x \in kind
      PROVE  /\ Rank(x, E \cap kind) \in 1..Cardinality(E \cap kind)
             /\ x \notin Without(Rank(x, E \cap kind), kind, E)
  <2>1. E \cap kind \in SUBSET Items /\ x \in E \cap kind
    BY <1>5
  <2>2. Rank(x, E \cap kind) \in 1..Cardinality(E \cap kind)
    BY <2>1, RankBounds
  <2> QED
    BY <2>1, <2>2 DEF Without
<1>6. X \subseteq E /\ Y \subseteq X /\ Z \subseteq Y
  BY DEF Without
<1>7. x \in Tasks \/ x \in Controllers \/ x \in Notifications
  BY DEF Items
<1>8. CASE x \in Tasks
  <2>1. n = Rank(x, E \cap Tasks)
    BY <1>8 DEF Position
  <2>2. n \in 1..t /\ x \notin X
    BY <1>2, <1>5, <1>8, <2>1
  <2>3. n \in 1..Cardinality(Items)
    <3> HIDE DEF n, t, c, m
    <3> QED
      BY <1>3, <2>2, SMT
  <2> QED
    BY <1>1, <1>6, <2>2, <2>3
<1>9. CASE x \in Controllers
  <2> DEFINE r == Rank(x, E \cap Controllers)
  <2>1. n = t + r
    BY <1>9, KindsDisjoint DEF Position
  <2>2. r \in 1..c /\ x \notin Without(r, Controllers, E)
    BY <1>2, <1>5, <1>9
  <2>3. /\ afterTasks = r /\ n \notin 1..t /\ n \in Nat
        /\ n \in 1..Cardinality(Items)
    <3> HIDE DEF n, t, c, m, r, afterTasks
    <3> QED
      BY <1>3, <1>4, <2>1, <2>2, SMT
  <2>4. X = E
    BY <1>2, <2>3, WithoutOne
  <2> HIDE DEF X
  <2>5. x \notin Y
    BY <2>2, <2>3, <2>4
  <2> QED
    BY <1>1, <1>6, <2>3, <2>5
<1>10. CASE x \in Notifications
  <2> DEFINE r == Rank(x, E \cap Notifications)
  <2>1. n = t + c + r
    BY <1>10, KindsDisjoint DEF Position
  <2>2. r \in 1..m /\ x \notin Without(r, Notifications, E)
    BY <1>2, <1>5, <1>10
  <2>3. /\ n \notin 1..t /\ n \in Nat /\ n \in 1..Cardinality(Items)
        /\ afterTasks \notin 1..c /\ afterTasks \in Nat
        /\ afterControllers = r
    <3> HIDE DEF n, t, c, m, r, afterTasks, afterControllers
    <3>1. afterTasks = c + r
      BY <1>3, <1>4, <2>1, <2>2, SMT
    <3> QED
      BY <1>3, <1>4, <2>1, <2>2, <3>1, SMT
  <2>4. X = E
    BY <1>2, <2>3, WithoutOne
  <2> HIDE DEF X
  <2>5. Y = E
    BY <1>2, <2>3, <2>4, WithoutOne
  <2> HIDE DEF Y
  <2>6. x \notin Z
    BY <2>2, <2>3, <2>5
  <2> QED
    BY <1>1, <2>3, <2>6
<1> QED
  BY <1>7, <1>8, <1>9, <1>10

-----------------------------------------------------------------------------
\* The count at which that item is left out, and how far the count is from
\* the one before it came to that, going up and starting again at 0.
Goal(x) == Limit + Position(x, flash)

Dist(f, g) == IF f >= g THEN f - g ELSE f - g + Bytes

LEMMA GoalRange ==
    ASSUME NEW x \in flash, flash \in SUBSET Items
    PROVE  Goal(x) \in 1..(Bytes - 1) /\ Goal(x) > Limit
<1> DEFINE p == Position(x, flash)
<1>1. p \in 1..Cardinality(Items)
  BY PositionFinds
<1>2. Cardinality(Items) \in Nat
  BY ItemSets
<1> HIDE DEF p
<1>3. Limit + p \in 1..(Bytes - 1) /\ Limit + p > Limit
  BY <1>1, <1>2, BootGuardAssumption, SMT
<1> QED
  BY <1>3 DEF Goal, p

LEMMA DistRange ==
    ASSUME NEW f \in 0..(Bytes - 1), NEW g \in 1..(Bytes - 1)
    PROVE  Dist(f, g) \in 0..(Bytes - 1)
BY Numbers, SMT DEF Dist

\* A boot that does not reach the goal is one further from it.
LEMMA DistGrows ==
    ASSUME NEW f \in 0..(Bytes - 1), NEW g \in 1..(Bytes - 1),
           CountBoot(f) # g
    PROVE  Dist(CountBoot(f), g) = Dist(f, g) + 1
BY Numbers, SMT DEF Dist, CountBoot

\* Crashes in a row need boots in a row, with the power on and no new build.
RowIsRow == row > 0 => phase # "loop" /\ powered /\ ~outdated

Awake == phase # "off" => powered /\ ~outdated /\ ram \subseteq flash

\* The second condition of the search is implied by the first.
Counted == failed <= boots \/ boots > Limit

\* With a single culprit, each crash was with a count that did not find it:
\* there were no more of them than the count has come from the goal.  The
\* first boot of a new build is one more, after which the goal may be new.
Search(x) ==
    /\ row <= Bytes
    /\ phase = "off" => row <= Dist(failed, Goal(x)) + 1
    /\ phase = "setup" =>
          IF failed = Goal(x) THEN x \notin ram \/ row = 0
                              ELSE row <= Dist(failed, Goal(x))

SInv ==
    /\ RowIsRow /\ Counted /\ Awake
    /\ \A x \in flash : SetupCulprits = {x} => Search(x)

\* Nothing is to be shown while there was no crash.
LEMMA SearchAtRest ==
    ASSUME IInv, row = 0, NEW x \in flash PROVE Search(x)
<1>1. /\ failed \in 0..(Bytes - 1) /\ flash \in SUBSET Items
  BY DEF IInv, Sets, Counts
<1>2. Dist(failed, Goal(x)) \in 0..(Bytes - 1)
  BY <1>1, GoalRange, DistRange
<1> QED
  BY <1>2, Numbers, SMT DEF Search

LEMMA SearchFinds == IInv /\ SInv => FoundInTime
<1> SUFFICES ASSUME IInv, SInv, Cardinality(SetupCulprits) = 1
             PROVE  row <= Bytes
  BY DEF FoundInTime
<1>1. SetupCulprits \in SUBSET Items
  BY DEF SetupCulprits, IInv, Sets
<1>2. PICK x : SetupCulprits = {x}
  BY <1>1, ItemSets, FS_Singleton
<1>3. x \in flash
  BY <1>2 DEF SetupCulprits
<1> QED
  BY <1>2, <1>3 DEF SInv, Search

LEMMA SInit == Init => SInv
<1> SUFFICES ASSUME Init PROVE SInv
  OBVIOUS
<1>1. IInv /\ row = 0 /\ phase = "off" /\ failed = 0 /\ boots = 0
  BY InvInit DEF Init
<1>2. RowIsRow
  BY <1>1, SMT DEF RowIsRow
<1>3. Counted
  BY <1>1, SMT DEF Counted
<1> QED
  BY <1>1, <1>2, <1>3, SearchAtRest DEF SInv, Awake

\* A step after which there was no crash keeps what is left.
LEMMA RestKeeps ==
    ASSUME IInv', row' = 0, Counted', Awake' PROVE SInv'
<1>1. RowIsRow'
  BY SMT DEF RowIsRow
<1>2. ASSUME NEW x \in flash' PROVE Search(x)'
  <2>1. /\ failed' \in 0..(Bytes - 1) /\ flash' \in SUBSET Items
    BY DEF IInv, Sets, Counts
  <2>2. Goal(x)' \in 1..(Bytes - 1)
    <3>1. Position(x, flash') \in 1..Cardinality(Items)
      BY <1>2, <2>1, PositionFinds
    <3>2. Cardinality(Items) \in Nat
      BY ItemSets
    <3> DEFINE p == Position(x, flash')
    <3>3. Goal(x)' = Limit + p
      BY DEF Goal
    <3> HIDE DEF p
    <3> QED
      BY <3>1, <3>2, <3>3, BootGuardAssumption, SMT DEF p
  <2>3. Dist(failed', Goal(x)') \in 0..(Bytes - 1)
    BY <2>1, <2>2, DistRange
  <2> QED
    BY <2>3, Numbers, SMT DEF Search
<1> QED
  BY <1>1, <1>2 DEF SInv

LEMMA CountedBoot == ASSUME IInv, Counted, Boot PROVE Counted'
<1>1. CASE powered
  <2>1. /\ failed' = CountBoot(failed)
        /\ boots' = IF boots > Limit THEN boots ELSE boots + 1
    BY <1>1 DEF Boot
  <2> QED
    BY <2>1, Numbers, SMT DEF IInv, Counts, Counted, CountBoot
<1>2. CASE ~powered
  <2>1. failed' = 0 /\ boots' = 0
    BY <1>2 DEF Boot
  <2> QED
    BY <2>1, SMT DEF Counted
<1> QED
  BY <1>1, <1>2

\* A boot that reaches the goal leaves the culprit out; another one goes on.
LEMMA SearchBoots ==
    ASSUME IInv, IInv', SInv, Boot, row > 0, Counted',
           NEW x \in flash, Search(x)
    PROVE  Search(x)'
<1>1. powered /\ ~outdated
  BY DEF SInv, RowIsRow
<1>2. /\ failed' = CountBoot(failed) /\ flash' = flash /\ row' = row
      /\ phase = "off" /\ phase' = "setup"
      /\ ram' = LoadedSettings(failed', boots')
  BY <1>1 DEF Boot
<1>3. Goal(x)' = Goal(x)
  BY <1>2 DEF Goal
<1>4. /\ failed \in 0..(Bytes - 1) /\ flash \in SUBSET Items
      /\ row \in Nat /\ failed' \in 0..(Bytes - 1) /\ boots' \in Nat
  BY Numbers, SMT DEF IInv, Sets, Counts
<1>5. Goal(x) \in 1..(Bytes - 1) /\ Goal(x) > Limit
  BY <1>4, GoalRange
<1>6. row <= Bytes /\ row <= Dist(failed, Goal(x)) + 1
  BY <1>2 DEF Search
<1>7. CASE failed' = Goal(x)
  <2>1. boots' > Limit
    BY <1>4, <1>5, <1>7, Numbers, SMT DEF Counted
  <2>2. Searching(failed', boots')
    BY <1>5, <1>7, <2>1 DEF Searching
  <2>3. Goal(x) - Limit = Position(x, flash)
    <3> DEFINE p == Position(x, flash)
    <3>1. p \in 1..Cardinality(Items) /\ Cardinality(Items) \in Nat
      BY <1>4, PositionFinds, ItemSets
    <3> HIDE DEF p
    <3>2. p \in Nat
      BY <3>1, SMT
    <3>3. (Limit + p) - Limit = p
      BY <3>2, Numbers, SMT
    <3> QED
      BY <3>3 DEF Goal, p
  <2>4. ram' = LeaveOut(Position(x, flash), flash)
    BY <1>2, <1>7, <2>2, <2>3 DEF LoadedSettings
  <2>5. x \notin ram'
    BY <1>4, <2>4, PositionFinds
  <2> QED
    BY <1>2, <1>3, <1>6, <1>7, <2>5 DEF Search
<1>8. CASE failed' # Goal(x)
  <2>1. Dist(failed', Goal(x)) = Dist(failed, Goal(x)) + 1
    BY <1>2, <1>4, <1>5, <1>8, DistGrows
  <2> QED
    BY <1>2, <1>3, <1>6, <1>8, <2>1 DEF Search
<1> QED
  BY <1>7, <1>8

\* A crash in setup() is the culprit's: it has not been left out.
LEMMA SearchCrashes ==
    ASSUME IInv, SInv, CrashInSetup, NEW x \in flash, SetupCulprits = {x},
           Search(x)
    PROVE  Search(x)'
<1>1. /\ UNCHANGED <<flash, failed>> /\ phase = "setup" /\ phase' = "off"
      /\ row' = IF row <= Bytes THEN row + 1 ELSE row
  BY DEF CrashInSetup
<1>2. PICK i \in ram : defect[i] = "setup"
  BY DEF CrashInSetup, Crashes
<1>3. x \in ram
  BY <1>1, <1>2 DEF SInv, Awake, SetupCulprits
<1>4. Goal(x)' = Goal(x)
  BY <1>1 DEF Goal
<1>5. /\ failed \in 0..(Bytes - 1) /\ flash \in SUBSET Items /\ row \in Nat
  BY Numbers, SMT DEF IInv, Sets, Counts
<1>6. Goal(x) \in 1..(Bytes - 1)
  BY <1>5, GoalRange
<1> DEFINE d == Dist(failed, Goal(x))
<1>7. d \in 0..(Bytes - 1)
  BY <1>5, <1>6, DistRange
<1>8. row <= d
  <2>1. CASE failed = Goal(x)
    <3>1. row = 0
      BY <1>1, <1>3, <2>1 DEF Search
    <3> HIDE DEF d
    <3> QED
      BY <1>7, <3>1, SMT
  <2>2. CASE failed # Goal(x)
    BY <1>1, <2>2 DEF Search
  <2> QED
    BY <2>1, <2>2
<1>9. row' <= Bytes /\ row' <= d + 1
  <2> HIDE DEF d
  <2> QED
    BY <1>1, <1>5, <1>7, <1>8, Numbers, SMT
<1> QED
  BY <1>1, <1>4, <1>9 DEF Search

LEMMA SStep == IInv /\ IInv' /\ SInv /\ [Next]_vars => SInv'
<1> SUFFICES ASSUME IInv, IInv', SInv, [Next]_vars PROVE SInv'
  OBVIOUS
<1>1. CASE Boot
  <2>1. Counted'
    BY <1>1, CountedBoot DEF SInv
  <2>2. Awake'
    BY <1>1, BootLoads DEF Awake, Boot
  <2>3. CASE row = 0
    BY <1>1, <2>1, <2>2, <2>3, RestKeeps DEF Boot
  <2>4. CASE row # 0
    <3>1. row > 0
      BY <2>4, SMT DEF IInv, Counts
    <3>2. powered /\ ~outdated
      BY <3>1 DEF SInv, RowIsRow
    <3>3. /\ flash' = flash /\ row' = row /\ phase' = "setup" /\ powered'
          /\ ~outdated' /\ UNCHANGED defect
      BY <1>1, <3>2 DEF Boot
    <3>4. RowIsRow'
      BY <3>3 DEF RowIsRow
    <3>5. ASSUME NEW x \in flash', SetupCulprits' = {x} PROVE Search(x)'
      <4>1. SetupCulprits = {x} /\ x \in flash
        BY <3>3, <3>5 DEF SetupCulprits
      <4> QED
        BY <1>1, <2>1, <3>1, <4>1, SearchBoots DEF SInv
    <3> QED
      BY <2>1, <2>2, <3>4, <3>5 DEF SInv
  <2> QED
    BY <2>3, <2>4
<1>2. CASE CrashInSetup
  <2>1. /\ UNCHANGED <<flash, ram, failed, boots, powered, outdated, defect>>
        /\ phase = "setup" /\ phase' = "off"
    BY <1>2 DEF CrashInSetup
  <2>2. RowIsRow' /\ Counted' /\ Awake'
    BY <2>1 DEF SInv, RowIsRow, Counted, Awake
  <2>3. ASSUME NEW x \in flash', SetupCulprits' = {x} PROVE Search(x)'
    <3>1. SetupCulprits = {x} /\ x \in flash
      BY <2>1, <2>3 DEF SetupCulprits
    <3> QED
      BY <1>2, <3>1, SearchCrashes DEF SInv
  <2> QED
    BY <2>2, <2>3 DEF SInv
<1>3. ASSUME phase = "loop" PROVE row = 0
  BY <1>3, SMT DEF IInv, Counts, SInv, RowIsRow
<1>4. CASE SetupDone \/ CrashInLoop \/ Restart \/ RunEach30Seconds
            \/ NetworkChange
  <2>1. /\ UNCHANGED <<flash, ram, failed, boots, powered, outdated>>
        /\ row' = 0 /\ phase # "off"
    BY <1>3, <1>4
    DEF SetupDone, CrashInLoop, Restart, RunEach30Seconds, NetworkChange
  <2>2. Counted' /\ Awake'
    BY <2>1 DEF SInv, Counted, Awake
  <2> QED
    BY <2>1, <2>2, RestKeeps
<1>5. CASE Loop \/ ClearRTC
  <2>1. /\ UNCHANGED <<flash, ram, powered, outdated, phase>>
        /\ row' = 0 /\ failed' = 0 /\ boots' \in {boots, 0}
    BY <1>3, <1>5 DEF Loop, ClearRTC
  <2>2. Counted'
    BY <2>1, Numbers, SMT DEF IInv, Counts, Counted
  <2>3. Awake'
    BY <2>1 DEF SInv, Awake
  <2> QED
    BY <2>1, <2>2, <2>3, RestKeeps
<1>6. CASE PowerFailure \/ Upgrade
  <2>1. UNCHANGED <<failed, boots>> /\ row' = 0 /\ phase' = "off"
    BY <1>6 DEF PowerFailure, Upgrade
  <2>2. Counted' /\ Awake'
    BY <2>1 DEF SInv, Counted, Awake
  <2> QED
    BY <2>1, <2>2, RestKeeps
<1>7. ASSUME NEW i \in Items, SavePage(i) PROVE SInv'
  <2>1. /\ UNCHANGED <<failed, boots, powered, outdated, phase>>
        /\ row' = 0 /\ flash' = ram' /\ phase # "off"
    BY <1>3, <1>7 DEF SavePage
  <2>2. Counted' /\ Awake'
    BY <2>1 DEF SInv, Counted, Awake
  <2> QED
    BY <2>1, <2>2, RestKeeps
<1>8. CASE UNCHANGED vars
  <2>1. UNCHANGED <<flash, ram, failed, boots, powered, phase, outdated,
                    defect, row>>
    BY <1>8 DEF vars
  <2>2. RowIsRow' /\ Counted' /\ Awake'
    BY <2>1 DEF SInv, RowIsRow, Counted, Awake
  <2>3. ASSUME NEW x \in flash', SetupCulprits' = {x} PROVE Search(x)'
    <3>1. SetupCulprits = {x} /\ x \in flash
      BY <2>1, <2>3 DEF SetupCulprits
    <3>2. Search(x)
      BY <3>1 DEF SInv
    <3> QED
      BY <2>1, <3>2 DEF Search, Goal
  <2> QED
    BY <2>2, <2>3 DEF SInv
<1> QED
  BY <1>1, <1>2, <1>4, <1>5, <1>6, <1>7, <1>8, Zenon DEF Next

LEMMA SAlways == Spec => []SInv
BY InvAlways, SInit, SStep, PTL DEF Spec

\* A single item that makes the unit crash in setup() is left out before the
\* count has gone round once, for any number of items, any limit and any
\* history of restarts, saved pages, new builds and cleared counters.
THEOREM CulpritIsFound == Spec => []FoundInTime
<1>1. IInv /\ SInv => FoundInTime
  BY SearchFinds
<1> QED
  BY <1>1, InvAlways, SAlways, PTL

=============================================================================
