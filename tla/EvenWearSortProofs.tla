------------------------- MODULE EvenWearSortProofs -------------------------
(***************************************************************************)
(* The sort of ActuatorGroup, for every number of actuators.               *)
(***************************************************************************)
EXTENDS EvenWearSort, TLAPS

(* Exchanging two neighbours of a permutation gives a permutation          *)
(* (ActuatorGroup.st:279-281).                                             *)
LEMMA ExchangePermutes ==
    ASSUME NEW order, IsPermutation(order), NEW k \in 1..(N - 1)
    PROVE  IsPermutation(Exchanged(order, k))
<1>1. k \in Slots /\ k + 1 \in Slots /\ k # k + 1
    BY SortAssumption DEF Slots
<1> DEFINE new == Exchanged(order, k)
<1>2. /\ new \in [Slots -> Slots]
      /\ new[k] = order[k + 1] /\ new[k + 1] = order[k]
      /\ \A l \in Slots \ {k, k + 1} : new[l] = order[l]
    BY <1>1 DEF IsPermutation, Exchanged
<1>3. \A l, m \in Slots : new[l] = new[m] => l = m
  <2> SUFFICES ASSUME NEW l \in Slots, NEW m \in Slots, new[l] = new[m]
               PROVE  l = m
      OBVIOUS
  <2> DEFINE src(x) == IF x = k THEN k + 1 ELSE IF x = k + 1 THEN k ELSE x
  <2>1. \A x \in Slots : src(x) \in Slots /\ new[x] = order[src(x)]
      BY <1>1, <1>2
  <2>2. src(l) = src(m)
      BY <2>1 DEF IsPermutation
  <2> QED BY <1>1, <2>2
<1>4. \A s \in Slots : \E l \in Slots : new[l] = s
  <2> SUFFICES ASSUME NEW s \in Slots
               PROVE  \E l \in Slots : new[l] = s
      OBVIOUS
  <2>1. PICK l \in Slots : order[l] = s
      BY DEF IsPermutation
  <2>2. CASE l = k      BY <1>1, <1>2, <2>1, <2>2
  <2>3. CASE l = k + 1  BY <1>1, <1>2, <2>1, <2>3
  <2>4. CASE l \notin {k, k + 1}  BY <1>2, <2>1, <2>4
  <2> QED BY <2>2, <2>3, <2>4
<1> QED BY <1>2, <1>3, <1>4 DEF IsPermutation

(* The inductive invariant: the counters of the loops stay in their ranges *)
(* and the order is a permutation.                                         *)
SortInvariant == TypeOK /\ OrderIsPermutation

LEMMA SortInit == Init => SortInvariant
<1> SUFFICES ASSUME Init PROVE SortInvariant
    OBVIOUS
<1>1. OrderIsPermutation
    BY DEF Init, OrderIsPermutation
<1>2. swapped \in BOOLEAN /\ offline \in [Slots -> BOOLEAN]
    BY Zenon DEF Init
<1>3. i = 1 /\ j = 1 /\ i \in 1..N /\ j \in 1..N + 1 /\ (i < N => j <= N - i + 1)
    BY SortAssumption DEF Init
<1>4. TypeOK
    BY <1>1, <1>2, <1>3 DEF Init, TypeOK, OrderIsPermutation, IsPermutation
<1> QED BY <1>1, <1>4 DEF SortInvariant

LEMMA SortStep == SortInvariant /\ [Next]_vars => SortInvariant'
<1> SUFFICES ASSUME SortInvariant, [Next]_vars PROVE SortInvariant'
    OBVIOUS
<1> USE SortAssumption DEF SortInvariant
<1>1. CASE Compare
  <2>1. j \in 1..(N - 1) /\ i' = i /\ j' = j + 1 /\ UNCHANGED inputs
      BY <1>1 DEF Compare, TypeOK
  <2>2. IsPermutation(sortedIdx')
    <3>1. CASE GoesAfter(sortedIdx[j], sortedIdx[j + 1])
        BY <1>1, <2>1, <3>1, ExchangePermutes DEF Compare, OrderIsPermutation
    <3>2. CASE ~GoesAfter(sortedIdx[j], sortedIdx[j + 1])
        BY <1>1, <3>2 DEF Compare, OrderIsPermutation
    <3> QED BY <3>1, <3>2
  <2>3. swapped' \in BOOLEAN
      BY <1>1 DEF Compare, TypeOK
  <2>4. i < N => j' <= N - i' + 1
      BY <1>1, <2>1 DEF Compare, TypeOK
  <2>5. TypeOK'
      BY <2>1, <2>2, <2>3, <2>4 DEF TypeOK, inputs, IsPermutation
  <2> QED BY <2>2, <2>5 DEF OrderIsPermutation, IsPermutation
<1>2. CASE NextPass
  <2>1. i' \in 1..N /\ j' \in 1..N + 1 /\ (i' < N => j' <= N - i' + 1)
      BY <1>2 DEF NextPass, TypeOK
  <2>2. swapped' \in BOOLEAN
      BY <1>2, Zenon DEF NextPass
  <2>3. TypeOK'
      BY <1>2, <2>1, <2>2 DEF NextPass, TypeOK, inputs
  <2> QED BY <1>2, <2>3 DEF NextPass, OrderIsPermutation, IsPermutation
<1>3. CASE UNCHANGED vars
    BY <1>3 DEF vars, inputs, TypeOK, OrderIsPermutation, IsPermutation
<1> QED BY <1>1, <1>2, <1>3 DEF Next

LEMMA SortInvariance == Spec => []SortInvariant
BY SortInit, SortStep, PTL DEF Spec

(* The loops stay inside the array (ActuatorGroup.st:269-284).             *)
THEOREM SortTypeCorrect == Spec => []TypeOK
BY SortInvariance, PTL DEF SortInvariant

(* No comparison of the sort loses or repeats an actuator                  *)
(* (ActuatorGroup.st:279-281).                                             *)
THEOREM SortPermutes == Spec => []OrderIsPermutation
BY SortInvariance, PTL DEF SortInvariant
-----------------------------------------------------------------------------
(* What ranks two slots is a total preorder.                               *)
Before(a, b) == ~GoesAfter(a, b)

LEMMA RankOrder ==
    ASSUME TypeOK, NEW a \in Slots, NEW b \in Slots, NEW c \in Slots
    PROVE  /\ Before(a, b) \/ Before(b, a)
           /\ Before(a, b) /\ Before(b, c) => Before(a, c)
<1>1. runHours[a] \in Int /\ runHours[b] \in Int /\ runHours[c] \in Int
  <2>1. runHours \in [Slots -> Hours]
    BY DEF TypeOK
  <2>2. runHours[a] \in Hours /\ runHours[b] \in Hours /\ runHours[c] \in Hours
    BY <2>1
  <2>3. \A h \in Hours : h \in Int
    BY SortAssumption
  <2> QED BY <2>2, <2>3, Zenon
<1>2. Before(a, b) \/ Before(b, a)
    BY <1>1 DEF Before, GoesAfter
<1>3. Before(a, b) /\ Before(b, c) => Before(a, c)
    BY <1>1 DEF Before, GoesAfter
<1> QED BY <1>2, <1>3

(* How far the sort has come.  Sunk: the places behind the present pass    *)
(* hold what belongs there.  Carried: the slot under comparison comes      *)
(* after those that the pass has left behind.  Untouched: a pass that has  *)
(* exchanged nothing has met slots in order.                               *)
Sunk == \A k, l \in Slots :
            k < l /\ l > N - i + 1 => Before(sortedIdx[k], sortedIdx[l])
Carried == i < N => \A k \in Slots : k < j => Before(sortedIdx[k], sortedIdx[j])
Untouched == i < N /\ ~swapped =>
                \A k, l \in Slots : k < l /\ l <= j => Before(sortedIdx[k], sortedIdx[l])
Progress == Sunk /\ Carried /\ Untouched /\ Stable

LEMMA ProgressInit == Init => Progress
<1> SUFFICES ASSUME Init PROVE Progress
    OBVIOUS
<1>1. i = 1 /\ j = 1 /\ sortedIdx = start
    BY DEF Init
<1>2. Sunk /\ Carried /\ Untouched
    BY <1>1, SortAssumption DEF Sunk, Carried, Untouched, Slots
<1>3. Stable
    BY <1>1 DEF Stable
<1> QED BY <1>2, <1>3 DEF Progress

(* A comparison keeps all of it (ActuatorGroup.st:270-282).                *)
LEMMA CompareProgress ==
    ASSUME SortInvariant, Progress, Compare
    PROVE  Progress'
<1> USE SortAssumption
<1>1. /\ i \in 1..(N - 1) /\ j \in 1..(N - i) /\ i' = i /\ j' = j + 1
      /\ runHours' = runHours /\ offline' = offline /\ start' = start
      /\ j \in Slots /\ j + 1 \in Slots
    BY DEF Compare, SortInvariant, TypeOK, inputs, Slots
<1>2. \A a, b \in Slots : Before(a, b)' <=> Before(a, b)
    BY <1>1 DEF Before, GoesAfter
<1>3. sortedIdx \in [Slots -> Slots]
    BY DEF SortInvariant, TypeOK
<1>4. CASE GoesAfter(sortedIdx[j], sortedIdx[j + 1])
  <2> DEFINE new == sortedIdx'
             from(k) == IF k = j THEN j + 1 ELSE IF k = j + 1 THEN j ELSE k
  <2>1. swapped' = TRUE /\ new = Exchanged(sortedIdx, j)
    BY <1>4 DEF Compare
  <2>2. \A k \in Slots : from(k) \in Slots /\ new[k] = sortedIdx[from(k)]
    BY <1>1, <1>3, <2>1 DEF Exchanged
  <2>3. new \in [Slots -> Slots]
    BY <1>1, <1>3, <2>1 DEF Exchanged
  <2>4. Before(sortedIdx[j + 1], sortedIdx[j])
    BY <1>1, <1>3, <1>4, RankOrder DEF SortInvariant, Before
  <2>5. Sunk'
    <3> SUFFICES ASSUME NEW k \in Slots, NEW l \in Slots, k < l, l > N - i + 1
                 PROVE  Before(new[k], new[l])
      BY <1>1, <1>2, <2>3 DEF Sunk
    <3>1. from(l) = l /\ from(k) < l
      BY <1>1 DEF Slots
    <3>2. Before(sortedIdx[from(k)], sortedIdx[l])
      BY <2>2, <3>1 DEF Progress, Sunk
    <3> QED BY <2>2, <3>1, <3>2
  <2>6. Carried'
    <3> SUFFICES ASSUME NEW k \in Slots, k < j + 1
                 PROVE  Before(new[k], new[j + 1])
      BY <1>1, <1>2, <2>3 DEF Carried
    <3>1. new[j + 1] = sortedIdx[j]
      BY <1>1, <2>2
    <3>2. CASE k = j
      BY <1>1, <2>2, <2>4, <3>1, <3>2
    <3>3. CASE k < j
      BY <1>1, <2>2, <3>1, <3>3 DEF Progress, Carried, Slots
    <3> QED BY <1>1, <3>2, <3>3 DEF Slots
  <2>7. Untouched'
    BY <2>1 DEF Untouched
  <2>8. Stable'
    <3> SUFFICES ASSUME NEW k \in Slots, NEW l \in Slots, k < l,
                        Before(start[k], start[l]), Before(start[l], start[k])
                 PROVE  \E m, n \in Slots : m < n /\ new[m] = start[k] /\ new[n] = start[l]
      BY <1>1 DEF Stable, Before, GoesAfter
    <3>1. PICK m \in Slots, n \in Slots :
              m < n /\ sortedIdx[m] = start[k] /\ sortedIdx[n] = start[l]
      BY DEF Progress, Stable, Before
    <3>2. ~(m = j /\ n = j + 1)
      BY <1>4, <3>1 DEF Before
    <3>3. from(m) < from(n)
      BY <1>1, <3>1, <3>2 DEF Slots
    <3>4. from(from(m)) = m /\ from(from(n)) = n
      BY <1>1
    <3> HIDE DEF from
    <3>5. new[from(m)] = start[k] /\ new[from(n)] = start[l]
      BY <2>2, <3>1, <3>4
    <3> QED BY <2>2, <3>3, <3>5
  <2> QED BY <2>5, <2>6, <2>7, <2>8 DEF Progress
<1>5. CASE ~GoesAfter(sortedIdx[j], sortedIdx[j + 1])
  <2>1. sortedIdx' = sortedIdx /\ swapped' = swapped
    BY <1>5 DEF Compare
  <2>2. Before(sortedIdx[j], sortedIdx[j + 1])
    BY <1>5 DEF Before
  <2>3. \A k \in Slots : k < j + 1 => Before(sortedIdx[k], sortedIdx[j + 1])
    <3> SUFFICES ASSUME NEW k \in Slots, k < j
                 PROVE  Before(sortedIdx[k], sortedIdx[j + 1])
      BY <1>1, <2>2 DEF Slots
    <3>1. Before(sortedIdx[k], sortedIdx[j])
      BY <1>1 DEF Progress, Carried
    <3>2. /\ sortedIdx[k] \in Slots /\ sortedIdx[j] \in Slots
          /\ sortedIdx[j + 1] \in Slots
      BY <1>1, <1>3
    <3> QED BY <2>2, <3>1, <3>2, RankOrder DEF SortInvariant
  <2>4. Sunk'
    BY <1>1, <1>2, <1>3, <2>1 DEF Progress, Sunk
  <2>5. Carried'
    BY <1>1, <1>2, <1>3, <2>1, <2>3 DEF Carried
  <2>6. Untouched'
    <3> SUFFICES ASSUME ~swapped, NEW k \in Slots, NEW l \in Slots, k < l, l <= j + 1
                 PROVE  Before(sortedIdx[k], sortedIdx[l])
      BY <1>1, <1>2, <1>3, <2>1 DEF Untouched
    <3>1. CASE l = j + 1
      BY <2>3, <3>1
    <3>2. CASE l <= j
      BY <1>1, <3>2 DEF Progress, Untouched
    <3> QED BY <1>1, <3>1, <3>2 DEF Slots
  <2>7. Stable'
    BY <1>1, <2>1 DEF Progress, Stable, GoesAfter
  <2> QED BY <2>4, <2>5, <2>6, <2>7 DEF Progress
<1> QED BY <1>4, <1>5

(* The end of a pass keeps it too: what the pass has carried is in place,  *)
(* and after a pass without an exchange everything is                      *)
(* (ActuatorGroup.st:264-284).                                             *)
LEMMA NextPassProgress ==
    ASSUME SortInvariant, Progress, NextPass
    PROVE  Progress'
<1> USE SortAssumption
<1>1. /\ i \in 1..(N - 1) /\ j = N - i + 1 /\ j \in Slots /\ j' = 1
      /\ runHours' = runHours /\ offline' = offline /\ start' = start
      /\ sortedIdx' = sortedIdx
      /\ i' = IF swapped THEN i + 1 ELSE N
    BY DEF NextPass, SortInvariant, TypeOK, inputs, Slots
<1>2. \A a, b \in Slots : Before(a, b)' <=> Before(a, b)
    BY <1>1 DEF Before, GoesAfter
<1>3. sortedIdx \in [Slots -> Slots]
    BY DEF SortInvariant, TypeOK
<1>4. Sunk'
  <2> SUFFICES ASSUME NEW k \in Slots, NEW l \in Slots, k < l, l > N - i' + 1
               PROVE  Before(sortedIdx[k], sortedIdx[l])
    BY <1>1, <1>2, <1>3 DEF Sunk
  <2>1. CASE l > N - i + 1
    BY <2>1 DEF Progress, Sunk
  <2>2. CASE l = N - i + 1
    BY <1>1, <2>2 DEF Progress, Carried
  <2>3. CASE l < N - i + 1
    <3>1. ~swapped
      BY <1>1, <2>3 DEF Slots
    <3> QED BY <1>1, <2>3, <3>1 DEF Progress, Untouched
  <2> QED BY <1>1, <2>1, <2>2, <2>3 DEF Slots
<1>5. Carried' /\ Untouched'
  BY <1>1 DEF Carried, Untouched, Slots
<1>6. Stable'
  BY <1>1 DEF Progress, Stable, GoesAfter
<1> QED BY <1>4, <1>5, <1>6 DEF Progress

LEMMA ProgressStep == SortInvariant /\ Progress /\ [Next]_vars => Progress'
<1>1. ASSUME UNCHANGED vars, Progress PROVE Progress'
  BY <1>1 DEF vars, inputs, Progress, Sunk, Carried, Untouched, Stable, Before, GoesAfter
<1> QED BY <1>1, CompareProgress, NextPassProgress DEF Next

(* Both exits of the sort leave the actuators in order, and those of equal *)
(* rank where they were to each other (ActuatorGroup.st:257-284).          *)
THEOREM SortCorrect == Spec => []EndsSortedAndStable
<1>1. SortInvariant /\ Progress => EndsSortedAndStable
  <2> SUFFICES ASSUME SortInvariant, Progress, Finished PROVE Sorted /\ Stable
    BY DEF EndsSortedAndStable
  <2>1. i = N
    BY SortAssumption DEF SortInvariant, TypeOK, Finished
  <2>2. Sorted
    BY <2>1, SortAssumption DEF Progress, Sunk, Sorted, Before, Slots
  <2> QED BY <2>2 DEF Progress
<1> QED BY <1>1, SortInvariance, ProgressInit, ProgressStep, PTL DEF Spec
=============================================================================
