---------------------------- MODULE EvenWearSort ----------------------------
(***************************************************************************)
(* The in-place sort by which ActuatorGroup keeps its priority order in    *)
(* EvenWear mode (framework/.../ActuatorGroup.st), one comparison per step *)
(* and with the early exit of the code.  ActuatorGroup.tla uses the order  *)
(* it produces.                                                            *)
(***************************************************************************)
EXTENDS Integers

CONSTANTS
    N,        \* actuatorNum
    Hours     \* values of runHours

ASSUME SortAssumption == N \in Nat \ {0} /\ Hours \subseteq Nat

Slots == 1..N

VARIABLES
    runHours, offline,   \* inputs of the scan; offline: faulted or interlocked
    start,               \* the priority order before the sort
    sortedIdx, i, j, swapped
inputs == <<runHours, offline, start>>
vars == <<inputs, sortedIdx, i, j, swapped>>

IsPermutation(order) ==
    /\ order \in [Slots -> Slots]
    /\ \A k, l \in Slots : order[k] = order[l] => k = l
    /\ \A s \in Slots : \E k \in Slots : order[k] = s

Init ==
    /\ runHours \in [Slots -> Hours]
    /\ offline \in [Slots -> BOOLEAN]
    /\ start \in {order \in [Slots -> Slots] : IsPermutation(order)}
    /\ sortedIdx = start
    /\ i = 1 /\ j = 1 /\ swapped = FALSE

(* Whether slot a must come after slot b. *)
GoesAfter(a, b) ==
    \/ offline[a] /\ ~offline[b]
    \/ ~offline[a] /\ ~offline[b] /\ runHours[a] > runHours[b]

(* Mutant: an exit after any pass. *)
HastyNextPass ==
    /\ i <= N - 1 /\ j > N - i
    /\ i' = N /\ j' = 1 /\ swapped' = FALSE
    /\ UNCHANGED <<inputs, sortedIdx>>

Exchanged(order, k) == [order EXCEPT ![k] = order[k + 1], ![k + 1] = order[k]]

Compare ==
    /\ i <= N - 1 /\ j <= N - i
    /\ IF GoesAfter(sortedIdx[j], sortedIdx[j + 1])
       THEN sortedIdx' = Exchanged(sortedIdx, j) /\ swapped' = TRUE
       ELSE UNCHANGED <<sortedIdx, swapped>>
    /\ j' = j + 1
    /\ UNCHANGED <<inputs, i>>

(* End of a pass; the sort stops after one that exchanged nothing. *)
NextPass ==
    /\ i <= N - 1 /\ j > N - i
    /\ i' = IF swapped THEN i + 1 ELSE N
    /\ j' = 1 /\ swapped' = FALSE
    /\ UNCHANGED <<inputs, sortedIdx>>

Next == Compare \/ NextPass
Spec == Init /\ [][Next]_vars

Finished == i >= N

-----------------------------------------------------------------------------
(* Type invariant; the comparison never leaves the array. *)
TypeOK ==
    /\ runHours \in [Slots -> Hours]
    /\ offline \in [Slots -> BOOLEAN]
    /\ sortedIdx \in [Slots -> Slots]
    /\ i \in 1..N
    /\ j \in 1..N + 1
    /\ i < N => j <= N - i + 1
    /\ swapped \in BOOLEAN

(* The sort loses and repeats no actuator, at any comparison               *)
(* (ActuatorGroup.st:279-281).                                             *)
OrderIsPermutation == IsPermutation(sortedIdx)

(* When it ends, with or without the early exit, the actuators that can    *)
(* run come first, by run hours (ActuatorGroup.st:257-261), and those of   *)
(* equal rank keep the order they had: the order of a group with equal     *)
(* hours does not change from scan to scan.                                *)
Sorted == \A k, l \in Slots : k < l => ~GoesAfter(sortedIdx[k], sortedIdx[l])
Stable ==
    \A k, l \in Slots :
        k < l /\ ~GoesAfter(start[k], start[l]) /\ ~GoesAfter(start[l], start[k])
        => \E m, n \in Slots : m < n /\ sortedIdx[m] = start[k] /\ sortedIdx[n] = start[l]
EndsSortedAndStable == Finished => Sorted /\ Stable
=============================================================================
