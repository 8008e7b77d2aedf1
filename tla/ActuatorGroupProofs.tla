------------------------ MODULE ActuatorGroupProofs -------------------------
(***************************************************************************)
(* Theorems about the group with its actuators, for groups of any size,    *)
(* every plant and every configuration of the Actuator blocks.             *)
(***************************************************************************)
EXTENDS ActuatorGroup, FiniteSetTheorems, SequenceTheorems, WellFoundedInduction, TLAPS

-----------------------------------------------------------------------------
(* Minima. *)
LEMMA LeastNatural ==
  ASSUME NEW S \in SUBSET Nat, S # {}
  PROVE  \E m \in S : \A n \in S : m <= n
  <1> DEFINE R == OpToRel(<, Nat)
  <1>1. PICK m \in S : \A n \in S : <<n, m>> \notin R
    BY NatLessThanWellFounded, WFMin
  <1>2. ASSUME NEW n \in S PROVE m <= n
    <2>1. ~(n < m)
      BY <1>1 DEF OpToRel
    <2> QED BY <2>1
  <1> QED BY <1>2

LEMMA GreatestNatural ==
  ASSUME NEW S \in SUBSET Nat, S # {}, NEW b \in Nat, \A n \in S : n <= b
  PROVE  \E m \in S : \A n \in S : n <= m
  <1> DEFINE T == {x \in 0..b : b - x \in S}
  <1>1. T \in SUBSET Nat /\ T # {}
    <2>1. PICK n \in S : TRUE
      OBVIOUS
    <2>2. n \in Nat /\ b - n \in 0..b /\ b - (b - n) = n
      BY <2>1
    <2>3. b - n \in T
      BY <2>1, <2>2
    <2>4. T \in SUBSET Nat
      OBVIOUS
    <2> HIDE DEF T
    <2> QED BY <2>3, <2>4
  <1>2. PICK x \in T : \A y \in T : x <= y
    BY <1>1, LeastNatural
  <1>3. ASSUME NEW n \in S PROVE n <= b - x
    <2>1. n \in Nat /\ b - n \in 0..b /\ b - (b - n) = n
      OBVIOUS
    <2>2. b - n \in T
      BY <2>1
    <2>3. x <= b - n /\ x \in Nat
      BY <1>2, <2>2
    <2> QED BY <2>1, <2>3
  <1> QED BY <1>2, <1>3

-----------------------------------------------------------------------------
(* The actuators: a scan only enables what ran or was requested, and a     *)
(* request that is left stands with an actuator that runs.                 *)
Phased(b) == b.status = "EnablePhase" => b.enable
Follows(q, b) ==
    /\ q \in ActuatorMemory /\ Phased(q)
    /\ q.enable => b.enable \/ b.enableRequest
    /\ q.enableRequest => q.enable

LEMMA StatusMachineFollows ==
  ASSUME NEW b \in ActuatorMemory, Phased(b), NEW c \in ActuatorConfig,
         NEW e \in BOOLEAN, NEW d \in BOOLEAN
  PROVE  LET q == StatusMachine(b, c, e, d)
         IN /\ Follows(q, b)
            /\ q.status # "EnablePhase" => ~q.enableRequest
  <1>1. CASE b.status = "Disabled"
    BY <1>1 DEF StatusMachine, DisabledState, StartEnabling, Follows, Phased,
                ActuatorMemory, ActuatorConfig, ActuatorStatus
  <1>2. CASE b.status = "EnablePhase"
    BY <1>2 DEF StatusMachine, EnablePhaseState, StartDisabling, Follows, Phased,
                ActuatorMemory, ActuatorConfig, ActuatorStatus
  <1>3. CASE b.status = "Enabled"
    BY <1>3 DEF StatusMachine, EnabledState, StartDisabling, Follows, Phased,
                ActuatorMemory, ActuatorConfig, ActuatorStatus
  <1>4. CASE b.status = "DisablePhase"
    BY <1>4 DEF StatusMachine, DisablePhaseState, StartEnabling, Follows, Phased,
                ActuatorMemory, ActuatorConfig, ActuatorStatus
  <1> QED BY <1>1, <1>2, <1>3, <1>4 DEF ActuatorMemory, ActuatorStatus

LEMMA DiagnoseType ==
  ASSUME NEW b \in ActuatorMemory, NEW c \in ActuatorConfig, NEW in \in ActuatorInput,
         NEW e \in BOOLEAN, NEW d \in BOOLEAN, NEW t \in BOOLEAN
  PROVE  Diagnose(b, c, in, e, d, t) \in ActuatorMemory
  BY ZenonT(30) DEF Diagnose, ActuatorMemory, ActuatorConfig, ActuatorInput

LEMMA RunFollows ==
  ASSUME NEW b \in ActuatorMemory, Phased(b), NEW c \in ActuatorConfig,
         NEW in \in ActuatorInput, in.operationType = "Run"
  PROVE  Follows(ActuatorScan(b, c, in), b)
  <1> DEFINE t == ClockHandler(b, in)
             e == EnabledFeedback(t, c, in)
             d == DisabledFeedback(t, c, in)
             m == StatusMachine(t, c, e, d)
             z == t.timer = 0
             g == Diagnose(m, c, in, e, d, z)
             q == Actuate(g, c)
  <1>1. /\ t \in ActuatorMemory /\ Phased(t)
        /\ t.enable = b.enable /\ t.enableRequest = b.enableRequest
    BY DEF ClockHandler, ActuatorMemory, ActuatorInput, Phased
  <1> HIDE DEF t
  <1>2. e \in BOOLEAN /\ d \in BOOLEAN
    BY <1>1 DEF EnabledFeedback, DisabledFeedback, ActuatorMemory, ActuatorConfig,
                ActuatorInput, ActuatorFeedbackType
  <1> HIDE DEF e, d
  <1>3. Follows(m, t) /\ (m.status # "EnablePhase" => ~m.enableRequest)
    BY <1>1, <1>2, StatusMachineFollows
  <1>0. m \in ActuatorMemory /\ z \in BOOLEAN
    BY <1>3 DEF Follows
  <1> HIDE DEF m, z
  <1>4. /\ g \in ActuatorMemory /\ g.status = m.status /\ g.enable = m.enable
        /\ g.enableRequest = m.enableRequest
    <2>1. g \in ActuatorMemory
      BY <1>2, <1>0, DiagnoseType
    <2>2. /\ g.status = m.status /\ g.enable = m.enable
          /\ g.enableRequest = m.enableRequest
      BY <1>0 DEF Diagnose, ActuatorMemory
    <2> QED BY <2>1, <2>2
  <1> HIDE DEF g
  <1>5. /\ q \in ActuatorMemory /\ q.status = g.status /\ q.enableRequest = g.enableRequest
        /\ q.enable => g.enable
        /\ g.enable /\ g.status = "EnablePhase" => q.enable
        /\ q.enableRequest /\ g.enable => q.enable \/ g.status # "EnablePhase"
    BY <1>4, ZenonT(30) DEF Actuate, ActuatorMemory, ActuatorConfig, ActuatorActuationType
  <1> HIDE DEF q
  <1>6. Follows(q, b)
    BY <1>1, <1>3, <1>4, <1>5 DEF Follows, Phased
  <1>7. ActuatorScan(b, c, in) = q
    BY DEF ActuatorScan, Elaborate, q, g, z, m, e, d, t
  <1> QED BY <1>6, <1>7

(* Nothing is requested of an actuator that is off, or it would have been  *)
(* taken up: what the group finds after the calls of the actuators.        *)
AllFollow(A, M) == A \in [Slots -> ActuatorMemory] /\ \A i \in Slots : Follows(A[i], M[i])

LEMMA ScannedFollows ==
  ASSUME act \in [Slots -> ActuatorMemory], \A i \in Slots : Phased(act[i]),
         NEW clock \in BOOLEAN
  PROVE  AllFollow(Scanned(clock), act)
  <1> DEFINE in(i) == [operationType |-> "Run", clock |-> clock,
                       enabledSensor |-> FALSE, disabledSensor |-> FALSE,
                       externalFault |-> i \in tripped]
  <1>1. \A i \in Slots : in(i) \in ActuatorInput /\ in(i).operationType = "Run"
    BY DEF ActuatorInput
  <1>2. \A i \in Slots : Scanned(clock)[i] = ActuatorScan(act[i], ActuatorSettings, in(i))
    BY DEF Scanned
  <1> HIDE DEF in
  <1>3. \A i \in Slots : Follows(Scanned(clock)[i], act[i])
    BY <1>1, <1>2, RunFollows, GroupAssumption
  <1>4. Scanned(clock) = [i \in Slots |-> Scanned(clock)[i]]
    BY DEF Scanned
  <1> QED BY <1>3, <1>4 DEF AllFollow, Follows

(* Commands touch requests only. *)
LEMMA CommandedType ==
  ASSUME NEW A \in [Slots -> ActuatorMemory], NEW S, NEW T
  PROVE  /\ Commanded(A, S, T) \in [Slots -> ActuatorMemory]
         /\ \A i \in Slots :
               LET q == Commanded(A, S, T)[i]
               IN /\ q.enable = A[i].enable /\ q.status = A[i].status
                  /\ q.enableRequest <=> A[i].enableRequest \/ i \in S
                  /\ q.disableRequest <=> A[i].disableRequest \/ i \in T
  <1>1. ASSUME NEW i \in Slots
        PROVE  LET q == [A[i] EXCEPT !.enableRequest = @ \/ i \in S,
                                     !.disableRequest = @ \/ i \in T]
               IN /\ q \in ActuatorMemory
                  /\ q.enable = A[i].enable /\ q.status = A[i].status
                  /\ q.enableRequest <=> A[i].enableRequest \/ i \in S
                  /\ q.disableRequest <=> A[i].disableRequest \/ i \in T
    <2>1. A[i] \in ActuatorMemory
      OBVIOUS
    <2>2. /\ (A[i].enableRequest \/ i \in S) \in BOOLEAN
          /\ (A[i].disableRequest \/ i \in T) \in BOOLEAN
      OBVIOUS
    <2> QED BY <2>1, <2>2 DEF ActuatorMemory
  <1> QED BY <1>1 DEF Commanded

LEMMA StopAllType ==
  ASSUME NEW A \in [Slots -> ActuatorMemory]
  PROVE  /\ StopAll(A) \in [Slots -> ActuatorMemory]
         /\ \A i \in Slots :
               LET q == StopAll(A)[i]
               IN /\ q.enable = A[i].enable /\ q.status = A[i].status
                  /\ q.enableRequest => A[i].enableRequest
  <1>1. ASSUME NEW i \in Slots
        PROVE  LET q == [A[i] EXCEPT !.enableRequest = FALSE,
                                     !.disableRequest = @ \/ A[i].enable]
               IN /\ q \in ActuatorMemory
                  /\ q.enable = A[i].enable /\ q.status = A[i].status
                  /\ ~q.enableRequest
    <2>1. A[i] \in ActuatorMemory /\ (A[i].disableRequest \/ A[i].enable) \in BOOLEAN
      OBVIOUS
    <2> QED BY <2>1 DEF ActuatorMemory
  <1> QED BY <1>1 DEF StopAll

-----------------------------------------------------------------------------
(* The slots in use, and selections among them. *)
LEMMA InUseFinite == IsFiniteSet(InUse) /\ InUse \subseteq Slots
  <1>1. IsFiniteSet(Slots)
    BY FS_Interval, GroupAssumption DEF Slots
  <1>2. InUse \in SUBSET Slots
    BY DEF InUse
  <1> QED BY <1>1, <1>2, FS_Subset

LEMMA InUseRange ==
  ASSUME cfg \in GroupConfig, ~invalidConfig
  PROVE  /\ cfg.actuatorNum \in Nat /\ cfg.actuatorNum >= 1 /\ InUse = 1..cfg.actuatorNum
         /\ Cardinality(InUse) = cfg.actuatorNum
         /\ cfg.minRunning <= cfg.maxRunning /\ cfg.maxRunning >= 1
  <1>1. /\ cfg.actuatorNum \in 1..MaxSize
        /\ cfg.minRunning <= cfg.maxRunning /\ cfg.maxRunning >= 1
    BY GroupAssumption DEF invalidConfig, GroupConfig
  <1>2. InUse = 1..cfg.actuatorNum
    BY <1>1, GroupAssumption DEF InUse, Slots
  <1>3. cfg.actuatorNum \in Nat /\ cfg.actuatorNum >= 1
    BY <1>1, GroupAssumption
  <1>4. Cardinality(1..cfg.actuatorNum) = cfg.actuatorNum
    <2> DEFINE n == cfg.actuatorNum
    <2>1. n \in Int /\ 1 \in Int /\ ~(1 > n) /\ n - 1 + 1 = n
      BY <1>3
    <2> HIDE DEF n
    <2>2. Cardinality(1..n) = n
      BY <2>1, FS_Interval
    <2> QED BY <2>2 DEF n
  <1> QED BY <1>1, <1>2, <1>3, <1>4

LEMMA InOrderSeq ==
  ASSUME cfg \in GroupConfig, ~invalidConfig, NEW idx \in [Slots -> 0..MaxSize]
  PROVE  /\ InOrder(idx) \in Seq(0..MaxSize) /\ Len(InOrder(idx)) = cfg.actuatorNum
         /\ \A k \in InUse : InOrder(idx)[k] = idx[k]
  <1> DEFINE n == cfg.actuatorNum
  <1>1. n \in Nat /\ InUse = 1..n
    BY InUseRange
  <1>2. \A k \in InUse : k \in Slots
    BY InUseFinite
  <1>3. InOrder(idx) \in [1..n -> 0..MaxSize]
    BY <1>1, <1>2 DEF InOrder
  <1> HIDE DEF n
  <1>4. InOrder(idx) \in Seq(0..MaxSize)
    BY <1>1, <1>3, SeqDef
  <1>5. Len(InOrder(idx)) \in Nat /\ 1..Len(InOrder(idx)) = 1..n
    BY <1>3, <1>4, LenProperties
  <1>6. Len(InOrder(idx)) = n
    BY <1>1, <1>5
  <1> QED BY <1>4, <1>6 DEF InOrder, n

(* A selection by position is empty or a slot of the order with the        *)
(* property.                                                               *)
LEMMA FirstFacts ==
  ASSUME cfg \in GroupConfig, ~invalidConfig, NEW idx \in [Slots -> 0..MaxSize], NEW S
  PROVE  FirstOf(idx, S) = {} \/ \E k \in InUse : idx[k] \in S /\ FirstOf(idx, S) = {idx[k]}
  <1> DEFINE I == {i \in 1..Len(InOrder(idx)) : InOrder(idx)[i] \in S}
             at == IF I # {} THEN Min(I) ELSE 0
  <1>1. /\ I \in SUBSET Nat /\ I \subseteq InUse
        /\ \A i \in I : idx[i] \in S /\ i # 0
    BY InOrderSeq, InUseRange
  <1>2. FirstOf(idx, S) = IF at = 0 THEN {} ELSE {idx[at]}
    BY DEF FirstOf, SelectInSeq
  <1>3. ASSUME I # {} PROVE Min(I) \in I
    <2>1. \E m \in I : \A y \in I : m <= y
      BY <1>1, <1>3, LeastNatural
    <2> HIDE DEF I
    <2> QED BY <2>1 DEF Min
  <1> HIDE DEF I
  <1> QED BY <1>1, <1>2, <1>3

LEMMA LastFacts ==
  ASSUME cfg \in GroupConfig, ~invalidConfig, NEW idx \in [Slots -> 0..MaxSize], NEW S
  PROVE  LastOf(idx, S) = {} \/ \E k \in InUse : idx[k] \in S /\ LastOf(idx, S) = {idx[k]}
  <1> DEFINE I == {i \in 1..Len(InOrder(idx)) : InOrder(idx)[i] \in S}
             at == IF I # {} THEN Max(I) ELSE 0
  <1>1. /\ I \in SUBSET Nat /\ I \subseteq InUse
        /\ \A i \in I : idx[i] \in S /\ i # 0 /\ i <= cfg.actuatorNum
    BY InOrderSeq, InUseRange
  <1>2. LastOf(idx, S) = IF at = 0 THEN {} ELSE {idx[at]}
    BY DEF LastOf, SelectLastInSeq
  <1>3. ASSUME I # {} PROVE Max(I) \in I
    <2>1. cfg.actuatorNum \in Nat
      BY InUseRange
    <2> HIDE DEF I
    <2>2. \E m \in I : \A y \in I : y <= m
      BY <1>1, <1>3, <2>1, GreatestNatural
    <2>3. \E m \in I : \A y \in I : m >= y
      BY <1>1, <2>2
    <2> QED BY <2>3 DEF Max
  <1> HIDE DEF I
  <1> QED BY <1>1, <1>2, <1>3

-----------------------------------------------------------------------------
(* The priority order. *)
Asg(idx) == {i \in Slots : idx[i] # 0}
Order(idx) == idx \in [Slots -> 0..MaxSize] /\ {idx[i] : i \in Asg(idx)} = Asg(idx)
Full(idx) == Order(idx) /\ InUse \subseteq Asg(idx)

LEMMA FilledOrder ==
  ASSUME Order(sortedIdx)
  PROVE  Full(FilledIdx) /\ Asg(FilledIdx) = Asg(sortedIdx) \cup InUse
  <1>1. InUse \subseteq Slots /\ \A i \in Slots : i \in 0..MaxSize /\ i # 0
    BY InUseFinite, GroupAssumption DEF Slots
  <1>2. /\ FilledIdx \in [Slots -> 0..MaxSize]
        /\ \A i \in Slots : FilledIdx[i] = IF i \in InUse /\ sortedIdx[i] = 0
                                            THEN i ELSE sortedIdx[i]
    BY <1>1 DEF FilledIdx, Order
  <1>3. Asg(FilledIdx) = Asg(sortedIdx) \cup InUse
    BY <1>1, <1>2 DEF Asg
  <1>4. {FilledIdx[i] : i \in Asg(FilledIdx)} = Asg(FilledIdx)
    <2>1. ASSUME NEW i \in Asg(FilledIdx) PROVE FilledIdx[i] \in Asg(FilledIdx)
      BY <1>2, <1>3, <2>1 DEF Asg, Order
    <2>2. ASSUME NEW j \in Asg(FilledIdx)
          PROVE  \E i \in Asg(FilledIdx) : FilledIdx[i] = j
      <3>1. CASE j \in Asg(sortedIdx)
        <4>1. PICK i \in Asg(sortedIdx) : sortedIdx[i] = j
          BY <3>1 DEF Order
        <4> QED BY <1>2, <1>3, <4>1 DEF Asg
      <3>2. CASE j \notin Asg(sortedIdx)
        BY <1>2, <1>3, <3>2 DEF Asg
      <3> QED BY <3>1, <3>2
    <2> QED BY <2>1, <2>2
  <1> QED BY <1>2, <1>3, <1>4 DEF Full, Order

(* Slots in use that change places. *)
LEMMA Reordered ==
  ASSUME NEW idx, Full(idx), NEW seq,
         \A k \in InUse : \E j \in InUse : seq[k] = idx[j],
         \A j \in InUse : \E k \in InUse : seq[k] = idx[j]
  PROVE  Full(Reorder(idx, seq)) /\ Asg(Reorder(idx, seq)) = Asg(idx)
  <1> DEFINE new == Reorder(idx, seq)
  <1>1. InUse \subseteq Slots /\ InUse \subseteq Asg(idx) /\ idx \in [Slots -> 0..MaxSize]
    BY InUseFinite DEF Full, Order
  <1>2. \A k \in InUse : seq[k] \in 0..MaxSize /\ seq[k] # 0
    BY <1>1 DEF Asg
  <1>3. /\ new \in [Slots -> 0..MaxSize]
        /\ \A i \in Slots : new[i] = IF i \in InUse THEN seq[i] ELSE idx[i]
    BY <1>1, <1>2 DEF Reorder
  <1> HIDE DEF new
  <1>4. Asg(new) = Asg(idx)
    BY <1>1, <1>2, <1>3 DEF Asg
  <1>5. {new[i] : i \in Asg(idx)} = {idx[i] : i \in Asg(idx)}
    <2>1. \A i \in Asg(idx) : i \in Slots
      BY DEF Asg
    <2>2. ASSUME NEW i \in Asg(idx) PROVE \E j \in Asg(idx) : new[i] = idx[j]
      BY <1>1, <1>3, <2>1
    <2>3. ASSUME NEW j \in Asg(idx) PROVE \E i \in Asg(idx) : new[i] = idx[j]
      BY <1>1, <1>3, <2>1
    <2> QED BY <2>2, <2>3
  <1> QED BY <1>1, <1>3, <1>4, <1>5 DEF Full, Order, new

LEMMA RotateOrder ==
  ASSUME cfg \in GroupConfig, ~invalidConfig, NEW idx, Full(idx)
  PROVE  Full(Rotate(idx)) /\ Asg(Rotate(idx)) = Asg(idx)
  <1> DEFINE n == cfg.actuatorNum
             seq == [k \in InUse |-> IF k < n THEN idx[k + 1] ELSE idx[1]]
  <1>1. n \in Nat /\ n >= 1 /\ InUse = 1..n
    BY InUseRange
  <1>2. \A k \in InUse : \E j \in InUse : seq[k] = idx[j]
    BY <1>1
  <1>3. ASSUME NEW j \in InUse PROVE \E k \in InUse : seq[k] = idx[j]
    <2>1. CASE j = 1
      <3>1. n \in InUse /\ seq[n] = idx[j]
        BY <1>1, <2>1
      <3> QED BY <3>1
    <2>2. CASE j # 1
      <3>1. j - 1 \in InUse /\ j - 1 < n /\ j - 1 + 1 = j
        BY <1>1, <2>2
      <3>2. seq[j - 1] = idx[j]
        BY <3>1
      <3> QED BY <3>1, <3>2
    <2> QED BY <2>1, <2>2
  <1> HIDE DEF seq
  <1>4. Full(Reorder(idx, seq)) /\ Asg(Reorder(idx, seq)) = Asg(idx)
    BY <1>2, <1>3, Reordered
  <1> QED BY <1>4 DEF Rotate, seq

(* The order of the EvenWear sort is a strict one: every position has a    *)
(* place of its own.                                                       *)
LEMMA GoesBeforeOrder ==
  ASSUME NEW A, NEW idx, \A i \in InUse : idx[i] \in Slots, hours \in [Slots -> Nat],
         NEW j \in InUse, NEW k \in InUse, NEW l \in InUse
  PROVE  /\ ~GoesBefore(A, idx, j, j)
         /\ j # k => GoesBefore(A, idx, j, k) \/ GoesBefore(A, idx, k, j)
         /\ GoesBefore(A, idx, j, k) /\ GoesBefore(A, idx, k, l) => GoesBefore(A, idx, j, l)
  <1>1. /\ j \in Nat /\ k \in Nat /\ l \in Nat
        /\ hours[idx[j]] \in Nat /\ hours[idx[k]] \in Nat /\ hours[idx[l]] \in Nat
    BY InUseFinite DEF Slots
  <1> QED BY <1>1 DEF GoesBefore, SortsBefore

LEMMA EvenWearOrders ==
  ASSUME cfg \in GroupConfig, ~invalidConfig, NEW A, NEW idx, Full(idx),
         hours \in [Slots -> Nat]
  PROVE  Full(EvenWearOrder(A, idx)) /\ Asg(EvenWearOrder(A, idx)) = Asg(idx)
  <1> DEFINE n == cfg.actuatorNum
             Lower(k) == {l \in InUse : GoesBefore(A, idx, l, k)}
             place == [k \in InUse |-> Cardinality(Lower(k)) + 1]
             seq == [p \in InUse |-> idx[CHOOSE k \in InUse : place[k] = p]]
  <1>1. /\ n \in Nat /\ n >= 1 /\ InUse = 1..n /\ IsFiniteSet(InUse)
        /\ Cardinality(InUse) = n /\ InUse \subseteq Slots
    BY InUseRange, InUseFinite
  <1>2. \A i \in InUse : idx[i] \in Slots
    BY GroupAssumption DEF Full, Order, Asg, Slots
  <1>3. ASSUME NEW k \in InUse
        PROVE  /\ IsFiniteSet(Lower(k)) /\ Cardinality(Lower(k)) \in Nat
               /\ Cardinality(Lower(k)) < n
    <2>1. Lower(k) \in SUBSET (InUse \ {k})
      BY <1>2, GoesBeforeOrder
    <2>2. IsFiniteSet(InUse \ {k}) /\ Cardinality(InUse \ {k}) = n - 1
      <3>1. Cardinality(InUse \ {k}) = Cardinality(InUse) - 1
        BY <1>1, FS_RemoveElement
      <3> QED BY <1>1, <3>1, FS_RemoveElement
    <2> HIDE DEF Lower
    <2>3. IsFiniteSet(Lower(k)) /\ Cardinality(Lower(k)) <= n - 1
      BY <2>1, <2>2, FS_Subset
    <2>4. Cardinality(Lower(k)) \in Nat
      BY <2>3, FS_CardinalityType
    <2> QED BY <1>1, <2>3, <2>4
  <1>4. ASSUME NEW j \in InUse, NEW k \in InUse, GoesBefore(A, idx, j, k)
        PROVE  Cardinality(Lower(j)) < Cardinality(Lower(k))
    <2>1. Lower(j) \in SUBSET Lower(k)
      BY <1>2, <1>4, GoesBeforeOrder
    <2>2. j \in Lower(k) /\ j \notin Lower(j)
      BY <1>2, <1>4, GoesBeforeOrder
    <2> HIDE DEF Lower
    <2>3. /\ Cardinality(Lower(j)) <= Cardinality(Lower(k))
          /\ Cardinality(Lower(j)) # Cardinality(Lower(k))
      BY <1>3, <2>1, <2>2, FS_Subset
    <2> QED BY <1>3, <2>3
  <1> HIDE DEF Lower
  <1>5. place \in [InUse -> InUse]
    BY <1>1, <1>3
  <1>6. ASSUME NEW j \in InUse, NEW k \in InUse, j # k PROVE place[j] # place[k]
    <2>1. GoesBefore(A, idx, j, k) \/ GoesBefore(A, idx, k, j)
      BY <1>2, <1>6, GoesBeforeOrder
    <2> QED BY <1>3, <1>4, <2>1
  <1> HIDE DEF place
  <1>7. place \in Injection(InUse, InUse)
    BY <1>5, <1>6 DEF Injection, IsInjective
  <1>8. place \in Surjection(InUse, InUse)
    BY <1>1, <1>7, FS_Injection
  <1>9. \A p \in InUse : \E k \in InUse : place[k] = p
    BY <1>8 DEF Surjection
  <1>10. \A p \in InUse : (CHOOSE k \in InUse : place[k] = p) \in InUse
    BY <1>9
  <1>11. \A p \in InUse : \E j \in InUse : seq[p] = idx[j]
    BY <1>10
  <1>12. ASSUME NEW j \in InUse PROVE \E p \in InUse : seq[p] = idx[j]
    <2>1. place[j] \in InUse
      BY <1>5
    <2>2. (CHOOSE k \in InUse : place[k] = place[j]) = j
      BY <1>6
    <2>3. seq[place[j]] = idx[j]
      BY <2>1, <2>2
    <2> QED BY <2>1, <2>3
  <1> HIDE DEF seq
  <1>13. Full(Reorder(idx, seq)) /\ Asg(Reorder(idx, seq)) = Asg(idx)
    BY <1>11, <1>12, Reordered
  <1> QED BY <1>13 DEF EvenWearOrder, seq, place, Lower

(* The priority order of a scan: assigned for every slot in use. *)
LEMMA PrioritiesOrder ==
  ASSUME cfg \in GroupConfig, ~invalidConfig, Order(sortedIdx), hours \in [Slots -> Nat],
         NEW A
  PROVE  Full(Priorities(A)) /\ Asg(Priorities(A)) = Asg(sortedIdx) \cup InUse
  BY FilledOrder, EvenWearOrders DEF Priorities

LEMMA MoveToEndOrder ==
  ASSUME cfg \in GroupConfig, ~invalidConfig, NEW idx, Full(idx), NEW slot
  PROVE  Full(MoveToEnd(idx, slot)) /\ Asg(MoveToEnd(idx, slot)) = Asg(idx)
  <1> DEFINE n == cfg.actuatorNum
             s == InOrder(idx)
             I == {i \in 1..Len(s) : s[i] = slot}
             at == IF I # {} THEN Min(I) ELSE 0
             front == SubSeq(s, 1, at - 1)
             back == SubSeq(s, at + 1, n)
             seq == Append(front \o back, slot)
  <1>1. n \in Nat /\ n >= 1 /\ InUse = 1..n
    BY InUseRange
  <1>2. /\ s \in Seq(0..MaxSize) /\ Len(s) = n /\ \A k \in 1..n : s[k] = idx[k]
        /\ \A k \in 1..n : s[k] \in 0..MaxSize
    <2>1. idx \in [Slots -> 0..MaxSize] /\ InUse \subseteq Slots
      BY InUseFinite DEF Full, Order
    <2>2. s \in Seq(0..MaxSize) /\ Len(s) = n /\ \A k \in InUse : s[k] = idx[k]
      BY <2>1, InOrderSeq
    <2> QED BY <1>1, <2>1, <2>2
  <1> HIDE DEF s
  <1>3. SelectInSeq(s, LAMBDA i : i = slot) = at
    BY DEF SelectInSeq
  <1>4. CASE I = {}
    BY <1>3, <1>4 DEF MoveToEnd, s
  <1>5. CASE I # {}
    <2>1. at \in I
      <3>1. I \in SUBSET Nat
        OBVIOUS
      <3>2. \E m \in I : \A y \in I : m <= y
        BY <1>5, <3>1, LeastNatural
      <3> HIDE DEF I
      <3> QED BY <1>5, <3>2 DEF Min
    <2>2. at \in 1..n /\ idx[at] = slot /\ s[at] = slot /\ slot \in 0..MaxSize
      BY <1>2, <2>1
    <2> HIDE DEF at
    <2>3. /\ front \in Seq(0..MaxSize) /\ Len(front) = at - 1
          /\ \A k \in 1..(at - 1) : front[k] = s[k]
      <3>1. \A k \in 1..(at - 1) : s[k] \in 0..MaxSize
        BY <1>1, <1>2, <2>2
      <3>2. 1 \in Int /\ at - 1 \in Int /\ (1 <= at - 1 => at - 1 - 1 + 1 = at - 1)
            /\ (~(1 <= at - 1) => at - 1 = 0)
        BY <1>1, <2>2
      <3>3. /\ front \in Seq(0..MaxSize)
            /\ Len(front) = IF 1 <= at - 1 THEN at - 1 - 1 + 1 ELSE 0
            /\ \A k \in 1..(at - 1 - 1 + 1) : front[k] = s[1 + k - 1]
        BY <3>1, <3>2, SubSeqProperties
      <3> HIDE DEF front
      <3>4. \A k \in 1..(at - 1) : k \in 1..(at - 1 - 1 + 1) /\ 1 + k - 1 = k
        BY <1>1, <2>2
      <3> QED BY <3>2, <3>3, <3>4
    <2>4. /\ back \in Seq(0..MaxSize) /\ Len(back) = n - at
          /\ \A k \in 1..(n - at) : back[k] = s[at + k]
      <3>1. \A k \in (at + 1)..n : s[k] \in 0..MaxSize
        BY <1>1, <1>2, <2>2
      <3>2. at + 1 \in Int /\ n \in Int /\ (at + 1 <= n => n - (at + 1) + 1 = n - at)
            /\ (~(at + 1 <= n) => n - at = 0)
        BY <1>1, <2>2
      <3>3. /\ back \in Seq(0..MaxSize)
            /\ Len(back) = IF at + 1 <= n THEN n - (at + 1) + 1 ELSE 0
            /\ \A k \in 1..(n - (at + 1) + 1) : back[k] = s[at + 1 + k - 1]
        BY <3>1, <3>2, SubSeqProperties
      <3> HIDE DEF back
      <3>4. \A k \in 1..(n - at) : k \in 1..(n - (at + 1) + 1) /\ at + 1 + k - 1 = at + k
        BY <1>1, <2>2
      <3> QED BY <3>2, <3>3, <3>4
    <2> HIDE DEF front, back
    <2>5. /\ front \o back \in Seq(0..MaxSize) /\ Len(front \o back) = n - 1
          /\ \A k \in 1..(n - 1) :
                (front \o back)[k] = IF k <= at - 1 THEN front[k] ELSE back[k - (at - 1)]
      <3>1. at - 1 + (n - at) = n - 1
        BY <1>1, <2>2
      <3>2. /\ front \o back \in Seq(0..MaxSize)
            /\ Len(front \o back) = Len(front) + Len(back)
            /\ \A k \in 1..(Len(front) + Len(back)) :
                  (front \o back)[k] = IF k <= Len(front) THEN front[k]
                                       ELSE back[k - Len(front)]
        BY <2>3, <2>4, ConcatProperties
      <3>3. Len(front) = at - 1 /\ Len(front) + Len(back) = n - 1
        BY <2>3, <2>4, <3>1
      <3> QED BY <3>2, <3>3
    <2>6. /\ \A k \in 1..(n - 1) : seq[k] = (front \o back)[k]
          /\ seq[n] = slot
      <3>1. n - 1 + 1 = n
        BY <1>1
      <3> QED BY <2>2, <2>5, <3>1, AppendProperties
    <2> HIDE DEF seq
    <2>7. ASSUME NEW k \in 1..n
          PROVE  seq[k] = IF k < at THEN idx[k] ELSE IF k < n THEN idx[k + 1] ELSE idx[at]
      <3>1. CASE k < at
        <4>1. k \in 1..(at - 1) /\ k \in 1..(n - 1) /\ k <= at - 1
          BY <1>1, <2>2, <3>1
        <4> QED BY <1>2, <2>3, <2>5, <2>6, <3>1, <4>1
      <3>2. CASE ~(k < at) /\ k < n
        <4>1. /\ k - (at - 1) \in 1..(n - at) /\ k \in 1..(n - 1) /\ ~(k <= at - 1)
              /\ at + (k - (at - 1)) = k + 1 /\ k + 1 \in 1..n
          BY <1>1, <2>2, <3>2
        <4>2. seq[k] = back[k - (at - 1)]
          BY <2>5, <2>6, <4>1
        <4>3. back[k - (at - 1)] = s[at + (k - (at - 1))]
          BY <2>4, <4>1
        <4> QED BY <1>2, <3>2, <4>1, <4>2, <4>3
      <3>3. CASE ~(k < at) /\ ~(k < n)
        <4>1. k = n
          BY <1>1, <3>3
        <4> QED BY <2>2, <2>6, <3>3, <4>1
      <3> QED BY <3>1, <3>2, <3>3
    <2>8. \A k \in InUse : \E j \in InUse : seq[k] = idx[j]
      <3>1. \A k \in 1..n : k < n => k + 1 \in 1..n
        BY <1>1
      <3> QED BY <1>1, <2>2, <2>7, <3>1
    <2>9. ASSUME NEW j \in InUse PROVE \E k \in InUse : seq[k] = idx[j]
      <3>1. CASE j < at
        BY <1>1, <2>7, <3>1
      <3>2. CASE j = at
        <4>1. n \in 1..n /\ ~(n < at)
          BY <1>1, <2>2
        <4>2. seq[n] = idx[j]
          BY <2>2, <2>6, <3>2
        <4> QED BY <1>1, <4>1, <4>2
      <3>3. CASE at < j
        <4>1. j - 1 \in 1..n /\ ~(j - 1 < at) /\ j - 1 < n /\ j - 1 + 1 = j
          BY <1>1, <2>2, <3>3
        <4>2. seq[j - 1] = idx[j]
          BY <2>7, <4>1
        <4> QED BY <1>1, <4>1, <4>2
      <3> QED BY <1>1, <2>2, <3>1, <3>2, <3>3
    <2>10. Full(Reorder(idx, seq)) /\ Asg(Reorder(idx, seq)) = Asg(idx)
      BY <2>8, <2>9, Reordered
    <2>11. MoveToEnd(idx, slot) = Reorder(idx, seq)
      <3>1. at # 0
        BY <1>1, <2>2
      <3> QED BY <1>2, <1>3, <3>1 DEF MoveToEnd, RemoveAt, seq, front, back, s
    <2> QED BY <2>10, <2>11
  <1> QED BY <1>4, <1>5

-----------------------------------------------------------------------------
(* What the autochange stops: at most one actuator, and one that runs.     *)
Stops(old, A, S) == old = {} \/ \E i \in S : A[i].enable /\ old = {i}

LEMMA EvenWearStops ==
  ASSUME NEW A, hours \in [Slots -> Nat], NEW b \in Nat, \A i \in Slots : hours[i] <= b
  PROVE  Stops(EvenWearStop(A), A, InUse)
  <1> DEFINE S == Available(A)
             max == MostWorn(S)
  <1>1. S \subseteq InUse /\ InUse \subseteq Slots
    BY InUseFinite DEF Available
  <1>2. ASSUME S # {} PROVE max \in S
    <2> HIDE DEF S
    <2>1. \E i \in S : \A j \in S : hours[i] > hours[j] \/ (hours[i] = hours[j] /\ i <= j)
      <3> DEFINE H == {hours[i] : i \in S}
      <3>1. H \in SUBSET Nat /\ H # {} /\ \A n \in H : n <= b
        BY <1>1, <1>2
      <3>2. PICK m \in H : \A n \in H : n <= m
        BY <3>1, GreatestNatural
      <3> DEFINE I == {i \in S : hours[i] = m}
      <3>3. I \in SUBSET Nat /\ I # {}
        <4>1. \A i \in S : i \in Nat
          BY <1>1, GroupAssumption DEF Slots
        <4>2. \E i \in S : hours[i] = m
          BY <3>2
        <4> QED BY <4>1, <4>2
      <3>4. PICK i \in I : \A j \in I : i <= j
        BY <3>3, LeastNatural
      <3>5. ASSUME NEW j \in S
            PROVE  hours[i] > hours[j] \/ (hours[i] = hours[j] /\ i <= j)
        <4>1. hours[j] <= m /\ hours[j] \in Nat /\ m \in Nat /\ hours[i] = m
          BY <1>1, <3>1, <3>2, <3>4
        <4>2. hours[j] = m => i <= j
          BY <3>4
        <4> QED BY <4>1, <4>2
      <3> QED BY <3>4, <3>5
    <2> QED BY <2>1 DEF MostWorn
  <1>3. EvenWearStop(A) = {} \/ (S # {} /\ A[max].enable /\ EvenWearStop(A) = {max})
    BY DEF EvenWearStop
  <1> HIDE DEF S, max
  <1> QED BY <1>1, <1>2, <1>3 DEF Stops

LEMMA AutochangeStops ==
  ASSUME cfg \in GroupConfig, ~invalidConfig, hours \in [Slots -> Nat],
         NEW b \in Nat, \A i \in Slots : hours[i] <= b,
         NEW A, NEW idx, Full(idx), NEW trigger
  PROVE  /\ Stops(AutochangeStop(A, idx, trigger), A, Slots)
         /\ Asg(idx) \subseteq InUse => Stops(AutochangeStop(A, idx, trigger), A, InUse)
  <1> DEFINE old == AutochangeStop(A, idx, trigger)
             On == {i \in Slots : A[i].enable}
             last == LastOf(idx, On)
  <1>1. idx \in [Slots -> 0..MaxSize] /\ InUse \subseteq Slots /\ InUse \subseteq Asg(idx)
    BY InUseFinite DEF Full, Order
  <1>2. \A k \in InUse : idx[k] \in Asg(idx)
    BY <1>1 DEF Full, Order
  <1>3. Stops(last, A, Slots) /\ (Asg(idx) \subseteq InUse => Stops(last, A, InUse))
    <2>1. last = {} \/ \E k \in InUse : idx[k] \in On /\ last = {idx[k]}
      BY <1>1, LastFacts
    <2> HIDE DEF last
    <2> QED BY <1>2, <2>1 DEF Stops
  <1>4. Stops(EvenWearStop(A), A, InUse) /\ Stops(EvenWearStop(A), A, Slots)
    BY <1>1, EvenWearStops DEF Stops
  <1>5. old = {} \/ old = EvenWearStop(A) \/ old = last
    <2> DEFINE ok == AutochangeAllowed(A)
    <2>1. cfg.autochange \in {"None", "AllStopped", "EvenWear", "FixedInterval",
                              "ExternalTrigger"}
      BY DEF GroupConfig, ActuatorGroupAutochange
    <2>2. CASE ~ok \/ cfg.autochange \in {"None", "AllStopped"}
      <3>1. old = {}
        BY <2>2 DEF AutochangeStop
      <3> QED BY <3>1
    <2>3. CASE ok /\ cfg.autochange = "EvenWear"
      <3>1. old = EvenWearStop(A)
        BY <2>3 DEF AutochangeStop
      <3> QED BY <3>1
    <2>4. CASE ok /\ cfg.autochange \in {"FixedInterval", "ExternalTrigger"}
      <3>1. old = {} \/ old = last
        BY <2>4 DEF AutochangeStop
      <3> QED BY <3>1
    <2> QED BY <2>1, <2>2, <2>3, <2>4
  <1> HIDE DEF old, last
  <1>6. Stops({}, A, Slots) /\ Stops({}, A, InUse)
    BY DEF Stops
  <1>7. Stops(old, A, Slots) /\ (Asg(idx) \subseteq InUse => Stops(old, A, InUse))
    BY <1>3, <1>4, <1>5, <1>6
  <1> QED BY <1>7 DEF old

-----------------------------------------------------------------------------
(* The actuators that run or are about to run.                             *)
Loaded(M) == {i \in InUse : M[i].enable \/ M[i].enableRequest}

LEMMA LoadedFinite ==
  ASSUME NEW M
  PROVE  IsFiniteSet(Loaded(M)) /\ Cardinality(Loaded(M)) \in Nat
  <1>1. Loaded(M) \in SUBSET InUse
    BY DEF Loaded
  <1>2. IsFiniteSet(Loaded(M))
    BY <1>1, InUseFinite, FS_Subset
  <1> QED BY <1>2, FS_CardinalityType

(* A scan of the actuators adds none. *)
LEMMA LoadedDrops ==
  ASSUME NEW A, NEW M, AllFollow(A, M)
  PROVE  Loaded(A) = Enabled(A) /\ Loaded(A) \subseteq Loaded(M)
  BY InUseFinite DEF AllFollow, Follows, Loaded, Enabled

(* A command adds at most the one actuator it starts. *)
LEMMA LoadedByCommand ==
  ASSUME NEW A, NEW M, AllFollow(A, M), NEW new, NEW T
  PROVE  Loaded(Commanded(A, new, T)) \subseteq Loaded(A) \cup new
  <1>1. A \in [Slots -> ActuatorMemory] /\ InUse \subseteq Slots
    BY InUseFinite DEF AllFollow
  <1>2. \A i \in InUse :
          LET q == Commanded(A, new, T)[i]
          IN q.enable = A[i].enable /\ (q.enableRequest <=> A[i].enableRequest \/ i \in new)
    BY <1>1, CommandedType
  <1> QED BY <1>2 DEF Loaded

LEMMA LoadedByStop ==
  ASSUME NEW A, NEW M, AllFollow(A, M)
  PROVE  Loaded(StopAll(A)) \subseteq Loaded(A)
  <1>1. A \in [Slots -> ActuatorMemory] /\ InUse \subseteq Slots
    BY InUseFinite DEF AllFollow
  <1>2. \A i \in InUse :
          LET q == StopAll(A)[i]
          IN q.enable = A[i].enable /\ (q.enableRequest => A[i].enableRequest)
    BY <1>1, StopAllType
  <1> QED BY <1>2 DEF Loaded

LEMMA SubsetCount ==
  ASSUME NEW S, IsFiniteSet(S), NEW T, T \subseteq S
  PROVE  /\ IsFiniteSet(T) /\ Cardinality(T) \in Nat /\ Cardinality(S) \in Nat
         /\ Cardinality(T) <= Cardinality(S)
  <1>1. T \in SUBSET S
    OBVIOUS
  <1> QED BY <1>1, FS_Subset, FS_CardinalityType

LEMMA OneMore ==
  ASSUME NEW S, IsFiniteSet(S), NEW x, NEW T, T \subseteq S \cup {x}
  PROVE  IsFiniteSet(T) /\ Cardinality(T) \in Nat /\ Cardinality(S) \in Nat
         /\ Cardinality(T) <= Cardinality(S) + 1
  <1>1. /\ IsFiniteSet(S \cup {x}) /\ Cardinality(S) \in Nat
        /\ Cardinality(S \cup {x}) = Cardinality(S) \/ Cardinality(S \cup {x}) = Cardinality(S) + 1
    BY FS_AddElement, FS_CardinalityType
  <1>2. /\ IsFiniteSet(T) /\ Cardinality(T) \in Nat
        /\ Cardinality(T) <= Cardinality(S \cup {x})
    BY <1>1, SubsetCount
  <1> QED BY <1>1, <1>2

LEMMA OneLess ==
  ASSUME NEW S, IsFiniteSet(S), NEW x \in S
  PROVE  Cardinality(S) \in Nat /\ Cardinality(S \ {x}) = Cardinality(S) - 1
  BY FS_RemoveElement, FS_CardinalityType

-----------------------------------------------------------------------------
(* The inductive invariant.  The count of loaded actuators is bounded      *)
(* because a scan of the actuators adds none (AllFollow) and the group     *)
(* starts one at a time, below the maximum; in a swap the place of the     *)
(* actuator that is to stop is the place of its replacement.               *)
SwapType == [step: 0..2, stopIdx: 0..MaxSize, startIdx: 0..MaxSize]
TimersType == [start: {"off", "on", "done"}, stop: {"off", "on", "done"},
               autochange: {"off", "on", "done"}]
OutType == [status: ActuatorGroupStatus, underMinimum: BOOLEAN,
            invalidConfig: BOOLEAN, autochangeActive: BOOLEAN]

Core == TypeOK /\ (\A i \in Slots : Phased(act[i])) /\ Order(sortedIdx)

InMaximum(M) == Cardinality(Loaded(M)) <= cfg.maxRunning
PlaceFree(M, i) == i \in InUse /\ Cardinality(Loaded(M) \ {i}) <= cfg.maxRunning - 1
Safe ==
    /\ Asg(sortedIdx) \subseteq InUse
    /\ InMaximum(act)
    /\ status = "Disabled" => Loaded(act) = {}
    /\ status = "Autochange" /\ swap.step = 1 => PlaceFree(act, swap.stopIdx)

GInv == Core /\ (plant.changes = {} => Safe)

(* What a scan of the group has to establish, for either half.             *)
Typed ==
    /\ act' \in [Slots -> ActuatorMemory] /\ \A i \in Slots : Phased(act'[i])
    /\ status' \in ActuatorGroupStatus /\ swap' \in SwapType
    /\ timers' \in TimersType /\ out' \in OutType
    /\ Order(sortedIdx')
Kept ==
    /\ Asg(sortedIdx') \subseteq InUse
    /\ InMaximum(act')
    /\ status' = "Disabled" => Loaded(act') = {}
    /\ status' = "Autochange" /\ swap'.step = 1 => PlaceFree(act', swap'.stopIdx)

LEMMA TypesOfCore ==
  ASSUME Core
  PROVE  /\ act \in [Slots -> ActuatorMemory] /\ cfg \in GroupConfig
         /\ status \in ActuatorGroupStatus /\ swap \in SwapType
         /\ timers \in TimersType /\ out \in OutType
         /\ hours \in [Slots -> Nat] /\ plant.maxHours \in Nat
         /\ \A i \in Slots : hours[i] <= plant.maxHours
         /\ Order(sortedIdx)
  <1>1. plant.maxHours \in Nat
    BY GroupAssumption DEF Core, TypeOK, Plant
  <1>2. hours \in [Slots -> 0..plant.maxHours]
    BY DEF Core, TypeOK
  <1>3. hours \in [Slots -> Nat] /\ \A i \in Slots : hours[i] <= plant.maxHours
    BY <1>1, <1>2
  <1> QED BY <1>1, <1>3 DEF Core, TypeOK, SwapType, TimersType, OutType

LEMMA SwapEdited ==
  ASSUME NEW s \in SwapType, NEW a \in 0..2, NEW b \in 0..MaxSize, NEW c \in 0..MaxSize
  PROVE  /\ [s EXCEPT !.step = a, !.stopIdx = b, !.startIdx = c] \in SwapType
         /\ [s EXCEPT !.step = a, !.startIdx = c] \in SwapType
  BY DEF SwapType

LEMMA TonType ==
  ASSUME NEW t \in {"off", "on", "done"}, NEW x \in BOOLEAN
  PROVE  Ton(t, x) \subseteq {"off", "on", "done"}
  BY DEF Ton

LEMMA CallTimersType ==
  ASSUME timers \in TimersType, NEW x \in BOOLEAN, NEW y \in BOOLEAN, NEW z \in BOOLEAN,
         CallTimers(x, y, z)
  PROVE  timers' \in TimersType
  <1>1. /\ Ton(timers.start, x) \subseteq {"off", "on", "done"}
        /\ Ton(timers.stop, y) \subseteq {"off", "on", "done"}
        /\ Ton(timers.autochange, z) \subseteq {"off", "on", "done"}
    BY TonType DEF TimersType
  <1> QED BY <1>1 DEF CallTimers, TimersType

LEMMA OutputsType ==
  ASSUME status' \in ActuatorGroupStatus, NEW A, NEW x \in BOOLEAN, Outputs(A, x)
  PROVE  out' \in OutType
  <1> DEFINE u == status = "Running" /\ runningNum(A) < cfg.minRunning
  <1>1. u \in BOOLEAN
    OBVIOUS
  <1>2. out' = [status |-> status', invalidConfig |-> FALSE, underMinimum |-> u,
                autochangeActive |-> x]
    BY DEF Outputs
  <1> HIDE DEF u
  <1> QED BY <1>1, <1>2 DEF OutType

(* The scans that leave the actuators alone. *)
LEMMA IdleType ==
  ASSUME Core, NEW A, AllFollow(A, act), act' = A
  PROVE  act' \in [Slots -> ActuatorMemory] /\ \A i \in Slots : Phased(act'[i])
  BY DEF AllFollow, Follows

LEMMA IdleKeeps ==
  ASSUME Core, Safe, NEW A, AllFollow(A, act)
  PROVE  /\ InMaximum(A)
         /\ Loaded(A) = Enabled(A)
         /\ status = "Disabled" => Loaded(A) = {}
         /\ \A i : PlaceFree(act, i) => PlaceFree(A, i)
  <1>1. Loaded(A) = Enabled(A) /\ Loaded(A) \subseteq Loaded(act)
    BY LoadedDrops
  <1>2. IsFiniteSet(Loaded(act)) /\ cfg.maxRunning \in Nat
    BY LoadedFinite, TypesOfCore DEF GroupConfig
  <1>3. InMaximum(A)
    <2>1. /\ Cardinality(Loaded(A)) \in Nat /\ Cardinality(Loaded(act)) \in Nat
          /\ Cardinality(Loaded(A)) <= Cardinality(Loaded(act))
      BY <1>1, <1>2, SubsetCount
    <2>2. Cardinality(Loaded(act)) <= cfg.maxRunning
      BY DEF Safe, InMaximum
    <2> QED BY <1>2, <2>1, <2>2 DEF InMaximum
  <1>4. ASSUME NEW i, PlaceFree(act, i) PROVE PlaceFree(A, i)
    <2>1. Loaded(A) \ {i} \subseteq Loaded(act) \ {i} /\ Loaded(act) \ {i} \subseteq Loaded(act)
      BY <1>1
    <2>2. IsFiniteSet(Loaded(act) \ {i})
      BY <1>2, <2>1, SubsetCount
    <2>3. /\ Cardinality(Loaded(A) \ {i}) \in Nat /\ Cardinality(Loaded(act) \ {i}) \in Nat
          /\ Cardinality(Loaded(A) \ {i}) <= Cardinality(Loaded(act) \ {i})
      BY <2>1, <2>2, SubsetCount
    <2>4. i \in InUse /\ Cardinality(Loaded(act) \ {i}) <= cfg.maxRunning - 1
      BY <1>4 DEF PlaceFree
    <2> QED BY <1>2, <2>3, <2>4 DEF PlaceFree
  <1>5. status = "Disabled" => Loaded(A) = {}
    BY <1>1 DEF Safe
  <1> QED BY <1>1, <1>3, <1>4, <1>5

LEMMA InvalidTyped ==
  ASSUME Core, NEW A, AllFollow(A, act), InvalidScan(A)
  PROVE  Typed
  <1>1. act' \in [Slots -> ActuatorMemory] /\ \A i \in Slots : Phased(act'[i])
    BY IdleType DEF InvalidScan
  <1>2. out' \in OutType
    BY TypesOfCore DEF InvalidScan, OutType, ActuatorGroupStatus
  <1> QED BY <1>1, <1>2, TypesOfCore DEF InvalidScan, Typed

LEMMA InvalidKept ==
  ASSUME Core, Safe, NEW A, AllFollow(A, act), InvalidScan(A)
  PROVE  Kept
  BY IdleKeeps DEF InvalidScan, Kept, Safe

LEMMA DisabledTyped ==
  ASSUME Core, NEW A, AllFollow(A, act), NEW e \in BOOLEAN, DisabledScan(A, e)
  PROVE  Typed
  <1>1. act' \in [Slots -> ActuatorMemory] /\ \A i \in Slots : Phased(act'[i])
    BY IdleType DEF DisabledScan
  <1>2. status' \in ActuatorGroupStatus
    BY DEF DisabledScan, ActuatorGroupStatus
  <1>3. out' \in OutType
    BY <1>2, OutputsType DEF DisabledScan
  <1>4. timers' \in TimersType
    BY TypesOfCore, CallTimersType DEF DisabledScan
  <1>5. swap' \in SwapType
    BY TypesOfCore DEF DisabledScan, SwapType
  <1>6. Order(sortedIdx')
    BY TypesOfCore, FilledOrder DEF DisabledScan, Full
  <1> QED BY <1>1, <1>2, <1>3, <1>4, <1>5, <1>6 DEF Typed

LEMMA DisabledKept ==
  ASSUME Core, Safe, NEW A, AllFollow(A, act), NEW e \in BOOLEAN, DisabledScan(A, e)
  PROVE  Kept
  <1>1. Asg(sortedIdx') \subseteq InUse
    BY TypesOfCore, FilledOrder DEF DisabledScan, Safe
  <1>2. status = "Disabled" /\ act' = A /\ status' # "Autochange"
    BY DEF DisabledScan
  <1>3. InMaximum(act') /\ Loaded(act') = {}
    BY <1>2, IdleKeeps
  <1> QED BY <1>1, <1>2, <1>3 DEF Kept

LEMMA StopTyped ==
  ASSUME Core, NEW A, AllFollow(A, act), StopGroup(A)
  PROVE  Typed
  <1>1. act' \in [Slots -> ActuatorMemory] /\ \A i \in Slots : Phased(act'[i])
    <2>1. A \in [Slots -> ActuatorMemory] /\ \A i \in Slots : Phased(A[i])
      BY DEF AllFollow, Follows
    <2>2. /\ act' = StopAll(A) /\ act' \in [Slots -> ActuatorMemory]
          /\ \A i \in Slots : act'[i].enable = A[i].enable /\ act'[i].status = A[i].status
      BY <2>1, StopAllType DEF StopGroup
    <2> QED BY <2>1, <2>2 DEF Phased
  <1>2. status' \in ActuatorGroupStatus
    BY DEF StopGroup, ActuatorGroupStatus
  <1>3. out' \in OutType
    <2>1. (status = "Autochange") \in BOOLEAN
      OBVIOUS
    <2> QED BY <1>2, <2>1, OutputsType DEF StopGroup
  <1>4. timers' \in TimersType
    <2>1. (status = "Running" /\ cfg.autochange = "FixedInterval") \in BOOLEAN
      OBVIOUS
    <2> QED BY <2>1, TypesOfCore, CallTimersType DEF StopGroup
  <1>5. swap' \in SwapType
    BY TypesOfCore DEF StopGroup
  <1>6. Order(sortedIdx')
    BY TypesOfCore, PrioritiesOrder DEF StopGroup, Full
  <1> QED BY <1>1, <1>2, <1>3, <1>4, <1>5, <1>6 DEF Typed

LEMMA StopKept ==
  ASSUME Core, Safe, NEW A, AllFollow(A, act), StopGroup(A)
  PROVE  Kept
  <1>1. Asg(sortedIdx') \subseteq InUse
    BY TypesOfCore, PrioritiesOrder DEF StopGroup, Safe
  <1>2. status' = "Stopping" /\ act' = StopAll(A)
    BY DEF StopGroup
  <1>3. InMaximum(act')
    <2>1. Loaded(act') \subseteq Loaded(A) /\ IsFiniteSet(Loaded(A))
      BY <1>2, LoadedByStop, LoadedFinite
    <2>2. /\ Cardinality(Loaded(act')) \in Nat /\ Cardinality(Loaded(A)) \in Nat
          /\ Cardinality(Loaded(act')) <= Cardinality(Loaded(A))
      BY <2>1, SubsetCount
    <2>3. Cardinality(Loaded(A)) <= cfg.maxRunning /\ cfg.maxRunning \in Nat
      BY IdleKeeps, TypesOfCore DEF InMaximum, GroupConfig
    <2> QED BY <2>2, <2>3 DEF InMaximum
  <1> QED BY <1>1, <1>2, <1>3 DEF Kept

LEMMA StoppingTyped ==
  ASSUME Core, NEW A, AllFollow(A, act), StoppingScan(A)
  PROVE  Typed
  <1>1. act' \in [Slots -> ActuatorMemory] /\ \A i \in Slots : Phased(act'[i])
    BY IdleType DEF StoppingScan
  <1>2. status' \in ActuatorGroupStatus
    BY DEF StoppingScan, ActuatorGroupStatus
  <1>3. out' \in OutType
    <2>1. out.autochangeActive \in BOOLEAN
      BY TypesOfCore DEF OutType
    <2> QED BY <1>2, <2>1, OutputsType DEF StoppingScan
  <1>4. timers' \in TimersType
    BY TypesOfCore, CallTimersType DEF StoppingScan
  <1>5. swap' \in SwapType
    BY TypesOfCore DEF StoppingScan
  <1>6. Order(sortedIdx')
    <2>1. Full(FilledIdx)
      BY TypesOfCore, FilledOrder
    <2>2. Full(Rotate(FilledIdx))
      BY <2>1, TypesOfCore, RotateOrder DEF StoppingScan
    <2> QED BY <2>1, <2>2 DEF StoppingScan, Full
  <1> QED BY <1>1, <1>2, <1>3, <1>4, <1>5, <1>6 DEF Typed

LEMMA StoppingKept ==
  ASSUME Core, Safe, NEW A, AllFollow(A, act), StoppingScan(A)
  PROVE  Kept
  <1>1. Asg(sortedIdx') \subseteq InUse
    <2>1. Full(FilledIdx) /\ Asg(FilledIdx) \subseteq InUse
      BY TypesOfCore, FilledOrder DEF Safe
    <2>2. Asg(Rotate(FilledIdx)) = Asg(FilledIdx)
      BY <2>1, TypesOfCore, RotateOrder DEF StoppingScan
    <2> QED BY <2>1, <2>2 DEF StoppingScan
  <1>2. act' = A /\ status' # "Autochange" /\ (status' = "Disabled" => runningNum(A) = 0)
    BY DEF StoppingScan
  <1>3. InMaximum(act') /\ Loaded(act') = Enabled(A)
    BY <1>2, IdleKeeps
  <1>4. runningNum(A) = 0 => Loaded(act') = {}
    <2>1. IsFiniteSet(Enabled(A))
      BY <1>2, <1>3, LoadedFinite
    <2> QED BY <1>3, <2>1, FS_EmptySet DEF runningNum
  <1> QED BY <1>1, <1>2, <1>3, <1>4 DEF Kept

(* Staging: a start, or a stop, or both; and the beginning of a swap.      *)
LEMMA RunningTyped ==
  ASSUME Core, NEW A, AllFollow(A, act), NEW trigger \in BOOLEAN, RunningScan(A, trigger)
  PROVE  Typed
  <1> DEFINE idx == Priorities(A)
             old == AutochangeStop(A, idx, trigger)
             new == StagedStart(A, idx)
             T == StagedStop(A, idx) \cup old
  <1>1. ~invalidConfig /\ cfg \in GroupConfig
    BY TypesOfCore DEF RunningScan
  <1>2. Full(idx) /\ Order(idx)
    BY <1>1, TypesOfCore, PrioritiesOrder DEF Full
  <1>3. Stops(old, A, Slots)
    BY <1>1, <1>2, TypesOfCore, AutochangeStops
  <1> HIDE DEF idx, old, new, T
  <1>4. /\ act' = Commanded(A, new, T)
        /\ status' = IF old = {} THEN "Running" ELSE "Autochange"
        /\ swap' = IF old = {} THEN swap
                   ELSE [swap EXCEPT !.step = 1, !.stopIdx = CHOOSE i \in old : TRUE,
                                     !.startIdx = IF cfg.autochange = "EvenWear"
                                                  THEN 0 ELSE @]
        /\ sortedIdx' = idx
        /\ Outputs(A, FALSE)
    BY DEF RunningScan, idx, old, new, T
  <1>5. act' \in [Slots -> ActuatorMemory] /\ \A i \in Slots : Phased(act'[i])
    <2>1. A \in [Slots -> ActuatorMemory] /\ \A i \in Slots : Phased(A[i])
      BY DEF AllFollow, Follows
    <2>2. /\ act' \in [Slots -> ActuatorMemory]
          /\ \A i \in Slots : act'[i].enable = A[i].enable /\ act'[i].status = A[i].status
      BY <1>4, <2>1, CommandedType
    <2> QED BY <2>1, <2>2 DEF Phased
  <1>6. status' \in ActuatorGroupStatus
    BY <1>4 DEF ActuatorGroupStatus
  <1>7. out' \in OutType
    BY <1>4, <1>6, OutputsType
  <1>8. swap' \in SwapType
    <2>1. CASE old = {}
      BY <1>4, <2>1, TypesOfCore
    <2>2. CASE old # {}
      <3>1. PICK x \in Slots : old = {x}
        BY <1>3, <2>2 DEF Stops
      <3>2. (CHOOSE i \in old : TRUE) = x /\ x \in 0..MaxSize
        BY <3>1, GroupAssumption DEF Slots
      <3> DEFINE c == IF cfg.autochange = "EvenWear" THEN 0 ELSE swap.startIdx
      <3>3. swap \in SwapType /\ c \in 0..MaxSize /\ 1 \in 0..2
        BY TypesOfCore, GroupAssumption DEF SwapType
      <3>4. swap' = [swap EXCEPT !.step = 1, !.stopIdx = x, !.startIdx = c]
        BY <1>4, <2>2, <3>2, <3>3 DEF SwapType
      <3> HIDE DEF c
      <3> QED BY <3>2, <3>3, <3>4, SwapEdited
    <2> QED BY <2>1, <2>2
  <1>9. timers' \in TimersType
    <2> DEFINE r == runningNum(A)
               x == StartPossible(A) /\ timers.start # "done" /\ demand > startPoints[r]
               y == StopPossible(A) /\ timers.stop # "done" /\ demand < stopPoints[r - 1]
               z == /\ cfg.autochange = "FixedInterval"
                    /\ ~(AutochangeAllowed(A) /\ timers.autochange = "done")
    <2>1. x \in BOOLEAN /\ y \in BOOLEAN /\ z \in BOOLEAN
      OBVIOUS
    <2>2. CallTimers(x, y, z)
      BY DEF RunningScan
    <2> HIDE DEF x, y, z
    <2> QED BY <2>1, <2>2, TypesOfCore, CallTimersType
  <1> QED BY <1>2, <1>4, <1>5, <1>6, <1>7, <1>8, <1>9 DEF Typed

LEMMA RunningKept ==
  ASSUME Core, Safe, NEW A, AllFollow(A, act), NEW trigger \in BOOLEAN,
         RunningScan(A, trigger)
  PROVE  Kept
  <1> DEFINE idx == Priorities(A)
             old == AutochangeStop(A, idx, trigger)
             new == StagedStart(A, idx)
             T == StagedStop(A, idx) \cup old
             max == cfg.maxRunning
  <1>1. ~invalidConfig /\ cfg \in GroupConfig /\ max \in Nat /\ cfg.minRunning \in Nat
        /\ cfg.minRunning <= max
    BY TypesOfCore, InUseRange DEF RunningScan, GroupConfig
  <1>2. Full(idx) /\ Asg(idx) \subseteq InUse /\ idx \in [Slots -> 0..MaxSize]
    BY <1>1, TypesOfCore, PrioritiesOrder DEF Full, Order, Safe
  <1>3. Stops(old, A, InUse)
    BY <1>1, <1>2, TypesOfCore, AutochangeStops
  <1>4. /\ Loaded(A) = Enabled(A) /\ IsFiniteSet(Loaded(A))
        /\ runningNum(A) \in Nat /\ runningNum(A) = Cardinality(Loaded(A))
        /\ runningNum(A) <= max
    <2>1. Loaded(A) = Enabled(A) /\ InMaximum(A)
      BY IdleKeeps
    <2> QED BY <2>1, LoadedFinite DEF runningNum, InMaximum
  <1>5. new = {} \/ (runningNum(A) <= max - 1 /\ \E x : new = {x})
    <2> DEFINE S == {i \in Slots : Standby(A, i) /\ ~A[i].enableRequest}
    <2>1. FirstOf(idx, S) = {} \/ \E x : FirstOf(idx, S) = {x}
      BY <1>1, <1>2, FirstFacts
    <2>2. new = {} \/ (new = FirstOf(idx, S)
                       /\ (runningNum(A) < cfg.minRunning \/ StartPossible(A)))
      BY DEF StagedStart
    <2>3. StartPossible(A) => runningNum(A) <= max - 1
      BY <1>1, <1>4 DEF StartPossible
    <2> HIDE DEF S, new
    <2> QED BY <1>1, <1>4, <2>1, <2>2, <2>3
  <1> HIDE DEF idx, old, new, T
  <1>6. /\ act' = Commanded(A, new, T)
        /\ status' = IF old = {} THEN "Running" ELSE "Autochange"
        /\ old # {} => swap'.stopIdx = CHOOSE i \in old : TRUE
        /\ sortedIdx' = idx
    <2>1. swap \in SwapType
      BY TypesOfCore
    <2> QED BY <2>1 DEF RunningScan, SwapType, idx, old, new, T
  <1>7. Loaded(act') \subseteq Loaded(A) \cup new
    BY <1>6, LoadedByCommand
  <1>8. InMaximum(act')
    <2>1. CASE new = {}
      <3>1. Loaded(act') \subseteq Loaded(A)
        BY <1>7, <2>1
      <3>2. /\ Cardinality(Loaded(act')) \in Nat
            /\ Cardinality(Loaded(act')) <= Cardinality(Loaded(A))
        BY <1>4, <3>1, SubsetCount
      <3> QED BY <1>1, <1>4, <3>2 DEF InMaximum
    <2>2. CASE new # {}
      <3>1. PICK x : new = {x}
        BY <1>5, <2>2
      <3>2. Loaded(act') \subseteq Loaded(A) \cup {x}
        BY <1>7, <3>1
      <3>3. /\ Cardinality(Loaded(act')) \in Nat
            /\ Cardinality(Loaded(act')) <= Cardinality(Loaded(A)) + 1
        BY <1>4, <3>2, OneMore
      <3> QED BY <1>1, <1>4, <1>5, <2>2, <3>3 DEF InMaximum
    <2> QED BY <2>1, <2>2
  <1>9. ASSUME old # {} PROVE PlaceFree(act', swap'.stopIdx)
    <2>1. PICK x \in InUse : A[x].enable /\ old = {x}
      BY <1>3, <1>9 DEF Stops
    <2>2. swap'.stopIdx = x
      BY <1>6, <1>9, <2>1
    <2>3. x \in Loaded(act')
      <3>1. x \in Slots /\ A \in [Slots -> ActuatorMemory]
        BY InUseFinite DEF AllFollow
      <3>2. act'[x].enable = A[x].enable
        BY <1>6, <3>1, CommandedType
      <3> QED BY <2>1, <3>2 DEF Loaded
    <2>4. /\ Cardinality(Loaded(act')) \in Nat
          /\ Cardinality(Loaded(act') \ {x}) = Cardinality(Loaded(act')) - 1
      BY <2>3, LoadedFinite, OneLess
    <2> QED BY <1>1, <1>8, <2>2, <2>4 DEF InMaximum, PlaceFree
  <1> QED BY <1>2, <1>6, <1>8, <1>9 DEF Kept

-----------------------------------------------------------------------------
(* The steps of a swap. *)
LEMMA AutochangeTyped ==
  ASSUME Core, NEW A, AllFollow(A, act), AutochangeScan(A)
  PROVE  Typed
  <1> DEFINE idx == Priorities(A)
             moved == MoveToEnd(idx, swap.stopIdx)
  <1>1. ~invalidConfig /\ cfg \in GroupConfig /\ status = "Autochange"
    BY TypesOfCore DEF AutochangeScan
  <1>2. Order(idx) /\ Order(moved) /\ Full(idx) /\ Full(moved)
    <2>1. Full(idx)
      BY <1>1, TypesOfCore, PrioritiesOrder
    <2>2. Full(moved)
      BY <1>1, <2>1, MoveToEndOrder
    <2> QED BY <2>1, <2>2 DEF Full
  <1>3. swap \in SwapType
    BY TypesOfCore
  <1>4. A \in [Slots -> ActuatorMemory] /\ \A i \in Slots : Phased(A[i])
    BY DEF AllFollow, Follows
  <1>5. /\ act' \in [Slots -> ActuatorMemory] /\ \A i \in Slots : Phased(act'[i])
        /\ status' \in ActuatorGroupStatus /\ swap' \in SwapType /\ Order(sortedIdx')
    <2>1. CASE SwapStopped(A)
      <3> DEFINE now == IF cfg.autochange \in {"FixedInterval", "ExternalTrigger"}
                        THEN moved ELSE idx
                 new == FirstOf(now, {i \in Slots : Standby(A, i)})
      <3>1. Order(now) /\ now \in [Slots -> 0..MaxSize]
        BY <1>2 DEF Order
      <3>2. new = {} \/ \E x \in 0..MaxSize : new = {x}
        <4>1. new = {} \/ \E k \in InUse : new = {now[k]}
          BY <1>1, <3>1, FirstFacts
        <4>2. InUse \subseteq Slots
          BY InUseFinite
        <4> HIDE DEF new, now
        <4> QED BY <3>1, <4>1, <4>2
      <3> HIDE DEF idx, moved, now, new
      <3>3. /\ sortedIdx' = now /\ act' = Commanded(A, new, {})
            /\ IF new = {}
               THEN /\ swap' = [swap EXCEPT !.step = 0, !.startIdx = 0]
                    /\ status' = "Running"
               ELSE /\ swap' = [swap EXCEPT !.step = 2,
                                            !.startIdx = CHOOSE i \in new : TRUE]
                    /\ status' = "Autochange"
        BY <2>1 DEF SwapStopped, idx, moved, now, new
      <3>4. act' \in [Slots -> ActuatorMemory] /\ \A i \in Slots : Phased(act'[i])
        <4>1. /\ act' \in [Slots -> ActuatorMemory]
              /\ \A i \in Slots : act'[i].enable = A[i].enable /\ act'[i].status = A[i].status
          BY <1>4, <3>3, CommandedType
        <4> QED BY <1>4, <4>1 DEF Phased
      <3>5. swap' \in SwapType
        <4>1. CASE new = {}
          <5>1. 0 \in 0..2 /\ 0 \in 0..MaxSize
            BY GroupAssumption
          <5> QED BY <1>3, <3>3, <4>1, <5>1, SwapEdited
        <4>2. CASE new # {}
          <5>1. PICK x \in 0..MaxSize : new = {x}
            BY <3>2, <4>2
          <5>2. (CHOOSE i \in new : TRUE) = x
            BY <5>1
          <5>3. 2 \in 0..2
            OBVIOUS
          <5>4. swap' = [swap EXCEPT !.step = 2, !.startIdx = x]
            BY <3>3, <4>2, <5>2
          <5> QED BY <1>3, <5>3, <5>4, SwapEdited
        <4> QED BY <4>1, <4>2
      <3> QED BY <3>1, <3>3, <3>4, <3>5 DEF ActuatorGroupStatus
    <2>2. CASE SwapStarted(A)
      BY <1>2, <1>3, <1>4, <2>2 DEF SwapStarted, SwapType, ActuatorGroupStatus
    <2>3. CASE SwapWaits(A)
      BY <1>1, <1>2, <1>3, <1>4, <2>3 DEF SwapWaits, ActuatorGroupStatus
    <2> QED BY <2>1, <2>2, <2>3 DEF AutochangeScan
  <1>6. out' \in OutType
    BY <1>5, OutputsType DEF AutochangeScan
  <1>7. timers' \in TimersType
    BY TypesOfCore, CallTimersType DEF AutochangeScan
  <1> QED BY <1>5, <1>6, <1>7 DEF Typed

LEMMA AutochangeKept ==
  ASSUME Core, Safe, NEW A, AllFollow(A, act), AutochangeScan(A)
  PROVE  Kept
  <1> DEFINE idx == Priorities(A)
             moved == MoveToEnd(idx, swap.stopIdx)
             max == cfg.maxRunning
  <1>1. ~invalidConfig /\ cfg \in GroupConfig /\ status = "Autochange" /\ max \in Nat
    BY TypesOfCore DEF AutochangeScan, GroupConfig
  <1>2. /\ Full(idx) /\ Asg(idx) \subseteq InUse
        /\ Full(moved) /\ Asg(moved) \subseteq InUse
    <2>1. Full(idx) /\ Asg(idx) \subseteq InUse
      BY <1>1, TypesOfCore, PrioritiesOrder DEF Safe
    <2>2. Full(moved) /\ Asg(moved) = Asg(idx)
      BY <1>1, <2>1, MoveToEndOrder
    <2> QED BY <2>1, <2>2
  <1>3. /\ InMaximum(A) /\ Loaded(A) = Enabled(A) /\ IsFiniteSet(Loaded(A))
        /\ swap.step = 1 => PlaceFree(A, swap.stopIdx)
    BY <1>1, IdleKeeps, LoadedFinite DEF Safe
  <1>4. CASE SwapStopped(A)
    <2> DEFINE now == IF cfg.autochange \in {"FixedInterval", "ExternalTrigger"}
                      THEN moved ELSE idx
               new == FirstOf(now, {i \in Slots : Standby(A, i)})
    <2>1. Asg(now) \subseteq InUse /\ now \in [Slots -> 0..MaxSize]
      BY <1>2 DEF Full, Order
    <2>2. new = {} \/ \E x : new = {x}
      BY <1>1, <2>1, FirstFacts, ZenonT(30)
    <2> HIDE DEF idx, moved, now, new
    <2>3. /\ sortedIdx' = now /\ act' = Commanded(A, new, {}) /\ swap.step = 1
          /\ ~A[swap.stopIdx].enable
          /\ status' # "Disabled"
      BY <1>4 DEF SwapStopped, idx, moved, now, new
    <2>4. swap'.step # 1
      <3>1. swap \in SwapType
        BY TypesOfCore
      <3> DEFINE c == CHOOSE i \in new : TRUE
      <3>2. \/ swap' = [swap EXCEPT !.step = 0, !.startIdx = 0]
            \/ swap' = [swap EXCEPT !.step = 2, !.startIdx = c]
        BY <1>4 DEF SwapStopped, idx, moved, now, new
      <3> HIDE DEF c
      <3>3. \A x, y : [swap EXCEPT !.step = x, !.startIdx = y].step = x
        BY <3>1 DEF SwapType
      <3>4. swap'.step = 0 \/ swap'.step = 2
        BY <3>2, <3>3, ZenonT(30)
      <3> QED BY <3>4
    <2>5. Cardinality(Loaded(A)) \in Nat /\ Cardinality(Loaded(A)) <= max - 1
      <3>1. swap.stopIdx \notin Loaded(A)
        BY <1>3, <2>3 DEF Enabled
      <3>2. Loaded(A) \ {swap.stopIdx} = Loaded(A)
        BY <3>1
      <3> QED BY <1>3, <2>3, <3>2, LoadedFinite DEF PlaceFree
    <2>6. Loaded(act') \subseteq Loaded(A) \cup new
      BY <2>3, LoadedByCommand
    <2>7. InMaximum(act')
      <3>1. PICK x : Loaded(act') \subseteq Loaded(A) \cup {x}
        BY <2>2, <2>6
      <3>2. /\ Cardinality(Loaded(act')) \in Nat
            /\ Cardinality(Loaded(act')) <= Cardinality(Loaded(A)) + 1
        BY <1>3, <3>1, OneMore
      <3> QED BY <1>1, <2>5, <3>2 DEF InMaximum
    <2> QED BY <2>1, <2>3, <2>4, <2>7 DEF Kept
  <1>5. CASE SwapStarted(A)
    BY <1>2, <1>3, <1>5 DEF SwapStarted, Kept
  <1>6. CASE SwapWaits(A)
    <2>1. /\ act' = A /\ sortedIdx' = idx /\ status' = "Autochange" /\ swap' = swap
      BY <1>1, <1>6 DEF SwapWaits
    <2> QED BY <1>2, <1>3, <2>1 DEF Kept
  <1> QED BY <1>4, <1>5, <1>6 DEF AutochangeScan

-----------------------------------------------------------------------------
(* The invariant holds at the start and in every step. *)
LEMMA GroupInit == Init => GInv
  <1> SUFFICES ASSUME Init PROVE GInv
    OBVIOUS
  <1>1. /\ ActuatorColdStart \in ActuatorMemory /\ ActuatorColdStart.status = "Disabled"
        /\ ~ActuatorColdStart.enable /\ ~ActuatorColdStart.enableRequest
    BY DEF ActuatorColdStart, ActuatorMemory, ActuatorStatus
  <1>2. act = [i \in Slots |-> ActuatorColdStart] /\ plant \in Plant /\ plant \in Plants
    BY GroupAssumption DEF Init
  <1>3. cfg \in GroupConfig /\ plant.maxHours \in Nat /\ cfg.maxRunning \in Nat
    BY <1>2 DEF Init, Plant, GroupConfig
  <1>4. Order(sortedIdx) /\ Asg(sortedIdx) = {}
    <2>1. /\ sortedIdx \in [Slots -> 0..MaxSize]
          /\ \A i \in Slots : sortedIdx[i] = 0
      BY GroupAssumption DEF Init
    <2> QED BY <2>1 DEF Order, Asg
  <1>5. TypeOK
    <2>1. act \in [Slots -> ActuatorMemory]
      BY <1>1, <1>2
    <2>2. swap \in [step: 0..2, stopIdx: 0..MaxSize, startIdx: 0..MaxSize]
      BY GroupAssumption DEF Init
    <2>3. hours \in [Slots -> 0..plant.maxHours]
      BY <1>3 DEF Init
    <2>4. /\ status \in ActuatorGroupStatus /\ trigOld \in BOOLEAN
          /\ timers \in [start: {"off", "on", "done"}, stop: {"off", "on", "done"},
                         autochange: {"off", "on", "done"}]
          /\ out \in [status: ActuatorGroupStatus, underMinimum: BOOLEAN,
                      invalidConfig: BOOLEAN, autochangeActive: BOOLEAN]
      BY DEF Init, ActuatorGroupStatus
    <2>5. demand \in plant.demands /\ tripped \subseteq plant.trippable
          /\ interlocked \subseteq plant.lockable
      BY DEF Init
    <2>6. sortedIdx \in [Slots -> 0..MaxSize]
      BY <1>4 DEF Order
    <2> QED BY <1>2, <1>3, <2>1, <2>2, <2>3, <2>4, <2>5, <2>6 DEF TypeOK
  <1>6. \A i \in Slots : Phased(act[i])
    BY <1>1, <1>2 DEF Phased
  <1>7. Loaded(act) = {}
    BY <1>1, <1>2, InUseFinite DEF Loaded
  <1>8. Safe
    BY <1>3, <1>4, <1>7, FS_EmptySet DEF Safe, InMaximum, Init
  <1> QED BY <1>4, <1>5, <1>6, <1>8 DEF GInv, Core

LEMMA ScanPreserves ==
  ASSUME GInv, Scan
  PROVE  GInv'
  <1>1. PICK clock \in BOOLEAN, e \in BOOLEAN, d \in BOOLEAN, trigger \in Trigger :
            TaskScan(clock, e, d, trigger)
    BY DEF Scan
  <1> DEFINE A == Scanned(clock)
  <1>2. Core /\ (plant.changes = {} => Safe)
    BY DEF GInv
  <1>3. AllFollow(A, act)
    BY <1>2, ScannedFollows DEF Core, TypeOK
  <1>4. trigger \in BOOLEAN
    BY DEF Trigger
  <1> HIDE DEF A
  <1>5. /\ \/ InvalidScan(A)
           \/ DisabledScan(A, e)
           \/ StopGroup(A)
           \/ RunningScan(A, trigger)
           \/ StoppingScan(A)
           \/ AutochangeScan(A)
        /\ trigOld' = IF invalidConfig THEN trigOld ELSE trigger
        /\ UNCHANGED <<cfg, processVars>>
    BY <1>1 DEF TaskScan, A
  <1>6. Typed
    BY <1>2, <1>3, <1>4, <1>5, InvalidTyped, DisabledTyped, StopTyped, RunningTyped,
       StoppingTyped, AutochangeTyped
  <1>7. plant.changes = {} => Kept
    BY <1>2, <1>3, <1>4, <1>5, InvalidKept, DisabledKept, StopKept, RunningKept,
       StoppingKept, AutochangeKept
  <1>8. cfg' = cfg /\ plant' = plant /\ demand' = demand /\ tripped' = tripped
        /\ interlocked' = interlocked /\ hours' = hours
    BY <1>5 DEF processVars
  <1>9. TypeOK'
    <2>1. trigOld' \in BOOLEAN
      BY <1>2, <1>4, <1>5 DEF Core, TypeOK
    <2>2. TypeOK
      BY <1>2 DEF Core
    <2> QED BY <1>6, <1>8, <2>1, <2>2
            DEF TypeOK, Typed, SwapType, TimersType, OutType, Order
  <1>10. Core'
    BY <1>6, <1>9 DEF Core, Typed, Order, Asg
  <1>11. plant'.changes = {} => Safe'
    BY <1>7, <1>8 DEF Kept, Safe, InMaximum, PlaceFree, Loaded, InUse
  <1> QED BY <1>10, <1>11 DEF GInv

LEMMA ProcessPreserves ==
  ASSUME GInv, ChangeDemand \/ Trip \/ Interlock \/ Wear \/ Reconfigure \/ UNCHANGED vars
  PROVE  GInv'
  <1>1. TypeOK /\ Core /\ (plant.changes = {} => Safe)
    BY DEF GInv, Core
  <1>2. UNCHANGED <<plant, act, groupVars>>
    BY DEF ChangeDemand, Trip, Interlock, Wear, Reconfigure, vars, processVars
  <1>3. /\ act' = act /\ status' = status /\ sortedIdx' = sortedIdx /\ swap' = swap
        /\ trigOld' = trigOld /\ timers' = timers /\ out' = out /\ plant' = plant
    BY <1>2 DEF groupVars
  <1>4. /\ cfg' \in GroupConfig
        /\ plant.changes = {} => cfg' = cfg
    <2>1. plant.changes \subseteq GroupConfig \X GroupConfig
      BY <1>1, GroupAssumption DEF TypeOK, Plant
    <2>2. CASE Reconfigure
      <3>1. PICK change \in plant.changes : cfg' = change[2]
        BY <2>2 DEF Reconfigure
      <3> QED BY <2>1, <3>1
    <2>3. CASE cfg' = cfg
      BY <1>1, <2>3 DEF TypeOK
    <2> QED BY <2>2, <2>3 DEF ChangeDemand, Trip, Interlock, Wear, vars
  <1>5. /\ demand' \in plant.demands /\ tripped' \subseteq plant.trippable
        /\ interlocked' \subseteq plant.lockable
    <2>1. /\ demand \in plant.demands /\ tripped \subseteq plant.trippable
          /\ interlocked \subseteq plant.lockable
      BY <1>1 DEF TypeOK
    <2>2. CASE ChangeDemand
      BY <2>1, <2>2 DEF ChangeDemand
    <2>3. CASE Trip
      BY <2>1, <2>3 DEF Trip
    <2>4. CASE Interlock
      BY <2>1, <2>4 DEF Interlock
    <2>5. CASE Wear
      BY <2>1, <2>5 DEF Wear
    <2>6. CASE Reconfigure \/ UNCHANGED vars
      BY <2>1, <2>6 DEF Reconfigure, vars, processVars
    <2> QED BY <2>2, <2>3, <2>4, <2>5, <2>6
  <1>6. hours' \in [Slots -> 0..plant.maxHours]
    <2>1. hours \in [Slots -> 0..plant.maxHours] /\ plant.maxHours \in Nat
      BY <1>1, TypesOfCore DEF TypeOK
    <2>2. CASE Wear
      <3>1. PICK i \in Slots : hours[i] < plant.maxHours /\ hours' = [hours EXCEPT ![i] = @ + 1]
        BY <2>2 DEF Wear
      <3>2. hours[i] + 1 \in 0..plant.maxHours
        BY <2>1, <3>1
      <3> QED BY <2>1, <3>1, <3>2
    <2>3. CASE hours' = hours
      BY <2>1, <2>3
    <2> QED BY <2>2, <2>3 DEF ChangeDemand, Trip, Interlock, Reconfigure, vars, processVars
  <1>7. TypeOK'
    BY <1>1, <1>3, <1>4, <1>5, <1>6 DEF TypeOK
  <1>8. Core'
    BY <1>1, <1>3, <1>7 DEF Core, Order, Asg, Phased
  <1>9. plant'.changes = {} => Safe'
    BY <1>1, <1>3, <1>4 DEF Safe, InMaximum, PlaceFree, Loaded, InUse, Asg
  <1> QED BY <1>8, <1>9 DEF GInv

LEMMA GroupNext == GInv /\ [Next]_vars => GInv'
  BY ScanPreserves, ProcessPreserves DEF Next

LEMMA GroupInvariant == Spec => []GInv
  BY GroupInit, GroupNext, PTL DEF Spec

-----------------------------------------------------------------------------
(* Every memory of the group and of its actuators keeps its type,          *)
(* including every index with which the arrays of the priority order are   *)
(* read (ActuatorGroup.st:236-562).                                        *)
THEOREM TypeCorrect == Spec => []TypeOK
  <1>1. GInv => TypeOK
    BY DEF GInv, Core
  <1> QED BY <1>1, GroupInvariant, PTL

(* The priority order is a permutation after any sequence of sorts,        *)
(* rotations, swaps and changes of the configuration, also those that grow *)
(* or shrink the group at run time (ActuatorGroup.st:236, 266-288,         *)
(* 497-502, 539-550).                                                      *)
THEOREM OrderCorrect == Spec => []PriorityOrderIsPermutation
  <1>1. GInv => PriorityOrderIsPermutation
    BY DEF GInv, Core, Order, Asg, PriorityOrderIsPermutation, Assigned
  <1> QED BY <1>1, GroupInvariant, PTL

(* With a configuration that stays as it is, whatever it is, no more than  *)
(* maxRunning actuators run or are about to run: staging, the recovery of  *)
(* the minimum and swaps together never pass the maximum, and a swap keeps *)
(* the place of the replacement free (ActuatorGroup.st:341-376, 553-561).  *)
THEOREM MaximumCorrect == Spec => [](plant.changes = {} => MaximumKept)
  <1>1. GInv => (plant.changes = {} => MaximumKept)
    BY DEF GInv, Safe, InMaximum, Loaded, MaximumKept
  <1> QED BY <1>1, GroupInvariant, PTL

(* A group that shows Disabled, with a configuration that stays as it is,  *)
(* has stopped every actuator and left no start behind that one of them    *)
(* would still carry out (ActuatorGroup.st:322-333, 489-506).              *)
THEOREM DisabledCorrect == Spec => []DisabledMeansStopped
  <1>1. GInv => DisabledMeansStopped
    BY DEF GInv, Safe, Loaded, DisabledMeansStopped
  <1> QED BY <1>1, GroupInvariant, PTL

-----------------------------------------------------------------------------
(* The capacity.  With an actuation that keeps its output, an actuator that *)
(* runs and is not asked to stop still runs after the next scan, and no     *)
(* actuator that runs after a scan has a stop left from before it: the      *)
(* stops the group adds are the only ones the next scan carries out.        *)
Retained == ActuatorSettings.actuationType # "DoubleActuationNoRetain"
Coupled(b) == b.enable <=> b.status \in {"EnablePhase", "Enabled"}
Keeps(q, b) ==
    /\ Coupled(q)
    /\ q.enable => ~q.disableRequest
    /\ b.enable /\ ~b.disableRequest => q.enable

LEMMA StatusMachineKeeps ==
  ASSUME NEW b \in ActuatorMemory, Coupled(b), NEW c \in ActuatorConfig,
         NEW e \in BOOLEAN, NEW d \in BOOLEAN
  PROVE  Keeps(StatusMachine(b, c, e, d), b)
  <1>1. CASE b.status = "Disabled"
    BY <1>1 DEF StatusMachine, DisabledState, StartEnabling, Keeps, Coupled,
                ActuatorMemory, ActuatorConfig, ActuatorStatus
  <1>2. CASE b.status = "EnablePhase"
    BY <1>2 DEF StatusMachine, EnablePhaseState, StartDisabling, Keeps, Coupled,
                ActuatorMemory, ActuatorConfig, ActuatorStatus
  <1>3. CASE b.status = "Enabled"
    BY <1>3 DEF StatusMachine, EnabledState, StartDisabling, Keeps, Coupled,
                ActuatorMemory, ActuatorConfig, ActuatorStatus
  <1>4. CASE b.status = "DisablePhase"
    BY <1>4 DEF StatusMachine, DisablePhaseState, StartEnabling, Keeps, Coupled,
                ActuatorMemory, ActuatorConfig, ActuatorStatus
  <1> QED BY <1>1, <1>2, <1>3, <1>4 DEF ActuatorMemory, ActuatorStatus

LEMMA RunKeeps ==
  ASSUME NEW b \in ActuatorMemory, Phased(b), Coupled(b), NEW c \in ActuatorConfig,
         c.actuationType # "DoubleActuationNoRetain",
         NEW in \in ActuatorInput, in.operationType = "Run"
  PROVE  Keeps(ActuatorScan(b, c, in), b)
  <1> DEFINE t == ClockHandler(b, in)
             e == EnabledFeedback(t, c, in)
             d == DisabledFeedback(t, c, in)
             m == StatusMachine(t, c, e, d)
             z == t.timer = 0
             g == Diagnose(m, c, in, e, d, z)
             q == Actuate(g, c)
  <1>1. /\ t \in ActuatorMemory /\ Coupled(t) /\ Phased(t)
        /\ t.enable = b.enable /\ t.disableRequest = b.disableRequest
    BY DEF ClockHandler, ActuatorMemory, ActuatorInput, Coupled, Phased
  <1> HIDE DEF t
  <1>2. e \in BOOLEAN /\ d \in BOOLEAN
    BY <1>1 DEF EnabledFeedback, DisabledFeedback, ActuatorMemory, ActuatorConfig,
                ActuatorInput, ActuatorFeedbackType
  <1> HIDE DEF e, d
  <1>3. Keeps(m, t) /\ m \in ActuatorMemory /\ z \in BOOLEAN
    BY <1>1, <1>2, StatusMachineKeeps, StatusMachineFollows DEF Follows
  <1> HIDE DEF m, z
  <1>4. /\ g \in ActuatorMemory /\ g.status = m.status /\ g.enable = m.enable
        /\ g.disableRequest = m.disableRequest
    <2>1. g \in ActuatorMemory
      BY <1>2, <1>3, DiagnoseType
    <2> QED BY <1>3, <2>1 DEF Diagnose, ActuatorMemory
  <1> HIDE DEF g
  <1>5. /\ q.status = g.status /\ q.enable = g.enable
        /\ q.disableRequest = g.disableRequest
    BY <1>4 DEF Actuate, ActuatorMemory, ActuatorConfig, ActuatorActuationType
  <1> HIDE DEF q
  <1>6. Keeps(q, b)
    BY <1>1, <1>3, <1>4, <1>5 DEF Keeps, Coupled
  <1>7. ActuatorScan(b, c, in) = q
    BY DEF ActuatorScan, Elaborate, q, g, z, m, e, d, t
  <1> QED BY <1>6, <1>7

LEMMA ScannedKeeps ==
  ASSUME Retained, act \in [Slots -> ActuatorMemory],
         \A i \in Slots : Phased(act[i]) /\ Coupled(act[i]), NEW clock \in BOOLEAN
  PROVE  \A i \in Slots : Keeps(Scanned(clock)[i], act[i])
  <1> DEFINE in(i) == [operationType |-> "Run", clock |-> clock,
                       enabledSensor |-> FALSE, disabledSensor |-> FALSE,
                       externalFault |-> i \in tripped]
  <1>1. \A i \in Slots : in(i) \in ActuatorInput /\ in(i).operationType = "Run"
    BY DEF ActuatorInput
  <1>2. \A i \in Slots : Scanned(clock)[i] = ActuatorScan(act[i], ActuatorSettings, in(i))
    BY DEF Scanned
  <1> HIDE DEF in
  <1> QED BY <1>1, <1>2, RunKeeps, GroupAssumption DEF Retained

(* The actuators that run and will still run after the next scan.          *)
Staying(M) == {i \in InUse : M[i].enable /\ ~M[i].disableRequest}

(* What the group holds in reserve: the stop under way leaves the minimum, *)
(* and a rotation has one stop under way.                                  *)
Reserve ==
    /\ /\ status = "Running" /\ cfg.autochange \in {"None", "AllStopped"}
       /\ runningNum(act) >= cfg.minRunning
       => Cardinality(Staying(act)) >= cfg.minRunning
    /\ status = "Autochange" /\ cfg.autochange # "EvenWear"
       => Cardinality(Staying(act)) >= runningNum(act) - 1
CInv == (\A i \in Slots : Coupled(act[i])) /\ (plant.changes = {} => Reserve)

LEMMA CountsFinite ==
  ASSUME NEW M
  PROVE  /\ IsFiniteSet(Enabled(M)) /\ runningNum(M) \in Nat
         /\ runningNum(M) = Cardinality(Enabled(M))
         /\ IsFiniteSet(Staying(M)) /\ Cardinality(Staying(M)) \in Nat
  <1>1. Enabled(M) \subseteq InUse /\ Staying(M) \subseteq InUse
    BY DEF Enabled, Staying
  <1> QED BY <1>1, InUseFinite, SubsetCount DEF runningNum

(* The stops that a scan adds to the actuators A as it finds them.         *)
Stopped(A, T) ==
    \A i \in Slots : /\ act'[i].enable = A[i].enable /\ act'[i].status = A[i].status
                     /\ act'[i].disableRequest <=> A[i].disableRequest \/ i \in T

LEMMA CommandedStops ==
  ASSUME NEW A \in [Slots -> ActuatorMemory], NEW S, NEW T, act' = Commanded(A, S, T)
  PROVE  Stopped(A, T)
  BY CommandedType DEF Stopped

(* Without a stop nothing is given away, with one at most one actuator is. *)
LEMMA StoppedCounts ==
  ASSUME NEW A, NEW T, Stopped(A, T), \A i \in Slots : A[i].enable => ~A[i].disableRequest,
         T = {} \/ \E x : T = {x}
  PROVE  /\ runningNum(act') = runningNum(A)
         /\ T = {} => Cardinality(Staying(act')) = runningNum(A)
         /\ Cardinality(Staying(act')) >= runningNum(A) - 1
  <1>1. Enabled(act') = Enabled(A) /\ Staying(act') = Enabled(A) \ T
    BY InUseFinite DEF Stopped, Enabled, Staying
  <1>2. /\ runningNum(act') = runningNum(A) /\ runningNum(A) = Cardinality(Enabled(A))
        /\ runningNum(A) \in Nat /\ Cardinality(Staying(act')) \in Nat
        /\ IsFiniteSet(Staying(act'))
    <2>1. runningNum(act') = Cardinality(Enabled(act'))
      BY CountsFinite
    <2>2. /\ runningNum(A) = Cardinality(Enabled(A)) /\ runningNum(A) \in Nat
          /\ Cardinality(Staying(act')) \in Nat /\ IsFiniteSet(Staying(act'))
      BY CountsFinite
    <2> QED BY <1>1, <2>1, <2>2
  <1>3. CASE T = {}
    <2>1. Staying(act') = Enabled(A)
      BY <1>1, <1>3
    <2> QED BY <1>2, <2>1
  <1>4. CASE T # {}
    <2>1. PICK x : T = {x}
      BY <1>4
    <2>2. Enabled(A) \subseteq Staying(act') \cup {x}
      BY <1>1, <2>1
    <2>3. Cardinality(Enabled(A)) <= Cardinality(Staying(act')) + 1
      BY <1>2, <2>2, OneMore
    <2>4. Cardinality(Staying(act')) >= runningNum(A) - 1
      BY <1>2, <2>3
    <2> QED BY <1>2, <1>4, <2>4
  <1> QED BY <1>3, <1>4

LEMMA RunningReserves ==
  ASSUME Core, Safe, NEW A, AllFollow(A, act),
         \A i \in Slots : A[i].enable => ~A[i].disableRequest,
         NEW trigger \in BOOLEAN, RunningScan(A, trigger), cfg' = cfg
  PROVE  (\E T : Stopped(A, T)) /\ Reserve'
  <1> DEFINE idx == Priorities(A)
             On == {i \in Slots : A[i].enable}
             last == LastOf(idx, On)
             old == AutochangeStop(A, idx, trigger)
             staged == StagedStop(A, idx)
             new == StagedStart(A, idx)
             T == staged \cup old
  <1>1. ~invalidConfig /\ cfg \in GroupConfig /\ cfg.minRunning \in Nat
    BY TypesOfCore DEF RunningScan, GroupConfig
  <1>2. Full(idx) /\ idx \in [Slots -> 0..MaxSize]
    BY <1>1, TypesOfCore, PrioritiesOrder DEF Full, Order
  <1>3. last = {} \/ \E x : last = {x}
    BY <1>1, <1>2, LastFacts
  <1>4. /\ staged = {} \/ staged = last
        /\ staged # {} => runningNum(A) > cfg.minRunning
    <2>1. {i \in Slots : A[i].enable /\ ~A[i].disableRequest} = On
      OBVIOUS
    <2>2. staged = IF StopPossible(A) /\ timers.stop = "done" THEN last ELSE {}
      BY <2>1 DEF StagedStop
    <2> HIDE DEF staged, last
    <2> QED BY <2>2 DEF StopPossible
  <1>5. /\ cfg.autochange \in {"None", "AllStopped"} => old = {}
        /\ cfg.autochange # "EvenWear" => old = {} \/ old = last
    <2> DEFINE ok == AutochangeAllowed(A)
    <2>1. cfg.autochange \in {"None", "AllStopped", "EvenWear", "FixedInterval",
                              "ExternalTrigger"}
      BY <1>1 DEF GroupConfig, ActuatorGroupAutochange
    <2>2. ~ok \/ cfg.autochange \in {"None", "AllStopped"} => old = {}
      BY DEF AutochangeStop
    <2>3. ok /\ cfg.autochange \in {"FixedInterval", "ExternalTrigger"}
            => old = {} \/ old = last
      BY DEF AutochangeStop
    <2> QED BY <2>1, <2>2, <2>3
  <1> HIDE DEF idx, old, new, staged, last
  <1>6. /\ act' = Commanded(A, new, T)
        /\ status' = IF old = {} THEN "Running" ELSE "Autochange"
    BY DEF RunningScan, idx, old, new, staged
  <1>7. Stopped(A, T)
    BY <1>6, CommandedStops DEF AllFollow
  <1>8. runningNum(A) \in Nat /\ Cardinality(Staying(act')) \in Nat
    BY CountsFinite
  <1>9. ASSUME status' = "Running", cfg.autochange \in {"None", "AllStopped"},
               runningNum(act') >= cfg.minRunning
        PROVE  Cardinality(Staying(act')) >= cfg.minRunning
    <2>1. T = staged /\ (T = {} \/ \E x : T = {x})
      BY <1>3, <1>4, <1>5, <1>9
    <2>2. /\ runningNum(act') = runningNum(A)
          /\ T = {} => Cardinality(Staying(act')) = runningNum(A)
          /\ Cardinality(Staying(act')) >= runningNum(A) - 1
      BY <1>7, <2>1, StoppedCounts
    <2> QED BY <1>1, <1>4, <1>8, <1>9, <2>1, <2>2
  <1>10. ASSUME status' = "Autochange", cfg.autochange # "EvenWear"
         PROVE  Cardinality(Staying(act')) >= runningNum(act') - 1
    <2>1. T = {} \/ \E x : T = {x}
      BY <1>3, <1>4, <1>5, <1>10
    <2> QED BY <1>7, <2>1, StoppedCounts
  <1>11. /\ InUse' = InUse /\ Staying(act)' = Staying(act')
         /\ runningNum(act)' = runningNum(act')
    BY DEF InUse, Staying, runningNum, Enabled
  <1> QED BY <1>7, <1>9, <1>10, <1>11 DEF Reserve

(* The scans that stop nothing, and the one that stops everything.         *)
LEMMA OtherReserves ==
  ASSUME Core, NEW A, AllFollow(A, act),
         \A i \in Slots : A[i].enable => ~A[i].disableRequest, cfg' = cfg,
         NEW e \in BOOLEAN,
         InvalidScan(A) \/ DisabledScan(A, e) \/ StoppingScan(A) \/ AutochangeScan(A)
  PROVE  Stopped(A, {}) /\ Reserve'
  <1>1. A \in [Slots -> ActuatorMemory]
    BY DEF AllFollow
  <1>2. act' = A \/ \E S : act' = Commanded(A, S, {})
    BY DEF InvalidScan, DisabledScan, StoppingScan, AutochangeScan,
           SwapStopped, SwapStarted, SwapWaits
  <1>3. Stopped(A, {})
    BY <1>1, <1>2, CommandedStops DEF Stopped
  <1>4. /\ runningNum(act') = runningNum(A) /\ runningNum(A) \in Nat
        /\ Cardinality(Staying(act')) = runningNum(A)
    BY <1>3, StoppedCounts, CountsFinite
  <1>5. /\ InUse' = InUse /\ Staying(act)' = Staying(act')
        /\ runningNum(act)' = runningNum(act')
    BY DEF InUse, Staying, runningNum, Enabled
  <1> QED BY <1>3, <1>4, <1>5 DEF Reserve

LEMMA StopAllStops ==
  ASSUME NEW A \in [Slots -> ActuatorMemory], StopGroup(A)
  PROVE  /\ \A i \in Slots : act'[i].enable = A[i].enable /\ act'[i].status = A[i].status
         /\ Reserve'
  <1>1. \A i \in Slots : StopAll(A)[i].enable = A[i].enable
                         /\ StopAll(A)[i].status = A[i].status
    BY StopAllType
  <1>2. act' = StopAll(A) /\ status' = "Stopping"
    BY DEF StopGroup
  <1> QED BY <1>1, <1>2 DEF Reserve

(* One scan: the invariant is kept, and the actuators that were to stay    *)
(* are among those that run afterwards.                                    *)
LEMMA ScanKeepsCapacity ==
  ASSUME Retained, GInv, CInv, plant.changes = {}, Scan
  PROVE  /\ CInv'
         /\ Cardinality(Staying(act)) <= runningNum(act')
  <1>1. PICK clock \in BOOLEAN, e \in BOOLEAN, d \in BOOLEAN, trigger \in Trigger :
            TaskScan(clock, e, d, trigger)
    BY DEF Scan
  <1> DEFINE A == Scanned(clock)
  <1>2. Core /\ Safe /\ act \in [Slots -> ActuatorMemory] /\ trigger \in BOOLEAN
    BY DEF GInv, Core, TypeOK, Trigger
  <1>3. AllFollow(A, act) /\ \A i \in Slots : Keeps(A[i], act[i])
    BY <1>2, ScannedFollows, ScannedKeeps DEF Core, CInv
  <1> HIDE DEF A
  <1>4. /\ \/ InvalidScan(A)
           \/ DisabledScan(A, e)
           \/ StopGroup(A)
           \/ RunningScan(A, trigger)
           \/ StoppingScan(A)
           \/ AutochangeScan(A)
        /\ cfg' = cfg
    BY <1>1 DEF TaskScan, A
  <1>5. A \in [Slots -> ActuatorMemory] /\ \A i \in Slots : A[i].enable => ~A[i].disableRequest
    BY <1>3 DEF AllFollow, Keeps
  <1>6. /\ \A i \in Slots : act'[i].enable = A[i].enable /\ act'[i].status = A[i].status
        /\ Reserve'
    BY <1>2, <1>3, <1>4, <1>5, RunningReserves, OtherReserves, StopAllStops DEF Stopped
  <1>7. \A i \in Slots : Coupled(act'[i])
    BY <1>3, <1>6 DEF Keeps, Coupled
  <1>8. Staying(act) \subseteq Enabled(act')
    BY <1>3, <1>6, InUseFinite DEF Staying, Enabled, Keeps
  <1>9. Cardinality(Staying(act)) <= runningNum(act')
    BY <1>8, CountsFinite, SubsetCount DEF runningNum
  <1> QED BY <1>6, <1>7, <1>9 DEF CInv

LEMMA CapacityStep ==
  ASSUME Retained, GInv, CInv, plant.changes = {}, [Next]_vars
  PROVE  CInv' /\ MinimumKept /\ SwapDropsByOne
  <1>1. cfg.minRunning \in Nat /\ runningNum(act) \in Nat /\ runningNum(act') \in Nat
        /\ Cardinality(Staying(act)) \in Nat
    BY TypesOfCore, CountsFinite DEF GInv, GroupConfig
  <1>2. CASE Scan
    <2>1. CInv' /\ Cardinality(Staying(act)) <= runningNum(act')
      BY <1>2, ScanKeepsCapacity
    <2> QED BY <1>1, <2>1 DEF CInv, Reserve, MinimumKept, SwapDropsByOne
  <1>3. CASE ChangeDemand \/ Trip \/ Interlock \/ Wear \/ Reconfigure \/ UNCHANGED vars
    <2>1. UNCHANGED <<act, status, cfg, plant>>
      BY <1>3 DEF ChangeDemand, Trip, Interlock, Wear, Reconfigure, vars, processVars,
                  groupVars
    <2>2. CInv'
      BY <2>1 DEF CInv, Reserve, Coupled, Staying, runningNum, Enabled, InUse
    <2> QED BY <1>1, <2>1, <2>2 DEF MinimumKept, SwapDropsByOne
  <1> QED BY <1>2, <1>3 DEF Next

(* With a configuration that stays as it is and outputs that hold, staged  *)
(* stops never take a group below a minimum it has reached, and a rotation *)
(* costs one actuator at a time, though each stop is decided one scan      *)
(* before it is carried out (ActuatorGroup.st:58, 385-399, 417-480).       *)
THEOREM CapacityCorrect ==
  ASSUME Retained
  PROVE  Spec /\ [](plant.changes = {}) => CapacityKept
  <1>1. Init => CInv
    <2> SUFFICES ASSUME Init PROVE CInv
      OBVIOUS
    <2>1. \A i \in Slots : Coupled(act[i])
      BY DEF Init, ActuatorColdStart, Coupled
    <2> QED BY <2>1 DEF Init, CInv, Reserve
  <1> DEFINE Fixed == plant.changes = {}
             Step == MinimumKept /\ SwapDropsByOne
  <1>2. GInv /\ CInv /\ Fixed /\ [Next]_vars => CInv' /\ [Step]_vars
    BY CapacityStep
  <1> HIDE DEF Fixed, Step
  <1>3. Spec /\ []Fixed => [][Step]_vars
    BY <1>1, <1>2, GroupInvariant, PTL DEF Spec
  <1> QED BY <1>3 DEF CapacityKept, Fixed, Step
=============================================================================
