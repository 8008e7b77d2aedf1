--------------------------- MODULE ActuatorGroup ---------------------------
(***************************************************************************)
(* The staging controller ActuatorGroup (framework/.../ActuatorGroup.st)   *)
(* with the Actuator blocks it commands.  One step of the PLC task calls   *)
(* every Actuator and then the group, in the order the header of the group *)
(* prescribes; requests travel through the shared arrays, which here are   *)
(* the request fields of the actuators' memories.                          *)
(*                                                                         *)
(* Demand, start and stop points and run hours are REALs of which only the *)
(* order matters: they are small naturals here.  A TON timer is "off",     *)
(* "on" or "done" (its output Q): time passes at any speed.                *)
(***************************************************************************)
EXTENDS ActuatorFB, SequencesExt

CONSTANTS
    MaxSize,          \* ACTUATOR_GROUP_MAX_SIZE
    Plants,           \* what the caller and the process may do, see Plant
    startPoints, stopPoints,  \* thresholds, functions on 0..MaxSize-1
    autochangeLevel, maxWearImbalance,
    ActuatorSettings  \* configuration of every Actuator block

ActuatorGroupStatus == {"Disabled", "Running", "Stopping", "Autochange"}
ActuatorGroupAutochange ==
    {"None", "EvenWear", "FixedInterval", "ExternalTrigger", "AllStopped"}
Slots == 1..MaxSize
GroupConfig == [actuatorNum: Nat, minRunning: Nat, maxRunning: Nat,
                autochange: ActuatorGroupAutochange]

(* A plant: the configuration its caller wires to the inputs and may change *)
(* at run time, the values of demandSetpoint, the actuators that trip or   *)
(* are interlocked, and the bound of the run hours.                        *)
Plant == [config: GroupConfig, changes: SUBSET (GroupConfig \X GroupConfig),
          demands: SUBSET Nat, trippable: SUBSET Slots, lockable: SUBSET Slots,
          maxHours: Nat]

ASSUME GroupAssumption ==
    /\ MaxSize \in Nat \ {0}
    /\ Plants \subseteq Plant
    /\ startPoints \in [0..MaxSize-1 -> Nat]
    /\ stopPoints \in [0..MaxSize-1 -> Nat]
    /\ {autochangeLevel, maxWearImbalance} \subseteq Nat
    /\ ActuatorSettings \in ActuatorConfig

VARIABLES
    plant,      \* the plant, fixed while the program runs
    act,        \* memories of the Actuator blocks
    cfg,        \* configuration inputs of the group
    status,     \* internalStatus
    sortedIdx,  \* priority order; 0 where no slot has been assigned yet
    swap,       \* autochangeStep, autochangeStopIdx, autochangeStartIdx
    trigOld,    \* autochangeTrigOld
    timers,     \* startTimer, stopTimer, autochangeTimer
    out,        \* outputs that are not functions of the rest
    demand, tripped, interlocked, hours  \* what the process shows the group
groupVars == <<status, sortedIdx, swap, trigOld, timers, out>>
processVars == <<plant, demand, tripped, interlocked, hours>>
vars == <<act, cfg, groupVars, processVars>>

Init ==
    /\ act = [i \in Slots |-> ActuatorColdStart]
    /\ plant \in Plants
    /\ cfg = plant.config
    /\ status = "Disabled"
    /\ sortedIdx = [i \in Slots |-> 0]
    /\ swap = [step |-> 0, stopIdx |-> 0, startIdx |-> 0]
    /\ trigOld = FALSE
    /\ timers = [start |-> "off", stop |-> "off", autochange |-> "off"]
    /\ out = [status |-> "Disabled", underMinimum |-> FALSE,
              invalidConfig |-> FALSE, autochangeActive |-> FALSE]
    /\ demand \in plant.demands
    /\ tripped = {} /\ interlocked = {}
    /\ hours = [i \in Slots |-> 0]

-----------------------------------------------------------------------------
(* The process around the group. *)
ChangeDemand ==
    /\ \E d \in plant.demands \ {demand} : demand' = d
    /\ UNCHANGED <<plant, act, cfg, groupVars, tripped, interlocked, hours>>
Trip ==
    /\ \E i \in plant.trippable :
          tripped' = IF i \in tripped THEN tripped \ {i} ELSE tripped \cup {i}
    /\ UNCHANGED <<plant, act, cfg, groupVars, demand, interlocked, hours>>
Interlock ==
    /\ \E i \in plant.lockable :
          interlocked' = IF i \in interlocked THEN interlocked \ {i}
                                              ELSE interlocked \cup {i}
    /\ UNCHANGED <<plant, act, cfg, groupVars, demand, tripped, hours>>
Wear ==
    /\ \E i \in Slots : act[i].enable /\ hours[i] < plant.maxHours
                        /\ hours' = [hours EXCEPT ![i] = @ + 1]
    /\ UNCHANGED <<plant, act, cfg, groupVars, demand, tripped, interlocked>>
Reconfigure ==
    /\ \E change \in plant.changes : cfg = change[1] /\ cfg' = change[2]
    /\ UNCHANGED <<act, groupVars, processVars>>

-----------------------------------------------------------------------------
(* What the group computes in every scan from the actuators' outputs A.    *)
InUse == {i \in Slots : i <= cfg.actuatorNum}
invalidConfig ==
    \/ cfg.actuatorNum \notin 1..MaxSize
    \/ cfg.maxRunning < 1
    \/ cfg.minRunning > cfg.maxRunning
    \/ cfg.maxRunning > cfg.actuatorNum

Enabled(A) == {i \in InUse : A[i].enable}
Offline(A, i) == A[i].fault \/ i \in interlocked
Available(A) == {i \in InUse : ~Offline(A, i)}
runningNum(A) == Cardinality(Enabled(A))
Standby(A, i) == ~A[i].enable /\ ~Offline(A, i)

(* Unassigned entries of the priority order take their own slot.           *)
FilledIdx ==
    [i \in Slots |-> IF i \in InUse /\ sortedIdx[i] = 0 THEN i ELSE sortedIdx[i]]

(* The entries in use, as a sequence, and back.                            *)
InOrder(idx) == [k \in InUse |-> idx[k]]
Reorder(idx, seq) == [i \in Slots |-> IF i \in InUse THEN seq[i] ELSE idx[i]]

(* EvenWear sort: ascending hours, offline slots at the end, stable.  The  *)
(* bubble sort of the code is modelled pass by pass in EvenWearSort.       *)
SortsBefore(A, i, j) ==
    \/ ~Offline(A, i) /\ Offline(A, j)
    \/ ~Offline(A, i) /\ ~Offline(A, j) /\ hours[i] < hours[j]
GoesBefore(A, idx, k, l) ==
    \/ SortsBefore(A, idx[k], idx[l])
    \/ ~SortsBefore(A, idx[l], idx[k]) /\ k < l
EvenWearOrder(A, idx) ==
    LET place == [k \in InUse |-> Cardinality({l \in InUse : GoesBefore(A, idx, l, k)}) + 1]
    IN Reorder(idx, [p \in InUse |-> idx[CHOOSE k \in InUse : place[k] = p]])

Priorities(A) ==
    IF cfg.autochange = "EvenWear" /\ status \in {"Running", "Autochange"}
    THEN EvenWearOrder(A, FilledIdx)
    ELSE FilledIdx

(* The first, or the last, slot in priority order with a property: a set   *)
(* of at most one slot.                                                    *)
FirstOf(idx, S) ==
    LET k == SelectInSeq(InOrder(idx), LAMBDA i : i \in S) IN IF k = 0 THEN {} ELSE {idx[k]}
LastOf(idx, S) ==
    LET k == SelectLastInSeq(InOrder(idx), LAMBDA i : i \in S) IN IF k = 0 THEN {} ELSE {idx[k]}

(* Mutant: a rotation that does not shift. *)
UnshiftedMoveToEnd(idx, slot) == [idx EXCEPT ![cfg.actuatorNum] = slot]

Rotate(idx) ==
    Reorder(idx, [k \in InUse |->
        IF k < cfg.actuatorNum THEN idx[k + 1] ELSE idx[1]])
MoveToEnd(idx, slot) ==
    LET at == SelectInSeq(InOrder(idx), LAMBDA s : s = slot)
    IN IF at = 0 THEN idx
       ELSE Reorder(idx, Append(RemoveAt(InOrder(idx), at), slot))

(* Requests written into the shared arrays. *)
Commanded(A, starts, stops) ==
    [i \in Slots |-> [A[i] EXCEPT !.enableRequest = @ \/ i \in starts,
                                  !.disableRequest = @ \/ i \in stops]]
StopAll(A) ==
    [i \in Slots |-> IF i \in InUse
        THEN [A[i] EXCEPT !.enableRequest = FALSE, !.disableRequest = @ \/ A[i].enable]
        ELSE A[i]]

(* IEC 61131-3 TON: Q after IN has stayed TRUE for the preset time. *)
Ton(t, IN_) ==
    CASE ~IN_ -> {"off"}
      [] IN_ /\ t = "off" -> {"on", "done"}
      [] IN_ /\ t = "on" -> {"on", "done"}
      [] IN_ /\ t = "done" -> {"done"}
CallTimers(startTrig, stopTrig, autochangeTrig) ==
    \E s \in Ton(timers.start, startTrig), p \in Ton(timers.stop, stopTrig),
       a \in Ton(timers.autochange, autochangeTrig) :
        timers' = [start |-> s, stop |-> p, autochange |-> a]

(* The trigger input only matters in one mode. *)
Trigger == IF cfg.autochange = "ExternalTrigger" THEN BOOLEAN ELSE {FALSE}

Outputs(A, active) ==
    out' = [status |-> status', invalidConfig |-> FALSE,
            underMinimum |-> status = "Running" /\ runningNum(A) < cfg.minRunning,
            autochangeActive |-> active]

-----------------------------------------------------------------------------
(* The states of the group's FSM, given the actuators' outputs A and the   *)
(* priority order of this scan.                                            *)
InvalidScan(A) ==
    /\ invalidConfig
    /\ act' = A
    /\ out' = [out EXCEPT !.status = "Disabled", !.invalidConfig = TRUE]
    /\ UNCHANGED <<status, sortedIdx, swap, timers>>

DisabledScan(A, groupEnable) ==
    /\ status = "Disabled" /\ ~invalidConfig
    /\ status' = IF groupEnable /\ Cardinality(Available(A)) >= cfg.minRunning
                 THEN "Running" ELSE "Disabled"
    /\ act' = A
    /\ sortedIdx' = FilledIdx
    /\ swap' = [swap EXCEPT !.step = 0]
    /\ CallTimers(FALSE, FALSE, FALSE)
    /\ Outputs(A, FALSE)

(* Mutant: the stop is not waited for. *)
AbruptStopGroup(A) ==
    /\ status \in {"Running", "Autochange"} /\ ~invalidConfig
    /\ act' = StopAll(A)
    /\ status' = "Disabled"
    /\ sortedIdx' = Priorities(A)
    /\ CallTimers(FALSE, FALSE, FALSE)
    /\ Outputs(A, FALSE)
    /\ UNCHANGED swap

(* Running and Autochange: a disable command stops everything. *)
StopGroup(A) ==
    /\ status \in {"Running", "Autochange"} /\ ~invalidConfig
    /\ act' = StopAll(A)
    /\ status' = "Stopping"
    /\ sortedIdx' = Priorities(A)
    /\ CallTimers(FALSE, FALSE, status = "Running" /\ cfg.autochange = "FixedInterval")
    /\ Outputs(A, status = "Autochange")
    /\ UNCHANGED swap

(* One start: to restore the minimum at once, or when the start timer has  *)
(* fired; and one stop, when the stop timer has.                           *)
(* Mutants: off by one at the maximum, above the minimum. *)
StartPossibleAtMaximum(A) ==
    /\ runningNum(A) \in cfg.minRunning..cfg.maxRunning
    /\ runningNum(A) <= cfg.actuatorNum - 1
StopPossibleNeverLast(A) == runningNum(A) > cfg.minRunning + 1

StartPossible(A) ==
    /\ runningNum(A) \in cfg.minRunning..(cfg.maxRunning - 1)
    /\ runningNum(A) <= cfg.actuatorNum - 1
StopPossible(A) ==
    runningNum(A) > cfg.minRunning

StagedStart(A, idx) ==
    IF \/ runningNum(A) < cfg.minRunning
       \/ StartPossible(A) /\ timers.start = "done"
    THEN FirstOf(idx, {i \in Slots : Standby(A, i) /\ ~A[i].enableRequest})
    ELSE {}
StagedStop(A, idx) ==
    IF StopPossible(A) /\ timers.stop = "done"
    THEN LastOf(idx, {i \in Slots : A[i].enable /\ ~A[i].disableRequest})
    ELSE {}

(* The actuator an autochange stops: the most worn one if it runs and the  *)
(* least worn one stands by; or the last one running.                      *)
LeastWorn(S) == CHOOSE i \in S : \A j \in S :
    hours[i] < hours[j] \/ (hours[i] = hours[j] /\ i <= j)
MostWorn(S) == CHOOSE i \in S : \A j \in S :
    hours[i] > hours[j] \/ (hours[i] = hours[j] /\ i <= j)

EvenWearStop(A) ==
    IF Available(A) = {} THEN {}
    ELSE LET min == LeastWorn(Available(A))
             max == MostWorn(Available(A))
         IN IF /\ hours[max] - hours[min] > maxWearImbalance
               /\ A[max].enable /\ ~A[min].enable
            THEN {max} ELSE {}

AutochangeAllowed(A) == runningNum(A) > 0 /\ demand <= autochangeLevel

(* Mutant: the swap takes the first running actuator, the staging the last. *)
FirstRunningAutochangeStop(A, idx, trigger) ==
    IF /\ AutochangeAllowed(A)
       /\ cfg.autochange \in {"FixedInterval", "ExternalTrigger"}
       /\ IF cfg.autochange = "FixedInterval" THEN timers.autochange = "done"
                                              ELSE trigger /\ ~trigOld
    THEN FirstOf(idx, {i \in Slots : A[i].enable}) ELSE {}
AutochangeStop(A, idx, trigger) ==
    CASE ~AutochangeAllowed(A) \/ cfg.autochange \in {"None", "AllStopped"} -> {}
      [] AutochangeAllowed(A) /\ cfg.autochange = "EvenWear" -> EvenWearStop(A)
      [] AutochangeAllowed(A) /\ cfg.autochange = "FixedInterval" ->
            IF timers.autochange = "done"
            THEN LastOf(idx, {i \in Slots : A[i].enable}) ELSE {}
      [] AutochangeAllowed(A) /\ cfg.autochange = "ExternalTrigger" ->
            IF trigger /\ ~trigOld
            THEN LastOf(idx, {i \in Slots : A[i].enable}) ELSE {}

RunningScan(A, trigger) ==
    /\ status = "Running" /\ ~invalidConfig
    /\ LET idx == Priorities(A)
           r == runningNum(A)
           old == AutochangeStop(A, idx, trigger)
       IN /\ act' = Commanded(A, StagedStart(A, idx), StagedStop(A, idx) \cup old)
          /\ status' = IF old = {} THEN "Running" ELSE "Autochange"
          /\ swap' = IF old = {} THEN swap
                     ELSE [swap EXCEPT !.step = 1,
                              !.stopIdx = CHOOSE i \in old : TRUE,
                              !.startIdx = IF cfg.autochange = "EvenWear"
                                           THEN 0 ELSE @]
          /\ sortedIdx' = idx
          /\ CallTimers(
                StartPossible(A) /\ timers.start # "done" /\ demand > startPoints[r],
                StopPossible(A) /\ timers.stop # "done" /\ demand < stopPoints[r - 1],
                /\ cfg.autochange = "FixedInterval"
                /\ ~(AutochangeAllowed(A) /\ timers.autochange = "done"))
    /\ Outputs(A, FALSE)

StoppingScan(A) ==
    /\ status = "Stopping" /\ ~invalidConfig
    /\ act' = A
    /\ status' = IF runningNum(A) = 0 THEN "Disabled" ELSE "Stopping"
    /\ sortedIdx' = IF runningNum(A) = 0 /\ cfg.autochange = "AllStopped"
                    THEN Rotate(FilledIdx) ELSE FilledIdx
    /\ CallTimers(FALSE, FALSE, FALSE)
    /\ Outputs(A, out.autochangeActive)
    /\ UNCHANGED swap

(* Mutant: the replacement is chosen but its start is not requested. *)
SilentSwapStopped(A) ==
    /\ swap.step = 1 /\ ~A[swap.stopIdx].enable
    /\ \E i \in InUse : /\ Standby(A, i)
                        /\ swap' = [swap EXCEPT !.step = 2, !.startIdx = i]
    /\ act' = A /\ sortedIdx' = Priorities(A)
    /\ UNCHANGED status

(* Autochange step 1: the old actuator has stopped; start the replacement. *)
SwapStopped(A) ==
    /\ swap.step = 1
    /\ ~A[swap.stopIdx].enable
    /\ LET idx == IF cfg.autochange \in {"FixedInterval", "ExternalTrigger"}
                  THEN MoveToEnd(Priorities(A), swap.stopIdx) ELSE Priorities(A)
           new == FirstOf(idx, {i \in Slots : Standby(A, i)})
       IN /\ sortedIdx' = idx
          /\ act' = Commanded(A, new, {})
          /\ IF new = {}
             THEN /\ swap' = [swap EXCEPT !.step = 0, !.startIdx = 0]
                  /\ status' = "Running"
             ELSE /\ swap' = [swap EXCEPT !.step = 2,
                                 !.startIdx = CHOOSE i \in new : TRUE]
                  /\ status' = "Autochange"

(* Autochange step 2: the replacement runs. *)
SwapStarted(A) ==
    /\ swap.step = 2
    /\ A[swap.startIdx].enable
    /\ swap' = [swap EXCEPT !.step = 0]
    /\ status' = "Running"
    /\ act' = A /\ sortedIdx' = Priorities(A)

SwapWaits(A) ==
    /\ \/ swap.step = 1 /\ A[swap.stopIdx].enable
       \/ swap.step = 2 /\ ~A[swap.startIdx].enable
    /\ act' = A /\ sortedIdx' = Priorities(A)
    /\ UNCHANGED <<status, swap>>

AutochangeScan(A) ==
    /\ status = "Autochange" /\ ~invalidConfig
    /\ SwapStopped(A) \/ SwapStarted(A) \/ SwapWaits(A)
    /\ CallTimers(FALSE, FALSE, FALSE)
    /\ Outputs(A, TRUE)

-----------------------------------------------------------------------------
(* One scan of the task: the actuators, then the group.  The edge memory   *)
(* of the trigger is not updated in a scan that an invalid configuration   *)
(* ends early.                                                             *)
Scanned(clock) ==
    [i \in Slots |->
        ActuatorScan(act[i], ActuatorSettings,
            [operationType |-> "Run", clock |-> clock,
             enabledSensor |-> FALSE, disabledSensor |-> FALSE,
             externalFault |-> i \in tripped])]
TaskScan(clock, groupEnable, groupDisable, trigger) ==
    /\ LET A == Scanned(clock)
       IN \/ InvalidScan(A)
          \/ DisabledScan(A, groupEnable)
          \/ groupDisable /\ StopGroup(A)
          \/ ~groupDisable /\ RunningScan(A, trigger)
          \/ StoppingScan(A)
          \/ ~groupDisable /\ AutochangeScan(A)
    /\ trigOld' = IF invalidConfig THEN trigOld ELSE trigger
    /\ UNCHANGED <<cfg, processVars>>

Scan ==
    \E clock, groupEnable, groupDisable \in BOOLEAN, trigger \in Trigger :
        TaskScan(clock, groupEnable, groupDisable, trigger)

Next == Scan \/ ChangeDemand \/ Trip \/ Interlock \/ Wear \/ Reconfigure

Spec == Init /\ [][Next]_vars

(* The task is cyclic, and time passes: a running TON that keeps its input *)
(* reaches its preset time.  Nothing obliges the operator to command.      *)
TimePasses ==
    /\ TaskScan(TRUE, FALSE, FALSE, trigOld)
    /\ \A t \in DOMAIN timers : timers[t] = "on" => timers'[t] # "on"
FairSpec == Spec /\ WF_vars(TimePasses)

-----------------------------------------------------------------------------
(* Type invariant. *)
TypeOK ==
    /\ act \in [Slots -> ActuatorMemory]
    /\ cfg \in GroupConfig
    /\ status \in ActuatorGroupStatus
    /\ sortedIdx \in [Slots -> 0..MaxSize]
    /\ swap \in [step: 0..2, stopIdx: 0..MaxSize, startIdx: 0..MaxSize]
    /\ trigOld \in BOOLEAN
    /\ timers \in [start: {"off", "on", "done"}, stop: {"off", "on", "done"},
                   autochange: {"off", "on", "done"}]
    /\ out \in [status: ActuatorGroupStatus, underMinimum: BOOLEAN,
                invalidConfig: BOOLEAN, autochangeActive: BOOLEAN]
    /\ plant \in Plants
    /\ demand \in plant.demands
    /\ tripped \subseteq plant.trippable /\ interlocked \subseteq plant.lockable
    /\ hours \in [Slots -> 0..plant.maxHours]

Assigned == {i \in Slots : sortedIdx[i] # 0}

(* The priority order never loses or repeats an actuator, through sorts,   *)
(* rotations, swaps and a group that grows or shrinks at run time: the     *)
(* assigned entries are a permutation of themselves (ActuatorGroup.st:236, *)
(* 266-288, 497-502, 539-550).                                             *)
PriorityOrderIsPermutation ==
    {sortedIdx[i] : i \in Assigned} = Assigned

(* Never more than maxRunning actuators are running or about to run: not   *)
(* when a start, the recovery of the minimum and a swap follow each other  *)
(* closely (ActuatorGroup.st:341-376, 553-561).                            *)
MaximumKept ==
    Cardinality({i \in InUse : act[i].enable \/ act[i].enableRequest})
        <= cfg.maxRunning

(* Once the minimum is reached, demand stops alone never take the group     *)
(* below it: the stop decided in one scan takes effect in the next one,    *)
(* and the count the decision used must still be good (ActuatorGroup.st:   *)
(* 385-399). A rotation costs one actuator at a time: runningNum briefly   *)
(* drops by 1 (line 58), also when a staged stop falls into the same scan. *)
MinimumKept ==
    status = "Running" /\ cfg.autochange \in {"None", "AllStopped"} /\ cfg' = cfg
      /\ runningNum(act) >= cfg.minRunning
    => runningNum(act') >= cfg.minRunning
SwapDropsByOne ==
    status = "Autochange" /\ status' # "Stopping" /\ cfg.autochange # "EvenWear"
    => runningNum(act') >= runningNum(act) - 1
CapacityKept == [][MinimumKept /\ SwapDropsByOne]_vars

(* A disabled group has stopped its actuators, unless its configuration    *)
(* changes at run time: one that shrinks leaves the removed ones running.  *)
DisabledMeansStopped ==
    status = "Disabled" /\ plant.changes = {} =>
        \A i \in InUse : ~act[i].enable /\ ~act[i].enableRequest

(* A disable command is carried through, and a rotation comes to its end.  *)
PhasesEnd ==
    /\ status = "Stopping" ~> status = "Disabled"
    /\ status = "Autochange" ~> status # "Autochange"

(* With a steady demand and all actuators available, the group settles on  *)
(* the number of actuators that the thresholds ask for.                    *)
Steady(n) ==
    /\ status = "Running" /\ cfg.autochange = "None" /\ tripped = {} /\ interlocked = {}
    /\ n < cfg.maxRunning => demand <= startPoints[n]
    /\ n > cfg.minRunning => demand >= stopPoints[n - 1]
    /\ \A k \in cfg.minRunning..(n - 1) : demand > startPoints[k]
    /\ \A k \in (n + 1)..cfg.maxRunning : demand < stopPoints[k - 1]
DemandFollowed ==
    \A n \in Slots \cup {0} :
        <>[](n \in cfg.minRunning..cfg.maxRunning /\ Steady(n))
          => <>[](runningNum(act) = n)

(* Fault recovery: when enough actuators are available, the group does not *)
(* stay with fewer than minRunning sound actuators running                 *)
(* (ActuatorGroup.st:36-39).                                               *)
FaultRecovered ==
    <>[](status = "Running" /\ Cardinality(InUse \ (tripped \cup interlocked)) >= cfg.minRunning)
      => []<>(Cardinality(Enabled(act) \ tripped) >= cfg.minRunning)
=============================================================================
