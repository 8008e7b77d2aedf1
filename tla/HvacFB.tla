------------------------------- MODULE HvacFB -------------------------------
(***************************************************************************)
(* One call of the HVAC component's Main (mantle-hvac/.../Main.st): the    *)
(* rule engine with the device diagnostics, the supervisor FSM, the air    *)
(* distribution and the device manager that drives the two glycol pumps,   *)
(* their valves, the air flow and its two dampers.  The effect of a call   *)
(* is a function from the memory of the component (DeviceFacade) to its    *)
(* new memory.                                                             *)
(***************************************************************************)
EXTENDS ActuatorFB, SignalMgmtFB

MainStatus == {"Standby", "Ventilation", "Cooling", "Heating", "Drying", "Fault"}
Requests == MainStatus

AirDistributionControllerStatus ==
    {"Init", "HighPhase", "TransitionToLow", "LowPhase", "TransitionToHigh"}

(* The recipe data that the control logic reads, with the configuration of *)
(* the dampers.                                                            *)
Recipe ==
    [tempSetpoint: Nat, tempHysteresis: Nat, tempMin: Nat, tempMax: Nat,
     rhMin: Nat, rhMax: Nat, rhHysteresis: Nat,
     ductTempMin: Nat, ductTempMax: Nat,
     rhControlEnabled: BOOLEAN, rhControlOnly: BOOLEAN,
     estimatedRuntime: Nat, minRuntime: Nat,
     estimatedBreakDuration: Nat, minBreakDuration: Nat,
     processEstimatedDuration: Nat, processMinDuration: Nat,
     airDistributionEnabled: BOOLEAN, setPointTimeHigh: Nat, setPointTimeLow: Nat,
     damper: ActuatorConfig]

(* The position sensors of a damper. *)
Position == [enabled: BOOLEAN, disabled: BOOLEAN]
NoPosition == [enabled |-> FALSE, disabled |-> FALSE]

(* The process sensors, the trip of the chilled water pump, the dampers    *)
(* and the pulses.                                                         *)
Input ==
    [temp: Nat, rh: Nat, duct: Nat, pumpTrip: BOOLEAN,
     highFlow: Position, lowFlow: Position, clock1s: BOOLEAN, clock100ms: BOOLEAN]

(* The actuators as the shipped recipes configure them. *)
PumpConfig ==
    [feedbackType |-> "WithoutFeedback", actuationType |-> "SingleActuation",
     enableTime |-> 1, disableTime |-> 1, enablePreset |-> FALSE,
     diagnosticsEnable |-> FALSE, identified |-> TRUE]

(* The shipped recipes leave the dampers as DeviceFacade declares them.    *)
UnconfiguredDamper ==
    [PumpConfig EXCEPT !.enableTime = 0, !.disableTime = 0, !.identified = FALSE]

(* The stop alarms of the modelled devices and of the supply air, in the  *)
(* order of the scan.                                                      *)
AlarmOf(code) ==
    [code |-> code, category |-> Alarm, resetPol |-> "UnconditionedReset",
     outputAction |-> SignalOutputAction.ImmediateStop]
AlarmCodes == 1..7
NoReset == [reset |-> FALSE, auxReset |-> FALSE, selectiveResetTrigger |-> FALSE,
            selectiveResetCode |-> 0, autoResetCondition |-> FALSE]

(* DeviceFacade.  The enable and disable requests of an actuator are those *)
(* of its memory; airFlow.enableRequest also permits the air distribution. *)
DeviceMemory ==
    [status: MainStatus, lastStatus: MainStatus, requests: SUBSET Requests,
     processActualDuration: Nat, actualRuntime: Nat, actualBreakDuration: Nat,
     timeBreakEnabled: BOOLEAN, isCompleted: BOOLEAN,
     ductTempOverMax: BOOLEAN, ductTempUnderMin: BOOLEAN,
     signalMgmt: SignalMemory(7),
     coldGlycolPump: ActuatorMemory, hotGlycolPump: ActuatorMemory,
     airFlow: ActuatorMemory, highFlowDamper: ActuatorMemory, lowFlowDamper: ActuatorMemory,
     airDistribution: [status: AirDistributionControllerStatus, high: Nat, low: Nat],
     coldGlycolValve: BOOLEAN, hotGlycolValve: BOOLEAN, ahuFan: BOOLEAN,
     error: BOOLEAN]

DeviceColdStart ==
    [status |-> "Standby", lastStatus |-> "Standby", requests |-> {},
     processActualDuration |-> 0, actualRuntime |-> 0, actualBreakDuration |-> 0,
     timeBreakEnabled |-> FALSE, isCompleted |-> FALSE,
     ductTempOverMax |-> FALSE, ductTempUnderMin |-> FALSE,
     signalMgmt |-> SignalColdStart,
     coldGlycolPump |-> ActuatorColdStart, hotGlycolPump |-> ActuatorColdStart,
     airFlow |-> ActuatorColdStart,
     highFlowDamper |-> ActuatorColdStart, lowFlowDamper |-> ActuatorColdStart,
     airDistribution |-> [status |-> "Init", high |-> 0, low |-> 0],
     coldGlycolValve |-> FALSE, hotGlycolValve |-> FALSE, ahuFan |-> FALSE,
     error |-> FALSE]

-----------------------------------------------------------------------------
(* MainRuleEngine: predicates of the cell sensor. *)
tempInRange(r, in) ==
    /\ in.temp >= r.tempMin + r.tempHysteresis
    /\ in.temp + r.tempHysteresis <= r.tempMax
tempAboveSetpointBand(r, in) == in.temp >= r.tempSetpoint + r.tempHysteresis
tempBelowSetpointBand(r, in) == in.temp + r.tempHysteresis <= r.tempSetpoint
rhOverMax(r, in) == in.rh + r.rhHysteresis > r.rhMax
rhUnderMin(r, in) == in.rh < r.rhMin + r.rhHysteresis

(* DeviceDiagnostics: the alarms of a scan, on the duct predicates that the *)
(* previous scan computed.                                                 *)
AlarmCauses(d) ==
    {code \in AlarmCodes :
        \/ code = 1 /\ d.airFlow.fault
        \/ code = 2 /\ d.coldGlycolPump.fault
        \/ code = 3 /\ d.hotGlycolPump.fault
        \/ code = 4 /\ d.highFlowDamper.fault
        \/ code = 5 /\ d.lowFlowDamper.fault
        \/ code = 6 /\ d.ductTempOverMax
        \/ code = 7 /\ d.ductTempUnderMin}

(* Mutant: the alarms are processed without a fresh scan. *)
StaleDeviceDiagnostics(d) == d.signalMgmt

Scanned(m, code, causes) == ProcessSignal(m, AlarmOf(code), code \in causes, NoReset)
DeviceDiagnostics(d) ==
    LET on == AlarmCauses(d)
        devices ==
            Scanned(Scanned(Scanned(Scanned(Scanned(PrepareSignals(d.signalMgmt, NoReset),
                1, on), 2, on), 3, on), 4, on), 5, on)
    IN Scanned(Scanned(devices, 6, on), 7, on)

StopActive(d) == 1 \in d.signalMgmt.cumulativeOutputAction

(* Run/break cycle.  The counters advance in a break, in an active phase   *)
(* and in the dwell of a thermostat, never while a recipe waits to start.  *)
BreakOver(r, breakTime) ==
    /\ r.estimatedBreakDuration > 0
    /\ breakTime >= r.estimatedBreakDuration
    /\ breakTime >= r.minBreakDuration
BreakDue(r, d, runtime) ==
    /\ r.estimatedRuntime > 0 /\ ~d.timeBreakEnabled
    /\ runtime >= r.estimatedRuntime /\ runtime >= r.minRuntime

(* Mutant: a break does not count towards the duration. *)
StalledCountBreak(r, d) ==
    LET next == d.actualBreakDuration + 1
        over == BreakOver(r, next)
    IN [d EXCEPT !.timeBreakEnabled = ~over,
                 !.actualRuntime = IF over THEN 0 ELSE @,
                 !.actualBreakDuration = IF over THEN 0 ELSE next]

CountBreak(r, d) ==
    LET next == d.actualBreakDuration + 1
        over == BreakOver(r, next)
    IN [d EXCEPT !.processActualDuration = @ + 1,
                 !.timeBreakEnabled = ~over,
                 !.actualRuntime = IF over THEN 0 ELSE @,
                 !.actualBreakDuration = IF over THEN 0 ELSE next]
CountActive(r, d) ==
    LET due == BreakDue(r, d, d.actualRuntime + 1)
    IN [d EXCEPT !.processActualDuration = @ + 1, !.actualRuntime = @ + 1,
                 !.timeBreakEnabled = @ \/ due,
                 !.actualBreakDuration = IF due THEN 0 ELSE @]
CountDwell(d) == [d EXCEPT !.processActualDuration = @ + 1]

Count(r, d) ==
    CASE d.status = "Standby" /\ d.timeBreakEnabled -> CountBreak(r, d)
      [] d.status # "Standby" -> CountActive(r, d)
      [] /\ d.status = "Standby" /\ ~d.timeBreakEnabled
         /\ d.lastStatus \in {"Cooling", "Heating"} /\ ~d.isCompleted -> CountDwell(d)
      [] OTHER -> d

Timing(r, d, in) ==
    LET counted == Count(r, d)
    IN CASE ~in.clock1s -> d
         [] in.clock1s /\ r.processEstimatedDuration = 0 -> counted
         [] in.clock1s /\ r.processEstimatedDuration > 0 ->
              [counted EXCEPT !.isCompleted =
                  /\ counted.processActualDuration >= r.processEstimatedDuration
                  /\ counted.processActualDuration >= r.processMinDuration]

(* Transition conditions: the request that each state issues.  Standby is  *)
(* the default of every scan; KeepPhase withdraws it.                      *)
KeepPhase == {}

StandbyRule(r, d, in) ==
    CASE d.lastStatus \in {"Cooling", "Standby"} /\ tempAboveSetpointBand(r, in) ->
            {"Cooling"}
      [] /\ ~(d.lastStatus \in {"Cooling", "Standby"} /\ tempAboveSetpointBand(r, in))
         /\ d.lastStatus \in {"Heating", "Standby"} /\ tempBelowSetpointBand(r, in) ->
            {"Heating"}
      [] /\ d.lastStatus = "Drying" /\ ~d.timeBreakEnabled /\ ~d.isCompleted
         /\ tempInRange(r, in)
         /\ r.rhControlOnly => r.rhControlEnabled /\ rhOverMax(r, in) -> {"Drying"}
      [] /\ d.lastStatus = "Standby"
         /\ ~tempAboveSetpointBand(r, in) /\ ~tempBelowSetpointBand(r, in)
         /\ in.temp <= r.tempMax /\ rhOverMax(r, in) -> {"Drying"}
      [] OTHER -> {"Standby"}

CoolingRule(r, d, in) ==
    CASE tempBelowSetpointBand(r, in) \/ d.isCompleted -> {"Standby"}
      [] /\ ~(tempBelowSetpointBand(r, in) \/ d.isCompleted)
         /\ d.lastStatus = "Drying" /\ in.temp < r.tempMax -> {"Drying"}
      [] OTHER -> KeepPhase

HeatingRule(r, d, in) ==
    CASE tempAboveSetpointBand(r, in) \/ d.isCompleted -> {"Standby"}
      [] /\ ~(tempAboveSetpointBand(r, in) \/ d.isCompleted)
         /\ \/ d.lastStatus = "Drying" /\ in.temp > r.tempMin
            \/ r.rhControlEnabled /\ rhOverMax(r, in) -> {"Drying"}
      [] OTHER -> KeepPhase

DryingOver(r, d, in) ==
    \/ d.isCompleted
    \/ /\ ~r.rhControlOnly /\ tempInRange(r, in)
       /\ r.estimatedRuntime > 0 /\ d.actualRuntime > r.estimatedRuntime
    \/ r.rhControlOnly /\ rhUnderMin(r, in) /\ d.actualRuntime >= r.minRuntime
    \/ r.rhControlEnabled /\ rhUnderMin(r, in)
    \/ d.timeBreakEnabled
DryingRule(r, d, in) ==
    CASE DryingOver(r, d, in) -> {"Standby"}
      [] ~DryingOver(r, d, in) /\ in.temp > r.tempMax -> {"Cooling"}
      [] ~DryingOver(r, d, in) /\ in.temp < r.tempMin -> {"Heating"}
      [] OTHER -> KeepPhase

Rule(r, d, in) ==
    CASE d.status = "Standby" -> StandbyRule(r, d, in)
      [] d.status = "Ventilation" -> IF d.isCompleted THEN {"Standby"} ELSE KeepPhase
      [] d.status = "Cooling" -> CoolingRule(r, d, in)
      [] d.status = "Heating" -> HeatingRule(r, d, in)
      [] d.status = "Drying" -> DryingRule(r, d, in)
      [] d.status = "Fault" -> {"Standby"}

(* The rule engine; a stop alarm leaves the default request standing.      *)
MainRuleEngine(r, d, in) ==
    LET sensed == [d EXCEPT !.signalMgmt = DeviceDiagnostics(d),
                            !.ductTempOverMax = in.duct > r.ductTempMax,
                            !.ductTempUnderMin = in.duct < r.ductTempMin]
        timed == Timing(r, sensed, in)
    IN [timed EXCEPT !.requests = IF StopActive(timed) THEN {"Fault", "Standby"}
                                  ELSE Rule(r, timed, in)]

-----------------------------------------------------------------------------
(* Output function of the FSM.  Both requests of an actuator are written   *)
(* in every scan.                                                          *)
Command(pump, on) ==
    [pump EXCEPT !.enableRequest = on, !.disableRequest = ~on]
OutputFunction(d, cold, hot, air) ==
    [d EXCEPT !.coldGlycolPump = Command(@, cold),
              !.hotGlycolPump = Command(@, hot),
              !.airFlow = Command(@, air), !.ahuFan = air]

(* The states that a phase may request, in the order the code tests them.  *)
Successors(status) ==
    CASE status = "Standby" -> <<"Ventilation", "Cooling", "Heating", "Drying">>
      [] status = "Ventilation" -> <<"Standby", "Cooling", "Heating", "Drying">>
      [] status \in {"Cooling", "Heating"} -> <<"Standby", "Drying", "Ventilation">>
      [] status = "Drying" -> <<"Standby", "Heating", "Cooling", "Ventilation">>

(* State-update function: the first standing request wins.                 *)
Update(d) ==
    LET order == Successors(d.status)
        asked == {i \in DOMAIN order : order[i] \in d.requests}
    IN IF asked = {} THEN d
       ELSE [d EXCEPT !.status = order[CHOOSE i \in asked : \A j \in asked : i <= j]]

Acknowledge(d) == [d EXCEPT !.requests = @ \ {d.status}]

(* Mutant: the fault state keeps ventilating. *)
VentilatingFaultState(d) ==
    [OutputFunction(Acknowledge(d), FALSE, FALSE, TRUE) EXCEPT !.error = TRUE]

FaultState(d) ==
    LET off == OutputFunction(Acknowledge(d), FALSE, FALSE, FALSE)
        clear == d.signalMgmt.cumulativeOutputAction = SignalOutputAction.None
    IN [off EXCEPT !.error = ~clear, !.status = IF clear THEN "Standby" ELSE @]

(* Mutants: Standby leaves the outputs as they are; heating leaves the     *)
(* cold group as it is.                                                    *)
LateMainFSM(d) ==
    CASE d.status = "Fault" -> FaultState(d)
      [] d.status = "Standby" -> Update(Acknowledge(d))
      [] d.status \notin {"Standby", "Fault"} ->
           Update(OutputFunction(Acknowledge(d), d.status \in {"Cooling", "Drying"},
                                 d.status \in {"Heating", "Drying"}, TRUE))
SharedMainFSM(d) ==
    LET cold == \/ d.status \in {"Cooling", "Drying"}
                \/ d.status = "Heating" /\ d.coldGlycolPump.enable
    IN CASE d.status = "Fault" -> FaultState(d)
         [] d.status # "Fault" ->
              Update(OutputFunction(Acknowledge(d), cold,
                                    d.status \in {"Heating", "Drying"},
                                    d.status # "Standby"))

MainFSM(d) ==
    CASE d.status = "Fault" -> FaultState(d)
      [] d.status # "Fault" ->
           Update(OutputFunction(Acknowledge(d), d.status \in {"Cooling", "Drying"},
                                 d.status \in {"Heating", "Drying"},
                                 d.status # "Standby"))

-----------------------------------------------------------------------------
(* AirDistributionController: the throw is high or low, by a pair of       *)
(* dampers; a phase of a throw is counted while air is wanted.             *)
Throw(d, high) ==
    [d EXCEPT !.highFlowDamper = Command(@, high), !.lowFlowDamper = Command(@, ~high)]
Enter(d, status, high, low) ==
    [d EXCEPT !.airDistribution = [status |-> status, high |-> high, low |-> low]]
InitAirDistribution(d) == Enter(Throw(d, TRUE), "Init", 0, 0)

Counted(count, in) == IF in.clock1s THEN count + 1 ELSE count
Elapsed(count, limit) == limit > 0 /\ count >= limit

HighPhase(r, d, in) ==
    LET time == Counted(d.airDistribution.high, in)
    IN IF Elapsed(time, r.setPointTimeHigh)
       THEN Enter(Throw(d, FALSE), "TransitionToLow", 0, d.airDistribution.low)
       ELSE Enter(d, "HighPhase", time, d.airDistribution.low)
LowPhase(r, d, in) ==
    LET time == Counted(d.airDistribution.low, in)
    IN IF Elapsed(time, r.setPointTimeLow)
       THEN Enter(Throw(d, TRUE), "TransitionToHigh", d.airDistribution.high, 0)
       ELSE Enter(d, "LowPhase", d.airDistribution.high, time)

(* Mutant: one of the two dampers is enough. *)
HastyTransition(d, closing, opening, next) ==
    IF closing.disableRequest /\ opening.enableRequest THEN d
    ELSE Enter(d, next, d.airDistribution.high, d.airDistribution.low)

(* A transition is over when both dampers have acknowledged. *)
Transition(d, closing, opening, next) ==
    IF closing.disableRequest \/ opening.enableRequest THEN d
    ELSE Enter(d, next, d.airDistribution.high, d.airDistribution.low)

ThrowFSM(r, d, in) ==
    CASE d.airDistribution.status = "Init" ->
            Enter(Throw(d, TRUE), "HighPhase", d.airDistribution.high, d.airDistribution.low)
      [] d.airDistribution.status = "HighPhase" -> HighPhase(r, d, in)
      [] d.airDistribution.status = "TransitionToLow" ->
            Transition(d, d.highFlowDamper, d.lowFlowDamper, "LowPhase")
      [] d.airDistribution.status = "LowPhase" -> LowPhase(r, d, in)
      [] d.airDistribution.status = "TransitionToHigh" ->
            Transition(d, d.lowFlowDamper, d.highFlowDamper, "HighPhase")

AirDistributionController(r, d, mode, in) ==
    CASE mode = "Init" -> InitAirDistribution(d)
      [] mode = "Run" /\ d.airFlow.enableRequest /\ r.airDistributionEnabled ->
            ThrowFSM(r, d, in)
      [] OTHER -> d

-----------------------------------------------------------------------------
(* DeviceManager: a valve is enabled by the request as the scan of its     *)
(* pump leaves it.                                                         *)
Drive(actuator, config, mode, in, position, trip) ==
    ActuatorScan(actuator, config,
                 [operationType |-> mode, clock |-> in.clock100ms,
                  enabledSensor |-> position.enabled, disabledSensor |-> position.disabled,
                  externalFault |-> trip])

DeviceManager(r, d, mode, in) ==
    LET cold == Drive(d.coldGlycolPump, PumpConfig, mode, in, NoPosition, in.pumpTrip)
        hot == Drive(d.hotGlycolPump, PumpConfig, mode, in, NoPosition, FALSE)
    IN [d EXCEPT !.coldGlycolPump = cold, !.coldGlycolValve = cold.enableRequest,
                 !.hotGlycolPump = hot, !.hotGlycolValve = hot.enableRequest,
                 !.airFlow = Drive(@, PumpConfig, mode, in, NoPosition, FALSE),
                 !.highFlowDamper = Drive(@, r.damper, mode, in, in.highFlow, FALSE),
                 !.lowFlowDamper = Drive(@, r.damper, mode, in, in.lowFlow, FALSE)]

-----------------------------------------------------------------------------
(* Main, in the order of its statements.                                   *)
ClearContext(d) ==
    [InitAirDistribution(d) EXCEPT !.status = "Standby", !.actualRuntime = 0,
              !.actualBreakDuration = 0, !.processActualDuration = 0,
              !.timeBreakEnabled = FALSE, !.isCompleted = FALSE]

(* Mutant: the reset between two recipes keeps the progress. *)
KeepProgressPrepare(r, d, in, mode, contextReset) ==
    CASE mode = "Init" ->
            [ClearContext(d) EXCEPT !.signalMgmt = ResetSignals(@)]
      [] mode = "Run" /\ contextReset ->
            [d EXCEPT !.status = "Standby", !.lastStatus = "Standby",
                      !.isCompleted = FALSE]
      [] mode = "Run" /\ ~contextReset -> MainRuleEngine(r, d, in)

Prepare(r, d, in, mode, contextReset) ==
    CASE mode = "Init" ->
            [ClearContext(d) EXCEPT !.signalMgmt = ResetSignals(@)]
      [] mode = "Run" /\ contextReset ->
            [ClearContext(d) EXCEPT !.lastStatus = "Standby"]
      [] mode = "Run" /\ ~contextReset -> MainRuleEngine(r, d, in)

Remember(d, mode) ==
    [d EXCEPT !.lastStatus = IF mode = "Init" \/ d.status # "Standby"
                             THEN d.status ELSE @]

Override(d) ==
    [d EXCEPT !.status = IF "Fault" \in d.requests THEN "Fault" ELSE @]

(* One call of Main. *)
Main(r, d, in, mode, contextReset, enable) ==
    IF enable
    THEN LET prepared == Remember(Prepare(r, d, in, mode, contextReset), mode)
             commanded == MainFSM(Override(prepared))
         IN DeviceManager(r, AirDistributionController(r, commanded, mode, in), mode, in)
    ELSE d
=============================================================================
