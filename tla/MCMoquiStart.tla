---------------------------- MODULE MCMoquiStart ----------------------------
(* Recipes on a small scale: setpoint 3, band 2 to 4, limits 1 and 5 for   *)
(* the cell, humidity above 4 to be treated and below 2 treated, supply    *)
(* air between 1 and 2; durations of a few pulses.                         *)
EXTENDS MoquiStart

Thermostat ==
    [tempSetpoint |-> 3, tempHysteresis |-> 1, tempMin |-> 1, tempMax |-> 5,
     rhMin |-> 1, rhMax |-> 5, rhHysteresis |-> 1,
     ductTempMin |-> 1, ductTempMax |-> 2,
     rhControlEnabled |-> FALSE, rhControlOnly |-> FALSE,
     estimatedRuntime |-> 0, minRuntime |-> 0,
     estimatedBreakDuration |-> 0, minBreakDuration |-> 0,
     processEstimatedDuration |-> 3, processMinDuration |-> 2,
     airDistributionEnabled |-> FALSE, setPointTimeHigh |-> 0, setPointTimeLow |-> 0,
     damper |-> UnconfiguredDamper]

(* Interval drying: a run of two pulses, a break of one. *)
IntervalDrying ==
    [Thermostat EXCEPT !.estimatedRuntime = 2, !.minRuntime = 1,
                       !.estimatedBreakDuration = 1,
                       !.processEstimatedDuration = 5]
(* The proportions of the shipped CivilDehumidifying: the break outlasts   *)
(* the duration.                                                           *)
RhDrying ==
    [Thermostat EXCEPT !.rhControlOnly = TRUE, !.estimatedRuntime = 3,
                       !.minRuntime = 1, !.estimatedBreakDuration = 2,
                       !.minBreakDuration = 1, !.processEstimatedDuration = 4]
HumidThermostat == [Thermostat EXCEPT !.rhControlEnabled = TRUE]

Quiet(recipes) ==
    [recipes |-> recipes, temps |-> {3}, humidities |-> {6}, ducts |-> {1},
     trips |-> {FALSE}, positions |-> {NoPosition},
     commandResults |-> {TRUE}, commands |-> {}, resets |-> {FALSE}]

(* Any weather, with restarts and ventilation by hand.                     *)
Weather ==
    [Quiet(<<HumidThermostat, IntervalDrying>>) EXCEPT
        !.temps = {0, 2, 3, 4, 6}, !.humidities = {0, 3, 6},
        !.commands = {"enable", "init", "ventilate"}]
(* Trips and bad supply air, with resets at any time.                      *)
Alarms ==
    [Quiet(<<IntervalDrying, RhDrying>>) EXCEPT
        !.temps = {3, 6}, !.ducts = {0, 1, 3}, !.trips = BOOLEAN,
        !.commands = {"enable"}, !.resets = BOOLEAN]
(* The framework disabled and enabled again at any time. *)
Interrupted ==
    [Quiet(<<IntervalDrying, RhDrying>>) EXCEPT !.commands = {"enable", "disable"}]
(* Recipe files that may fail to load.                                     *)
Loading ==
    [Quiet(<<IntervalDrying, RhDrying>>) EXCEPT
        !.commandResults = BOOLEAN, !.commands = {"enable"}]
(* Alternating throws by dampers with two sensors each, which may show     *)
(* either position or none, in step or not.                                *)
Throws ==
    [IntervalDrying EXCEPT
        !.processEstimatedDuration = 4,
        !.airDistributionEnabled = TRUE, !.setPointTimeHigh = 1, !.setPointTimeLow = 1,
        !.damper = [PumpConfig EXCEPT !.feedbackType = "DoubleFeedback",
                                      !.diagnosticsEnable = TRUE]]
Throwing ==
    [Quiet(<<Throws>>) EXCEPT
        !.positions = {NoPosition, [enabled |-> TRUE, disabled |-> FALSE],
                       [enabled |-> FALSE, disabled |-> TRUE]},
        !.commands = {"init"}]
(* One thermostat recipe, as cooling ends; with trips of its pump.         *)
Cooling == [Quiet(<<Thermostat>>) EXCEPT !.temps = {2, 4}, !.humidities = {3}]
Tripping == [Cooling EXCEPT !.temps = {4}, !.trips = BOOLEAN, !.resets = BOOLEAN]

AllPlants == {Weather, Alarms, Interrupted, Loading, Throwing}
CoolingPlants == {Cooling}
TrippingPlants == {Tripping}
=============================================================================
