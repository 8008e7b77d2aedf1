---------------------------- MODULE MCSignalMgmt ----------------------------
(* Two signals: an alarm that a condition may reset and an anomaly that    *)
(* accepts the auxiliary reset; or a warning that resets itself.           *)
EXTENDS SignalMgmt

ConditionedAlarm ==
    [code |-> 1, category |-> Alarm, resetPol |-> "AutoConditionedReset",
     outputAction |-> SignalOutputAction.ImmediateStop]
AuxAnomaly ==
    [code |-> 2, category |-> Anomaly, resetPol |-> "AuxReset",
     outputAction |-> SignalOutputAction.EmergencyStop]
PlainWarning ==
    [code |-> 1, category |-> Warning, resetPol |-> "UnconditionedReset",
     outputAction |-> SignalOutputAction.Inhibition]

TwoApplications == {<<ConditionedAlarm, AuxAnomaly>>, <<AuxAnomaly, PlainWarning>>}
=============================================================================
