----------------------------- MODULE MCDevices ------------------------------
(***************************************************************************)
(* The two blocks that drive a mechanism, an Actuator or an Axis, each     *)
(* with the configurations that TLC enumerates.  They share nothing, so a  *)
(* behaviour runs one of them, and the other one is never called.          *)
(***************************************************************************)
EXTENDS Actuator, Axis

Plain(feedbackTypes, actuationTypes) ==
    [feedbackType: feedbackTypes, actuationType: actuationTypes,
     enableTime: {2}, disableTime: {1}, enablePreset: {FALSE},
     diagnosticsEnable: {TRUE}, identified: {TRUE}]

Variant(c) ==
    {[c EXCEPT !.enablePreset = TRUE], [c EXCEPT !.diagnosticsEnable = FALSE],
     [c EXCEPT !.identified = FALSE], [c EXCEPT !.enableTime = 0]}

(* Every pair of feedback and actuation type, and for each feedback type   *)
(* one configuration with each other parameter changed.                    *)
AllConfigs ==
    Plain(ActuatorFeedbackType, ActuatorActuationType)
    \cup UNION {Variant(c) : c \in Plain(ActuatorFeedbackType, {"DoubleActuation"})}

(* The limits exceed the travel time of the mechanism by one or by two.    *)
SoundConfigs ==
    [feedbackType: ActuatorFeedbackType, actuationType: ActuatorActuationType,
     enableTime: {3, 4}, disableTime: {3}, enablePreset: BOOLEAN,
     diagnosticsEnable: {TRUE}, identified: BOOLEAN]

With(m, configs) == [config: configs, mechanism: {m}]
AllSetups == With("arbitrary", AllConfigs) \cup With("sound", SoundConfigs)

-----------------------------------------------------------------------------
(* Axes, with all the references or without any.                           *)
Program(commands, aborting, references) ==
    [commands |-> commands, aborting |-> aborting, references |-> references]
AllAxisPlants ==
    {Program({"Idle", "MoveVelocity", "MoveAbsolute", "GearIn"}, TRUE, Referring),
     Program({"Stop", "Halt", "CamIn", "WriteParameter"}, TRUE, Referring),
     Program({"Idle", "Jog", "Phasing", "TouchProbe"}, TRUE, Referring),
     Program({"HaltSuperimposed", "CamIn", "PositionProfile"}, TRUE, {}),
     Program({"MoveAbsolute", "Halt", "MoveVelocity", "GearIn"}, FALSE, Referring)}

-----------------------------------------------------------------------------
VARIABLE device
devVars == <<vars, axisVars, device>>

(* The block that is never called, as it is before its first call.         *)
NoActuator ==
    LET s == CHOOSE s \in Setups : TRUE
    IN /\ fb = ActuatorColdStart /\ config = s.config /\ mechanism = s.mechanism
       /\ position = 0 /\ sensors = [enabled |-> FALSE, disabled |-> FALSE]
NoAxis ==
    /\ axis = AxisColdStart /\ drive = {} /\ raced = FALSE
    /\ site = CHOOSE p \in AxisPlants : TRUE

DevInit ==
    \/ device = "actuator" /\ Init /\ NoAxis
    \/ device = "axis" /\ AxisInit /\ NoActuator

OfActuator(A) == device = "actuator" /\ A /\ UNCHANGED <<axisVars, device>>
OfAxis(A) == device = "axis" /\ A /\ UNCHANGED <<vars, device>>
DevNext == OfActuator(Next) \/ OfAxis(AxisNext)

(* The fairness of FairSpec and of AxisFairSpec.                           *)
DevSpec ==
    /\ DevInit /\ [][DevNext]_devVars
    /\ WF_devVars(OfActuator(ClockedScan)) /\ WF_devVars(OfAxis(Answered))
=============================================================================
