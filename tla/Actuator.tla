------------------------------ MODULE Actuator ------------------------------
(***************************************************************************)
(* One Actuator function block, the program that calls it and the          *)
(* mechanism it drives.                                                    *)
(*                                                                         *)
(* Between two scans the caller may raise or withdraw its requests, which  *)
(* share memory with the block (VAR_IN_OUT).  A scan samples the sensors   *)
(* and runs the whole block.  A sound mechanism travels one position per   *)
(* clock pulse in the direction the outputs command and its sensors tell   *)
(* its end positions; any other mechanism shows arbitrary sensor values.   *)
(***************************************************************************)
EXTENDS ActuatorFB

CONSTANTS
    Setups,          \* configurations of the block, each with its mechanism
    Travel           \* clock pulses a sound mechanism needs from end to end

ASSUME ActuatorAssumption ==
    /\ Setups \subseteq [config: ActuatorConfig, mechanism: {"sound", "arbitrary"}]
    /\ Travel \in Nat \ {0}

VARIABLES
    fb,        \* memory of the block
    config,    \* its configuration, fixed while the program runs
    mechanism, \* "sound" or "arbitrary"
    position,  \* of the mechanism: 0 is disabled, Travel is enabled
    sensors    \* enabledSensor and disabledSensor as the last scan saw them
vars == <<fb, config, mechanism, position, sensors>>

(* A sound mechanism needs less time than the limits configured for it: a  *)
(* limit is one pulse short when the scan that arms the timer, an Init     *)
(* scan, is itself clocked (the clock handler runs after the init handler). *)
Init ==
    /\ fb = ActuatorColdStart
    /\ \E s \in Setups : config = s.config /\ mechanism = s.mechanism
    /\ mechanism = "sound" =>
           Travel < config.enableTime /\ Travel < config.disableTime
    /\ position = 0
    /\ sensors = [enabled |-> FALSE, disabled |-> FALSE]

-----------------------------------------------------------------------------
(* The caller.  CancelEnable is what ActuatorGroup does to pending starts. *)
Command(b) == fb' = b /\ UNCHANGED <<config, mechanism, position, sensors>>

RequestEnable == ~fb.enableRequest /\ Command([fb EXCEPT !.enableRequest = TRUE])
RequestDisable == ~fb.disableRequest /\ Command([fb EXCEPT !.disableRequest = TRUE])
CancelEnable == fb.enableRequest /\ Command([fb EXCEPT !.enableRequest = FALSE])

(* The mechanism between two clock pulses.  A single-acting one returns by *)
(* its spring; a double-acting one without command stays where it is.      *)
Returning == IF config.actuationType = "SingleActuation" THEN ~fb.enable
                                                        ELSE fb.disable
Moved ==
    CASE fb.enable /\ position < Travel -> position + 1
      [] ~fb.enable /\ Returning /\ position > 0 -> position - 1
      [] OTHER -> position

SoundSensors(in) ==
    /\ in.enabledSensor = (position' = Travel)
    /\ in.disabledSensor = (position' = 0)

Scan(in) ==
    /\ position' = IF mechanism = "sound" /\ in.clock THEN Moved ELSE position
    /\ mechanism = "sound" => SoundSensors(in)
    /\ fb' = ActuatorScan(fb, config, in)
    /\ sensors' = [enabled |-> in.enabledSensor, disabled |-> in.disabledSensor]
    /\ UNCHANGED <<config, mechanism>>

InitScan == \E in \in ActuatorInput : in.operationType = "Init" /\ Scan(in)
RunScan == \E in \in ActuatorInput : in.operationType = "Run" /\ Scan(in)
ClockedScan ==
    \E in \in ActuatorInput : in.operationType = "Run" /\ in.clock /\ Scan(in)

Next == RequestEnable \/ RequestDisable \/ CancelEnable \/ InitScan \/ RunScan

Spec == Init /\ [][Next]_vars

(* The task is cyclic and ClockGeneration keeps pulsing the clock input.   *)
FairSpec == Spec /\ WF_vars(ClockedScan)

-----------------------------------------------------------------------------
(* Type invariant. *)
TypeOK ==
    /\ fb \in ActuatorMemory
    /\ config \in ActuatorConfig
    /\ mechanism \in {"sound", "arbitrary"}
    /\ position \in 0..Travel
    /\ sensors \in [enabled: BOOLEAN, disabled: BOOLEAN]

(* The outputs always agree with the FSM: whatever sequence of requests,   *)
(* reversals, timeouts and re-initializations led here, a retaining        *)
(* actuator is energised exactly in EnablePhase and Enabled, a pulsed one  *)
(* exactly in its two transient phases, and the two coils are never driven *)
(* at once (FSM and post-elaboration of Actuator.st).                      *)
OutputsFollowStatus ==
    /\ ~(fb.enable /\ fb.disable)
    /\ IF config.actuationType = "DoubleActuationNoRetain"
       THEN /\ fb.enable <=> fb.status = "EnablePhase"
            /\ fb.disable => fb.status = "DisablePhase"
       ELSE fb.enable <=> fb.status \in {"EnablePhase", "Enabled"}

(* No scan leaves both requests standing: every state consumes or cancels  *)
(* one of two contradictory requests, so that the FSM cannot bounce between *)
(* its two phases on requests made once (Actuator.st FSM).                 *)
ScanResolvesContradiction ==
    [][RunScan \/ (InitScan /\ config.identified)
         => ~(fb'.enableRequest /\ fb'.disableRequest)]_vars

(* What the sensors that a configuration has show of the two positions.     *)
SeesEnabled ==
    /\ config.feedbackType \in {"SingleEnableFeedback", "DoubleFeedback"}
           => sensors.enabled
    /\ config.feedbackType = "SingleDisableFeedback" => ~sensors.disabled
SeesDisabled ==
    /\ config.feedbackType \in {"SingleDisableFeedback", "DoubleFeedback"}
           => sensors.disabled
    /\ config.feedbackType = "SingleEnableFeedback" => ~sensors.enabled

Retains == config.actuationType # "DoubleActuationNoRetain"
Diagnosed == config.diagnosticsEnable /\ fb.timer = 0 => fb.fault
Initialized == InitScan /\ config.identified

(* The falling edge of a request is the acknowledgement that a caller      *)
(* sequences on (header of Actuator.st).  The block enters a position, by   *)
(* its FSM or by an initialization, only when the sensors show it.  It     *)
(* drops a request for that position in the scan that enters it, or when a *)
(* standing opposite request overrides it.  The exception: in a position   *)
(* already entered it drops a new request without a look at the sensors    *)
(* (Actuator.st:196, 224).  Then either they still show the position or    *)
(* the same scan raises the fault, if diagnostics are enabled and no timer *)
(* armed by an initialization is running.  One case escapes the diagnosis: *)
(* an enabled actuator of the pulsed type has its output off, and a sensor *)
(* that shows it disabled agrees with the output.                          *)
PositionsConfirmed ==
    /\ fb'.status = "Enabled" /\ (fb.status # "Enabled" \/ Initialized) => SeesEnabled'
    /\ fb'.status = "Disabled" /\ (fb.status # "Disabled" \/ Initialized) => SeesDisabled'
EnableAcknowledged ==
    RunScan /\ fb.enableRequest /\ ~fb'.enableRequest /\ ~fb.disableRequest
      => /\ fb'.status = "Enabled"
         /\ \/ SeesEnabled'
            \/ fb.status = "Enabled" /\ Diagnosed'
            \/ fb.status = "Enabled" /\ ~Retains /\ sensors'.disabled
DisableAcknowledged ==
    RunScan /\ fb.disableRequest /\ ~fb'.disableRequest /\ ~fb.enableRequest
      => /\ fb'.status = "Disabled"
         /\ \/ SeesDisabled'
            \/ fb.status = "Disabled" /\ Diagnosed'
RequestsAcknowledged ==
    [][PositionsConfirmed /\ EnableAcknowledged /\ DisableAcknowledged]_vars

InternalFault ==
    fb.actuatorFault \/ fb.enabledSensorFault \/ fb.disabledSensorFault

(* A sound mechanism of an actuation type that retains its output raises a  *)
(* false alarm only in the scan that reverses the commanded direction,     *)
(* because the diagnosis then uses the timeout of the timer that the FSM   *)
(* has just re-armed (Actuator.st:172 and 255-264); an Init scan without   *)
(* identification diagnoses nothing and leaves the fault it finds.         *)
FalseAlarmOnlyOnReversal ==
    [][(RunScan \/ (InitScan /\ config.identified)) /\ mechanism = "sound" /\ Retains
         /\ InternalFault' => fb'.enable # fb.enable]_vars

(* A mechanism that stays away from the commanded position cannot remain   *)
(* undetected: a standing request is eventually dropped or a fault         *)
(* is raised (the handshake diagnostics of the header of Actuator.st).     *)
RequestsResolved ==
    /\ config.diagnosticsEnable /\ fb.enableRequest
           ~> ~fb.enableRequest \/ fb.fault
    /\ config.diagnosticsEnable /\ fb.disableRequest
           ~> ~fb.disableRequest \/ fb.fault
=============================================================================
