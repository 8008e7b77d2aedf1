----------------------------- MODULE ActuatorFB -----------------------------
(***************************************************************************)
(* The function block Actuator (framework/.../device/Actuator.st): memory, *)
(* configuration and the effect of one scan.  A function block call is a   *)
(* function from the block's memory and the inputs of the call to the new  *)
(* memory, so the block is written as operators on records; Actuator.tla   *)
(* runs one block against a mechanism and a caller, ActuatorGroup.tla runs *)
(* several blocks under the staging controller.                            *)
(***************************************************************************)
EXTENDS Naturals

ActuatorStatus == {"Disabled", "EnablePhase", "Enabled", "DisablePhase"}
ActuatorFeedbackType == {"WithoutFeedback", "SingleDisableFeedback",
                         "SingleEnableFeedback", "DoubleFeedback"}
ActuatorActuationType == {"SingleActuation", "DoubleActuation",
                          "DoubleActuationNoRetain"}

(* What the caller wires to the configuration inputs; identified is FALSE  *)
(* when both actuatorId and actuatorName are empty.                        *)
ActuatorConfig ==
    [feedbackType: ActuatorFeedbackType, actuationType: ActuatorActuationType,
     enableTime: Nat, disableTime: Nat, enablePreset: BOOLEAN,
     diagnosticsEnable: BOOLEAN, identified: BOOLEAN]

(* The block's memory: requests shared with the caller (VAR_IN_OUT), the   *)
(* outputs and the FSM.  enabled, disabled and timeout are recomputed by   *)
(* every scan before they are read.                                        *)
ActuatorMemory ==
    [status: ActuatorStatus, timer: Nat,
     enableRequest: BOOLEAN, disableRequest: BOOLEAN,
     enable: BOOLEAN, disable: BOOLEAN,
     actuatorFault: BOOLEAN, enabledSensorFault: BOOLEAN,
     disabledSensorFault: BOOLEAN, fault: BOOLEAN, notInitialized: BOOLEAN]

(* Values of the memory before the first call: the IEC defaults. *)
ActuatorColdStart ==
    [status |-> "Disabled", timer |-> 0,
     enableRequest |-> FALSE, disableRequest |-> FALSE,
     enable |-> FALSE, disable |-> FALSE,
     actuatorFault |-> FALSE, enabledSensorFault |-> FALSE,
     disabledSensorFault |-> FALSE, fault |-> FALSE, notInitialized |-> FALSE]

ActuatorInput ==
    [operationType: {"Init", "Run"}, clock: BOOLEAN, enabledSensor: BOOLEAN,
     disabledSensor: BOOLEAN, externalFault: BOOLEAN]

-----------------------------------------------------------------------------
(* Initialization handler: the status follows the preset and the sensors.  *)
PresetReached(c, in) ==
    CASE c.feedbackType = "WithoutFeedback" -> TRUE
      [] c.feedbackType = "SingleDisableFeedback" ->
            in.disabledSensor = ~c.enablePreset
      [] c.feedbackType = "SingleEnableFeedback" ->
            in.enabledSensor = c.enablePreset
      [] c.feedbackType = "DoubleFeedback" ->
            IF c.enablePreset THEN in.enabledSensor ELSE in.disabledSensor

InitHandler(b, c, in) ==
    [b EXCEPT !.enableRequest = FALSE, !.disableRequest = FALSE,
              !.enable = c.enablePreset,
              !.timer = IF c.enablePreset THEN c.enableTime ELSE c.disableTime,
              !.status = IF c.enablePreset
                         THEN IF PresetReached(c, in) THEN "Enabled"
                                                      ELSE "EnablePhase"
                         ELSE IF PresetReached(c, in) THEN "Disabled"
                                                      ELSE "DisablePhase",
              !.notInitialized = ~PresetReached(c, in)]

(* Clock handler of the diagnosis timer. *)
ClockHandler(b, in) ==
    [b EXCEPT !.timer = IF in.clock /\ @ > 0 THEN @ - 1 ELSE @]

(* Feedback polymorphism: what the sensors that exist do not say is derived *)
(* from the status, and in the transient phases from the timeout.          *)
EnabledFeedback(b, c, in) ==
    LET assumed == \/ b.status = "Enabled"
                   \/ b.status = "EnablePhase" /\ b.timer = 0
    IN CASE c.feedbackType \in {"DoubleFeedback", "SingleEnableFeedback"} ->
                in.enabledSensor
         [] c.feedbackType = "SingleDisableFeedback" ->
                ~in.disabledSensor /\ assumed
         [] c.feedbackType = "WithoutFeedback" -> assumed

DisabledFeedback(b, c, in) ==
    LET assumed == \/ b.status = "Disabled"
                   \/ b.status = "DisablePhase" /\ b.timer = 0
    IN CASE c.feedbackType \in {"DoubleFeedback", "SingleDisableFeedback"} ->
                in.disabledSensor
         [] c.feedbackType = "SingleEnableFeedback" ->
                ~in.enabledSensor /\ assumed
         [] c.feedbackType = "WithoutFeedback" -> assumed

-----------------------------------------------------------------------------
(* Mutants: a disable phase whose timer is not armed; a stable state that   *)
(* keeps the output, or the opposite request; phases that end unconfirmed. *)
UnarmedStartDisabling(b, c) ==
    [b EXCEPT !.enable = FALSE, !.status = "DisablePhase"]
EnergisedEnabledState(b, c) ==
    LET acked == [b EXCEPT !.enableRequest = FALSE]
    IN IF b.disableRequest
       THEN [acked EXCEPT !.timer = c.disableTime, !.status = "DisablePhase"]
       ELSE acked
StaleDisabledState(b, c) ==
    IF b.enableRequest
    THEN [b EXCEPT !.enable = TRUE, !.timer = c.enableTime, !.status = "EnablePhase"]
    ELSE b
EagerEnablePhaseState(b, c, enabled) ==
    CASE b.disableRequest ->
            [b EXCEPT !.enableRequest = FALSE, !.enable = FALSE,
                      !.timer = c.disableTime, !.status = "DisablePhase"]
      [] ~b.disableRequest /\ (enabled \/ b.timer = 0) ->
            [b EXCEPT !.enableRequest = FALSE, !.timer = 0, !.status = "Enabled"]
      [] OTHER -> b

(* The four states of the FSM.                                             *)
StartEnabling(b, c) ==
    [b EXCEPT !.enable = TRUE, !.timer = c.enableTime, !.status = "EnablePhase"]
StartDisabling(b, c) ==
    [b EXCEPT !.enable = FALSE, !.timer = c.disableTime, !.status = "DisablePhase"]

DisabledState(b, c) ==
    LET acked == [b EXCEPT !.disableRequest = FALSE]
    IN IF b.enableRequest THEN StartEnabling(acked, c) ELSE acked

EnablePhaseState(b, c, enabled) ==
    CASE b.disableRequest ->
            StartDisabling([b EXCEPT !.enableRequest = FALSE], c)
      [] ~b.disableRequest /\ enabled ->
            [b EXCEPT !.enableRequest = FALSE, !.timer = 0, !.status = "Enabled"]
      [] OTHER -> b

EnabledState(b, c) ==
    LET acked == [b EXCEPT !.enableRequest = FALSE]
    IN IF b.disableRequest THEN StartDisabling(acked, c) ELSE acked

DisablePhaseState(b, c, disabled) ==
    CASE b.enableRequest ->
            StartEnabling([b EXCEPT !.disableRequest = FALSE], c)
      [] ~b.enableRequest /\ disabled ->
            [b EXCEPT !.disableRequest = FALSE, !.timer = 0, !.status = "Disabled"]
      [] OTHER -> b

StatusMachine(b, c, enabled, disabled) ==
    CASE b.status = "Disabled" -> DisabledState(b, c)
      [] b.status = "EnablePhase" -> EnablePhaseState(b, c, enabled)
      [] b.status = "Enabled" -> EnabledState(b, c)
      [] b.status = "DisablePhase" -> DisablePhaseState(b, c, disabled)

(* Mutant: a mechanism between its two positions is not diagnosed. *)
BlindDiagnose(b, c, in, enabled, disabled, timeout) ==
    LET raised == c.diagnosticsEnable /\ timeout
        both == disabled /\ enabled
        dsf == raised /\ b.enable /\ both
        esf == raised /\ ~b.enable /\ both
        af == raised /\ enabled # disabled /\ enabled # b.enable
    IN [b EXCEPT !.disabledSensorFault = dsf, !.enabledSensorFault = esf,
                 !.actuatorFault = af,
                 !.fault = dsf \/ esf \/ af \/ in.externalFault]

(* Diagnostics handler.  timeout is the value computed before the FSM ran: *)
(* the FSM may have re-armed the timer since.                              *)
Diagnose(b, c, in, enabled, disabled, timeout) ==
    LET raised == c.diagnosticsEnable /\ timeout
        none == ~disabled /\ ~enabled
        both == disabled /\ enabled
        dsf == raised /\ IF b.enable THEN both ELSE none
        esf == raised /\ IF b.enable THEN none ELSE both
        af == raised /\ IF b.enable THEN disabled /\ ~enabled
                                    ELSE enabled /\ ~disabled
    IN [b EXCEPT !.disabledSensorFault = dsf, !.enabledSensorFault = esf,
                 !.actuatorFault = af,
                 !.fault = dsf \/ esf \/ af \/ in.externalFault]

(* Actuation polymorphism on the outputs; in the last form disable is      *)
(* computed from the enable assigned just before it.                       *)
Actuate(b, c) ==
    LET pulse == b.enable /\ b.status = "EnablePhase"
    IN CASE c.actuationType = "SingleActuation" -> b
         [] c.actuationType = "DoubleActuation" ->
               [b EXCEPT !.disable = ~b.enable]
         [] c.actuationType = "DoubleActuationNoRetain" ->
               [b EXCEPT !.enable = pulse,
                         !.disable = ~pulse /\ b.status = "DisablePhase"]

(* The part of a scan that both operating modes execute. *)
Elaborate(b, c, in) ==
    LET t == ClockHandler(b, in)
        enabled == EnabledFeedback(t, c, in)
        disabled == DisabledFeedback(t, c, in)
    IN Actuate(Diagnose(StatusMachine(t, c, enabled, disabled), c, in,
                        enabled, disabled, t.timer = 0), c)

(* One call.  Initialization without an identification returns at once. *)
ActuatorScan(b, c, in) ==
    CASE in.operationType = "Run" -> Elaborate(b, c, in)
      [] in.operationType = "Init" /\ c.identified ->
            Elaborate(InitHandler(b, c, in), c, in)
      [] in.operationType = "Init" /\ ~c.identified ->
            [b EXCEPT !.notInitialized = TRUE]
=============================================================================
