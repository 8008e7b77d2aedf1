----------------------------- MODULE MoquiStart -----------------------------
(***************************************************************************)
(* The program MoquiStart (framework/src/start/MoquiStart.st), which the   *)
(* cyclic StartTask runs, with the recipe management and the HVAC          *)
(* component it calls.  Every action but the operator's is one scan of the *)
(* task: the recipe management first, then what the status of the program  *)
(* asks for.  The process, the recipe files and the clock pulses are       *)
(* chosen anew for each scan.                                              *)
(***************************************************************************)
EXTENDS HvacFB, DeviceConfigFB, Sequences, FiniteSets

CONSTANTS
    Plants,          \* the installations, see Plant
    retryOnError, minRetryTime, maxRetryCount   \* MoquiConf.st

(* An installation: the recipes of the default config type in name order,  *)
(* the values of the cell and duct sensors and of the external fault of    *)
(* the chilled water pump, what the sensors of the dampers may show, the   *)
(* outcomes of the recipe file commands, what the supervision does, and    *)
(* the values of its reset command.                                        *)
Plant ==
    [recipes: Seq(Recipe), temps: SUBSET Nat, humidities: SUBSET Nat,
     ducts: SUBSET Nat, trips: SUBSET BOOLEAN, positions: SUBSET Position,
     commandResults: SUBSET BOOLEAN,
     commands: SUBSET {"enable", "disable", "init", "ventilate"},
     resets: SUBSET BOOLEAN]

ASSUME MoquiStartAssumption ==
    /\ Plants \subseteq Plant
    /\ retryOnError \in BOOLEAN
    /\ minRetryTime \in Nat /\ maxRetryCount \in Nat

VARIABLES
    plant,       \* the installation, fixed while the program runs
    moqui,       \* MoquiStart and the execution context
    configMgmt,  \* the recipe management
    dev,         \* the HVAC component
    second       \* changes with every pulse of clks.clock1s
vars == <<plant, moqui, configMgmt, dev, second>>

MoquiMemory ==
    [status: {"Idle", "Run", "Error"}, enable: BOOLEAN, init: BOOLEAN,
     error: BOOLEAN, autoReset: BOOLEAN,
     mainDone: BOOLEAN, mainDoneOld: BOOLEAN,
     deviceConfigContextResetRequest: BOOLEAN, mainInitPending: BOOLEAN,
     retryCount: 0..maxRetryCount, retryTime: 0..minRetryTime]

Init ==
    /\ plant \in Plants
    /\ moqui = [status |-> "Idle", enable |-> TRUE, init |-> TRUE,
                error |-> FALSE, autoReset |-> FALSE,
                mainDone |-> FALSE, mainDoneOld |-> FALSE,
                deviceConfigContextResetRequest |-> FALSE,
                mainInitPending |-> TRUE, retryCount |-> 0, retryTime |-> 0]
    /\ configMgmt = DeviceConfigColdStart
    /\ dev = DeviceColdStart
    /\ second = 0

-----------------------------------------------------------------------------
(* The first statements of a scan: the pending Init, the recipe management *)
(* and the edge of mainDone.                                               *)
Begun(c) ==
    [moqui EXCEPT !.init = FALSE, !.mainInitPending = @ \/ moqui.init,
                  !.error = c.error, !.mainDoneOld = moqui.mainDone,
                  !.deviceConfigContextResetRequest =
                      @ \/ (moqui.mainDone /\ ~moqui.mainDoneOld)]

RunConfigMgmt ==
    \E ok \in plant.commandResults :
        configMgmt' = DeviceConfigScan(configMgmt, moqui.enable, moqui.mainDone,
                                       Len(plant.recipes), ok)

(* Whether this scan sees a pulse of clock1s. *)
Tick(tick) == second' = IF tick THEN 1 - second ELSE second

StayIdle ==
    /\ moqui.status = "Idle"
    /\ RunConfigMgmt
    /\ configMgmt'.error \/ ~moqui.enable
    /\ moqui' = Begun(configMgmt')
    /\ \E tick \in BOOLEAN : Tick(tick)
    /\ UNCHANGED dev

Start ==
    /\ moqui.status = "Idle"
    /\ RunConfigMgmt
    /\ ~configMgmt'.error /\ moqui.enable
    /\ moqui' = [Begun(configMgmt') EXCEPT !.mainDone = FALSE,
                     !.deviceConfigContextResetRequest = FALSE, !.status = "Run"]
    /\ \E tick \in BOOLEAN : Tick(tick)
    /\ UNCHANGED dev

StopOnConfigError ==
    /\ moqui.status = "Run"
    /\ RunConfigMgmt
    /\ configMgmt'.error
    /\ moqui' = [Begun(configMgmt') EXCEPT !.status = "Error"]
    /\ \E tick \in BOOLEAN : Tick(tick)
    /\ UNCHANGED dev

WaitForConfig ==
    /\ moqui.status = "Run"
    /\ RunConfigMgmt
    /\ ~configMgmt'.error /\ configMgmt'.busy
    /\ moqui' = Begun(configMgmt')
    /\ \E tick \in BOOLEAN : Tick(tick)
    /\ UNCHANGED dev

(* All recipes done: the program disables itself. *)
Finish ==
    /\ moqui.status = "Run"
    /\ RunConfigMgmt
    /\ ~configMgmt'.error /\ ~configMgmt'.busy /\ configMgmt'.allConfigLoaded
    /\ moqui' = [Begun(configMgmt') EXCEPT !.enable = FALSE, !.status = "Idle"]
    /\ \E tick \in BOOLEAN : Tick(tick)
    /\ UNCHANGED dev

(* The recipe data in force; before the first load the fields are zero.    *)
NoRecipe ==
    [tempSetpoint |-> 0, tempHysteresis |-> 0, tempMin |-> 0, tempMax |-> 0,
     rhMin |-> 0, rhMax |-> 0, rhHysteresis |-> 0,
     ductTempMin |-> 0, ductTempMax |-> 0,
     rhControlEnabled |-> FALSE, rhControlOnly |-> FALSE,
     estimatedRuntime |-> 0, minRuntime |-> 0,
     estimatedBreakDuration |-> 0, minBreakDuration |-> 0,
     processEstimatedDuration |-> 0, processMinDuration |-> 0,
     airDistributionEnabled |-> FALSE, setPointTimeHigh |-> 0, setPointTimeLow |-> 0,
     damper |-> UnconfiguredDamper]
Data(recipe) == IF recipe = 0 THEN NoRecipe ELSE plant.recipes[recipe]

Inputs ==
    [temp: plant.temps, rh: plant.humidities, duct: plant.ducts, pumpTrip: plant.trips,
     highFlow: plant.positions, lowFlow: plant.positions,
     clock1s: BOOLEAN, clock100ms: BOOLEAN]

Mode(m) == IF m.mainInitPending THEN "Init" ELSE "Run"

CallMain(in) ==
    /\ moqui.status = "Run"
    /\ RunConfigMgmt
    /\ ~configMgmt'.error /\ ~configMgmt'.busy /\ ~configMgmt'.allConfigLoaded
    /\ LET m == Begun(configMgmt')
       IN /\ dev' = Main(Data(configMgmt'.recipe), dev, in, Mode(m),
                         m.deviceConfigContextResetRequest, m.enable)
          /\ moqui' = [m EXCEPT !.mainDone = dev'.isCompleted, !.error = dev'.error,
                           !.mainInitPending = FALSE,
                           !.deviceConfigContextResetRequest = FALSE,
                           !.status = IF dev'.error THEN "Error" ELSE @]
    /\ Tick(in.clock1s)

(* Mutant: no retry at all. *)
NoRetry(m, tick) == m

(* Retry logic of the state Error. *)
Retry(m, tick) ==
    LET time == m.retryTime + (IF tick THEN 1 ELSE 0)
    IN CASE ~(retryOnError /\ m.retryCount < maxRetryCount) -> m
         [] retryOnError /\ m.retryCount < maxRetryCount /\ time < minRetryTime ->
              [m EXCEPT !.retryTime = time]
         [] retryOnError /\ m.retryCount < maxRetryCount /\ time >= minRetryTime ->
              [m EXCEPT !.retryCount = @ + 1, !.retryTime = 0, !.autoReset = TRUE]

RecoverOrWait(reset, tick) ==
    /\ moqui.status = "Error"
    /\ RunConfigMgmt
    /\ LET m == Retry(Begun(configMgmt'), tick)
       IN moqui' = IF reset \/ m.autoReset
                   THEN [m EXCEPT !.error = FALSE, !.retryCount = 0, !.retryTime = 0,
                                  !.mainInitPending = TRUE, !.status = "Idle",
                                  !.deviceConfigContextResetRequest = FALSE]
                   ELSE m
    /\ Tick(tick)
    /\ UNCHANGED dev

-----------------------------------------------------------------------------
(* The supervision, between two scans. *)
Supervise(m) == moqui' = m /\ UNCHANGED <<configMgmt, dev, second>>

EnableFramework ==
    /\ "enable" \in plant.commands /\ ~moqui.enable
    /\ Supervise([moqui EXCEPT !.enable = TRUE])
DisableFramework ==
    /\ "disable" \in plant.commands /\ moqui.enable
    /\ Supervise([moqui EXCEPT !.enable = FALSE])
RequestInit ==
    /\ "init" \in plant.commands /\ ~moqui.init
    /\ Supervise([moqui EXCEPT !.init = TRUE])
(* "Recipe/operator drives this state by writing dev.status directly"      *)
(* (HvacTestSuite.st:347).                                                 *)
SelectVentilation ==
    /\ "ventilate" \in plant.commands /\ dev.status # "Ventilation"
    /\ dev' = [dev EXCEPT !.status = "Ventilation"]
    /\ UNCHANGED <<moqui, configMgmt, second>>

MainScan == \E in \in Inputs : CallMain(in)
ErrorScan == \E reset \in plant.resets, tick \in BOOLEAN : RecoverOrWait(reset, tick)
Next ==
    /\ \/ StayIdle \/ Start \/ StopOnConfigError \/ WaitForConfig \/ Finish
       \/ MainScan \/ ErrorScan
       \/ EnableFramework \/ DisableFramework \/ RequestInit \/ SelectVentilation
    /\ UNCHANGED plant

Spec == Init /\ [][Next]_vars

(* StartTask is cyclic and ClockGeneration, which it calls first, pulses   *)
(* clock1s every second whatever the status of the program: some scan is   *)
(* always possible, and with either value of the pulse.                    *)
Second == second' = 1 - second
FairSpec == Spec /\ WF_second(Second)

-----------------------------------------------------------------------------
(* Type invariant. *)
TypeOK ==
    /\ plant \in Plants
    /\ moqui \in MoquiMemory
    /\ configMgmt \in DeviceConfigMemory(Len(plant.recipes))
    /\ dev \in DeviceMemory
    /\ second \in {0, 1}

Conditioning == dev.coldGlycolPump.enable \/ dev.hotGlycolPump.enable

(* No glycol pump runs without the air flow and the fan: every phase that  *)
(* conditions also moves air, through every override, fault, completion    *)
(* and re-initialization (output table of Main.st:19-26); and while a stop *)
(* alarm stands in the signal list neither heat, cold nor air is driven.   *)
SafeOutputs ==
    /\ Conditioning => dev.airFlow.enable /\ dev.ahuFan
    /\ StopActive(dev) => ~Conditioning /\ ~dev.airFlow.enable /\ ~dev.ahuFan

(* Outside Run the program does not call Main, so whatever ended Run must  *)
(* have left the pumps stopped: a fault, a failed load between two recipes *)
(* or the end of the last recipe (MoquiStart.st:96-121).                   *)
StoppedOutsideRun == moqui.status # "Run" => ~Conditioning

(* The same in a cell within the band of every recipe, with sound pumps    *)
(* and supply air, dampers that report no fault and a supervision that     *)
(* neither disables the framework nor selects a state by hand.             *)
Undisturbed ==
    /\ \A i \in DOMAIN plant.recipes :
          LET r == plant.recipes[i]
          IN /\ \A temp \in plant.temps : /\ temp < r.tempSetpoint + r.tempHysteresis
                                           /\ r.tempSetpoint < temp + r.tempHysteresis
             /\ plant.ducts \subseteq r.ductTempMin..r.ductTempMax
             /\ ~r.damper.diagnosticsEnable
    /\ TRUE \notin plant.trips
    /\ plant.commands \cap {"disable", "ventilate"} = {}
StoppedUnlessRunning == Undisturbed => StoppedOutsideRun

Opening(damper) == damper.status \in {"EnablePhase", "Enabled"}

(* A phase of low throw is counted only with the low damper in its open and *)
(* the high damper in its closed position, whatever faults, breaks, resets *)
(* and re-initializations the change-over met; and from the start on there *)
(* is exactly one throw: no scan leaves both dampers opening or both       *)
(* closing (AirDistributionController.st:7-8, 79-84).                      *)
ThrowsInPosition ==
    /\ dev.airDistribution.status = "LowPhase"
         => dev.lowFlowDamper.status = "Enabled" /\ dev.highFlowDamper.status = "Disabled"
    /\ dev.airDistribution.status # "Init"
         => (Opening(dev.highFlowDamper) <=> ~Opening(dev.lowFlowDamper))

(* The two groups work against each other only in Drying, which wants it:  *)
(* no change of phase lets them overlap even for one scan.                 *)
GroupsOverlapOnlyInDrying ==
    [][dev'.coldGlycolPump.enable /\ dev'.hotGlycolPump.enable
         => \/ dev.status = "Drying"
            \/ UNCHANGED <<dev.coldGlycolPump, dev.hotGlycolPump>>]_vars

(* A scan that runs the rule engine. *)
RuleScan ==
    /\ moqui.status = "Run" /\ moqui.enable /\ ~moqui.mainInitPending /\ ~moqui.init
    /\ ~moqui.deviceConfigContextResetRequest /\ (moqui.mainDone => moqui.mainDoneOld)
    /\ ~configMgmt'.error /\ ~configMgmt'.busy /\ ~configMgmt'.allConfigLoaded
    /\ configMgmt' # configMgmt \/ dev' # dev

(* Supply air outside its limits in one scan of the rules stops everything *)
(* in the next: the diagnostics run before the predicates are computed     *)
(* anew, so the reaction is one scan late, but never later.                *)
DuctViolationStops ==
    [][RuleScan /\ (dev.ductTempOverMax \/ dev.ductTempUnderMin)
         /\ ~SelectVentilation
         => ~Conditioning' /\ dev'.status = "Fault"]_vars

(* Whenever a recipe is loaded, nothing remains of the progress of the one *)
(* before (Main.st:89-92), also when the load failed and was repeated.     *)
NoInheritedProgress ==
    [][Undisturbed /\ configMgmt.status = "Load" /\ configMgmt'.status = "WaitProcessing"
         => /\ dev.processActualDuration = 0 /\ dev.actualRuntime = 0
            /\ ~dev.isCompleted /\ ~dev.timeBreakEnabled]_vars

(* A recipe that is being processed is completed in the end: runs, breaks  *)
(* and resumptions use up its duration, in a cell that needs the treatment *)
(* and stays within the inner window of the recipe.  An initialization     *)
(* would start the recipe again: the supervision requests none.            *)
RecipesComplete ==
    Undisturbed /\ "init" \notin plant.commands /\ configMgmt.status = "WaitProcessing"
        ~> configMgmt.status # "WaitProcessing"

(* A failure is retried without the supervision (MoquiConf.st:6-10).       *)
ErrorIsRetried == moqui.status = "Error" ~> moqui.status # "Error"

-----------------------------------------------------------------------------
(* Statements of the documentation that the code does not keep.            *)

(* "wait for signal manager to clear all alarms" (Main.st:259): the        *)
(* program fails for ever only when alarms or load errors recur.           *)
FailsOnlyOnCauses ==
    []<>(moqui.status = "Error") => []<>(StopActive(dev) \/ configMgmt.error)
=============================================================================
