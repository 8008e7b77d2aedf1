---------------------------- MODULE DeviceProofs ----------------------------
(***************************************************************************)
(* Theorems about the Actuator, for every set of configurations, every     *)
(* time limit, every travel time and any behaviour of the sensors, and     *)
(* about the Axis, for every program and any behaviour of the drive.       *)
(***************************************************************************)
EXTENDS Actuator, Axis, TLAPS

-----------------------------------------------------------------------------
(* Type correctness of the stages of a scan.                               *)

(* The init handler keeps the memory well typed. *)
LEMMA InitHandlerType ==
    ASSUME NEW b \in ActuatorMemory, NEW c \in ActuatorConfig,
           NEW in \in ActuatorInput
    PROVE  InitHandler(b, c, in) \in ActuatorMemory
  <1>a. /\ c.enablePreset \in BOOLEAN /\ in.enabledSensor \in BOOLEAN
        /\ in.disabledSensor \in BOOLEAN
    BY DEF ActuatorConfig, ActuatorInput
  <1>b. c.feedbackType \in {"WithoutFeedback", "SingleDisableFeedback",
                           "SingleEnableFeedback", "DoubleFeedback"}
    BY DEF ActuatorConfig, ActuatorFeedbackType
  <1>1. PresetReached(c, in) \in BOOLEAN
    <2>1. CASE c.feedbackType = "WithoutFeedback"
      BY <2>1 DEF PresetReached
    <2>2. CASE c.feedbackType = "SingleDisableFeedback"
      BY <1>a, <2>2 DEF PresetReached
    <2>3. CASE c.feedbackType = "SingleEnableFeedback"
      BY <1>a, <2>3 DEF PresetReached
    <2>4. CASE c.feedbackType = "DoubleFeedback"
      BY <1>a, <2>4 DEF PresetReached
    <2> QED BY <1>b, <2>1, <2>2, <2>3, <2>4
  <1> DEFINE timer == IF c.enablePreset THEN c.enableTime ELSE c.disableTime
             status == IF c.enablePreset
                       THEN IF PresetReached(c, in) THEN "Enabled" ELSE "EnablePhase"
                       ELSE IF PresetReached(c, in) THEN "Disabled" ELSE "DisablePhase"
  <1>2. timer \in Nat /\ status \in ActuatorStatus /\ (~PresetReached(c, in)) \in BOOLEAN
    <2>1. c.enableTime \in Nat /\ c.disableTime \in Nat
      BY DEF ActuatorConfig
    <2>2. timer \in Nat
      BY <2>1
    <2>3. status \in ActuatorStatus
      BY DEF ActuatorStatus
    <2> QED BY <1>1, <2>2, <2>3
  <1>3. InitHandler(b, c, in) =
          [b EXCEPT !.enableRequest = FALSE, !.disableRequest = FALSE,
                    !.enable = c.enablePreset, !.timer = timer, !.status = status,
                    !.notInitialized = ~PresetReached(c, in)]
    BY DEF InitHandler
  <1> HIDE DEF timer, status
  <1> QED BY <1>a, <1>2, <1>3 DEF ActuatorMemory

(* The timer never runs below zero: the decrement is guarded. *)
LEMMA ClockHandlerType ==
    ASSUME NEW b \in ActuatorMemory, NEW in \in ActuatorInput
    PROVE  ClockHandler(b, in) \in ActuatorMemory
  BY DEF ClockHandler, ActuatorMemory, ActuatorInput

(* The derived feedback signals are Boolean for every feedback type. *)
LEMMA FeedbackType ==
    ASSUME NEW b \in ActuatorMemory, NEW c \in ActuatorConfig,
           NEW in \in ActuatorInput
    PROVE  /\ EnabledFeedback(b, c, in) \in BOOLEAN
           /\ DisabledFeedback(b, c, in) \in BOOLEAN
  BY DEF EnabledFeedback, DisabledFeedback, ActuatorMemory, ActuatorConfig,
         ActuatorInput, ActuatorFeedbackType

(* The FSM keeps the memory well typed, whatever state it is in. *)
LEMMA StatusMachineType ==
    ASSUME NEW b \in ActuatorMemory, NEW c \in ActuatorConfig,
           NEW e \in BOOLEAN, NEW d \in BOOLEAN
    PROVE  StatusMachine(b, c, e, d) \in ActuatorMemory
  <1>1. DisabledState(b, c) \in ActuatorMemory
    BY DEF DisabledState, StartEnabling, ActuatorMemory, ActuatorConfig,
           ActuatorStatus
  <1>2. EnablePhaseState(b, c, e) \in ActuatorMemory
    BY DEF EnablePhaseState, StartDisabling, ActuatorMemory, ActuatorConfig,
           ActuatorStatus
  <1>3. EnabledState(b, c) \in ActuatorMemory
    BY DEF EnabledState, StartDisabling, ActuatorMemory, ActuatorConfig,
           ActuatorStatus
  <1>4. DisablePhaseState(b, c, d) \in ActuatorMemory
    BY DEF DisablePhaseState, StartEnabling, ActuatorMemory, ActuatorConfig,
           ActuatorStatus
  <1>5. b.status \in ActuatorStatus
    BY DEF ActuatorMemory
  <1>6. QED
    BY <1>1, <1>2, <1>3, <1>4, <1>5 DEF StatusMachine, ActuatorStatus

(* Diagnosis and actuation keep the memory well typed. *)
LEMMA OutputType ==
    ASSUME NEW b \in ActuatorMemory, NEW c \in ActuatorConfig,
           NEW in \in ActuatorInput, NEW e \in BOOLEAN, NEW d \in BOOLEAN,
           NEW t \in BOOLEAN
    PROVE  Actuate(Diagnose(b, c, in, e, d, t), c) \in ActuatorMemory
  <1>1. Diagnose(b, c, in, e, d, t) \in ActuatorMemory
    BY ZenonT(30) DEF Diagnose, ActuatorMemory, ActuatorConfig, ActuatorInput
  <1>2. ASSUME NEW x \in ActuatorMemory PROVE Actuate(x, c) \in ActuatorMemory
    BY ZenonT(30) DEF Actuate, ActuatorMemory, ActuatorConfig, ActuatorActuationType
  <1>3. QED
    BY <1>1, <1>2

LEMMA ElaborateType ==
    ASSUME NEW b \in ActuatorMemory, NEW c \in ActuatorConfig,
           NEW in \in ActuatorInput
    PROVE  Elaborate(b, c, in) \in ActuatorMemory
  <1> DEFINE t == ClockHandler(b, in)
             e == EnabledFeedback(t, c, in)
             d == DisabledFeedback(t, c, in)
  <1>1. t \in ActuatorMemory
    BY ClockHandlerType
  <1>2. e \in BOOLEAN /\ d \in BOOLEAN
    BY <1>1, FeedbackType
  <1>3. StatusMachine(t, c, e, d) \in ActuatorMemory
    BY <1>1, <1>2, StatusMachineType
  <1>4. (t.timer = 0) \in BOOLEAN
    OBVIOUS
  <1> HIDE DEF t, e, d
  <1>5. Actuate(Diagnose(StatusMachine(t, c, e, d), c, in, e, d, t.timer = 0), c)
            \in ActuatorMemory
    BY <1>2, <1>3, <1>4, OutputType
  <1>6. QED
    BY <1>5 DEF Elaborate, t, e, d

(* One call of the block keeps its memory well typed. *)
LEMMA ScanType ==
    ASSUME NEW b \in ActuatorMemory, NEW c \in ActuatorConfig,
           NEW in \in ActuatorInput
    PROVE  ActuatorScan(b, c, in) \in ActuatorMemory
  <1>1. Elaborate(b, c, in) \in ActuatorMemory
    BY ElaborateType
  <1>2. Elaborate(InitHandler(b, c, in), c, in) \in ActuatorMemory
    BY InitHandlerType, ElaborateType
  <1>3. [b EXCEPT !.notInitialized = TRUE] \in ActuatorMemory
    BY DEF ActuatorMemory
  <1>4. in.operationType \in {"Init", "Run"} /\ c.identified \in BOOLEAN
    BY DEF ActuatorInput, ActuatorConfig
  <1>5. QED
    BY <1>1, <1>2, <1>3, <1>4 DEF ActuatorScan

(* The mechanism stays between its two ends. *)
LEMMA MovedType ==
    ASSUME position \in 0..Travel
    PROVE  Moved \in 0..Travel
  BY ActuatorAssumption DEF Moved

(* Every variable keeps its type: in particular the timer is a natural     *)
(* number, so the guarded decrement of the UINT never wraps.               *)
THEOREM TypeCorrect == Spec => []TypeOK
  <1>1. Init => TypeOK
    <2> SUFFICES ASSUME Init PROVE TypeOK
      OBVIOUS
    <2>1. fb \in ActuatorMemory
      BY DEF Init, ActuatorColdStart, ActuatorMemory, ActuatorStatus
    <2>2. config \in ActuatorConfig /\ mechanism \in {"sound", "arbitrary"}
      BY ActuatorAssumption DEF Init
    <2>3. position \in 0..Travel /\ sensors \in [enabled: BOOLEAN, disabled: BOOLEAN]
      BY ActuatorAssumption DEF Init
    <2>4. QED
      BY <2>1, <2>2, <2>3 DEF TypeOK
  <1>2. TypeOK /\ [Next]_vars => TypeOK'
    <2> SUFFICES ASSUME TypeOK, [Next]_vars PROVE TypeOK'
      OBVIOUS
    <2>1. ASSUME NEW in \in ActuatorInput, Scan(in) PROVE TypeOK'
      <3>1. fb' \in ActuatorMemory
        BY <2>1, ScanType DEF Scan, TypeOK
      <3>2. position' \in 0..Travel
        BY <2>1, MovedType DEF Scan, TypeOK
      <3>3. sensors' \in [enabled: BOOLEAN, disabled: BOOLEAN]
        BY <2>1 DEF Scan, ActuatorInput
      <3>4. QED
        BY <2>1, <3>1, <3>2, <3>3 DEF Scan, TypeOK
    <2>2. CASE RequestEnable
      BY <2>2 DEF RequestEnable, Command, TypeOK, ActuatorMemory
    <2>3. CASE RequestDisable
      BY <2>3 DEF RequestDisable, Command, TypeOK, ActuatorMemory
    <2>4. CASE CancelEnable
      BY <2>4 DEF CancelEnable, Command, TypeOK, ActuatorMemory
    <2>5. CASE UNCHANGED vars
      BY <2>5 DEF vars, TypeOK
    <2>6. QED
      BY <2>1, <2>2, <2>3, <2>4, <2>5 DEF Next, InitScan, RunScan
  <1>3. QED
    BY <1>1, <1>2, PTL DEF Spec

-----------------------------------------------------------------------------
(* Outputs and FSM.  OutputsFollowStatus is inductive with the types: the  *)
(* FSM keeps the weaker relation Commanded, and the post-elaboration turns *)
(* it into the final one.                                                  *)
OutputsAgree(b, c) ==
    /\ ~(b.enable /\ b.disable)
    /\ IF c.actuationType = "DoubleActuationNoRetain"
       THEN /\ b.enable <=> b.status = "EnablePhase"
            /\ b.disable => b.status = "DisablePhase"
       ELSE b.enable <=> b.status \in {"EnablePhase", "Enabled"}

(* Before the post-elaboration a pulsed actuator may still show the enable *)
(* of the phase it has just completed, and disable is one scan old.        *)
Commanded(b, c) ==
    IF c.actuationType = "DoubleActuationNoRetain"
    THEN /\ b.status = "EnablePhase" => b.enable
         /\ b.status = "DisablePhase" => ~b.enable
    ELSE /\ b.enable <=> b.status \in {"EnablePhase", "Enabled"}
         /\ c.actuationType = "SingleActuation" => ~b.disable

(* The outputs of single-acting actuators never touch disable. *)
SingleNeverDisables(b, c) == c.actuationType = "SingleActuation" => ~b.disable

LEMMA InitHandlerCommands ==
    ASSUME NEW b \in ActuatorMemory, NEW c \in ActuatorConfig,
           NEW in \in ActuatorInput, SingleNeverDisables(b, c)
    PROVE  Commanded(InitHandler(b, c, in), c)
  BY DEF InitHandler, Commanded, SingleNeverDisables, ActuatorMemory,
         ActuatorConfig

LEMMA ClockHandlerCommands ==
    ASSUME NEW b \in ActuatorMemory, NEW c \in ActuatorConfig,
           NEW in \in ActuatorInput, Commanded(b, c)
    PROVE  Commanded(ClockHandler(b, in), c)
  BY DEF ClockHandler, Commanded, ActuatorMemory

(* Every transition of the FSM sets enable with the status it enters. *)
LEMMA StatusMachineCommands ==
    ASSUME NEW b \in ActuatorMemory, NEW c \in ActuatorConfig,
           NEW e \in BOOLEAN, NEW d \in BOOLEAN, Commanded(b, c)
    PROVE  Commanded(StatusMachine(b, c, e, d), c)
  <1>1. CASE b.status = "Disabled"
    BY <1>1 DEF StatusMachine, DisabledState, StartEnabling, Commanded,
                ActuatorMemory
  <1>2. CASE b.status = "EnablePhase"
    BY <1>2 DEF StatusMachine, EnablePhaseState, StartDisabling, Commanded,
                ActuatorMemory
  <1>3. CASE b.status = "Enabled"
    BY <1>3 DEF StatusMachine, EnabledState, StartDisabling, Commanded,
                ActuatorMemory
  <1>4. CASE b.status = "DisablePhase"
    BY <1>4 DEF StatusMachine, DisablePhaseState, StartEnabling, Commanded,
                ActuatorMemory
  <1>5. QED
    BY <1>1, <1>2, <1>3, <1>4 DEF ActuatorMemory, ActuatorStatus

LEMMA DiagnoseCommands ==
    ASSUME NEW b \in ActuatorMemory, NEW c \in ActuatorConfig,
           NEW in \in ActuatorInput, NEW e \in BOOLEAN, NEW d \in BOOLEAN,
           NEW o \in BOOLEAN, Commanded(b, c)
    PROVE  /\ Diagnose(b, c, in, e, d, o) \in ActuatorMemory
           /\ Commanded(Diagnose(b, c, in, e, d, o), c)
  <1>1. Diagnose(b, c, in, e, d, o) \in ActuatorMemory
    BY ZenonT(30) DEF Diagnose, ActuatorMemory, ActuatorConfig, ActuatorInput
  <1>2. Commanded(Diagnose(b, c, in, e, d, o), c)
    BY DEF Diagnose, Commanded, ActuatorMemory
  <1>3. QED
    BY <1>1, <1>2

LEMMA ActuateAgrees ==
    ASSUME NEW b \in ActuatorMemory, NEW c \in ActuatorConfig, Commanded(b, c)
    PROVE  /\ OutputsAgree(Actuate(b, c), c)
           /\ SingleNeverDisables(Actuate(b, c), c)
  <1>1. CASE c.actuationType = "SingleActuation"
    BY <1>1 DEF Actuate, Commanded, OutputsAgree, SingleNeverDisables,
                ActuatorMemory
  <1>2. CASE c.actuationType = "DoubleActuation"
    BY <1>2 DEF Actuate, Commanded, OutputsAgree, SingleNeverDisables,
                ActuatorMemory
  <1>3. CASE c.actuationType = "DoubleActuationNoRetain"
    BY <1>3 DEF Actuate, Commanded, OutputsAgree, SingleNeverDisables,
                ActuatorMemory
  <1>4. QED
    BY <1>1, <1>2, <1>3 DEF ActuatorConfig, ActuatorActuationType

LEMMA ElaborateAgrees ==
    ASSUME NEW b \in ActuatorMemory, NEW c \in ActuatorConfig,
           NEW in \in ActuatorInput, Commanded(b, c)
    PROVE  /\ OutputsAgree(Elaborate(b, c, in), c)
           /\ SingleNeverDisables(Elaborate(b, c, in), c)
  <1> DEFINE t == ClockHandler(b, in)
             e == EnabledFeedback(t, c, in)
             d == DisabledFeedback(t, c, in)
             o == (t.timer = 0)
             m == StatusMachine(t, c, e, d)
             g == Diagnose(m, c, in, e, d, o)
  <1>1. t \in ActuatorMemory /\ Commanded(t, c)
    BY ClockHandlerType, ClockHandlerCommands
  <1>2. e \in BOOLEAN /\ d \in BOOLEAN /\ o \in BOOLEAN
    BY <1>1, FeedbackType
  <1>3. Elaborate(b, c, in) = Actuate(g, c)
    BY DEF Elaborate
  <1> HIDE DEF t, e, d, o
  <1>4. m \in ActuatorMemory /\ Commanded(m, c)
    BY <1>1, <1>2, StatusMachineType, StatusMachineCommands
  <1> HIDE DEF m
  <1>5. g \in ActuatorMemory /\ Commanded(g, c)
    BY <1>2, <1>4, DiagnoseCommands
  <1> HIDE DEF g
  <1>6. QED
    BY <1>3, <1>5, ActuateAgrees

(* What is inductive. *)
OutputInv ==
    TypeOK /\ OutputsAgree(fb, config) /\ SingleNeverDisables(fb, config)

(* Agreement of the outputs implies the relation the FSM starts from. *)
LEMMA AgreeCommands ==
    ASSUME NEW b \in ActuatorMemory, NEW c \in ActuatorConfig,
           OutputsAgree(b, c), SingleNeverDisables(b, c)
    PROVE  Commanded(b, c)
  BY DEF OutputsAgree, SingleNeverDisables, Commanded, ActuatorMemory,
         ActuatorConfig

LEMMA ScanAgrees ==
    ASSUME NEW b \in ActuatorMemory, NEW c \in ActuatorConfig,
           NEW in \in ActuatorInput,
           OutputsAgree(b, c), SingleNeverDisables(b, c)
    PROVE  /\ OutputsAgree(ActuatorScan(b, c, in), c)
           /\ SingleNeverDisables(ActuatorScan(b, c, in), c)
  <1>1. CASE in.operationType = "Run"
    BY <1>1, AgreeCommands, ElaborateAgrees DEF ActuatorScan
  <1>2. CASE in.operationType = "Init" /\ c.identified
    <2>1. InitHandler(b, c, in) \in ActuatorMemory
      BY InitHandlerType
    <2>2. Commanded(InitHandler(b, c, in), c)
      BY InitHandlerCommands
    <2>3. QED
      BY <1>2, <2>1, <2>2, ElaborateAgrees DEF ActuatorScan
  <1>3. CASE in.operationType = "Init" /\ ~c.identified
    BY <1>3 DEF ActuatorScan, OutputsAgree, SingleNeverDisables, ActuatorMemory
  <1>4. QED
    BY <1>1, <1>2, <1>3 DEF ActuatorInput, ActuatorConfig

LEMMA OutputInvariance == Spec => []OutputInv
  <1>1. Init /\ TypeOK => OutputInv
    BY DEF Init, OutputInv, OutputsAgree, SingleNeverDisables, ActuatorColdStart
  <1>2. OutputInv /\ TypeOK' /\ [Next]_vars => OutputInv'
    <2> SUFFICES ASSUME OutputInv, TypeOK', [Next]_vars PROVE OutputInv'
      OBVIOUS
    <2> USE DEF OutputInv
    <2>1. ASSUME NEW in \in ActuatorInput, Scan(in) PROVE OutputInv'
      BY <2>1, ScanAgrees DEF Scan, TypeOK
    <2>2. CASE RequestEnable
      BY <2>2 DEF RequestEnable, Command, TypeOK, ActuatorMemory, OutputsAgree,
                  SingleNeverDisables
    <2>3. CASE RequestDisable
      BY <2>3 DEF RequestDisable, Command, TypeOK, ActuatorMemory, OutputsAgree,
                  SingleNeverDisables
    <2>4. CASE CancelEnable
      BY <2>4 DEF CancelEnable, Command, TypeOK, ActuatorMemory, OutputsAgree,
                  SingleNeverDisables
    <2>5. CASE UNCHANGED vars
      BY <2>5 DEF vars, TypeOK, OutputsAgree, SingleNeverDisables
    <2>6. QED
      BY <2>1, <2>2, <2>3, <2>4, <2>5 DEF Next, InitScan, RunScan
  <1>3. QED
    BY TypeCorrect, <1>1, <1>2, PTL DEF Spec

(* The outputs agree with the FSM in every reachable state: no sequence of *)
(* requests, sensor values, timeouts and re-initializations energises both *)
(* coils, or leaves a coil energised in a state that does not command it.  *)
THEOREM OutputsCorrect == Spec => []OutputsFollowStatus
  <1>1. OutputInv => OutputsFollowStatus
    BY DEF OutputInv, OutputsAgree, OutputsFollowStatus
  <1>2. QED
    BY OutputInvariance, <1>1, PTL

-----------------------------------------------------------------------------
(* The handshake.                                                          *)

(* Diagnosis and actuation touch neither requests nor status nor timer; the *)
(* fault is up if the time is over and the feedback is not that of enable. *)
LEMMA OutputKeepsHandshake ==
    ASSUME NEW b \in ActuatorMemory, NEW c \in ActuatorConfig,
           NEW in \in ActuatorInput, NEW e \in BOOLEAN, NEW d \in BOOLEAN,
           NEW o \in BOOLEAN, NEW r, r = Actuate(Diagnose(b, c, in, e, d, o), c)
    PROVE  /\ r.enableRequest = b.enableRequest
           /\ r.disableRequest = b.disableRequest
           /\ r.status = b.status
           /\ r.timer = b.timer
           /\ c.diagnosticsEnable /\ o /\ ~(IF b.enable THEN e /\ ~d ELSE d /\ ~e)
                => r.fault
  <1> DEFINE g == Diagnose(b, c, in, e, d, o)
  <1>1. /\ g \in ActuatorMemory
        /\ g.enableRequest = b.enableRequest
        /\ g.disableRequest = b.disableRequest
        /\ g.status = b.status
        /\ g.timer = b.timer
    BY ZenonT(30) DEF Diagnose, ActuatorMemory, ActuatorConfig, ActuatorInput
  <1>2. c.diagnosticsEnable /\ o /\ ~(IF b.enable THEN e /\ ~d ELSE d /\ ~e) => g.fault
    BY ZenonT(30) DEF Diagnose, ActuatorMemory, ActuatorConfig, ActuatorInput
  <1> HIDE DEF g
  <1>3. r = Actuate(g, c)
    BY DEF g
  <1>4. /\ Actuate(g, c).enableRequest = g.enableRequest
        /\ Actuate(g, c).disableRequest = g.disableRequest
        /\ Actuate(g, c).status = g.status
        /\ Actuate(g, c).timer = g.timer
        /\ Actuate(g, c).fault = g.fault
    BY <1>1, ZenonT(30) DEF Actuate, ActuatorMemory, ActuatorConfig, ActuatorActuationType
  <1>5. QED
    BY <1>1, <1>2, <1>3, <1>4

(* The FSM never leaves both requests standing. *)
LEMMA StatusMachineResolves ==
    ASSUME NEW b \in ActuatorMemory, NEW c \in ActuatorConfig,
           NEW e \in BOOLEAN, NEW d \in BOOLEAN
    PROVE  ~(/\ StatusMachine(b, c, e, d).enableRequest
             /\ StatusMachine(b, c, e, d).disableRequest)
  <1>1. CASE b.status = "Disabled"
    BY <1>1 DEF StatusMachine, DisabledState, StartEnabling, ActuatorMemory
  <1>2. CASE b.status = "EnablePhase"
    BY <1>2 DEF StatusMachine, EnablePhaseState, StartDisabling, ActuatorMemory
  <1>3. CASE b.status = "Enabled"
    BY <1>3 DEF StatusMachine, EnabledState, StartDisabling, ActuatorMemory
  <1>4. CASE b.status = "DisablePhase"
    BY <1>4 DEF StatusMachine, DisablePhaseState, StartEnabling, ActuatorMemory
  <1>5. QED
    BY <1>1, <1>2, <1>3, <1>4 DEF ActuatorMemory, ActuatorStatus

LEMMA ElaborateResolves ==
    ASSUME NEW b \in ActuatorMemory, NEW c \in ActuatorConfig,
           NEW in \in ActuatorInput
    PROVE  ~(/\ Elaborate(b, c, in).enableRequest
             /\ Elaborate(b, c, in).disableRequest)
  <1> DEFINE t == ClockHandler(b, in)
             e == EnabledFeedback(t, c, in)
             d == DisabledFeedback(t, c, in)
             o == (t.timer = 0)
             m == StatusMachine(t, c, e, d)
             r == Elaborate(b, c, in)
  <1>1. t \in ActuatorMemory
    BY ClockHandlerType
  <1>2. e \in BOOLEAN /\ d \in BOOLEAN /\ o \in BOOLEAN
    BY <1>1, FeedbackType
  <1>3. r = Actuate(Diagnose(m, c, in, e, d, o), c)
    BY DEF Elaborate
  <1> HIDE DEF t, e, d, o
  <1>4. m \in ActuatorMemory /\ ~(m.enableRequest /\ m.disableRequest)
    BY <1>1, <1>2, StatusMachineType, StatusMachineResolves
  <1> HIDE DEF m, r
  <1>5. r.enableRequest = m.enableRequest /\ r.disableRequest = m.disableRequest
    BY <1>2, <1>3, <1>4, OutputKeepsHandshake
  <1>6. QED
    BY <1>4, <1>5 DEF r

(* No scan leaves two contradictory requests standing. *)
THEOREM ContradictionResolved == Spec => ScanResolvesContradiction
  <1>1. TypeOK /\ [Next]_vars =>
          [RunScan \/ (InitScan /\ config.identified)
             => ~(fb'.enableRequest /\ fb'.disableRequest)]_vars
    <2> SUFFICES ASSUME TypeOK, RunScan \/ (InitScan /\ config.identified)
                 PROVE  ~(fb'.enableRequest /\ fb'.disableRequest)
      OBVIOUS
    <2>1. CASE RunScan
      <3>1. PICK in \in ActuatorInput : in.operationType = "Run" /\ Scan(in)
        BY <2>1 DEF RunScan
      <3>2. fb' = Elaborate(fb, config, in)
        BY <3>1 DEF Scan, ActuatorScan
      <3>3. QED
        BY <3>2, ElaborateResolves DEF TypeOK
    <2>2. CASE InitScan /\ config.identified
      <3>1. PICK in \in ActuatorInput : in.operationType = "Init" /\ Scan(in)
        BY <2>2 DEF InitScan
      <3>2. fb' = Elaborate(InitHandler(fb, config, in), config, in)
        BY <2>2, <3>1 DEF Scan, ActuatorScan
      <3>3. InitHandler(fb, config, in) \in ActuatorMemory
        BY InitHandlerType DEF TypeOK
      <3>4. QED
        BY <3>2, <3>3, ElaborateResolves DEF TypeOK
    <2>3. QED
      BY <2>1, <2>2
  <1>2. QED
    BY <1>1, TypeCorrect, PTL DEF Spec, ScanResolvesContradiction

(* What the sensors show to the configuration. *)
ShowsEnabled(c, in) ==
    /\ c.feedbackType \in {"SingleEnableFeedback", "DoubleFeedback"} => in.enabledSensor
    /\ c.feedbackType = "SingleDisableFeedback" => ~in.disabledSensor
ShowsDisabled(c, in) ==
    /\ c.feedbackType \in {"SingleDisableFeedback", "DoubleFeedback"} => in.disabledSensor
    /\ c.feedbackType = "SingleEnableFeedback" => ~in.enabledSensor

(* The derived feedback never says more of a position than the sensors do. *)
LEMMA FeedbackShown ==
    ASSUME NEW b \in ActuatorMemory, NEW c \in ActuatorConfig, NEW in \in ActuatorInput
    PROVE  /\ EnabledFeedback(b, c, in) => ShowsEnabled(c, in)
           /\ DisabledFeedback(b, c, in) => ShowsDisabled(c, in)
           /\ b.status = "Enabled" /\ ~ShowsEnabled(c, in) /\ ~in.disabledSensor
                => ~DisabledFeedback(b, c, in)
  BY DEF EnabledFeedback, DisabledFeedback, ShowsEnabled, ShowsDisabled,
         ActuatorConfig, ActuatorFeedbackType

(* What the FSM may do: enter a position that the feedback confirms, and    *)
(* drop a request, where no opposite one stands, only in its position.     *)
LEMMA StatusMachineAcknowledges ==
    ASSUME NEW b \in ActuatorMemory, NEW c \in ActuatorConfig,
           NEW e \in BOOLEAN, NEW d \in BOOLEAN,
           NEW m, m = StatusMachine(b, c, e, d)
    PROVE  /\ m.status = "Enabled" => b.status = "Enabled" \/ e
           /\ m.status = "Disabled" => b.status = "Disabled" \/ d
           /\ m.status = b.status /\ b.status \in {"Enabled", "Disabled"}
                => m.timer = b.timer /\ m.enable = b.enable
           /\ b.enableRequest /\ ~m.enableRequest /\ ~b.disableRequest
                => m.status = "Enabled"
           /\ b.disableRequest /\ ~m.disableRequest /\ ~b.enableRequest
                => m.status = "Disabled"
  <1>1. CASE b.status = "Disabled"
    BY <1>1 DEF StatusMachine, DisabledState, StartEnabling, ActuatorMemory
  <1>2. CASE b.status = "EnablePhase"
    BY <1>2 DEF StatusMachine, EnablePhaseState, StartDisabling, ActuatorMemory
  <1>3. CASE b.status = "Enabled"
    BY <1>3 DEF StatusMachine, EnabledState, StartDisabling, ActuatorMemory
  <1>4. CASE b.status = "DisablePhase"
    BY <1>4 DEF StatusMachine, DisablePhaseState, StartEnabling, ActuatorMemory
  <1>5. QED
    BY <1>1, <1>2, <1>3, <1>4 DEF ActuatorMemory, ActuatorStatus

(* The same for what both operating modes execute: a position is entered   *)
(* when the sensors show it, and one that is kept and not shown, by an     *)
(* actuator whose enable follows the position, is diagnosed.               *)
LEMMA ElaborateAcknowledges ==
    ASSUME NEW b \in ActuatorMemory, NEW c \in ActuatorConfig,
           NEW in \in ActuatorInput, NEW r, r = Elaborate(b, c, in)
    PROVE  /\ r.status = "Enabled" => b.status = "Enabled" \/ ShowsEnabled(c, in)
           /\ r.status = "Disabled" => b.status = "Disabled" \/ ShowsDisabled(c, in)
           /\ b.enableRequest /\ ~r.enableRequest /\ ~b.disableRequest
                => r.status = "Enabled"
           /\ b.disableRequest /\ ~r.disableRequest /\ ~b.enableRequest
                => r.status = "Disabled"
           /\ /\ b.status = "Enabled" /\ r.status = "Enabled" /\ ~ShowsEnabled(c, in)
              /\ b.enable \/ ~in.disabledSensor
              /\ c.diagnosticsEnable /\ r.timer = 0
              => r.fault
           /\ /\ b.status = "Disabled" /\ r.status = "Disabled" /\ ~ShowsDisabled(c, in)
              /\ ~b.enable /\ c.diagnosticsEnable /\ r.timer = 0
              => r.fault
  <1> DEFINE t == ClockHandler(b, in)
             e == EnabledFeedback(t, c, in)
             d == DisabledFeedback(t, c, in)
             o == (t.timer = 0)
             m == StatusMachine(t, c, e, d)
  <1>1. /\ t \in ActuatorMemory
        /\ t.enableRequest = b.enableRequest
        /\ t.disableRequest = b.disableRequest
        /\ t.status = b.status
        /\ t.enable = b.enable
    BY ClockHandlerType DEF ClockHandler, ActuatorMemory
  <1>2. e \in BOOLEAN /\ d \in BOOLEAN /\ o \in BOOLEAN
    BY <1>1, FeedbackType
  <1>3. /\ e => ShowsEnabled(c, in)
        /\ d => ShowsDisabled(c, in)
        /\ t.status = "Enabled" /\ ~ShowsEnabled(c, in) /\ ~in.disabledSensor => ~d
    BY <1>1, FeedbackShown
  <1>4. r = Actuate(Diagnose(m, c, in, e, d, o), c)
    BY DEF Elaborate
  <1>5. t.timer = 0 => o
    OBVIOUS
  <1> HIDE DEF t, e, d, o
  <1>6. m \in ActuatorMemory
    BY <1>1, <1>2, StatusMachineType
  <1>7. /\ m.status = "Enabled" => t.status = "Enabled" \/ e
        /\ m.status = "Disabled" => t.status = "Disabled" \/ d
        /\ m.status = t.status /\ t.status \in {"Enabled", "Disabled"}
             => m.timer = t.timer /\ m.enable = t.enable
        /\ t.enableRequest /\ ~m.enableRequest /\ ~t.disableRequest
             => m.status = "Enabled"
        /\ t.disableRequest /\ ~m.disableRequest /\ ~t.enableRequest
             => m.status = "Disabled"
    BY <1>1, <1>2, StatusMachineAcknowledges DEF m
  <1> HIDE DEF m
  <1>8. /\ r.enableRequest = m.enableRequest
        /\ r.disableRequest = m.disableRequest
        /\ r.status = m.status
        /\ r.timer = m.timer
        /\ c.diagnosticsEnable /\ o /\ ~(IF m.enable THEN e /\ ~d ELSE d /\ ~e)
             => r.fault
    BY <1>2, <1>4, <1>6, OutputKeepsHandshake
  <1>9. ASSUME b.status = "Enabled", r.status = "Enabled", ~ShowsEnabled(c, in),
               b.enable \/ ~in.disabledSensor, c.diagnosticsEnable, r.timer = 0
        PROVE  r.fault
    <2>1. m.timer = t.timer /\ m.enable = b.enable /\ o
      BY <1>1, <1>5, <1>7, <1>8, <1>9
    <2>2. ~e /\ (~in.disabledSensor => ~d)
      BY <1>1, <1>3, <1>9
    <2>3. QED
      BY <1>8, <1>9, <2>1, <2>2
  <1>10. ASSUME b.status = "Disabled", r.status = "Disabled", ~ShowsDisabled(c, in),
                ~b.enable, c.diagnosticsEnable, r.timer = 0
         PROVE  r.fault
    <2>1. m.timer = t.timer /\ m.enable = b.enable /\ o
      BY <1>1, <1>5, <1>7, <1>8, <1>10
    <2>2. ~d
      BY <1>3, <1>10
    <2>3. QED
      BY <1>8, <1>10, <2>1, <2>2
  <1>11. /\ r.status = "Enabled" => b.status = "Enabled" \/ ShowsEnabled(c, in)
         /\ r.status = "Disabled" => b.status = "Disabled" \/ ShowsDisabled(c, in)
    BY <1>1, <1>3, <1>7, <1>8
  <1>12. /\ b.enableRequest /\ ~r.enableRequest /\ ~b.disableRequest
              => r.status = "Enabled"
         /\ b.disableRequest /\ ~r.disableRequest /\ ~b.enableRequest
              => r.status = "Disabled"
    BY <1>1, <1>7, <1>8
  <1>13. QED
    BY <1>9, <1>10, <1>11, <1>12

(* An initialization sets a position only as the sensors show it. *)
LEMMA InitHandlerShows ==
    ASSUME NEW b \in ActuatorMemory, NEW c \in ActuatorConfig,
           NEW in \in ActuatorInput, NEW i, i = InitHandler(b, c, in)
    PROVE  /\ i.status = "Enabled" => ShowsEnabled(c, in)
           /\ i.status = "Disabled" => ShowsDisabled(c, in)
  BY DEF InitHandler, PresetReached, ShowsEnabled, ShowsDisabled, ActuatorMemory,
         ActuatorConfig, ActuatorInput, ActuatorFeedbackType

(* A scan in Run mode, from outputs that agree with the status.            *)
LEMMA RunHandshake ==
    ASSUME OutputInv, RunScan
    PROVE  /\ fb'.status = "Enabled" => fb.status = "Enabled" \/ SeesEnabled'
           /\ fb'.status = "Disabled" => fb.status = "Disabled" \/ SeesDisabled'
           /\ EnableAcknowledged /\ DisableAcknowledged
  <1>1. PICK in \in ActuatorInput : in.operationType = "Run" /\ Scan(in)
    BY DEF RunScan
  <1>2. /\ fb' = Elaborate(fb, config, in) /\ config' = config
        /\ fb \in ActuatorMemory /\ config \in ActuatorConfig
    BY <1>1 DEF Scan, ActuatorScan, OutputInv, TypeOK
  <1>3. /\ SeesEnabled' <=> ShowsEnabled(config, in)
        /\ SeesDisabled' <=> ShowsDisabled(config, in)
        /\ sensors'.disabled = in.disabledSensor
    BY <1>1 DEF Scan, SeesEnabled, SeesDisabled, ShowsEnabled, ShowsDisabled
  <1>4. /\ fb'.status = "Enabled" => fb.status = "Enabled" \/ ShowsEnabled(config, in)
        /\ fb'.status = "Disabled" => fb.status = "Disabled" \/ ShowsDisabled(config, in)
        /\ fb.enableRequest /\ ~fb'.enableRequest /\ ~fb.disableRequest
             => fb'.status = "Enabled"
        /\ fb.disableRequest /\ ~fb'.disableRequest /\ ~fb.enableRequest
             => fb'.status = "Disabled"
        /\ /\ fb.status = "Enabled" /\ fb'.status = "Enabled" /\ ~ShowsEnabled(config, in)
           /\ fb.enable \/ ~in.disabledSensor
           /\ config.diagnosticsEnable /\ fb'.timer = 0
           => fb'.fault
        /\ /\ fb.status = "Disabled" /\ fb'.status = "Disabled" /\ ~ShowsDisabled(config, in)
           /\ ~fb.enable /\ config.diagnosticsEnable /\ fb'.timer = 0
           => fb'.fault
    BY <1>2, ElaborateAcknowledges
  <1>5. /\ fb.status = "Enabled" /\ Retains => fb.enable
        /\ fb.status = "Disabled" => ~fb.enable
    BY <1>2 DEF OutputInv, OutputsAgree, Retains, ActuatorMemory
  <1>6. /\ Diagnosed' <=> (config.diagnosticsEnable /\ fb'.timer = 0 => fb'.fault)
    BY <1>2 DEF Diagnosed
  <1>7. EnableAcknowledged
    BY <1>3, <1>4, <1>5, <1>6 DEF EnableAcknowledged
  <1>8. DisableAcknowledged
    BY <1>3, <1>4, <1>5, <1>6 DEF DisableAcknowledged
  <1>9. QED
    BY <1>3, <1>4, <1>7, <1>8

(* An initialization, whatever was requested before it. *)
LEMMA InitHandshake ==
    ASSUME TypeOK, Initialized
    PROVE  /\ fb'.status = "Enabled" => SeesEnabled'
           /\ fb'.status = "Disabled" => SeesDisabled'
  <1>1. PICK in \in ActuatorInput :
          in.operationType = "Init" /\ config.identified /\ Scan(in)
    BY DEF Initialized, InitScan
  <1> DEFINE i == InitHandler(fb, config, in)
  <1>2. fb' = Elaborate(i, config, in) /\ config' = config
    BY <1>1 DEF Scan, ActuatorScan
  <1>3. /\ SeesEnabled' <=> ShowsEnabled(config, in)
        /\ SeesDisabled' <=> ShowsDisabled(config, in)
    BY <1>1 DEF Scan, SeesEnabled, SeesDisabled, ShowsEnabled, ShowsDisabled
  <1>4. /\ i \in ActuatorMemory
        /\ i.status = "Enabled" => ShowsEnabled(config, in)
        /\ i.status = "Disabled" => ShowsDisabled(config, in)
    BY InitHandlerType, InitHandlerShows DEF TypeOK
  <1> HIDE DEF i
  <1>5. /\ fb'.status = "Enabled" => i.status = "Enabled" \/ ShowsEnabled(config, in)
        /\ fb'.status = "Disabled" => i.status = "Disabled" \/ ShowsDisabled(config, in)
    BY <1>2, <1>4, ElaborateAcknowledges DEF TypeOK
  <1>6. QED
    BY <1>3, <1>4, <1>5

(* Nothing but a scan changes the status. *)
LEMMA StatusChanges ==
    ASSUME TypeOK, [Next]_vars, fb'.status # fb.status
    PROVE  RunScan \/ Initialized
  <1>1. CASE RequestEnable
    BY <1>1 DEF RequestEnable, Command, TypeOK, ActuatorMemory
  <1>2. CASE RequestDisable
    BY <1>2 DEF RequestDisable, Command, TypeOK, ActuatorMemory
  <1>3. CASE CancelEnable
    BY <1>3 DEF CancelEnable, Command, TypeOK, ActuatorMemory
  <1>4. CASE InitScan /\ ~config.identified
    <2>1. PICK in \in ActuatorInput : in.operationType = "Init" /\ Scan(in)
      BY <1>4 DEF InitScan
    <2>2. fb' = [fb EXCEPT !.notInitialized = TRUE]
      BY <1>4, <2>1 DEF Scan, ActuatorScan
    <2>3. QED
      BY <2>2 DEF TypeOK, ActuatorMemory
  <1>5. QED
    BY <1>1, <1>2, <1>3, <1>4 DEF Next, vars, Initialized

(* A caller that sequences on the falling edge of its request may rely on  *)
(* it: the actuator is in the position asked for, entered as its sensors   *)
(* showed it, and where they no longer show it the fault is up.            *)
THEOREM HandshakeCorrect == Spec => RequestsAcknowledged
  <1>1. OutputInv /\ [Next]_vars
          => [PositionsConfirmed /\ EnableAcknowledged /\ DisableAcknowledged]_vars
    <2> SUFFICES ASSUME OutputInv, [Next]_vars
                 PROVE  PositionsConfirmed /\ EnableAcknowledged /\ DisableAcknowledged
      OBVIOUS
    <2>1. TypeOK
      BY DEF OutputInv
    <2>2. EnableAcknowledged /\ DisableAcknowledged
      BY RunHandshake DEF EnableAcknowledged, DisableAcknowledged
    <2>3. PositionsConfirmed
      BY <2>1, RunHandshake, InitHandshake, StatusChanges DEF PositionsConfirmed
    <2>4. QED
      BY <2>2, <2>3
  <1>2. QED
    BY <1>1, OutputInvariance, PTL DEF Spec, RequestsAcknowledged

-----------------------------------------------------------------------------
(* False alarms.  A sound mechanism at p has at least as many clock pulses *)
(* left on the timer as it has positions to travel.                        *)
InTime(b, p) ==
    /\ b.enable => Travel - p <= b.timer
    /\ ~b.enable => p <= b.timer
Ample(c) == Travel < c.enableTime /\ Travel < c.disableTime
(* One without command is where it was before the first scan.              *)
AtRest(b, c, p) == ~b.enable /\ ~b.disable /\ c.actuationType # "SingleActuation" => p = 0
SoundInv ==
    mechanism = "sound" /\ Retains =>
        InTime(fb, position) /\ AtRest(fb, config, position) /\ Ample(config)

(* The feedback says that a phase is over, or that its time is over, only  *)
(* of a mechanism that has arrived, whatever sensors there are.            *)
LEMMA FeedbackSound ==
    ASSUME NEW t \in ActuatorMemory, NEW c \in ActuatorConfig,
           NEW in \in ActuatorInput, NEW p \in 0..Travel,
           t.enable <=> t.status \in {"EnablePhase", "Enabled"},
           in.enabledSensor = (p = Travel), in.disabledSensor = (p = 0),
           InTime(t, p)
    PROVE  LET e == EnabledFeedback(t, c, in)
               d == DisabledFeedback(t, c, in)
           IN /\ t.status = "EnablePhase" /\ e => p = Travel
              /\ t.status = "DisablePhase" /\ d => p = 0
              /\ t.timer = 0 => IF t.enable THEN e /\ ~d ELSE d /\ ~e
  <1>1. Travel \in Nat \ {0} /\ t.timer \in Nat /\ t.enable \in BOOLEAN
        /\ t.status \in ActuatorStatus /\ c.feedbackType \in ActuatorFeedbackType
    BY ActuatorAssumption DEF ActuatorMemory, ActuatorConfig
  <1>2. t.timer = 0 => (IF t.enable THEN p = Travel ELSE p = 0)
    BY <1>1 DEF InTime
  <1>3. CASE c.feedbackType = "DoubleFeedback"
    BY <1>1, <1>2, <1>3 DEF EnabledFeedback, DisabledFeedback
  <1>4. CASE c.feedbackType = "SingleEnableFeedback"
    BY <1>1, <1>2, <1>4 DEF EnabledFeedback, DisabledFeedback, ActuatorStatus
  <1>5. CASE c.feedbackType = "SingleDisableFeedback"
    BY <1>1, <1>2, <1>5 DEF EnabledFeedback, DisabledFeedback, ActuatorStatus
  <1>6. CASE c.feedbackType = "WithoutFeedback"
    BY <1>1, <1>2, <1>6 DEF EnabledFeedback, DisabledFeedback, ActuatorStatus
  <1> QED BY <1>1, <1>3, <1>4, <1>5, <1>6 DEF ActuatorFeedbackType

(* The FSM stops the timer only then, and arms it with time to spare.      *)
LEMMA StatusMachineInTime ==
    ASSUME NEW t \in ActuatorMemory, NEW c \in ActuatorConfig, Ample(c),
           NEW e \in BOOLEAN, NEW d \in BOOLEAN, NEW p \in 0..Travel, InTime(t, p),
           t.enable <=> t.status \in {"EnablePhase", "Enabled"},
           t.status = "EnablePhase" /\ e => p = Travel,
           t.status = "DisablePhase" /\ d => p = 0
    PROVE  InTime(StatusMachine(t, c, e, d), p)
  <1> USE ActuatorAssumption DEF Ample, InTime, ActuatorMemory, ActuatorConfig
  <1>1. CASE t.status = "Disabled"
    BY <1>1 DEF StatusMachine, DisabledState, StartEnabling
  <1>2. CASE t.status = "EnablePhase"
    BY <1>2 DEF StatusMachine, EnablePhaseState, StartDisabling
  <1>3. CASE t.status = "Enabled"
    BY <1>3 DEF StatusMachine, EnabledState, StartDisabling
  <1>4. CASE t.status = "DisablePhase"
    BY <1>4 DEF StatusMachine, DisablePhaseState, StartEnabling
  <1> QED BY <1>1, <1>2, <1>3, <1>4 DEF ActuatorStatus

Alarmed(b) == b.actuatorFault \/ b.enabledSensorFault \/ b.disabledSensorFault

(* Diagnosis raises an alarm only on a timeout, against the output.        *)
LEMMA DiagnoseAlarms ==
    ASSUME NEW b \in ActuatorMemory, NEW c \in ActuatorConfig,
           NEW in \in ActuatorInput, NEW e \in BOOLEAN, NEW d \in BOOLEAN,
           NEW o \in BOOLEAN
    PROVE  LET g == Diagnose(b, c, in, e, d, o)
           IN /\ g \in ActuatorMemory /\ g.enable = b.enable /\ g.timer = b.timer
              /\ Alarmed(g) => o /\ ~(IF b.enable THEN e /\ ~d ELSE d /\ ~e)
  <1> DEFINE g == Diagnose(b, c, in, e, d, o)
  <1>1. g \in ActuatorMemory
    BY ZenonT(30) DEF Diagnose, ActuatorMemory, ActuatorConfig, ActuatorInput
  <1>2. g.enable = b.enable /\ g.timer = b.timer
    BY DEF Diagnose, ActuatorMemory
  <1>3. Alarmed(g) => o /\ ~(IF b.enable THEN e /\ ~d ELSE d /\ ~e)
    BY DEF Diagnose, Alarmed, ActuatorMemory, ActuatorConfig
  <1> QED BY <1>1, <1>2, <1>3

LEMMA ElaborateInTime ==
    ASSUME NEW b \in ActuatorMemory, NEW c \in ActuatorConfig, Ample(c),
           c.actuationType # "DoubleActuationNoRetain",
           NEW in \in ActuatorInput, NEW p \in 0..Travel,
           b.enable <=> b.status \in {"EnablePhase", "Enabled"},
           in.enabledSensor = (p = Travel), in.disabledSensor = (p = 0),
           InTime(ClockHandler(b, in), p)
    PROVE  LET r == Elaborate(b, c, in)
           IN /\ InTime(r, p)
              /\ Alarmed(r) => r.enable # b.enable /\ ClockHandler(b, in).timer = 0
  <1> DEFINE t == ClockHandler(b, in)
             e == EnabledFeedback(t, c, in)
             d == DisabledFeedback(t, c, in)
             o == (t.timer = 0)
             m == StatusMachine(t, c, e, d)
             g == Diagnose(m, c, in, e, d, o)
             r == Actuate(g, c)
  <1>1. t \in ActuatorMemory /\ t.enable = b.enable /\ t.status = b.status
    BY ClockHandlerType DEF ClockHandler, ActuatorMemory
  <1>2. Elaborate(b, c, in) = r
    BY DEF Elaborate
  <1> HIDE DEF t
  <1>3. e \in BOOLEAN /\ d \in BOOLEAN /\ o \in BOOLEAN
    BY <1>1, FeedbackType
  <1>4. /\ t.status = "EnablePhase" /\ e => p = Travel
        /\ t.status = "DisablePhase" /\ d => p = 0
        /\ o => IF t.enable THEN e /\ ~d ELSE d /\ ~e
    BY <1>1, FeedbackSound DEF t
  <1> HIDE DEF e, d, o
  <1>5. m \in ActuatorMemory /\ InTime(m, p)
    BY <1>1, <1>3, <1>4, StatusMachineType, StatusMachineInTime DEF t
  <1> HIDE DEF m
  <1>6. /\ g \in ActuatorMemory /\ g.enable = m.enable /\ g.timer = m.timer
        /\ Alarmed(g) => o /\ m.enable # t.enable
    <2>1. /\ g \in ActuatorMemory /\ g.enable = m.enable /\ g.timer = m.timer
          /\ Alarmed(g) => o /\ ~(IF m.enable THEN e /\ ~d ELSE d /\ ~e)
      BY <1>3, <1>5, DiagnoseAlarms
    <2>2. m.enable \in BOOLEAN /\ t.enable \in BOOLEAN
      BY <1>1, <1>5 DEF ActuatorMemory
    <2> QED BY <1>4, <2>1, <2>2
  <1> HIDE DEF g
  <1>7. /\ r.enable = g.enable /\ r.timer = g.timer /\ (Alarmed(r) <=> Alarmed(g))
    BY <1>6 DEF Actuate, Alarmed, ActuatorMemory, ActuatorConfig, ActuatorActuationType
  <1> HIDE DEF r
  <1>8. InTime(r, p)
    BY <1>5, <1>6, <1>7 DEF InTime
  <1> QED BY <1>1, <1>2, <1>6, <1>7, <1>8 DEF t, o

(* The mechanism keeps pace with the timer. *)
LEMMA MovesInTime ==
    ASSUME OutputInv, SoundInv, mechanism = "sound", Retains,
           NEW in \in ActuatorInput, Scan(in)
    PROVE  InTime(ClockHandler(fb, in), position')
  <1> USE ActuatorAssumption
  <1>1. fb \in ActuatorMemory /\ position \in 0..Travel /\ InTime(fb, position)
        /\ fb.timer \in Nat /\ fb.enable \in BOOLEAN
    BY DEF OutputInv, TypeOK, SoundInv, ActuatorMemory
  <1> DEFINE t == ClockHandler(fb, in)
  <1>2. t.enable = fb.enable
        /\ t.timer = IF in.clock /\ fb.timer > 0 THEN fb.timer - 1 ELSE fb.timer
    BY <1>1 DEF ClockHandler, ActuatorMemory
  <1>3. CASE ~in.clock
    BY <1>1, <1>2, <1>3 DEF Scan, InTime
  <1>4. CASE in.clock
    <2>1. position' = Moved
      BY <1>4 DEF Scan
    <2>2. CASE fb.enable
      BY <1>1, <1>2, <1>4, <2>1, <2>2 DEF Moved, InTime
    <2>3. CASE ~fb.enable
      <3>1. Returning \/ position = 0
        BY <1>1, <2>3 DEF SoundInv, AtRest, Returning
      <3> QED BY <1>1, <1>2, <1>4, <2>1, <2>3, <3>1 DEF Moved, InTime
    <2> QED BY <1>1, <2>2, <2>3
  <1> QED BY <1>3, <1>4


LEMMA ElaborateActs ==
    ASSUME NEW b \in ActuatorMemory, NEW c \in ActuatorConfig,
           c.actuationType # "DoubleActuationNoRetain", NEW in \in ActuatorInput
    PROVE  LET r == Elaborate(b, c, in)
           IN r.enable \/ r.disable \/ c.actuationType = "SingleActuation"
  <1> DEFINE t == ClockHandler(b, in)
             e == EnabledFeedback(t, c, in)
             d == DisabledFeedback(t, c, in)
             o == (t.timer = 0)
             g == Diagnose(StatusMachine(t, c, e, d), c, in, e, d, o)
  <1>1. t \in ActuatorMemory
    BY ClockHandlerType
  <1>2. e \in BOOLEAN /\ d \in BOOLEAN /\ o \in BOOLEAN
    BY <1>1, FeedbackType
  <1>3. Elaborate(b, c, in) = Actuate(g, c)
    BY DEF Elaborate
  <1> HIDE DEF t, e, d, o
  <1>4. g \in ActuatorMemory
    BY <1>1, <1>2, StatusMachineType, DiagnoseAlarms
  <1> HIDE DEF g
  <1> QED BY <1>3, <1>4 DEF Actuate, ActuatorMemory, ActuatorConfig, ActuatorActuationType

(* An Init scan arms the timer before the clock handler, which is why the  *)
(* limits must exceed the travel time.                                     *)
LEMMA InitInTime ==
    ASSUME NEW b \in ActuatorMemory, NEW c \in ActuatorConfig, Ample(c),
           NEW in \in ActuatorInput, NEW p \in 0..Travel
    PROVE  LET a == InitHandler(b, c, in)
               t == ClockHandler(a, in)
           IN /\ a \in ActuatorMemory
              /\ a.enable <=> a.status \in {"EnablePhase", "Enabled"}
              /\ InTime(t, p) /\ t.timer # 0
  <1> DEFINE a == InitHandler(b, c, in)
             time == IF c.enablePreset THEN c.enableTime ELSE c.disableTime
  <1>1. a \in ActuatorMemory
    BY InitHandlerType
  <1>2. a.enable = c.enablePreset /\ a.timer = time
        /\ (a.enable <=> a.status \in {"EnablePhase", "Enabled"})
    BY DEF InitHandler, ActuatorMemory, ActuatorConfig
  <1>3. time \in Nat /\ Travel < time /\ Travel \in Nat \ {0}
    BY ActuatorAssumption DEF Ample, ActuatorConfig
  <1> HIDE DEF a, time
  <1> DEFINE t == ClockHandler(a, in)
  <1>4. t.enable = a.enable /\ t.timer = IF in.clock THEN time - 1 ELSE time
    BY <1>1, <1>2, <1>3 DEF ClockHandler, ActuatorMemory
  <1>5. InTime(t, p) /\ t.timer # 0
    BY <1>3, <1>4 DEF InTime
  <1> QED BY <1>1, <1>2, <1>5 DEF a

LEMMA ScanInTime ==
    ASSUME OutputInv, SoundInv, TypeOK', mechanism = "sound", Retains,
           NEW in \in ActuatorInput, Scan(in)
    PROVE  /\ InTime(fb', position') /\ AtRest(fb', config, position')
           /\ (in.operationType = "Run" \/ config.identified) /\ InternalFault'
                => fb'.enable # fb.enable
  <1>1. /\ fb \in ActuatorMemory /\ config \in ActuatorConfig /\ config' = config
        /\ Ample(config) /\ config.actuationType # "DoubleActuationNoRetain"
        /\ position' \in 0..Travel
        /\ in.enabledSensor = (position' = Travel) /\ in.disabledSensor = (position' = 0)
        /\ fb.enable <=> fb.status \in {"EnablePhase", "Enabled"}
        /\ InTime(ClockHandler(fb, in), position')
    BY MovesInTime DEF OutputInv, TypeOK, OutputsAgree, SoundInv, Retains, Scan, SoundSensors
  <1>2. InternalFault' <=> Alarmed(fb')
    BY DEF InternalFault, Alarmed
  <1>3. CASE in.operationType = "Run"
    <2>1. fb' = Elaborate(fb, config, in)
      BY <1>3 DEF Scan, ActuatorScan
    <2>2. fb'.enable \/ fb'.disable \/ config.actuationType = "SingleActuation"
      BY <1>1, <2>1, ElaborateActs
    <2>3. InTime(fb', position') /\ (Alarmed(fb') => fb'.enable # fb.enable)
      BY <1>1, <2>1, ElaborateInTime
    <2> QED BY <1>2, <2>2, <2>3 DEF AtRest
  <1>4. CASE in.operationType = "Init" /\ config.identified
    <2> DEFINE a == InitHandler(fb, config, in)
    <2>1. fb' = Elaborate(a, config, in)
      BY <1>4 DEF Scan, ActuatorScan
    <2>2. /\ a \in ActuatorMemory
          /\ a.enable <=> a.status \in {"EnablePhase", "Enabled"}
          /\ InTime(ClockHandler(a, in), position') /\ ClockHandler(a, in).timer # 0
      BY <1>1, InitInTime
    <2> HIDE DEF a
    <2>3. fb'.enable \/ fb'.disable \/ config.actuationType = "SingleActuation"
      BY <1>1, <2>1, <2>2, ElaborateActs
    <2>4. InTime(fb', position') /\ ~Alarmed(fb')
      BY <1>1, <2>1, <2>2, ElaborateInTime
    <2> QED BY <1>2, <2>3, <2>4 DEF AtRest
  <1>5. CASE in.operationType = "Init" /\ ~config.identified
    <2>1. fb' = [fb EXCEPT !.notInitialized = TRUE]
      BY <1>5 DEF Scan, ActuatorScan
    <2>2. /\ fb'.enable = fb.enable /\ fb'.disable = fb.disable /\ fb'.timer = fb.timer
          /\ fb.timer \in Nat /\ fb.enable \in BOOLEAN
      BY <1>1, <2>1 DEF ActuatorMemory
    <2>3. position \in 0..Travel /\ Travel \in Nat \ {0}
          /\ InTime(fb, position) /\ AtRest(fb, config, position)
      BY ActuatorAssumption DEF OutputInv, TypeOK, SoundInv
    <2>4. position' \in {position, Moved}
      BY DEF Scan
    <2>5. InTime(fb', position')
      BY <2>2, <2>3, <2>4 DEF InTime, Moved
    <2>6. AtRest(fb', config, position')
      BY <1>1, <2>2, <2>3, <2>4 DEF AtRest, Moved, Returning
    <2> QED BY <1>5, <2>5, <2>6
  <1> QED BY <1>3, <1>4, <1>5 DEF ActuatorInput

(* A mechanism that is in time is not accused, whatever its travel time,   *)
(* the sensors it has and the scans in which it is reversed or initialized *)
(* (Actuator.st:172 and 255-264).                                          *)
THEOREM FalseAlarmsCorrect == Spec => FalseAlarmOnlyOnReversal
  <1>1. Init /\ TypeOK => OutputInv /\ SoundInv
    BY ActuatorAssumption DEF Init, OutputInv, OutputsAgree, SingleNeverDisables,
          ActuatorColdStart, SoundInv, InTime, AtRest, Ample, Retains
  <1>2. OutputInv /\ SoundInv /\ TypeOK' /\ [Next]_vars => SoundInv'
    <2> SUFFICES ASSUME OutputInv, SoundInv, TypeOK', [Next]_vars PROVE SoundInv'
      OBVIOUS
    <2>1. ASSUME NEW in \in ActuatorInput, Scan(in) PROVE SoundInv'
      <3>1. mechanism' = mechanism /\ config' = config /\ (Retains' <=> Retains)
            /\ (Ample(config)' <=> Ample(config))
        BY <2>1 DEF Scan, Retains, Ample
      <3> QED BY <2>1, <3>1, ScanInTime DEF SoundInv, InTime, AtRest
    <2>2. CASE RequestEnable \/ RequestDisable \/ CancelEnable
      BY <2>2 DEF RequestEnable, RequestDisable, CancelEnable, Command, SoundInv, InTime,
            AtRest, Ample, Retains, OutputInv, TypeOK, ActuatorMemory
    <2>3. CASE UNCHANGED vars
      BY <2>3 DEF vars, SoundInv, InTime, AtRest, Ample, Retains
    <2> QED BY <2>1, <2>2, <2>3 DEF Next, InitScan, RunScan
  <1>3. OutputInv /\ SoundInv /\ TypeOK' /\ [Next]_vars =>
          [(RunScan \/ (InitScan /\ config.identified)) /\ mechanism = "sound" /\ Retains
             /\ InternalFault' => fb'.enable # fb.enable]_vars
    <2> SUFFICES ASSUME OutputInv, SoundInv, TypeOK', mechanism = "sound", Retains,
                        RunScan \/ (InitScan /\ config.identified), InternalFault'
                 PROVE  fb'.enable # fb.enable
      OBVIOUS
    <2> QED BY ScanInTime DEF RunScan, InitScan
  <1> QED BY OutputInvariance, TypeCorrect, <1>1, <1>2, <1>3, PTL
          DEF Spec, FalseAlarmOnlyOnReversal

-----------------------------------------------------------------------------
(* The Axis.                                                               *)

(* A memory that is well typed and waits only for what can be waited for.  *)
Well(a) == a \in AxisMemory /\ (a.step = "Check" => a.current \in Checked)

(* How the classes of commands lie to each other. *)
LEMMA CommandClasses ==
    /\ Buffering \subseteq Bufferable /\ Bufferable \subseteq Motions
    /\ Checked \subseteq Motions /\ Synchronizing \subseteq Bufferable
    /\ Motions \subseteq AxisCmd /\ Motions \subseteq Blocks
    /\ Services \subseteq Blocks /\ Services \subseteq AxisCmd
    /\ AxisCmd \ {"Idle", "Jog"} \subseteq Blocks
    /\ Buffering \cap Synchronizing = {} /\ Services \cap Motions = {}
    /\ {"Idle", "Jog", "Stop"} \cap (Motions \cup Services) = {}
    /\ {"Stop", "Home", "Reset", "GearOut", "CamOut"} \subseteq Blocks
    /\ {"Home", "Reset", "GearOut", "CamOut"} \cap AxisCmd = {}
    /\ {"Idle", "Jog", "Stop"} \subseteq AxisCmd
  BY DEF Buffering, Bufferable, Motions, Checked, Synchronizing, AxisCmd, Blocks,
         Services, Positioning, Profiles

(* The blocks that disengage carry out no command. *)
LEMMA DisengageBlock == \A c : DisengageOf(c) \in {"GearOut", "CamOut"}
  BY DEF DisengageOf

(* Type correctness of the stages of a scan, one lemma per stage. *)
LEMMA DetectType ==
    ASSUME NEW a, Well(a), NEW in \in AxisInput
    PROVE  Well(DetectError(a, in))
  BY DEF Well, DetectError, AxisMemory, AxisStep

(* The recovery from an error keeps the memory well typed. *)
LEMMA HandleType ==
    ASSUME NEW a, Well(a), NEW in \in AxisInput, NEW done, NEW edge \in BOOLEAN
    PROVE  Well(HandleError(a, in, done, edge))
  <1>1. CASE a.step = "Error"
    BY <1>1, CommandClasses DEF Well, HandleError, AxisMemory, AxisStep
  <1>2. CASE a.step = "WaitReset" /\ "Reset" \in done
    BY <1>2, CommandClasses DEF Well, HandleError, AxisMemory, AxisStep
  <1>3. CASE a.step # "Error" /\ ~(a.step = "WaitReset" /\ "Reset" \in done)
    BY <1>3 DEF Well, HandleError
  <1> QED BY <1>1, <1>2, <1>3

(* So do power-off and emergency stop, *)
LEMMA ChecksType ==
    ASSUME NEW a, Well(a), NEW in \in AxisInput
    PROVE  /\ Well(PowerOff(a, in))
           /\ Well(EmergencyStop(a, in))
  BY CommandClasses, ZenonT(30) DEF Well, PowerOff, EmergencyStop, AxisMemory, AxisStep

(* powering up and homing, *)
LEMMA InitializeType ==
    ASSUME NEW a, Well(a), NEW in \in AxisInput, NEW done
    PROVE  Well(Initialize(a, in, done))
  <1>1. CASE a.step = "NotPowered"
    BY <1>1 DEF Well, Initialize, AxisMemory, AxisStep
  <1>2. CASE a.step = "WaitPower" /\ in.powered
    BY <1>2, CommandClasses DEF Well, Initialize, AxisMemory, AxisStep
  <1>3. CASE a.step = "Powered" /\ "Home" \in done
    BY <1>3 DEF Well, Initialize, AxisMemory, AxisStep
  <1>4. CASE /\ a.step # "NotPowered" /\ ~(a.step = "WaitPower" /\ in.powered)
             /\ ~(a.step = "Powered" /\ "Home" \in done)
    BY <1>4 DEF Initialize
  <1> QED BY <1>1, <1>2, <1>3, <1>4

(* the dispatch of a command, *)
LEMMA ReadyType ==
    ASSUME NEW a, Well(a), NEW in \in AxisInput, NEW references
    PROVE  Well(ReadyState(a, in, references))
  <1> DEFINE b == [a EXCEPT !.commandExecuted = FALSE, !.commandAborted = FALSE]
  <1>1. Well(b)
    BY DEF Well, AxisMemory
  <1>2. CASE Accepted(in.cmd, references)
    <2>1. in.cmd \in AxisCmd /\ {in.cmd} \ {"Jog"} \subseteq Blocks
      BY <1>2, CommandClasses DEF Accepted, AxisInput
    <2>2. ReadyState(a, in, references) =
            [b EXCEPT !.raised = @ \cup ({in.cmd} \ {"Jog"}), !.oldCmd = in.cmd,
                      !.step = "Do", !.current = in.cmd]
      BY <1>2 DEF ReadyState
    <2>3. b.raised \cup ({in.cmd} \ {"Jog"}) \in SUBSET Blocks
      BY <1>1, <2>1 DEF Well, AxisMemory
    <2> HIDE DEF b
    <2> QED BY <1>1, <2>1, <2>2, <2>3, ZenonT(30) DEF Well, AxisMemory, AxisStep
  <1>3. CASE ~Accepted(in.cmd, references)
    BY <1>1, <1>3 DEF ReadyState
  <1> QED BY <1>2, <1>3

(* the end of a command, *)
LEMMA FinishType ==
    ASSUME NEW a, Well(a)
    PROVE  Well(Finish(a))
  <1> DEFINE c == a.current
             b == [a EXCEPT !.raised = @ \ {c}]
  <1>1. Well(b) /\ a.oldCmd \in AxisCmd /\ b.step = a.step
    BY DEF Well, AxisMemory
  <1>2. CASE a.hasPending /\ c \in Buffering
    <2>1. Finish(a) =
            [b EXCEPT !.hasPending = FALSE,
                      !.commandExecuted = FALSE, !.commandAborted = FALSE,
                      !.step = IF a.oldCmd \in Bufferable THEN "Do" ELSE "Ready",
                      !.current = a.oldCmd]
      BY <1>2 DEF Finish
    <2> HIDE DEF b
    <2> QED BY <1>1, <2>1 DEF Well, AxisMemory, AxisStep
  <1>3. CASE ~(a.hasPending /\ c \in Buffering)
    <2>1. Finish(a) =
            [b EXCEPT !.commandExecuted = TRUE,
                      !.step = IF c \in Checked THEN "Check" ELSE "Ready"]
      BY <1>3 DEF Finish
    <2>2. b.current = c
      OBVIOUS
    <2> HIDE DEF b
    <2> QED BY <1>1, <2>1, <2>2 DEF Well, AxisMemory, AxisStep
  <1> QED BY <1>2, <1>3

(* the next command, *)
LEMMA ReplaceType ==
    ASSUME NEW a, Well(a), NEW c \in AxisCmd, NEW in \in AxisInput
    PROVE  Well(Replace(a, c, in))
  <1>1. Well(Abort(a, c))
    BY DEF Well, Abort, AxisMemory, AxisStep
  <1>2. Well(Disengage(a, c))
    BY CommandClasses, DisengageBlock, ZenonT(30) DEF Well, Disengage, AxisMemory, AxisStep
  <1>3. Well(Buffer(a, in.cmd))
    <2> SUFFICES ASSUME NEW cmd \in AxisCmd
                 PROVE  Well(Buffer(a, cmd))
      BY DEF AxisInput
    <2> DEFINE b == [a EXCEPT !.pendingCmd = cmd, !.oldCmd = cmd]
    <2>1. Well(b)
      BY DEF Well, AxisMemory
    <2>2. CASE cmd \in Bufferable
      <3>1. Buffer(a, cmd) =
              [b EXCEPT !.hasPending = TRUE, !.raised = b.raised \cup {cmd}]
        BY <2>2 DEF Buffer
      <3>2. cmd \in Blocks
        BY <2>2, CommandClasses
      <3> HIDE DEF b
      <3>3. b.raised \cup {cmd} \in SUBSET Blocks
        BY <2>1, <3>2 DEF Well, AxisMemory
      <3>4. \A x \in SUBSET Blocks : Well([b EXCEPT !.hasPending = TRUE, !.raised = x])
        BY <2>1, ZenonT(30) DEF Well, AxisMemory
      <3> QED BY <3>1, <3>3, <3>4
    <2>3. CASE cmd \notin Bufferable
      <3>1. Buffer(a, cmd) =
              [b EXCEPT !.hasPending = FALSE, !.commandAborted = TRUE,
                        !.step = "Ready"]
        BY <2>3 DEF Buffer
      <3> HIDE DEF b
      <3> QED BY <2>1, <3>1 DEF Well, AxisMemory, AxisStep
    <2> QED BY <2>2, <2>3
  <1>4. CASE c \in Synchronizing
    BY <1>2, <1>4 , CommandClasses DEF Replace
  <1>5. CASE c \notin Synchronizing /\ c \in Buffering /\ ~in.aborting /\ ~a.hasPending
    BY <1>3, <1>5 DEF Replace
  <1>6. CASE c \notin Synchronizing /\ ~(c \in Buffering /\ ~in.aborting /\ ~a.hasPending)
    BY <1>1, <1>6 DEF Replace
  <1> QED BY <1>4, <1>5, <1>6

(* and the states of a command. *)
LEMMA StateType ==
    ASSUME NEW a, Well(a), NEW in \in AxisInput, NEW done
    PROVE  /\ Well(DoState(a, in, done))
           /\ a.step = "Check" => Well(CheckState(a, in))
           /\ Well(OutState(a, done))
  <1>1. Well(DoState(a, in, done))
    <2> DEFINE b == IF a.current \in done THEN Finish(a) ELSE a
    <2>1. Well(b)
      BY FinishType
    <2>2. a.current \in AxisCmd
      BY DEF Well, AxisMemory
    <2>3. Well(Replace(b, a.current, in))
      BY <2>1, <2>2, ReplaceType
    <2> QED BY <2>1, <2>3 DEF Well, DoState
  <1>2. ASSUME a.step = "Check" PROVE Well(CheckState(a, in))
    <2>1. CASE in.cmd # a.oldCmd /\ a.current \in Synchronizing
      BY <2>1, CommandClasses, DisengageBlock, ZenonT(30) DEF Well, CheckState, AxisMemory, AxisStep
    <2>2. CASE in.cmd # a.oldCmd /\ a.current \notin Synchronizing
      BY <2>2 DEF Well, CheckState, AxisMemory, AxisStep
    <2>3. CASE in.cmd = a.oldCmd /\ in.changed
      <3>1. a.current \in Blocks
        BY <1>2, CommandClasses DEF Well
      <3> QED BY <2>3, <3>1 DEF Well, CheckState, AxisMemory, AxisStep
    <2>4. CASE in.cmd = a.oldCmd /\ ~in.changed
      BY <2>4 DEF CheckState
    <2> QED BY <2>1, <2>2, <2>3, <2>4
  <1>3. Well(OutState(a, done))
    BY DEF Well, OutState, AxisMemory, AxisStep
  <1> QED BY <1>1, <1>2, <1>3

-----------------------------------------------------------------------------
(* The inductive invariant: nothing is executed but the block that the      *)
(* state waits for and the one of the buffered command, which is another   *)
(* one than the current and the one remembered.                            *)
Buffered(a) ==
    /\ a.step = "Do" /\ a.current \in Buffering /\ ~site.aborting
    /\ a.pendingCmd = a.oldCmd /\ a.pendingCmd \in Bufferable \cap a.raised
    /\ a.pendingCmd # a.current
Ordered(a) ==
    /\ a.raised \subseteq Awaited(a) \cup Pending(a) \cup LeftBehind
    /\ a.step \in {"NotPowered", "WaitPower", "Powered"} => a.raised \subseteq {"Home"}
    /\ a.step \in {"Do", "Check"} /\ ~a.hasPending => a.oldCmd = a.current
    /\ a.hasPending => Buffered(a)

(* An input that an orderly program gives. *)
Fits(in) ==
    /\ in \in AxisInput /\ in.cmd \in site.commands /\ in.aborting = site.aborting
    /\ site.aborting \/ site.commands \subseteq Bufferable

(* What CommandsAccounted says of a scan from a to b. *)
Begun(a, b) ==
    /\ <<b.step, b.current>> # <<a.step, a.current>> /\ b.step \in {"Do", "Out"} =>
          /\ Awaited(b) \subseteq b.raised
          /\ Awaited(b) \ Pending(a) \subseteq LeftBehind
                \/ (Awaited(b) \ Pending(a)) \cap a.raised = {}
    /\ b.hasPending /\ ~a.hasPending =>
          Pending(b) \subseteq LeftBehind \/ Pending(b) \cap a.raised = {}
Ended(a, b) ==
    a.step = "Do" /\ site.aborting /\ <<b.step, b.current>> # <<a.step, a.current>>
      => b.commandExecuted \/ b.commandAborted

(* An error forgets the buffered command; a reset leaves nothing executed. *)
LEMMA ErrorOrder ==
    ASSUME NEW a, Well(a), Ordered(a), NEW in \in AxisInput, NEW done,
           NEW edge \in BOOLEAN, NEW c, c = HandleError(DetectError(a, in), in, done, edge)
    PROVE  /\ Ordered(c)
           /\ \/ c = a
              \/ /\ c.step \in {"Error", "WaitReset", "NotPowered"} /\ ~c.hasPending
                 /\ a.step = "Do" => c.commandAborted
                 /\ c.step = "NotPowered" => a.step = "WaitReset"
  <1> DEFINE d == DetectError(a, in)
  <1>1. CASE a.step \notin {"Error", "WaitReset"} /\ ~in.fault
    <2>1. d = a
      BY <1>1 DEF DetectError
    <2>2. c = a
      BY <1>1, <2>1 DEF HandleError
    <2> QED BY <2>2
  <1>2. CASE d.step = "Error"
    <2>1. Well(d)
      BY DetectType
    <2>2. c = [d EXCEPT !.commandExecuted = FALSE, !.hasPending = FALSE,
                     !.raised = IF edge THEN @ \cup {"Reset"} ELSE @,
                     !.step = IF edge THEN "WaitReset" ELSE @]
      BY <1>2 DEF HandleError
    <2>3. a.step = "Do" => d.commandAborted
      BY <1>2 DEF DetectError, Well, AxisMemory
    <2> HIDE DEF d
    <2>4. /\ c.step \in {"Error", "WaitReset"} /\ ~c.hasPending
          /\ c.raised \subseteq Blocks /\ c.commandAborted = d.commandAborted
      BY <1>2, <2>1, <2>2, CommandClasses DEF Well, AxisMemory
    <2>5. Awaited(c) = Blocks
      BY <2>4 DEF Awaited
    <2> QED BY <2>3, <2>4, <2>5 DEF Ordered
  <1>3. CASE a.step = "WaitReset"
    <2>1. d = a
      BY <1>3 DEF DetectError
    <2>2. CASE "Reset" \in done
      <3>1. c = [a EXCEPT !.commandExecuted = FALSE, !.commandAborted = FALSE,
                     !.raised = {}, !.hasPending = FALSE, !.oldCmd = "Idle",
                     !.step = "NotPowered"]
        BY <1>3, <2>1, <2>2 DEF HandleError
      <3> QED BY <1>3, <3>1 DEF Ordered, Well, AxisMemory
    <2>3. CASE "Reset" \notin done
      BY <1>3, <2>1, <2>3 DEF HandleError
    <2> QED BY <2>2, <2>3
  <1>4. d.step = "Error" \/ a.step = "WaitReset" \/ (a.step \notin {"Error", "WaitReset"} /\ ~in.fault)
    BY DEF DetectError, Well, AxisMemory
  <1> QED BY <1>1, <1>2, <1>3, <1>4

(* A loss of power leaves nothing executed. *)
LEMMA PowerOffOrder ==
    ASSUME NEW a, Well(a), Ordered(a), NEW in \in AxisInput,
           NEW c, c = PowerOff(a, in)
    PROVE  /\ Ordered(c)
           /\ \/ c = a
              \/ /\ c.step = "NotPowered" /\ ~c.hasPending
                 /\ a.step = "Do" => c.commandAborted
  BY DEF PowerOff, Ordered, Well, AxisMemory

(* The emergency stop supersedes the motion and starts on a fresh edge. *)
LEMMA StopOrder ==
    ASSUME NEW a, Well(a), Ordered(a), NEW in, Fits(in),
           NEW c, c = EmergencyStop(a, in)
    PROVE  /\ Ordered(c)
           /\ \/ c = a
              \/ /\ c.step = "Do" /\ c.current = "Stop" /\ c.oldCmd = "Stop"
                 /\ ~c.hasPending /\ site.aborting
                 /\ Commandable(a) /\ ~Stopping(a) /\ c.raised = (a.raised \ Motions) \cup {"Stop"}
                 /\ a.step # "Ready" => c.commandAborted
                 /\ "Stop" \in a.raised => "Stop" \in LeftBehind
  <1>1. CASE ~(in.cmd = "Stop" /\ Commandable(a) /\ ~Stopping(a))
    BY <1>1 DEF EmergencyStop
  <1>2. CASE in.cmd = "Stop" /\ Commandable(a) /\ ~Stopping(a)
    <2>1. site.aborting /\ "Stop" \in site.commands
      BY <1>2, CommandClasses DEF Fits
    <2>2. ~a.hasPending
      BY <2>1 DEF Ordered, Buffered
    <2>3. LeftBehind = Services \cup {"GearOut", "CamOut"}
      BY <2>1 DEF LeftBehind
    <2>4. a.raised \subseteq Awaited(a) \cup LeftBehind
      BY <2>2 DEF Ordered, Pending
    <2>5. Awaited(a) \subseteq (AxisCmd \ {"Stop"}) \cup {"GearOut", "CamOut"}
      BY <1>2, DisengageBlock DEF Awaited, Commandable, Stopping, Well, AxisMemory
    <2>6. a.raised \subseteq Motions \cup LeftBehind
      <3>1. a.raised \subseteq Blocks
        BY DEF Well, AxisMemory
      <3>2. {"Idle", "Jog"} \cap Blocks = {}
        BY DEF Blocks, Motions, Services, Bufferable, Buffering, Synchronizing,
               Positioning, Profiles
      <3> QED BY <2>3, <2>4, <2>5, <3>1, <3>2 DEF AxisCmd
    <2>7. "Stop" \notin a.raised
      BY <2>3, <2>6, CommandClasses
    <2>8. /\ c.step = "Do" /\ c.current = "Stop" /\ c.oldCmd = "Stop"
          /\ c.hasPending = a.hasPending
          /\ c.raised = (a.raised \ Motions) \cup {"Stop"}
          /\ c.commandAborted = (a.step # "Ready")
      BY <1>2 DEF EmergencyStop, Well, AxisMemory
    <2>9. Awaited(c) = {"Stop"}
      BY <2>8 DEF Awaited
    <2> QED BY <1>2, <2>1, <2>2, <2>6, <2>7, <2>8, <2>9 DEF Ordered
  <1> QED BY <1>1, <1>2

Moves(a, f) == Ordered(f) /\ Begun(a, f) /\ Ended(a, f)

(* The FSM, one lemma per kind of state: powering up and homing, *)
LEMMA InitializeOrder ==
    ASSUME NEW a, Well(a), Ordered(a), NEW in, NEW done,
           a.step \in {"NotPowered", "WaitPower", "Powered"},
           NEW f, f = Initialize(a, in, done)
    PROVE  /\ Moves(a, f)
           /\ f.step \notin {"Do", "Out"} /\ ~f.hasPending
           /\ f.commandAborted = a.commandAborted
  <1>1. ~a.hasPending
    BY DEF Ordered, Buffered
  <1>2. a.raised \subseteq {"Home"} /\ (a.step = "WaitPower" => a.raised \subseteq LeftBehind)
    BY <1>1 DEF Ordered, Awaited, Pending
  <1>3. CASE a.step = "NotPowered"
    BY <1>1, <1>2, <1>3 DEF Initialize, Moves, Ordered, Begun, Ended, Well, AxisMemory
  <1>4. CASE a.step = "WaitPower"
    <2>1. CASE in.powered
      <3>1. f.step = "Powered" /\ f.raised \subseteq {"Home"} /\ ~f.hasPending
            /\ f.commandAborted = a.commandAborted
        BY <1>1, <1>2, <1>4, <2>1 DEF Initialize, Well, AxisMemory
      <3>2. Awaited(f) = {"Home"}
        BY <3>1 DEF Awaited
      <3> QED BY <1>4, <3>1, <3>2 DEF Moves, Ordered, Begun, Ended
    <2>2. CASE ~in.powered
      <3>1. f = a
        BY <1>4, <2>2 DEF Initialize
      <3> QED BY <1>1, <1>4, <3>1 DEF Moves, Begun, Ended
    <2> QED BY <2>1, <2>2
  <1>5. CASE a.step = "Powered"
    <2>1. CASE "Home" \in done
      <3>1. f.step = "Ready" /\ f.raised = {} /\ ~f.hasPending
            /\ f.commandAborted = a.commandAborted
        BY <1>1, <1>2, <1>5, <2>1 DEF Initialize, Well, AxisMemory
      <3> QED BY <1>5, <3>1 DEF Moves, Ordered, Begun, Ended
    <2>2. CASE "Home" \notin done
      <3>1. f = a
        BY <1>5, <2>2 DEF Initialize
      <3> QED BY <1>1, <1>5, <3>1 DEF Moves, Begun, Ended
    <2> QED BY <2>1, <2>2
  <1> QED BY <1>3, <1>4, <1>5

(* the dispatch of a command, *)
LEMMA ReadyOrder ==
    ASSUME NEW a, Well(a), Ordered(a), NEW in, Fits(in), NEW references,
           a.step = "Ready", NEW f, f = ReadyState(a, in, references)
    PROVE  Moves(a, f)
  <1>1. ~a.hasPending /\ a.raised \subseteq LeftBehind
    BY DEF Ordered, Buffered, Awaited, Pending
  <1>2. CASE Accepted(in.cmd, references)
    <2>1. /\ f.step = "Do" /\ f.current = in.cmd /\ f.oldCmd = in.cmd /\ ~f.hasPending
          /\ f.raised = a.raised \cup ({in.cmd} \ {"Jog"})
      BY <1>1, <1>2 DEF ReadyState, Well, AxisMemory
    <2>2. Awaited(f) = {in.cmd} \ {"Jog"}
      BY <2>1 DEF Awaited
    <2> QED BY <1>1, <2>1, <2>2 DEF Moves, Ordered, Begun, Ended, Pending
  <1>3. CASE ~Accepted(in.cmd, references)
    <2>1. f.step = "Ready" /\ f.raised = a.raised /\ ~f.hasPending
      BY <1>1, <1>3 DEF ReadyState, Well, AxisMemory
    <2> QED BY <1>1, <2>1 DEF Moves, Ordered, Begun, Ended
  <1> QED BY <1>2, <1>3

(* the end of a command, with a buffered one behind it or not, *)
LEMMA FinishOrder ==
    ASSUME NEW a, Well(a), Ordered(a), a.step = "Do", NEW f, f = Finish(a)
    PROVE  /\ Moves(a, f) /\ f.oldCmd = a.oldCmd
           /\ ~f.hasPending
           /\ site.aborting => f.raised \subseteq LeftBehind /\ f.step \in {"Check", "Ready"}
  <1>1. Awaited(a) = {a.current} \ {"Jog"}
    BY DEF Awaited
  <1>2. CASE a.hasPending
    <2>1. Buffered(a) /\ Pending(a) = {a.oldCmd}
      BY <1>2 DEF Ordered, Buffered, Pending
    <2>2. /\ f.raised = a.raised \ {a.current} /\ ~f.hasPending /\ f.oldCmd = a.oldCmd
          /\ f.step = "Do" /\ f.current = a.oldCmd
      BY <1>2, <2>1 DEF Finish, Buffered, Well, AxisMemory
    <2>3. Awaited(f) = {a.oldCmd} \ {"Jog"}
      BY <2>2 DEF Awaited
    <2>4. f.raised \subseteq Awaited(f) \cup LeftBehind
      <3>1. a.oldCmd # "Jog"
        BY <2>1, CommandClasses DEF Buffered
      <3> QED BY <1>1, <2>1, <2>2, <2>3, <3>1 DEF Ordered
    <2>5. a.oldCmd \in f.raised
      BY <2>1, <2>2 DEF Buffered
    <2>6. Ordered(f)
      BY <2>2, <2>4 DEF Ordered
    <2>7. Begun(a, f)
      BY <2>1, <2>2, <2>3, <2>5 DEF Begun
    <2>8. ~site.aborting
      BY <2>1 DEF Buffered
    <2> QED BY <2>2, <2>6, <2>7, <2>8 DEF Moves, Ended
  <1>3. CASE ~a.hasPending
    <2>1. /\ f.raised = a.raised \ {a.current} /\ ~f.hasPending /\ f.oldCmd = a.oldCmd
          /\ f.step = IF a.current \in Checked THEN "Check" ELSE "Ready"
          /\ f.current = a.current /\ f.commandExecuted
      BY <1>3 DEF Finish, Well, AxisMemory
    <2>2. f.raised \subseteq LeftBehind /\ a.oldCmd = a.current
      BY <1>1, <1>3, <2>1 DEF Ordered, Pending
    <2> QED BY <2>1, <2>2 DEF Moves, Ordered, Begun, Ended
  <1> QED BY <1>2, <1>3

(* the next command, given before or after Finish (b is the memory it   *)
(* finds): disengaged, buffered or aborted, *)
LEMMA ReplaceOrder ==
    ASSUME NEW a, Well(a), Ordered(a), a.step = "Do", NEW in, Fits(in),
           NEW b, Well(b), NEW f, f = Replace(b, a.current, in),
           in.cmd # b.oldCmd,
           \/ b = a
           \/ site.aborting /\ ~b.hasPending /\ b.raised \subseteq LeftBehind
    PROVE  Moves(a, f)
  <1> DEFINE c == a.current
  <1>1. Awaited(a) = {c} \ {"Jog"}
    BY DEF Awaited
  <1>2. b.hasPending => b = a /\ Buffered(a) /\ c \in Buffering
    BY DEF Ordered, Buffered
  <1>3. b.raised \ ({c} \cup Pending(b)) \subseteq LeftBehind
    BY <1>1 DEF Ordered
  <1>4. CASE c \in Synchronizing
    <2>1. ~b.hasPending /\ (b = a => ~a.hasPending)
      BY <1>2, <1>4, CommandClasses
    <2>2. /\ f.raised = (b.raised \ {c}) \cup {DisengageOf(c)}
          /\ f.step = "Out" /\ f.current = c /\ ~f.hasPending /\ f.commandAborted
      <3>1. f = Disengage(b, c)
        BY <1>4, CommandClasses DEF Replace
      <3> QED BY <2>1, <3>1 DEF Disengage, Well, AxisMemory
    <2>3. Awaited(f) = {DisengageOf(c)}
      BY <2>2 DEF Awaited
    <2>4. DisengageOf(c) \notin a.raised \/ DisengageOf(c) \in LeftBehind
      <3>1. DisengageOf(c) \notin AxisCmd
        BY DisengageBlock, CommandClasses
      <3>2. Pending(a) \subseteq AxisCmd /\ {c} \subseteq AxisCmd
        BY DEF Pending, Well, AxisMemory
      <3> QED BY <1>1, <3>1, <3>2 DEF Ordered
    <2> QED BY <1>3, <2>1, <2>2, <2>3, <2>4 DEF Moves, Ordered, Begun, Ended, Pending
  <1>5. CASE c \in Buffering /\ ~in.aborting /\ ~b.hasPending
    <2>1. b = a /\ ~site.aborting /\ in.cmd \in Bufferable /\ a.oldCmd = c
      BY <1>5 DEF Fits, Ordered
    <2>2. /\ f.raised = a.raised \cup {in.cmd} /\ f.hasPending
          /\ f.pendingCmd = in.cmd /\ f.oldCmd = in.cmd
          /\ f.step = "Do" /\ f.current = c
      BY <1>5, <2>1, CommandClasses DEF Replace, Buffer, Well, AxisMemory
    <2>3. Awaited(f) = Awaited(a) /\ Pending(f) = {in.cmd} /\ Pending(a) = {}
      BY <1>5, <2>1, <2>2 DEF Awaited, Pending
    <2>4. in.cmd # c
      BY <2>1
    <2> QED BY <1>1, <1>5, <2>1, <2>2, <2>3, <2>4 DEF Moves, Ordered, Buffered, Begun, Ended
  <1>6. CASE c \notin Synchronizing /\ ~(c \in Buffering /\ ~in.aborting /\ ~b.hasPending)
    <2>1. f = Abort(b, c)
      BY <1>6 DEF Replace
    <2>2. /\ f.raised \subseteq b.raised \ ({c} \cup Pending(b)) /\ f.step = "Ready"
          /\ ~f.hasPending /\ f.commandAborted
      BY <1>2, <2>1 DEF Abort, Pending, Well, AxisMemory
    <2> QED BY <1>3, <2>2 DEF Moves, Ordered, Begun, Ended
  <1> QED BY <1>4, <1>5, <1>6

(* both in one scan, *)
LEMMA DoOrder ==
    ASSUME NEW a, Well(a), Ordered(a), a.step = "Do", NEW in, Fits(in), NEW done,
           site.aborting \/ (a.current \in done => in.cmd = a.oldCmd),
           NEW f, f = DoState(a, in, done)
    PROVE  Moves(a, f)
  <1> DEFINE b == IF a.current \in done THEN Finish(a) ELSE a
  <1>1. Well(b)
    BY FinishType
  <1>2. Moves(a, b) /\ b.oldCmd = a.oldCmd
    <2>1. Moves(a, a)
      BY DEF Moves, Begun, Ended
    <2> QED BY <2>1, FinishOrder
  <1>3. \/ b = a
        \/ ~b.hasPending /\ (site.aborting => b.raised \subseteq LeftBehind)
    BY FinishOrder
  <1>4. CASE a.current # "Stop" /\ in.cmd # b.oldCmd
    <2>1. f = Replace(b, a.current, in)
      BY <1>4 DEF DoState
    <2>2. b = a \/ site.aborting
      BY <1>2, <1>4
    <2> HIDE DEF b
    <2> QED BY <1>1, <1>3, <1>4, <2>1, <2>2, ReplaceOrder
  <1>5. CASE ~(a.current # "Stop" /\ in.cmd # b.oldCmd)
    BY <1>2, <1>5 DEF DoState
  <1> QED BY <1>4, <1>5

(* the check for a changed parameter, *)
LEMMA CheckOrder ==
    ASSUME NEW a, Well(a), Ordered(a), a.step = "Check", NEW in,
           NEW f, f = CheckState(a, in)
    PROVE  Moves(a, f)
  <1>1. ~a.hasPending /\ a.raised \subseteq LeftBehind /\ a.oldCmd = a.current
        /\ a.current \in Checked
    BY DEF Ordered, Buffered, Awaited, Pending, Well
  <1>2. CASE in.cmd # a.oldCmd /\ a.current \in Synchronizing
    <2>1. /\ f.step = "Out" /\ ~f.hasPending /\ f.current = a.current
          /\ f.raised = a.raised \cup {DisengageOf(a.current)}
      BY <1>1, <1>2 DEF CheckState, Well, AxisMemory
    <2>2. Awaited(f) = {DisengageOf(a.current)}
      BY <2>1 DEF Awaited
    <2> QED BY <1>1, <2>1, <2>2 DEF Moves, Ordered, Begun, Ended
  <1>3. CASE in.cmd # a.oldCmd /\ a.current \notin Synchronizing
    <2>1. f.step = "Ready" /\ ~f.hasPending /\ f.raised = a.raised
      BY <1>1, <1>3 DEF CheckState, Well, AxisMemory
    <2> QED BY <1>1, <2>1 DEF Moves, Ordered, Begun, Ended
  <1>4. CASE in.cmd = a.oldCmd /\ in.changed
    <2>1. /\ f.step = "Do" /\ ~f.hasPending /\ f.current = a.current
          /\ f.oldCmd = a.oldCmd /\ f.raised = a.raised \cup {a.current}
      BY <1>1, <1>4 DEF CheckState, Well, AxisMemory
    <2>2. Awaited(f) = {a.current}
      <3>1. a.current # "Jog"
        BY <1>1, CommandClasses
      <3> QED BY <2>1, <3>1 DEF Awaited
    <2> QED BY <1>1, <2>1, <2>2 DEF Moves, Ordered, Begun, Ended
  <1>5. CASE in.cmd = a.oldCmd /\ ~in.changed
    <2>1. f = a
      BY <1>5 DEF CheckState
    <2> QED BY <2>1 DEF Moves, Begun, Ended
  <1> QED BY <1>2, <1>3, <1>4, <1>5

(* and the disengagement. *)
LEMMA OutOrder ==
    ASSUME NEW a, Well(a), Ordered(a), a.step = "Out", NEW done,
           NEW f, f = OutState(a, done)
    PROVE  Moves(a, f)
  <1>1. ~a.hasPending /\ a.raised \subseteq {DisengageOf(a.current)} \cup LeftBehind
    BY DEF Ordered, Buffered, Awaited, Pending
  <1>2. CASE DisengageOf(a.current) \in done
    <2>1. f.step = "Ready" /\ ~f.hasPending /\ f.raised = a.raised \ {DisengageOf(a.current)}
      BY <1>1, <1>2 DEF OutState, Well, AxisMemory
    <2> QED BY <1>1, <2>1 DEF Moves, Ordered, Begun, Ended
  <1>3. CASE DisengageOf(a.current) \notin done
    <2>1. f = a
      BY <1>3 DEF OutState
    <2> QED BY <2>1 DEF Moves, Begun, Ended
  <1> QED BY <1>2, <1>3

(* No command is replaced in the scan that finds it done. *)
Unraced(a, in, done) ==
    site.aborting \/ ~(a.step = "Do" /\ a.current \in done /\ in.cmd # a.oldCmd)

(* Together, they are the FSM. *)
LEMMA FSMOrder ==
    ASSUME NEW a, Well(a), Ordered(a), a.step \notin {"Error", "WaitReset"},
           NEW in, Fits(in), NEW done, NEW references, Unraced(a, in, done),
           NEW f, f = AxisFSM(a, in, done, references)
    PROVE  Moves(a, f)
  <1>1. CASE a.step \in {"NotPowered", "WaitPower", "Powered"}
    <2>1. f = Initialize(a, in, done)
      BY <1>1 DEF AxisFSM
    <2> QED BY <1>1, <2>1, InitializeOrder
  <1>2. CASE a.step = "Ready"
    <2>1. f = ReadyState(a, in, references)
      BY <1>2 DEF AxisFSM
    <2> QED BY <1>2, <2>1, ReadyOrder
  <1>3. CASE a.step = "Do"
    <2>1. f = DoState(a, in, done)
      BY <1>3 DEF AxisFSM
    <2>2. site.aborting \/ (a.current \in done => in.cmd = a.oldCmd)
      BY <1>3 DEF Unraced
    <2> QED BY <1>3, <2>1, <2>2, DoOrder
  <1>4. CASE a.step = "Check"
    <2>1. f = CheckState(a, in)
      BY <1>4 DEF AxisFSM
    <2> QED BY <1>4, <2>1, CheckOrder
  <1>5. CASE a.step = "Out"
    <2>1. f = OutState(a, done)
      BY <1>5 DEF AxisFSM
    <2> QED BY <1>5, <2>1, OutOrder
  <1>6. a.step \in {"NotPowered", "WaitPower", "Powered", "Ready", "Do", "Check", "Out"}
    BY DEF Well, AxisMemory, AxisStep
  <1> QED BY <1>1, <1>2, <1>3, <1>4, <1>5, <1>6

(* The FSM keeps the memory well typed. *)
LEMMA FSMType ==
    ASSUME NEW a, Well(a), a.step \notin {"Error", "WaitReset"},
           NEW in \in AxisInput, NEW done, NEW references
    PROVE  Well(AxisFSM(a, in, done, references))
  <1>1. CASE a.step \in {"NotPowered", "WaitPower", "Powered"}
    BY <1>1, InitializeType DEF AxisFSM
  <1>2. CASE a.step = "Ready"
    BY <1>2, ReadyType DEF AxisFSM
  <1>3. CASE a.step = "Do"
    BY <1>3, StateType DEF AxisFSM
  <1>4. CASE a.step = "Check"
    BY <1>4, StateType DEF AxisFSM
  <1>5. CASE a.step = "Out"
    BY <1>5, StateType DEF AxisFSM
  <1>6. a.step \in {"NotPowered", "WaitPower", "Powered", "Ready", "Do", "Check", "Out"}
    BY DEF Well, AxisMemory, AxisStep
  <1> QED BY <1>1, <1>2, <1>3, <1>4, <1>5, <1>6

(* A scan that reaches the FSM after an emergency stop. *)
LEMMA StopScanOrder ==
    ASSUME NEW a, Well(a), Ordered(a), NEW in, Fits(in), NEW done, NEW references,
           NEW d, d = EmergencyStop(a, in), d # a,
           NEW f, f = AxisFSM(d, in, done, references)
    PROVE  Moves(a, f)
  <1>1. Well(d)
    BY ChecksType DEF Fits
  <1>2. /\ Ordered(d) /\ site.aborting
        /\ d.step = "Do" /\ d.current = "Stop" /\ ~d.hasPending
        /\ d.raised = (a.raised \ Motions) \cup {"Stop"}
        /\ a.step # "Ready" => d.commandAborted
        /\ "Stop" \in a.raised => "Stop" \in LeftBehind
    BY StopOrder
  <1>3. f = IF "Stop" \in done THEN Finish(d) ELSE d
    BY <1>2 DEF AxisFSM, DoState
  <1>4. CASE "Stop" \in done
    <2>1. Moves(d, f) /\ ~f.hasPending /\ f.step \in {"Check", "Ready"}
      BY <1>1, <1>2, <1>3, <1>4, FinishOrder
    <2>2. f.commandExecuted \/ f.commandAborted
      BY <1>2, <2>1 DEF Moves, Ended
    <2> QED BY <2>1, <2>2 DEF Moves, Begun, Ended
  <1>5. CASE "Stop" \notin done
    <2>1. f = d
      BY <1>3, <1>5
    <2>2. Awaited(f) = {"Stop"}
      BY <1>2, <2>1 DEF Awaited
    <2> QED BY <1>2, <2>1, <2>2 DEF Moves, Begun, Ended
  <1> QED BY <1>4, <1>5

(* Type correctness of a call. *)
LEMMA CallType ==
    ASSUME NEW a, Well(a), NEW in \in AxisInput, NEW done, NEW references
    PROVE  Well(AxisCall(a, in, done, references))
  <1> DEFINE b == [a EXCEPT !.resetOld = in.reset]
             edge == in.reset /\ ~a.resetOld
             c == HandleError(DetectError(b, in), in, done, edge)
             d == EmergencyStop(PowerOff(c, in), in)
  <1>1. Well(b) /\ edge \in BOOLEAN
    BY DEF Well, AxisMemory, AxisInput
  <1>2. Well(c)
    BY <1>1, DetectType, HandleType
  <1>3. Well(d)
    BY <1>2, ChecksType
  <1>4. c.step \notin {"Error", "WaitReset"} => d.step \notin {"Error", "WaitReset"}
    BY <1>2 DEF EmergencyStop, PowerOff, Well, AxisMemory
  <1> QED BY <1>2, <1>3, <1>4, FSMType DEF AxisCall

(* A call of the block, stage by stage. *)
LEMMA CallOrder ==
    ASSUME NEW a, Well(a), Ordered(a), NEW in, Fits(in), NEW done, NEW references,
           Unraced(a, in, done), NEW f, f = AxisCall(a, in, done, references)
    PROVE  Moves(a, f)
  <1> DEFINE b == [a EXCEPT !.resetOld = in.reset]
             edge == in.reset /\ ~a.resetOld
             c == HandleError(DetectError(b, in), in, done, edge)
             p == PowerOff(c, in)
             d == EmergencyStop(p, in)
  <1>1. in \in AxisInput
    BY DEF Fits
  <1>2. Well(b) /\ edge \in BOOLEAN
    BY <1>1 DEF Well, AxisMemory, AxisInput
  <1>3. /\ b.step = a.step /\ b.current = a.current /\ b.oldCmd = a.oldCmd
        /\ b.raised = a.raised /\ b.hasPending = a.hasPending
        /\ b.pendingCmd = a.pendingCmd
    BY DEF Well, AxisMemory
  <1>4. Ordered(b) /\ Unraced(b, in, done)
    BY <1>3 DEF Ordered, Buffered, Awaited, Pending, Unraced
  <1>5. Moves(b, f) => Moves(a, f)
    BY <1>3 DEF Moves, Begun, Ended, Pending
  <1>6. Well(c) /\ Well(p)
    BY <1>1, <1>2, DetectType, HandleType, ChecksType
  <1>7. /\ Ordered(c)
        /\ \/ c = b
           \/ /\ c.step \in {"Error", "WaitReset", "NotPowered"} /\ ~c.hasPending
              /\ b.step = "Do" => c.commandAborted
              /\ c.step = "NotPowered" => b.step = "WaitReset"
    <2> HIDE DEF b, edge
    <2> QED BY <1>1, <1>2, <1>4, ErrorOrder
  <1>8. /\ Ordered(p)
        /\ \/ p = c
           \/ /\ p.step = "NotPowered" /\ ~p.hasPending
              /\ c.step = "Do" => p.commandAborted
    BY <1>1, <1>6, <1>7, PowerOffOrder
  <1>9. f = IF c.step \in {"Error", "WaitReset"} THEN c ELSE AxisFSM(d, in, done, references)
    BY DEF AxisCall
  <1> HIDE DEF b, c, p, edge
  <1>10. CASE c.step \in {"Error", "WaitReset"}
    BY <1>5, <1>7, <1>9, <1>10 DEF Moves, Begun, Ended
  <1>11. CASE c.step \notin {"Error", "WaitReset"} /\ p # b
    <2>1. p.step = "NotPowered" /\ (b.step = "Do" => p.commandAborted)
      BY <1>7, <1>8, <1>11
    <2>2. d = p
      BY <2>1 DEF EmergencyStop, Commandable
    <2>3. f = Initialize(p, in, done)
      BY <1>9, <1>11, <2>1, <2>2 DEF AxisFSM
    <2>4. Moves(p, f) /\ f.step \notin {"Do", "Out"} /\ ~f.hasPending
          /\ f.commandAborted = p.commandAborted
      BY <1>6, <1>8, <2>1, <2>3, InitializeOrder
    <2> QED BY <1>5, <2>1, <2>4 DEF Moves, Begun, Ended
  <1>12. CASE c.step \notin {"Error", "WaitReset"} /\ p = b /\ d # p
    BY <1>2, <1>4, <1>5, <1>9, <1>12, StopScanOrder
  <1>13. CASE c.step \notin {"Error", "WaitReset"} /\ p = b /\ d = p
    <2>1. b.step \notin {"Error", "WaitReset"}
      BY <1>7, <1>8, <1>13
    <2> QED BY <1>2, <1>4, <1>5, <1>9, <1>13, <2>1, FSMOrder
  <1> QED BY <1>10, <1>11, <1>12, <1>13

-----------------------------------------------------------------------------
AxisInv ==
    /\ Well(axis) /\ drive \subseteq axis.raised /\ raced \in BOOLEAN
    /\ site \in AxisPlants
    /\ Orderly => Ordered(axis)

(* It holds before the first call. *)
LEMMA AxisInitInv == AxisInit => AxisInv
  <1> SUFFICES ASSUME AxisInit PROVE AxisInv
    OBVIOUS
  <1>1. Well(axis)
    BY CommandClasses DEF AxisInit, AxisColdStart, Well, AxisMemory, AxisStep
  <1>2. Ordered(axis)
    BY DEF AxisInit, AxisColdStart, Ordered
  <1> QED BY <1>1, <1>2 DEF AxisInit, AxisInv, AxisColdStart

(* Every scan keeps it, and accounts for its commands. *)
LEMMA AxisStepInv ==
    ASSUME AxisInv, NEW in \in AxisInputs, AxisScan(in)
    PROVE  AxisInv' /\ (Orderly' => EdgeGiven /\ EndReported)
  <1>1. in \in AxisInput /\ in.cmd \in site.commands /\ in.aborting = site.aborting
    BY AxisAssumption DEF AxisInv, AxisInputs, AxisInput, ReadIn, AxisPlant
  <1>2. axis' = AxisCall(axis, in, drive, site.references) /\ site' = site
    BY DEF AxisScan
  <1>3. Well(axis')
    BY <1>1, <1>2, CallType DEF AxisInv
  <1>4. ASSUME Orderly' PROVE Moves(axis, axis')
    <2>1. site.aborting \/ (~raced /\ ~Replaced(in) /\ site.commands \subseteq Bufferable)
      BY <1>2, <1>4 DEF Orderly, AxisScan
    <2>2. Orderly /\ Fits(in)
      BY <1>1, <2>1 DEF Orderly, Fits
    <2>3. Unraced(axis, in, drive)
      BY <1>1, <2>1 DEF Unraced, Replaced
    <2> QED BY <1>2, <2>2, <2>3, CallOrder DEF AxisInv
  <1>5. LeftBehind' = LeftBehind
    BY <1>2 DEF LeftBehind
  <1>6. AxisInv'
    <2>1. Orderly' => Ordered(axis)'
      BY <1>2, <1>4, <1>5 DEF Moves, Ordered, Buffered, Awaited, Pending
    <2>2. Well(axis)'
      BY <1>3 DEF Well
    <2>3. (drive \subseteq axis.raised)' /\ (raced \in BOOLEAN)' /\ (site \in AxisPlants)'
      BY DEF AxisInv, AxisScan, Replaced
    <2> QED BY <2>1, <2>2, <2>3 DEF AxisInv
  <1>7. ASSUME Orderly' PROVE EdgeGiven /\ EndReported
    BY <1>4, <1>7 DEF Moves, Begun, Ended, EdgeGiven, EndReported, Entered, StartsFresh, Pending, Awaited
  <1> QED BY <1>6, <1>7

(* The invariant is inductive. *)
LEMMA AxisInvariant == AxisSpec => []AxisInv
  <1>1. AxisInv /\ [AxisNext]_axisVars => AxisInv'
    <2> SUFFICES ASSUME AxisInv, [AxisNext]_axisVars PROVE AxisInv'
      OBVIOUS
    <2>1. CASE AxisNext
      BY <2>1, AxisStepInv DEF AxisNext
    <2>2. CASE UNCHANGED axisVars
      BY <2>2 DEF axisVars, AxisInv, Well, Orderly, Ordered, Buffered, Awaited, Pending, LeftBehind
    <2> QED BY <2>1, <2>2
  <1> QED BY <1>1, AxisInitInv, PTL DEF AxisSpec

(* Every variable keeps its type, and the drive shows Done only for what    *)
(* is executed. *)
THEOREM AxisTypeCorrect == AxisSpec => []AxisTypeOK
  <1>1. AxisInv => AxisTypeOK
    BY DEF AxisInv, AxisTypeOK, Well
  <1> QED BY <1>1, AxisInvariant, PTL

(* No Execute flag outlives its command, for all programs (Axis.st:420-427). *)
THEOREM FlagsCorrect == AxisSpec => []OnlyCurrentRuns
  <1>1. AxisInv => OnlyCurrentRuns
    BY DEF AxisInv, OnlyCurrentRuns, Ordered
  <1> QED BY <1>1, AxisInvariant, PTL

(* Every command starts on a fresh edge and is reported to the caller. *)
THEOREM CommandsCorrect == AxisSpec => CommandsAccounted
  <1>1. AxisInv /\ [AxisNext]_axisVars => [Orderly' => EdgeGiven /\ EndReported]_axisVars
    BY AxisStepInv DEF AxisNext
  <1> QED BY <1>1, AxisInvariant, PTL DEF AxisSpec, CommandsAccounted
=============================================================================
