-------------------------- MODULE MoquiStartProofs --------------------------
(***************************************************************************)
(* Theorems about the program with its HVAC component, for every set of    *)
(* installations: any recipes, sensors, dampers, file commands and         *)
(* supervision.                                                            *)
(***************************************************************************)
EXTENDS MoquiStart, TLAPS

-----------------------------------------------------------------------------
(* One scan of an Actuator.  What its clock and its sensors contribute is  *)
(* left open: it cannot lead a request the wrong way.                      *)
Coupled(b) == b.enable <=> Opening(b)

(* Under way to a position, or in it, when the actuator is called ...      *)
ToOpen(b) == ~b.disableRequest /\ (b.enableRequest \/ b.status = "Enabled")
ToClose(b) == ~b.enableRequest /\ (b.disableRequest \/ b.status = "Disabled")

(* ... and after the call.                                                 *)
Opens(b) ==
    Opening(b) /\ ~b.disableRequest /\ (~b.enableRequest => b.status = "Enabled")
Closes(b) ==
    ~Opening(b) /\ ~b.enableRequest /\ (~b.disableRequest => b.status = "Disabled")

(* What a scan makes of the requests, of q the memory afterwards.          *)
Answers(q, b) ==
    /\ ToOpen(b) => Opens(q) /\ (b.status = "Enabled" => q.status = "Enabled")
    /\ ToClose(b) => Closes(q) /\ (b.status = "Disabled" => q.status = "Disabled")

LEMMA StatusMachineAnswers ==
  ASSUME NEW b \in ActuatorMemory, NEW c \in ActuatorConfig,
         NEW e \in BOOLEAN, NEW d \in BOOLEAN
  PROVE  LET q == StatusMachine(b, c, e, d)
         IN q \in ActuatorMemory /\ Answers(q, b) /\ (Coupled(b) => Coupled(q))
  <1> USE DEF StatusMachine, Answers, ToOpen, ToClose, Opens, Closes, Coupled, Opening,
              ActuatorMemory, ActuatorConfig, ActuatorStatus
  <1>1. CASE b.status = "Disabled"
    BY <1>1 DEF DisabledState, StartEnabling
  <1>2. CASE b.status = "EnablePhase"
    BY <1>2 DEF EnablePhaseState, StartDisabling
  <1>3. CASE b.status = "Enabled"
    BY <1>3 DEF EnabledState, StartDisabling
  <1>4. CASE b.status = "DisablePhase"
    BY <1>4 DEF DisablePhaseState, StartEnabling
  <1> QED BY <1>1, <1>2, <1>3, <1>4

LEMMA DiagnoseType ==
  ASSUME NEW b \in ActuatorMemory, NEW c \in ActuatorConfig, NEW in \in ActuatorInput,
         NEW e \in BOOLEAN, NEW d \in BOOLEAN, NEW z \in BOOLEAN
  PROVE  Diagnose(b, c, in, e, d, z) \in ActuatorMemory
  BY ZenonT(30) DEF Diagnose, ActuatorMemory, ActuatorConfig, ActuatorInput

(* The whole of what both operating modes execute.                         *)
LEMMA ElaborateAnswers ==
  ASSUME NEW b \in ActuatorMemory, NEW c \in ActuatorConfig, NEW in \in ActuatorInput
  PROVE  LET q == Elaborate(b, c, in)
         IN /\ q \in ActuatorMemory /\ Answers(q, b)
            /\ c.actuationType = "SingleActuation" /\ Coupled(b) => Coupled(q)
  <1> DEFINE t == ClockHandler(b, in)
             e == EnabledFeedback(t, c, in)
             d == DisabledFeedback(t, c, in)
             m == StatusMachine(t, c, e, d)
             z == t.timer = 0
             g == Diagnose(m, c, in, e, d, z)
             q == Actuate(g, c)
             Same(x, y) == /\ x.status = y.status
                           /\ x.enableRequest = y.enableRequest
                           /\ x.disableRequest = y.disableRequest
  <1>1. t \in ActuatorMemory /\ Same(t, b) /\ t.enable = b.enable
    BY DEF ClockHandler, ActuatorMemory, ActuatorInput
  <1> HIDE DEF t
  <1>2. e \in BOOLEAN /\ d \in BOOLEAN
    BY <1>1 DEF EnabledFeedback, DisabledFeedback, ActuatorMemory, ActuatorConfig,
                ActuatorInput, ActuatorFeedbackType
  <1> HIDE DEF e, d
  <1>3. m \in ActuatorMemory /\ Answers(m, t) /\ (Coupled(t) => Coupled(m))
    BY <1>1, <1>2, StatusMachineAnswers
  <1>4. z \in BOOLEAN
    OBVIOUS
  <1> HIDE DEF m, z
  <1>5. g \in ActuatorMemory /\ Same(g, m) /\ g.enable = m.enable
    <2>1. g \in ActuatorMemory
      BY <1>2, <1>3, <1>4, DiagnoseType
    <2>2. Same(g, m) /\ g.enable = m.enable
      BY <1>3 DEF Diagnose, ActuatorMemory
    <2> QED BY <2>1, <2>2
  <1> HIDE DEF g
  <1>6. q \in ActuatorMemory /\ Same(q, g)
        /\ (c.actuationType = "SingleActuation" => q = g)
    BY <1>5, ZenonT(30) DEF Actuate, ActuatorMemory, ActuatorConfig, ActuatorActuationType
  <1> HIDE DEF q
  <1>7. Answers(q, b)
    BY <1>1, <1>3, <1>5, <1>6 DEF Answers, ToOpen, ToClose, Opens, Closes, Opening
  <1>8. ASSUME c.actuationType = "SingleActuation", Coupled(b) PROVE Coupled(q)
    BY <1>1, <1>3, <1>5, <1>6, <1>8 DEF Coupled, Opening
  <1>9. Elaborate(b, c, in) = q
    BY DEF Elaborate, q, g, z, m, e, d, t
  <1> HIDE DEF Same
  <1> QED BY <1>6, <1>7, <1>8, <1>9

(* In Init a pump stops; a damper does what its configuration presets.     *)
LEMMA InitHandlerType ==
  ASSUME NEW b \in ActuatorMemory, NEW c \in ActuatorConfig, NEW in \in ActuatorInput
  PROVE  InitHandler(b, c, in) \in ActuatorMemory
  BY ZenonT(30) DEF InitHandler, PresetReached, ActuatorMemory, ActuatorConfig, ActuatorInput,
         ActuatorFeedbackType, ActuatorStatus

LEMMA ScanType ==
  ASSUME NEW b \in ActuatorMemory, NEW c \in ActuatorConfig, NEW in \in ActuatorInput
  PROVE  ActuatorScan(b, c, in) \in ActuatorMemory
  <1>1. CASE in.operationType = "Run"
    BY <1>1, ElaborateAnswers DEF ActuatorScan
  <1>2. CASE in.operationType = "Init" /\ c.identified
    BY <1>2, ElaborateAnswers, InitHandlerType DEF ActuatorScan
  <1>3. CASE in.operationType = "Init" /\ ~c.identified
    BY <1>3 DEF ActuatorScan, ActuatorMemory
  <1> QED BY <1>1, <1>2, <1>3 DEF ActuatorInput, ActuatorConfig

LEMMA RunAnswers ==
  ASSUME NEW b \in ActuatorMemory, NEW c \in ActuatorConfig, NEW in \in ActuatorInput,
         in.operationType = "Run"
  PROVE  Answers(ActuatorScan(b, c, in), b)
  BY ElaborateAnswers DEF ActuatorScan

(* A pump does in the scan what it is commanded, from any state it is in.  *)
LEMMA PumpConfigType == PumpConfig \in ActuatorConfig
  BY DEF PumpConfig, ActuatorConfig, ActuatorFeedbackType, ActuatorActuationType

LEMMA PumpObeys ==
  ASSUME NEW b \in ActuatorMemory, Coupled(b), NEW in \in ActuatorInput, NEW on \in BOOLEAN,
         in.operationType = "Run"
  PROVE  LET q == ActuatorScan(Command(b, on), PumpConfig, in)
         IN Coupled(q) /\ q.enable = on
  <1> DEFINE a == Command(b, on)
             q == ActuatorScan(a, PumpConfig, in)
  <1>1. a \in ActuatorMemory /\ Coupled(a) /\ IF on THEN ToOpen(a) ELSE ToClose(a)
    BY DEF Command, ActuatorMemory, Coupled, Opening, ToOpen, ToClose
  <1> HIDE DEF a
  <1>2. q = Elaborate(a, PumpConfig, in)
    BY DEF ActuatorScan
  <1> HIDE DEF q
  <1>3. q \in ActuatorMemory /\ Coupled(q) /\ Answers(q, a)
    BY <1>1, <1>2, PumpConfigType, ElaborateAnswers DEF PumpConfig
  <1>4. q.enable = on
    BY <1>1, <1>3 DEF Answers, Opens, Closes, Coupled, ActuatorMemory
  <1> QED BY <1>3, <1>4 DEF q, a

LEMMA PumpInit ==
  ASSUME NEW b \in ActuatorMemory, NEW in \in ActuatorInput, in.operationType = "Init"
  PROVE  LET q == ActuatorScan(b, PumpConfig, in) IN Coupled(q) /\ ~q.enable
  <1> DEFINE a == InitHandler(b, PumpConfig, in)
             q == ActuatorScan(b, PumpConfig, in)
  <1>1. a \in ActuatorMemory
    BY PumpConfigType, InitHandlerType
  <1>2. Coupled(a) /\ ToClose(a)
    BY DEF InitHandler, PresetReached, PumpConfig, ActuatorMemory, Coupled, Opening, ToClose
  <1> HIDE DEF a
  <1>3. q = Elaborate(a, PumpConfig, in)
    BY DEF ActuatorScan, PumpConfig, a
  <1> HIDE DEF q
  <1>4. Coupled(q) /\ Answers(q, a)
    BY <1>1, <1>2, <1>3, PumpConfigType, ElaborateAnswers DEF PumpConfig
  <1>5. ~q.enable
    BY <1>2, <1>4 DEF Answers, Closes, Coupled
  <1> QED BY <1>4, <1>5 DEF q

-----------------------------------------------------------------------------
(* The signals and the rules.                                              *)
LEMMA ResetSignalsType ==
  ASSUME NEW m \in SignalMemory(7)
  PROVE  ResetSignals(m) \in SignalMemory(7) /\ ResetSignals(m).cumulativeOutputAction = {}
  <1> DEFINE list == {}
             bits == SignalOutputAction.None
             category == Information
  <1>1. /\ list \in SUBSET (1..7) /\ bits \in SUBSET ActionBits
        /\ category \in SignalCategory /\ bits = {}
    BY DEF SignalOutputAction, SignalCategory, Alarm, Information
  <1>2. ResetSignals(m) = [m EXCEPT !.signalList = list, !.resetOld = FALSE,
                              !.auxResetOld = FALSE, !.selectiveResetOld = FALSE,
                              !.cumulativeOutputAction = bits, !.activeCategory = category,
                              !.resetEnable = FALSE, !.auxResetEnable = FALSE]
    BY DEF ResetSignals
  <1> HIDE DEF list, bits, category
  <1> QED BY <1>1, <1>2 DEF SignalMemory

LEMMA PrepareSignalsType ==
  ASSUME NEW m \in SignalMemory(7)
  PROVE  PrepareSignals(m, NoReset) \in SignalMemory(7)
  <1> DEFINE bits == SignalOutputAction.None
             category == Information
  <1>1. bits \in SUBSET ActionBits /\ category \in SignalCategory
    BY DEF SignalOutputAction, SignalCategory, Alarm, Information
  <1>2. PrepareSignals(m, NoReset) =
          [m EXCEPT !.resetActivation = FALSE, !.resetOld = FALSE,
                    !.auxResetActivation = FALSE, !.auxResetOld = FALSE,
                    !.selectiveResetActivation = FALSE, !.selectiveResetOld = FALSE,
                    !.cumulativeOutputAction = bits, !.activeCategory = category,
                    !.resetEnable = FALSE, !.auxResetEnable = FALSE]
    BY DEF PrepareSignals, NoReset
  <1> HIDE DEF bits, category
  <1> QED BY <1>1, <1>2 DEF SignalMemory

LEMMA ProcessedType ==
  ASSUME NEW m \in SignalMemory(7), NEW s \in Signal(7), NEW active \in BOOLEAN,
         NEW q, q = ProcessSignal(m, s, active, NoReset)
  PROVE  /\ q \in SignalMemory(7)
         /\ m.cumulativeOutputAction \subseteq q.cumulativeOutputAction
         /\ active => s.outputAction \subseteq q.cumulativeOutputAction
  <1> DEFINE on == StaysActive(m, s, active, NoReset)
             list == q.signalList
             bits == q.cumulativeOutputAction
             category == q.activeCategory
             reset == q.resetEnable
             aux == q.auxResetEnable
  <1>1. /\ list = IF on THEN m.signalList \cup {s.code} ELSE m.signalList \ {s.code}
        /\ bits = IF on THEN m.cumulativeOutputAction \cup s.outputAction
                  ELSE m.cumulativeOutputAction
        /\ category = IF on /\ s.category < m.activeCategory THEN s.category
                      ELSE m.activeCategory
        /\ reset = (m.resetEnable \/ (on /\ ~active /\ requiresManualReset(s)))
        /\ aux = (m.auxResetEnable \/ (on /\ ~active /\ s.resetPol = "AuxReset"))
    BY DEF ProcessSignal, SignalMemory
  <1>2. list \in SUBSET (1..7) /\ bits \in SUBSET ActionBits /\ category \in SignalCategory
    BY <1>1 DEF SignalMemory, Signal
  <1>3. reset \in BOOLEAN /\ aux \in BOOLEAN
    BY <1>1 DEF SignalMemory
  <1>4. q = [m EXCEPT !.signalList = list, !.cumulativeOutputAction = bits,
                      !.activeCategory = category, !.resetEnable = reset,
                      !.auxResetEnable = aux]
    BY DEF ProcessSignal, SignalMemory
  <1>5. m.cumulativeOutputAction \subseteq bits /\ (active => s.outputAction \subseteq bits)
    BY <1>1 DEF StaysActive
  <1> HIDE DEF list, category, reset, aux
  <1>6. q \in SignalMemory(7)
    <2> HIDE DEF bits
    <2> QED BY <1>2, <1>3, <1>4 DEF SignalMemory
  <1> QED BY <1>5, <1>6

LEMMA AlarmOfType ==
  ASSUME NEW code \in AlarmCodes
  PROVE  AlarmOf(code) \in Signal(7)
  BY DEF AlarmOf, AlarmCodes, Signal, SignalOutputAction, ActionBits, Alarm, Information,
         SignalCategory, ResetPolicy

LEMMA ScannedType ==
  ASSUME NEW m \in SignalMemory(7), NEW code \in 1..7, NEW causes
  PROVE  LET q == Scanned(m, code, causes)
         IN /\ q \in SignalMemory(7)
            /\ m.cumulativeOutputAction \subseteq q.cumulativeOutputAction
            /\ code \in causes => 1 \in q.cumulativeOutputAction
  <1> DEFINE active == code \in causes
             q == Scanned(m, code, causes)
  <1>1. active \in BOOLEAN /\ code \in AlarmCodes
    BY DEF AlarmCodes
  <1> HIDE DEF active
  <1>2. q = ProcessSignal(m, AlarmOf(code), active, NoReset)
    BY DEF Scanned, active
  <1> HIDE DEF q
  <1>3. /\ q \in SignalMemory(7)
        /\ m.cumulativeOutputAction \subseteq q.cumulativeOutputAction
        /\ active => AlarmOf(code).outputAction \subseteq q.cumulativeOutputAction
    BY <1>1, <1>2, ProcessedType, AlarmOfType
  <1>4. 1 \in AlarmOf(code).outputAction
    BY DEF AlarmOf, SignalOutputAction
  <1> QED BY <1>3, <1>4 DEF active, q

LEMMA DiagnosticsType ==
  ASSUME NEW d \in DeviceMemory
  PROVE  /\ DeviceDiagnostics(d) \in SignalMemory(7)
         /\ d.ductTempOverMax \/ d.ductTempUnderMin
              => 1 \in DeviceDiagnostics(d).cumulativeOutputAction
  <1> DEFINE on == AlarmCauses(d)
             m0 == PrepareSignals(d.signalMgmt, NoReset)
             m3 == Scanned(Scanned(Scanned(m0, 1, on), 2, on), 3, on)
             m5 == Scanned(Scanned(m3, 4, on), 5, on)
  <1>1. m0 \in SignalMemory(7)
    BY PrepareSignalsType DEF DeviceMemory
  <1> HIDE DEF m0, on
  <1>2. m3 \in SignalMemory(7)
    BY <1>1, ScannedType
  <1> HIDE DEF m3
  <1>3. m5 \in SignalMemory(7)
    BY <1>2, ScannedType
  <1>4. DeviceDiagnostics(d) = Scanned(Scanned(m5, 6, on), 7, on)
    BY DEF DeviceDiagnostics, m3, m0, on
  <1>5. /\ d.ductTempOverMax => 6 \in on
        /\ d.ductTempUnderMin => 7 \in on
    BY DEF on, AlarmCauses, AlarmCodes
  <1> HIDE DEF m5
  <1> DEFINE m6 == Scanned(m5, 6, on)
             m7 == Scanned(m6, 7, on)
  <1>6. m6 \in SignalMemory(7) /\ (6 \in on => 1 \in m6.cumulativeOutputAction)
    BY <1>3, ScannedType
  <1> HIDE DEF m6
  <1>7. /\ m7 \in SignalMemory(7) /\ (7 \in on => 1 \in m7.cumulativeOutputAction)
        /\ m6.cumulativeOutputAction \subseteq m7.cumulativeOutputAction
    BY <1>6, ScannedType
  <1> QED BY <1>4, <1>5, <1>6, <1>7 DEF m6

(* What the rules leave alone: the devices and the air distribution.       *)
SameDevices(e, d) ==
    /\ e.coldGlycolPump = d.coldGlycolPump /\ e.hotGlycolPump = d.hotGlycolPump
    /\ e.airFlow = d.airFlow /\ e.ahuFan = d.ahuFan
    /\ e.highFlowDamper = d.highFlowDamper /\ e.lowFlowDamper = d.lowFlowDamper
    /\ e.airDistribution = d.airDistribution

(* The timing leaves also the state and the signals alone.                 *)
SameState(e, d) == e.signalMgmt = d.signalMgmt /\ e.status = d.status

LEMMA CountType ==
  ASSUME NEW d \in DeviceMemory, NEW r \in Recipe
  PROVE  LET e == Count(r, d)
         IN e \in DeviceMemory /\ SameDevices(e, d) /\ SameState(e, d)
  <1> DEFINE Good(e) == e \in DeviceMemory /\ SameDevices(e, d) /\ SameState(e, d)
  <1>0. Good(d)
    BY DEF SameDevices, SameState
  <1>1. Good(CountBreak(r, d))
    <2> DEFINE next == d.actualBreakDuration + 1
               over == BreakOver(r, next)
               enabled == ~over
               runtime == IF over THEN 0 ELSE d.actualRuntime
               break == IF over THEN 0 ELSE next
               duration == d.processActualDuration + 1
               q == [d EXCEPT !.processActualDuration = duration,
                              !.timeBreakEnabled = enabled, !.actualRuntime = runtime,
                              !.actualBreakDuration = break]
    <2>1. CountBreak(r, d) = q
      BY DEF CountBreak, DeviceMemory
    <2>2. enabled \in BOOLEAN /\ runtime \in Nat /\ break \in Nat /\ duration \in Nat
      BY DEF DeviceMemory
    <2> HIDE DEF enabled, runtime, break, duration
    <2>3. q \in DeviceMemory
      BY <2>2 DEF DeviceMemory
    <2>4. SameDevices(q, d) /\ SameState(q, d)
      BY DEF DeviceMemory, SameDevices, SameState
    <2> QED BY <2>1, <2>3, <2>4
  <1>2. Good(CountActive(r, d))
    <2> DEFINE due == BreakDue(r, d, d.actualRuntime + 1)
               enabled == d.timeBreakEnabled \/ due
               runtime == d.actualRuntime + 1
               break == IF due THEN 0 ELSE d.actualBreakDuration
               duration == d.processActualDuration + 1
               q == [d EXCEPT !.processActualDuration = duration, !.actualRuntime = runtime,
                              !.timeBreakEnabled = enabled, !.actualBreakDuration = break]
    <2>1. CountActive(r, d) = q
      BY DEF CountActive, DeviceMemory
    <2>2. enabled \in BOOLEAN /\ runtime \in Nat /\ break \in Nat /\ duration \in Nat
      BY DEF DeviceMemory
    <2> HIDE DEF enabled, runtime, break, duration
    <2>3. q \in DeviceMemory
      BY <2>2 DEF DeviceMemory
    <2>4. SameDevices(q, d) /\ SameState(q, d)
      BY DEF DeviceMemory, SameDevices, SameState
    <2> QED BY <2>1, <2>3, <2>4
  <1>3. Good(CountDwell(d))
    BY DEF CountDwell, DeviceMemory, SameDevices, SameState
  <1> QED BY <1>0, <1>1, <1>2, <1>3 DEF Count

LEMMA TimingType ==
  ASSUME NEW d \in DeviceMemory, NEW r \in Recipe, NEW in \in Input
  PROVE  LET e == Timing(r, d, in)
         IN e \in DeviceMemory /\ SameDevices(e, d) /\ SameState(e, d)
  <1> DEFINE n == Count(r, d)
  <1>0. SameDevices(d, d) /\ SameState(d, d)
    BY DEF SameDevices, SameState
  <1>4. n \in DeviceMemory /\ SameDevices(n, d) /\ SameState(n, d)
    BY CountType
  <1> HIDE DEF n
  <1> DEFINE c == /\ n.processActualDuration >= r.processEstimatedDuration
                  /\ n.processActualDuration >= r.processMinDuration
             e == [n EXCEPT !.isCompleted = c]
  <1>5. c \in BOOLEAN
    OBVIOUS
  <1> HIDE DEF c
  <1>6. e \in DeviceMemory /\ SameDevices(e, d) /\ SameState(e, d)
    <2>1. n \in DeviceMemory /\ SameDevices(n, d) /\ SameState(n, d)
      BY <1>4
    <2>2. e \in DeviceMemory
      BY <2>1, <1>5 DEF DeviceMemory
    <2>3. SameDevices(e, n) /\ SameState(e, n)
      BY <2>1 DEF DeviceMemory, SameDevices, SameState
    <2> QED BY <2>1, <2>2, <2>3 DEF SameDevices, SameState
  <1>7. Timing(r, d, in) \in {d, n, e}
    <2>1. in.clock1s \in BOOLEAN /\ r.processEstimatedDuration \in Nat
      BY DEF Input, Recipe
    <2> QED BY <2>1 DEF Timing, n, c
  <1> QED BY <1>0, <1>4, <1>6, <1>7

LEMMA RuleType ==
  ASSUME NEW d \in DeviceMemory, NEW r \in Recipe, NEW in \in Input
  PROVE  Rule(r, d, in) \in SUBSET Requests
  BY DEF Rule, StandbyRule, CoolingRule, HeatingRule, DryingRule, KeepPhase, Requests,
         MainStatus, DeviceMemory

LEMMA RuleEngineStops ==
  ASSUME NEW d \in DeviceMemory, NEW r \in Recipe, NEW in \in Input
  PROVE  LET e == MainRuleEngine(r, d, in)
         IN /\ e \in DeviceMemory /\ SameDevices(e, d)
            /\ e.status = d.status
            /\ StopActive(e) => "Fault" \in e.requests
            /\ d.ductTempOverMax \/ d.ductTempUnderMin => StopActive(e)
  <1> DEFINE over == in.duct > r.ductTempMax
             under == in.duct < r.ductTempMin
             sm == DeviceDiagnostics(d)
             t == [d EXCEPT !.signalMgmt = sm, !.ductTempOverMax = over,
                            !.ductTempUnderMin = under]
             n == Timing(r, t, in)
             q == IF StopActive(n) THEN {"Fault", "Standby"} ELSE Rule(r, n, in)
             e == [n EXCEPT !.requests = q]
  <1>1. /\ sm \in SignalMemory(7) /\ over \in BOOLEAN /\ under \in BOOLEAN
        /\ d.ductTempOverMax \/ d.ductTempUnderMin => 1 \in sm.cumulativeOutputAction
    BY DiagnosticsType DEF Input, Recipe
  <1> HIDE DEF sm, over, under
  <1>2. t \in DeviceMemory /\ SameDevices(t, d) /\ t.status = d.status /\ t.signalMgmt = sm
    <2>1. t \in DeviceMemory
      BY <1>1 DEF DeviceMemory
    <2>2. SameDevices(t, d) /\ t.status = d.status /\ t.signalMgmt = sm
      BY DEF DeviceMemory, SameDevices
    <2> QED BY <2>1, <2>2
  <1> HIDE DEF t
  <1>3. n \in DeviceMemory /\ SameDevices(n, d) /\ n.status = d.status /\ n.signalMgmt = sm
    BY <1>2, TimingType DEF SameDevices, SameState
  <1> HIDE DEF n
  <1>4. q \in SUBSET Requests
    BY <1>3, RuleType DEF Requests, MainStatus
  <1>5. StopActive(n) => "Fault" \in q
    OBVIOUS
  <1> HIDE DEF q
  <1>6. e \in DeviceMemory
    BY <1>3, <1>4 DEF DeviceMemory
  <1>7. /\ SameDevices(e, n) /\ e.signalMgmt = n.signalMgmt /\ e.requests = q
        /\ e.status = n.status
    BY <1>3 DEF DeviceMemory, SameDevices
  <1>8. MainRuleEngine(r, d, in) = e
    BY DEF MainRuleEngine, e, q, n, t, sm, over, under
  <1> HIDE DEF e
  <1>9. /\ SameDevices(e, d) /\ e.status = d.status
        /\ StopActive(e) => "Fault" \in e.requests
        /\ d.ductTempOverMax \/ d.ductTempUnderMin => StopActive(e)
    BY <1>1, <1>3, <1>5, <1>7 DEF SameDevices, StopActive
  <1> QED BY <1>6, <1>8, <1>9

-----------------------------------------------------------------------------
(* The FSM commands the devices as its output table says: no heat or cold  *)
(* without air, and nothing in Standby and Fault.                          *)
Commanded(e, d, cold, hot, air) ==
    /\ e.coldGlycolPump = Command(d.coldGlycolPump, cold)
    /\ e.hotGlycolPump = Command(d.hotGlycolPump, hot)
    /\ e.airFlow = Command(d.airFlow, air) /\ e.ahuFan = air
    /\ e.highFlowDamper = d.highFlowDamper /\ e.lowFlowDamper = d.lowFlowDamper
    /\ e.airDistribution = d.airDistribution /\ e.signalMgmt = d.signalMgmt

LEMMA CommandType ==
  ASSUME NEW b \in ActuatorMemory, NEW on \in BOOLEAN
  PROVE  Command(b, on) \in ActuatorMemory
  BY DEF Command, ActuatorMemory

LEMMA OutputFunctionCommands ==
  ASSUME NEW d \in DeviceMemory, NEW cold \in BOOLEAN, NEW hot \in BOOLEAN,
         NEW air \in BOOLEAN
  PROVE  LET e == OutputFunction(Acknowledge(d), cold, hot, air)
         IN e \in DeviceMemory /\ Commanded(e, d, cold, hot, air)
            /\ e.status = d.status
  <1> DEFINE a == Acknowledge(d)
             c1 == Command(a.coldGlycolPump, cold)
             c2 == Command(a.hotGlycolPump, hot)
             c3 == Command(a.airFlow, air)
             e == [a EXCEPT !.coldGlycolPump = c1, !.hotGlycolPump = c2, !.airFlow = c3,
                            !.ahuFan = air]
  <1>1. OutputFunction(a, cold, hot, air) = e
    BY DEF OutputFunction
  <1>2. a \in DeviceMemory
    BY DEF Acknowledge, DeviceMemory
  <1>3. SameDevices(a, d) /\ a.signalMgmt = d.signalMgmt /\ a.status = d.status
    BY DEF Acknowledge, DeviceMemory, SameDevices
  <1> HIDE DEF a
  <1>4. c1 \in ActuatorMemory /\ c2 \in ActuatorMemory /\ c3 \in ActuatorMemory
    BY <1>2, CommandType DEF DeviceMemory
  <1>5. /\ c1 = Command(d.coldGlycolPump, cold) /\ c2 = Command(d.hotGlycolPump, hot)
        /\ c3 = Command(d.airFlow, air)
    BY <1>3 DEF SameDevices
  <1> HIDE DEF c1, c2, c3
  <1>6. e \in DeviceMemory
    BY <1>2, <1>4 DEF DeviceMemory
  <1>7. /\ e.coldGlycolPump = c1 /\ e.hotGlycolPump = c2 /\ e.airFlow = c3 /\ e.ahuFan = air
        /\ e.highFlowDamper = a.highFlowDamper /\ e.lowFlowDamper = a.lowFlowDamper
        /\ e.airDistribution = a.airDistribution /\ e.signalMgmt = a.signalMgmt
        /\ e.status = a.status
    BY <1>2 DEF DeviceMemory
  <1>8. Commanded(e, d, cold, hot, air) /\ e.status = d.status
    BY <1>3, <1>5, <1>7 DEF Commanded, SameDevices
  <1> HIDE DEF e
  <1> QED BY <1>1, <1>6, <1>8 DEF a

LEMMA StatusType ==
  ASSUME NEW d \in DeviceMemory, NEW s \in MainStatus
  PROVE  LET e == [d EXCEPT !.status = s]
         IN /\ e \in DeviceMemory /\ SameDevices(e, d)
            /\ e.signalMgmt = d.signalMgmt /\ e.requests = d.requests /\ e.status = s
  <1>1. [d EXCEPT !.status = s] \in DeviceMemory
    BY DEF DeviceMemory
  <1>2. LET e == [d EXCEPT !.status = s]
        IN /\ SameDevices(e, d)
           /\ e.signalMgmt = d.signalMgmt /\ e.requests = d.requests /\ e.status = s
    BY DEF DeviceMemory, SameDevices
  <1> QED BY <1>1, <1>2

LEMMA LeastOf4 ==
  ASSUME NEW asked \in SUBSET (1..4), asked # {}
  PROVE  \E i \in asked : \A j \in asked : i <= j
  <1>1. CASE 1 \in asked
    <2>1. \A j \in asked : 1 <= j
      OBVIOUS
    <2> QED BY <1>1, <2>1
  <1>2. CASE 1 \notin asked /\ 2 \in asked
    <2>1. \A j \in asked : 2 <= j
      BY <1>2
    <2> QED BY <1>2, <2>1
  <1>3. CASE 1 \notin asked /\ 2 \notin asked /\ 3 \in asked
    <2>1. \A j \in asked : 3 <= j
      BY <1>3
    <2> QED BY <1>3, <2>1
  <1>4. CASE 1 \notin asked /\ 2 \notin asked /\ 3 \notin asked
    <2>1. \A j \in asked : j = 4
      BY <1>4
    <2>2. PICK i \in asked : TRUE
      OBVIOUS
    <2>3. \A j \in asked : i <= j
      BY <2>1
    <2> QED BY <2>3
  <1> QED BY <1>1, <1>2, <1>3, <1>4

LEMMA UpdateType ==
  ASSUME NEW d \in DeviceMemory, d.status # "Fault"
  PROVE  LET e == Update(d)
         IN e \in DeviceMemory /\ SameDevices(e, d) /\ e.signalMgmt = d.signalMgmt
  <1> DEFINE order == Successors(d.status)
             asked == {i \in DOMAIN order : order[i] \in d.requests}
             first == CHOOSE i \in asked : \A j \in asked : i <= j
  <1>1. CASE asked = {}
    BY <1>1 DEF Update, SameDevices
  <1>2. CASE asked # {}
    <2>1. DOMAIN order \subseteq 1..4 /\ \A i \in DOMAIN order : order[i] \in MainStatus
      <3>1. CASE d.status \in {"Standby", "Ventilation"}
        BY <3>1 DEF Successors, MainStatus
      <3>2. CASE d.status \in {"Cooling", "Heating"}
        BY <3>2 DEF Successors, MainStatus
      <3>3. CASE d.status = "Drying"
        BY <3>3 DEF Successors, MainStatus
      <3> QED BY <3>1, <3>2, <3>3 DEF DeviceMemory, MainStatus
    <2>2. asked \subseteq 1..4
      BY <2>1
    <2>3. \E i \in asked : \A j \in asked : i <= j
      BY <1>2, <2>2, LeastOf4
    <2>4. first \in asked
      BY <2>3
    <2>5. order[first] \in MainStatus
      BY <2>1, <2>4
    <2>6. Update(d) = [d EXCEPT !.status = order[first]]
      BY <1>2 DEF Update
    <2> HIDE DEF order, asked, first
    <2> QED BY <2>5, <2>6, StatusType
  <1> QED BY <1>1, <1>2

LEMMA MainFSMCommands ==
  ASSUME NEW d \in DeviceMemory
  PROVE  LET e == MainFSM(d)
         IN /\ e \in DeviceMemory
            /\ \E cold, hot, air \in BOOLEAN :
                 /\ Commanded(e, d, cold, hot, air)
                 /\ cold \/ hot => air
                 /\ d.status \in {"Standby", "Fault"} => ~air
                 /\ cold /\ hot => d.status = "Drying"
            /\ d.status = "Fault" /\ StopActive(d) => e.status = "Fault"
  <1>1. CASE d.status = "Fault"
    <2> DEFINE off == OutputFunction(Acknowledge(d), FALSE, FALSE, FALSE)
               clear == d.signalMgmt.cumulativeOutputAction = SignalOutputAction.None
               error == ~clear
               status == IF clear THEN "Standby" ELSE off.status
               e == [off EXCEPT !.error = error, !.status = status]
    <2>1. MainFSM(d) = e
      BY <1>1 DEF MainFSM, FaultState
    <2>2. off \in DeviceMemory /\ Commanded(off, d, FALSE, FALSE, FALSE) /\ off.status = "Fault"
      BY <1>1, OutputFunctionCommands
    <2> HIDE DEF off
    <2>3. /\ error \in BOOLEAN /\ status \in MainStatus
          /\ StopActive(d) => status = "Fault"
      BY <2>2 DEF MainStatus, StopActive, SignalOutputAction
    <2> HIDE DEF error, status
    <2>4. e \in DeviceMemory
      BY <2>2, <2>3 DEF DeviceMemory
    <2>5. SameDevices(e, off) /\ e.signalMgmt = off.signalMgmt /\ e.status = status
      BY <2>2 DEF DeviceMemory, SameDevices
    <2>6. Commanded(e, d, FALSE, FALSE, FALSE)
      BY <2>2, <2>5 DEF Commanded, SameDevices
    <2> HIDE DEF e
    <2> QED BY <2>1, <2>3, <2>4, <2>5, <2>6
  <1>2. CASE d.status # "Fault"
    <2> DEFINE cold == d.status \in {"Cooling", "Drying"}
               hot == d.status \in {"Heating", "Drying"}
               air == d.status # "Standby"
               o == OutputFunction(Acknowledge(d), cold, hot, air)
               e == Update(o)
    <2>1. MainFSM(d) = e
      BY <1>2 DEF MainFSM
    <2>2. /\ cold \in BOOLEAN /\ hot \in BOOLEAN /\ air \in BOOLEAN /\ (cold \/ hot => air)
          /\ d.status \in {"Standby", "Fault"} => ~air
          /\ cold /\ hot => d.status = "Drying"
      BY <1>2
    <2> HIDE DEF cold, hot, air
    <2>3. o \in DeviceMemory /\ Commanded(o, d, cold, hot, air) /\ o.status # "Fault"
      BY <1>2, <2>2, OutputFunctionCommands
    <2> HIDE DEF o
    <2>4. e \in DeviceMemory /\ SameDevices(e, o) /\ e.signalMgmt = o.signalMgmt
      BY <2>3, UpdateType
    <2>5. Commanded(e, d, cold, hot, air)
      BY <2>3, <2>4 DEF Commanded, SameDevices
    <2> HIDE DEF e
    <2> QED BY <1>2, <2>1, <2>2, <2>4, <2>5
  <1> QED BY <1>1, <1>2

-----------------------------------------------------------------------------
(* The air distribution.  Between two calls of Main a throw is under way or *)
(* in position: the inductive form of ThrowsInPosition.                    *)
HighThrow == {"HighPhase", "TransitionToHigh"}
LowThrow == {"TransitionToLow", "LowPhase"}
InPosition(d) ==
    d.airDistribution.status = "LowPhase"
      => d.lowFlowDamper.status = "Enabled" /\ d.highFlowDamper.status = "Disabled"
Throwing(d) ==
    /\ d.airDistribution.status \in HighThrow
         => Opens(d.highFlowDamper) /\ Closes(d.lowFlowDamper)
    /\ d.airDistribution.status \in LowThrow
         => Opens(d.lowFlowDamper) /\ Closes(d.highFlowDamper)
    /\ InPosition(d)

(* The same within a call, when the dampers have not been scanned.         *)
ToThrow(d) ==
    /\ d.airDistribution.status \in HighThrow
         => ToOpen(d.highFlowDamper) /\ ToClose(d.lowFlowDamper)
    /\ d.airDistribution.status \in LowThrow
         => ToOpen(d.lowFlowDamper) /\ ToClose(d.highFlowDamper)
    /\ InPosition(d)

LEMMA ThrowingIsToThrow ==
  ASSUME NEW d, Throwing(d)
  PROVE  ToThrow(d)
  BY DEF Throwing, ToThrow, Opens, Closes, ToOpen, ToClose

(* What the controller leaves alone.                                       *)
SamePlant(e, d) ==
    /\ e.coldGlycolPump = d.coldGlycolPump /\ e.hotGlycolPump = d.hotGlycolPump
    /\ e.airFlow = d.airFlow /\ e.ahuFan = d.ahuFan
    /\ e.signalMgmt = d.signalMgmt /\ e.status = d.status /\ e.requests = d.requests

LEMMA CommandTurns ==
  ASSUME NEW b \in ActuatorMemory
  PROVE  ToOpen(Command(b, TRUE)) /\ ToClose(Command(b, FALSE))
  BY DEF Command, ActuatorMemory, ToOpen, ToClose

LEMMA ThrowType ==
  ASSUME NEW d \in DeviceMemory, NEW high \in BOOLEAN,
         NEW s \in AirDistributionControllerStatus, NEW x \in Nat, NEW y \in Nat
  PROVE  LET e == Enter(Throw(d, high), s, x, y)
         IN /\ e \in DeviceMemory /\ SamePlant(e, d)
            /\ e.airDistribution = [status |-> s, high |-> x, low |-> y]
            /\ IF high THEN ToOpen(e.highFlowDamper) /\ ToClose(e.lowFlowDamper)
                       ELSE ToOpen(e.lowFlowDamper) /\ ToClose(e.highFlowDamper)
  <1> DEFINE c1 == Command(d.highFlowDamper, high)
             c2 == Command(d.lowFlowDamper, ~high)
             a == [status |-> s, high |-> x, low |-> y]
             t == [d EXCEPT !.highFlowDamper = c1, !.lowFlowDamper = c2]
             e == [t EXCEPT !.airDistribution = a]
  <1>1. Throw(d, high) = t
    BY DEF Throw
  <1>2. d.highFlowDamper \in ActuatorMemory /\ d.lowFlowDamper \in ActuatorMemory
    BY DEF DeviceMemory
  <1>3. c1 \in ActuatorMemory /\ c2 \in ActuatorMemory
    BY <1>2, CommandType
  <1>4. IF high THEN ToOpen(c1) /\ ToClose(c2) ELSE ToOpen(c2) /\ ToClose(c1)
    <2>1. CASE high
      BY <1>2, <2>1, CommandTurns DEF Command, ToOpen, ToClose, ActuatorMemory
    <2>2. CASE ~high
      BY <1>2, <2>2, CommandTurns DEF Command, ToOpen, ToClose, ActuatorMemory
    <2> QED BY <2>1, <2>2
  <1>5. a \in [status: AirDistributionControllerStatus, high: Nat, low: Nat]
    OBVIOUS
  <1> HIDE DEF c1, c2, a
  <1>6. t \in DeviceMemory
    BY <1>3 DEF DeviceMemory
  <1>7. /\ t.highFlowDamper = c1 /\ t.lowFlowDamper = c2 /\ SamePlant(t, d)
    BY DEF DeviceMemory, SamePlant
  <1> HIDE DEF t
  <1>8. e \in DeviceMemory
    BY <1>5, <1>6 DEF DeviceMemory
  <1>9. /\ e.airDistribution = a /\ SamePlant(e, t)
        /\ e.highFlowDamper = c1 /\ e.lowFlowDamper = c2
    BY <1>6, <1>7 DEF DeviceMemory, SamePlant
  <1>10. SamePlant(e, d)
    BY <1>7, <1>9 DEF SamePlant
  <1> HIDE DEF e
  <1>11. Enter(Throw(d, high), s, x, y) = e
    BY <1>1 DEF Enter, e, a
  <1> QED BY <1>4, <1>8, <1>9, <1>10, <1>11 DEF a

LEMMA EnterType ==
  ASSUME NEW d \in DeviceMemory, NEW s \in AirDistributionControllerStatus,
         NEW x \in Nat, NEW y \in Nat
  PROVE  LET e == Enter(d, s, x, y)
         IN /\ e \in DeviceMemory /\ SamePlant(e, d)
            /\ e.airDistribution = [status |-> s, high |-> x, low |-> y]
            /\ e.highFlowDamper = d.highFlowDamper /\ e.lowFlowDamper = d.lowFlowDamper
  <1> DEFINE a == [status |-> s, high |-> x, low |-> y]
             e == [d EXCEPT !.airDistribution = a]
  <1>1. a \in [status: AirDistributionControllerStatus, high: Nat, low: Nat]
    OBVIOUS
  <1> HIDE DEF a
  <1>2. e \in DeviceMemory
    BY <1>1 DEF DeviceMemory
  <1>3. /\ e.airDistribution = a /\ SamePlant(e, d)
        /\ e.highFlowDamper = d.highFlowDamper /\ e.lowFlowDamper = d.lowFlowDamper
    BY DEF DeviceMemory, SamePlant
  <1>4. Enter(d, s, x, y) = e
    BY DEF Enter, a
  <1> HIDE DEF e
  <1> QED BY <1>2, <1>3, <1>4 DEF a

(* Every state of the controller leaves a throw that can be carried out,   *)
(* and counts a low throw only when both dampers have acknowledged.        *)
LEMMA ThrowFSMThrows ==
  ASSUME NEW d \in DeviceMemory, NEW r \in Recipe, NEW in \in Input, Throwing(d)
  PROVE  LET e == ThrowFSM(r, d, in)
         IN e \in DeviceMemory /\ SamePlant(e, d) /\ ToThrow(e)
  <1> DEFINE a == d.airDistribution
             Good(e) == e \in DeviceMemory /\ SamePlant(e, d) /\ ToThrow(e)
  <1>1. /\ a.status \in AirDistributionControllerStatus /\ a.high \in Nat /\ a.low \in Nat
        /\ Counted(a.high, in) \in Nat /\ Counted(a.low, in) \in Nat
        /\ d.highFlowDamper \in ActuatorMemory /\ d.lowFlowDamper \in ActuatorMemory
    BY DEF DeviceMemory, Counted
  <1>2. /\ "Init" \in AirDistributionControllerStatus
        /\ HighThrow \subseteq AirDistributionControllerStatus
        /\ LowThrow \subseteq AirDistributionControllerStatus
    BY DEF AirDistributionControllerStatus, HighThrow, LowThrow
  (* A new throw, ... *)
  <1>3. ASSUME NEW s \in HighThrow, NEW x \in Nat, NEW y \in Nat
        PROVE  Good(Enter(Throw(d, TRUE), s, x, y))
    <2> DEFINE e == Enter(Throw(d, TRUE), s, x, y)
    <2>0. s \in AirDistributionControllerStatus
      BY <1>2
    <2>1. /\ e \in DeviceMemory /\ SamePlant(e, d)
          /\ e.airDistribution = [status |-> s, high |-> x, low |-> y]
          /\ ToOpen(e.highFlowDamper) /\ ToClose(e.lowFlowDamper)
      BY <2>0, ThrowType, ZenonT(30)
    <2> HIDE DEF e
    <2>2. ToThrow(e)
      BY <2>1 DEF ToThrow, HighThrow, LowThrow, InPosition
    <2> QED BY <2>1, <2>2 DEF e
  <1>4. ASSUME NEW s \in LowThrow \ {"LowPhase"}, NEW x \in Nat, NEW y \in Nat
        PROVE  Good(Enter(Throw(d, FALSE), s, x, y))
    <2> DEFINE e == Enter(Throw(d, FALSE), s, x, y)
    <2>0. s \in AirDistributionControllerStatus
      BY <1>2
    <2>1. /\ e \in DeviceMemory /\ SamePlant(e, d)
          /\ e.airDistribution = [status |-> s, high |-> x, low |-> y]
          /\ ToOpen(e.lowFlowDamper) /\ ToClose(e.highFlowDamper)
      BY <2>0, ThrowType, ZenonT(30)
    <2> HIDE DEF e
    <2>2. ToThrow(e)
      BY <2>1 DEF ToThrow, HighThrow, LowThrow, InPosition
    <2> QED BY <2>1, <2>2 DEF e
  (* ... the same throw in another phase, ... *)
  <1>5. ASSUME NEW s \in AirDistributionControllerStatus, NEW x \in Nat, NEW y \in Nat,
               a.status \in HighThrow => s \in HighThrow,
               a.status \in LowThrow => s \in LowThrow, a.status # "Init",
               s = "LowPhase" => /\ d.lowFlowDamper.status = "Enabled"
                                 /\ d.highFlowDamper.status = "Disabled"
        PROVE  Good(Enter(d, s, x, y))
    <2> DEFINE e == Enter(d, s, x, y)
    <2>1. /\ e \in DeviceMemory /\ SamePlant(e, d)
          /\ e.airDistribution = [status |-> s, high |-> x, low |-> y]
          /\ e.highFlowDamper = d.highFlowDamper /\ e.lowFlowDamper = d.lowFlowDamper
      BY EnterType
    <2> HIDE DEF e
    <2>2. ToThrow(e)
      BY <1>1, <1>5, <2>1, ThrowingIsToThrow
         DEF ToThrow, HighThrow, LowThrow, InPosition, AirDistributionControllerStatus
    <2> QED BY <2>1, <2>2 DEF e
  (* ... or the throw as it is. *)
  <1>6. Good(d)
    BY ThrowingIsToThrow DEF SamePlant
  <1> HIDE DEF Good
  <1>7. CASE a.status = "Init"
    <2>1. Good(Enter(Throw(d, TRUE), "HighPhase", a.high, a.low))
      BY <1>1, <1>3 DEF HighThrow
    <2> QED BY <1>7, <2>1 DEF ThrowFSM, Good
  <1>8. CASE a.status = "HighPhase"
    <2>1. Good(Enter(d, "HighPhase", Counted(a.high, in), a.low))
      BY <1>1, <1>5, <1>8 DEF HighThrow, LowThrow
    <2>2. Good(Enter(Throw(d, FALSE), "TransitionToLow", 0, a.low))
      BY <1>1, <1>4 DEF LowThrow
    <2>3. Good(HighPhase(r, d, in))
      BY <2>1, <2>2 DEF HighPhase
    <2> QED BY <1>8, <2>3 DEF ThrowFSM, Good
  <1>9. CASE a.status = "LowPhase"
    <2>1. Good(Enter(d, "LowPhase", a.high, Counted(a.low, in)))
      BY <1>1, <1>5, <1>9 DEF HighThrow, LowThrow, Throwing, InPosition
    <2>2. Good(Enter(Throw(d, TRUE), "TransitionToHigh", a.high, 0))
      BY <1>1, <1>3 DEF HighThrow
    <2>3. Good(LowPhase(r, d, in))
      BY <2>1, <2>2 DEF LowPhase
    <2> QED BY <1>9, <2>3 DEF ThrowFSM, Good
  <1>10. CASE a.status = "TransitionToLow"
    <2>1. ASSUME ~d.highFlowDamper.disableRequest, ~d.lowFlowDamper.enableRequest
          PROVE  d.lowFlowDamper.status = "Enabled" /\ d.highFlowDamper.status = "Disabled"
      BY <1>10, <2>1 DEF Throwing, LowThrow, Opens, Closes
    <2>2. ASSUME ~d.highFlowDamper.disableRequest, ~d.lowFlowDamper.enableRequest
          PROVE  Good(Enter(d, "LowPhase", a.high, a.low))
      BY <1>1, <1>2, <1>5, <1>10, <2>1, <2>2 DEF HighThrow, LowThrow
    <2>3. Good(Transition(d, d.highFlowDamper, d.lowFlowDamper, "LowPhase"))
      BY <1>1, <1>6, <2>2 DEF Transition, ActuatorMemory
    <2> QED BY <1>10, <2>3 DEF ThrowFSM, Good
  <1>11. CASE a.status = "TransitionToHigh"
    <2>1. Good(Enter(d, "HighPhase", a.high, a.low))
      BY <1>1, <1>2, <1>5, <1>11 DEF HighThrow, LowThrow
    <2>2. Good(Transition(d, d.lowFlowDamper, d.highFlowDamper, "HighPhase"))
      BY <1>6, <2>1 DEF Transition
    <2> QED BY <1>11, <2>2 DEF ThrowFSM, Good
  <1> QED BY <1>1, <1>7, <1>8, <1>9, <1>10, <1>11 DEF AirDistributionControllerStatus, Good

LEMMA ControllerThrows ==
  ASSUME NEW d \in DeviceMemory, NEW r \in Recipe, NEW in \in Input,
         NEW mode \in {"Init", "Run"}, Throwing(d)
  PROVE  LET e == AirDistributionController(r, d, mode, in)
         IN /\ e \in DeviceMemory /\ SamePlant(e, d) /\ ToThrow(e)
            /\ mode = "Init" => e.airDistribution.status = "Init"
  <1>1. CASE mode = "Init"
    <2>0. PICK z \in Nat : z = 0
      OBVIOUS
    <2> DEFINE e == Enter(Throw(d, TRUE), "Init", z, z)
    <2>1. "Init" \in AirDistributionControllerStatus
      BY DEF AirDistributionControllerStatus
    <2>2. /\ e \in DeviceMemory /\ SamePlant(e, d)
          /\ e.airDistribution = [status |-> "Init", high |-> z, low |-> z]
      BY <2>1, ThrowType
    <2> HIDE DEF e
    <2>3. ToThrow(e) /\ e.airDistribution.status = "Init"
      BY <2>2 DEF ToThrow, HighThrow, LowThrow, InPosition
    <2>4. AirDistributionController(r, d, mode, in) = e
      BY <1>1, <2>0 DEF AirDistributionController, InitAirDistribution, e
    <2> QED BY <2>2, <2>3, <2>4
  <1>2. CASE mode = "Run"
    <2>1. /\ ThrowFSM(r, d, in) \in DeviceMemory /\ SamePlant(ThrowFSM(r, d, in), d)
          /\ ToThrow(ThrowFSM(r, d, in))
      BY ThrowFSMThrows
    <2>2. SamePlant(d, d) /\ ToThrow(d)
      BY ThrowingIsToThrow DEF SamePlant
    <2>3. AirDistributionController(r, d, mode, in) \in {d, ThrowFSM(r, d, in)}
      BY <1>2 DEF AirDistributionController
    <2> HIDE DEF ThrowFSM
    <2> QED BY <1>2, <2>1, <2>2, <2>3
  <1> QED BY <1>1, <1>2

-----------------------------------------------------------------------------
(* The device manager scans the five actuators.                            *)
LEMMA DriveInput ==
  ASSUME NEW in \in Input, NEW position \in Position, NEW trip \in BOOLEAN,
         NEW mode \in {"Init", "Run"}, NEW b, NEW c
  PROVE  \E i \in ActuatorInput :
            i.operationType = mode
            /\ Drive(b, c, mode, in, position, trip) = ActuatorScan(b, c, i)
  <1> DEFINE i == [operationType |-> mode, clock |-> in.clock100ms,
                   enabledSensor |-> position.enabled, disabledSensor |-> position.disabled,
                   externalFault |-> trip]
  <1>1. i \in ActuatorInput /\ i.operationType = mode
    BY DEF ActuatorInput, Input, Position
  <1>2. Drive(b, c, mode, in, position, trip) = ActuatorScan(b, c, i)
    BY DEF Drive
  <1> HIDE DEF i
  <1> QED BY <1>1, <1>2

Scans(e, d, mode) ==
    \E i, j, k \in ActuatorInput :
        /\ i.operationType = mode /\ j.operationType = mode /\ k.operationType = mode
        /\ e.coldGlycolPump = ActuatorScan(d.coldGlycolPump, PumpConfig, i)
        /\ e.hotGlycolPump = ActuatorScan(d.hotGlycolPump, PumpConfig, j)
        /\ e.airFlow = ActuatorScan(d.airFlow, PumpConfig, k)

LEMMA DeviceManagerScans ==
  ASSUME NEW d \in DeviceMemory, NEW r \in Recipe, NEW in \in Input,
         NEW mode \in {"Init", "Run"}, ToThrow(d),
         mode = "Init" => d.airDistribution.status = "Init"
  PROVE  LET e == DeviceManager(r, d, mode, in)
         IN /\ e \in DeviceMemory /\ Throwing(e) /\ Scans(e, d, mode)
            /\ e.ahuFan = d.ahuFan /\ e.signalMgmt = d.signalMgmt /\ e.status = d.status
  <1>0. PICK no \in BOOLEAN : no = FALSE
    OBVIOUS
  <1> DEFINE cold == Drive(d.coldGlycolPump, PumpConfig, mode, in, NoPosition, in.pumpTrip)
             hot == Drive(d.hotGlycolPump, PumpConfig, mode, in, NoPosition, no)
             air == Drive(d.airFlow, PumpConfig, mode, in, NoPosition, no)
             high == Drive(d.highFlowDamper, r.damper, mode, in, in.highFlow, no)
             low == Drive(d.lowFlowDamper, r.damper, mode, in, in.lowFlow, no)
             coldValve == cold.enableRequest
             hotValve == hot.enableRequest
             e == [d EXCEPT !.coldGlycolPump = cold, !.coldGlycolValve = coldValve,
                            !.hotGlycolPump = hot, !.hotGlycolValve = hotValve,
                            !.airFlow = air, !.highFlowDamper = high,
                            !.lowFlowDamper = low]
  <1>1. /\ NoPosition \in Position /\ in.highFlow \in Position /\ in.lowFlow \in Position
        /\ in.pumpTrip \in BOOLEAN /\ r.damper \in ActuatorConfig
    BY DEF NoPosition, Position, Input, Recipe
  <1>2. /\ d.coldGlycolPump \in ActuatorMemory /\ d.hotGlycolPump \in ActuatorMemory
        /\ d.airFlow \in ActuatorMemory
        /\ d.highFlowDamper \in ActuatorMemory /\ d.lowFlowDamper \in ActuatorMemory
    BY DEF DeviceMemory
  <1>3. PICK i \in ActuatorInput :
            i.operationType = mode /\ cold = ActuatorScan(d.coldGlycolPump, PumpConfig, i)
    BY <1>1, DriveInput
  <1>4. PICK j \in ActuatorInput :
            j.operationType = mode /\ hot = ActuatorScan(d.hotGlycolPump, PumpConfig, j)
    BY <1>1, DriveInput
  <1>5. PICK k \in ActuatorInput :
            k.operationType = mode /\ air = ActuatorScan(d.airFlow, PumpConfig, k)
    BY <1>1, DriveInput
  <1>6. PICK h \in ActuatorInput :
            h.operationType = mode /\ high = ActuatorScan(d.highFlowDamper, r.damper, h)
    BY <1>1, DriveInput
  <1>7. PICK l \in ActuatorInput :
            l.operationType = mode /\ low = ActuatorScan(d.lowFlowDamper, r.damper, l)
    BY <1>1, DriveInput
  <1>8. DeviceManager(r, d, mode, in) = e
    BY <1>0 DEF DeviceManager
  <1> HIDE DEF cold, hot, air, high, low
  <1>9. /\ cold \in ActuatorMemory /\ hot \in ActuatorMemory /\ air \in ActuatorMemory
        /\ high \in ActuatorMemory /\ low \in ActuatorMemory
    BY <1>1, <1>2, <1>3, <1>4, <1>5, <1>6, <1>7, PumpConfigType, ScanType
  <1>10. coldValve \in BOOLEAN /\ hotValve \in BOOLEAN
    BY <1>9 DEF ActuatorMemory
  <1>11. mode = "Run" => Answers(high, d.highFlowDamper) /\ Answers(low, d.lowFlowDamper)
    BY <1>1, <1>2, <1>6, <1>7, RunAnswers
  <1> HIDE DEF coldValve, hotValve
  <1>12. e \in DeviceMemory
    BY <1>9, <1>10 DEF DeviceMemory
  <1>13. /\ e.coldGlycolPump = cold /\ e.hotGlycolPump = hot /\ e.airFlow = air
         /\ e.highFlowDamper = high /\ e.lowFlowDamper = low
         /\ e.airDistribution = d.airDistribution
         /\ e.ahuFan = d.ahuFan /\ e.signalMgmt = d.signalMgmt /\ e.status = d.status
    BY DEF DeviceMemory
  <1> HIDE DEF e
  <1>14. Throwing(e)
    BY <1>11, <1>13 DEF Throwing, ToThrow, InPosition, Answers, HighThrow, LowThrow
  <1>15. Scans(e, d, mode)
    BY <1>3, <1>4, <1>5, <1>13 DEF Scans
  <1> QED BY <1>8, <1>12, <1>13, <1>14, <1>15

-----------------------------------------------------------------------------
(* One call of Main.                                                       *)
SamePumps(e, d) ==
    /\ e.coldGlycolPump = d.coldGlycolPump /\ e.hotGlycolPump = d.hotGlycolPump
    /\ e.airFlow = d.airFlow

LEMMA ClearContextType ==
  ASSUME NEW d \in DeviceMemory
  PROVE  LET e == ClearContext(d)
         IN /\ e \in DeviceMemory /\ SamePumps(e, d) /\ e.signalMgmt = d.signalMgmt
            /\ e.status = "Standby" /\ e.airDistribution.status = "Init"
  <1>0. PICK z \in Nat : z = 0
    OBVIOUS
  <1>1. "Init" \in AirDistributionControllerStatus /\ "Standby" \in MainStatus
    BY DEF AirDistributionControllerStatus, MainStatus
  <1> DEFINE a == Enter(Throw(d, TRUE), "Init", z, z)
             e == [a EXCEPT !.status = "Standby", !.actualRuntime = 0,
                            !.actualBreakDuration = 0, !.processActualDuration = 0,
                            !.timeBreakEnabled = FALSE, !.isCompleted = FALSE]
  <1>2. /\ a \in DeviceMemory /\ SamePlant(a, d)
        /\ a.airDistribution = [status |-> "Init", high |-> z, low |-> z]
    BY <1>1, ThrowType
  <1>3. ClearContext(d) = e
    BY <1>0 DEF ClearContext, InitAirDistribution
  <1> HIDE DEF a
  <1>4. e \in DeviceMemory
    BY <1>1, <1>2 DEF DeviceMemory
  <1>5. /\ SamePumps(e, a) /\ e.signalMgmt = a.signalMgmt
        /\ e.status = "Standby" /\ e.airDistribution = a.airDistribution
    BY <1>2 DEF DeviceMemory, SamePumps
  <1> HIDE DEF e
  <1> QED BY <1>2, <1>3, <1>4, <1>5 DEF SamePumps, SamePlant

(* Supply air that the scan before found outside its limits.               *)
DuctAlarm(d) == d.ductTempOverMax \/ d.ductTempUnderMin

(* Whatever the mode: the devices are untouched, a stop alarm that stands  *)
(* when the FSM is called finds it in Standby or with a fault request,     *)
(* after an initialization none stands, and after the rules one stands if  *)
(* the supply air asked for it.                                            *)
Prepared(e, d, mode, reset) ==
    /\ e \in DeviceMemory /\ SamePumps(e, d) /\ Throwing(e)
    /\ e.status \in {d.status, "Standby"}
    /\ mode = "Init" => ~StopActive(e)
    /\ mode = "Run" /\ StopActive(e) => e.status = "Standby" \/ "Fault" \in e.requests
    /\ mode = "Run" /\ ~reset /\ DuctAlarm(d) => StopActive(e) /\ "Fault" \in e.requests

LEMMA PrepareStops ==
  ASSUME NEW d \in DeviceMemory, NEW r \in Recipe, NEW in \in Input,
         NEW mode \in {"Init", "Run"}, NEW reset \in BOOLEAN, Throwing(d)
  PROVE  Prepared(Prepare(r, d, in, mode, reset), d, mode, reset)
  <1> DEFINE c == ClearContext(d)
  <1>1. /\ c \in DeviceMemory /\ SamePumps(c, d) /\ c.signalMgmt = d.signalMgmt
        /\ c.status = "Standby" /\ c.airDistribution.status = "Init"
    BY ClearContextType
  <1> HIDE DEF c
  <1>2. CASE mode = "Init"
    <2> DEFINE s == ResetSignals(c.signalMgmt)
               e == [c EXCEPT !.signalMgmt = s]
    <2>1. s \in SignalMemory(7) /\ s.cumulativeOutputAction = {}
      BY <1>1, ResetSignalsType DEF DeviceMemory
    <2>2. Prepare(r, d, in, mode, reset) = e
      BY <1>2 DEF Prepare, c
    <2> HIDE DEF s
    <2>3. e \in DeviceMemory
      BY <1>1, <2>1 DEF DeviceMemory
    <2>4. /\ SamePumps(e, c) /\ e.signalMgmt = s /\ e.status = c.status
          /\ e.airDistribution = c.airDistribution
      BY <1>1 DEF DeviceMemory, SamePumps
    <2> HIDE DEF e
    <2>5. Throwing(e)
      BY <1>1, <2>4 DEF Throwing, InPosition, HighThrow, LowThrow
    <2> QED BY <1>1, <1>2, <2>1, <2>2, <2>3, <2>4, <2>5 DEF Prepared, SamePumps, StopActive
  <1>3. CASE mode = "Run" /\ reset
    <2> DEFINE e == [c EXCEPT !.lastStatus = "Standby"]
    <2>1. Prepare(r, d, in, mode, reset) = e
      BY <1>3 DEF Prepare, c
    <2>2. e \in DeviceMemory
      BY <1>1 DEF DeviceMemory, MainStatus
    <2>3. /\ SamePumps(e, c) /\ e.status = "Standby"
          /\ e.airDistribution = c.airDistribution
      BY <1>1 DEF DeviceMemory, SamePumps
    <2> HIDE DEF e
    <2>4. Throwing(e)
      BY <1>1, <2>3 DEF Throwing, InPosition, HighThrow, LowThrow
    <2> QED BY <1>1, <1>3, <2>1, <2>2, <2>3, <2>4 DEF Prepared, SamePumps
  <1>4. CASE mode = "Run" /\ ~reset
    <2> DEFINE e == MainRuleEngine(r, d, in)
    <2>1. /\ e \in DeviceMemory /\ SameDevices(e, d) /\ e.status = d.status
          /\ StopActive(e) => "Fault" \in e.requests
          /\ DuctAlarm(d) => StopActive(e)
      BY RuleEngineStops DEF DuctAlarm
    <2>2. Prepare(r, d, in, mode, reset) = e
      BY <1>4 DEF Prepare
    <2> HIDE DEF e
    <2>3. Throwing(e)
      BY <2>1 DEF SameDevices, Throwing, InPosition
    <2> QED BY <1>4, <2>1, <2>2, <2>3 DEF Prepared, SamePumps, SameDevices
  <1> QED BY <1>2, <1>3, <1>4

(* The fault request overrides the state.                                  *)
LEMMA OverrideStops ==
  ASSUME NEW d, NEW p, NEW mode \in {"Init", "Run"}, NEW reset, Prepared(p, d, mode, reset)
  PROVE  LET e == Override(Remember(p, mode))
         IN /\ e \in DeviceMemory /\ SamePumps(e, d) /\ Throwing(e)
            /\ e.status \in {d.status, "Standby", "Fault"}
            /\ mode = "Init" => ~StopActive(e)
            /\ mode = "Run" /\ StopActive(e) => e.status \in {"Standby", "Fault"}
            /\ mode = "Run" /\ ~reset /\ DuctAlarm(d)
                 => StopActive(e) /\ e.status = "Fault"
  <1> DEFINE last == IF mode = "Init" \/ p.status # "Standby" THEN p.status ELSE p.lastStatus
             m == [p EXCEPT !.lastStatus = last]
             s == IF "Fault" \in m.requests THEN "Fault" ELSE m.status
             e == [m EXCEPT !.status = s]
  <1>1. p \in DeviceMemory /\ last \in MainStatus
    BY DEF Prepared, DeviceMemory
  <1>2. Override(Remember(p, mode)) = e
    BY <1>1 DEF Override, Remember, DeviceMemory
  <1> HIDE DEF last
  <1>3. m \in DeviceMemory
    BY <1>1 DEF DeviceMemory
  <1>4. SameDevices(m, p) /\ m.signalMgmt = p.signalMgmt
        /\ m.requests = p.requests /\ m.status = p.status
    BY <1>1 DEF DeviceMemory, SameDevices
  <1> HIDE DEF m
  <1>5. /\ s \in MainStatus /\ s \in {p.status, "Fault"}
        /\ "Fault" \in p.requests => s = "Fault"
    BY <1>3, <1>4 DEF DeviceMemory, MainStatus
  <1> HIDE DEF s
  <1>6. e \in DeviceMemory /\ SameDevices(e, m) /\ e.signalMgmt = m.signalMgmt /\ e.status = s
    BY <1>3, <1>5, StatusType
  <1> HIDE DEF e
  <1>7. SameDevices(e, p) /\ e.signalMgmt = p.signalMgmt
    BY <1>4, <1>6 DEF SameDevices
  <1>8. Throwing(e) /\ SamePumps(e, d)
    BY <1>7 DEF Prepared, SameDevices, SamePumps, Throwing, InPosition
  <1>9. StopActive(e) <=> StopActive(p)
    BY <1>7 DEF StopActive
  <1> QED BY <1>2, <1>5, <1>6, <1>8, <1>9 DEF Prepared

-----------------------------------------------------------------------------
(* The inductive invariant of the component: the outputs are safe and the  *)
(* throw is under way; it needs that an actuator's enable follows its      *)
(* status, since the next scan starts from the status.                     *)
SafeDevices(d) ==
    /\ d.coldGlycolPump.enable \/ d.hotGlycolPump.enable => d.airFlow.enable /\ d.ahuFan
    /\ StopActive(d) => /\ ~d.coldGlycolPump.enable /\ ~d.hotGlycolPump.enable
                        /\ ~d.airFlow.enable /\ ~d.ahuFan
DeviceInv(d) ==
    /\ d \in DeviceMemory
    /\ Coupled(d.coldGlycolPump) /\ Coupled(d.hotGlycolPump) /\ Coupled(d.airFlow)
    /\ SafeDevices(d)
    /\ Throwing(d)

(* What a call of Main does in e to the memory d it finds.                 *)
MainStep(e, d, mode, reset) ==
    /\ DeviceInv(e)
    /\ e.coldGlycolPump.enable /\ e.hotGlycolPump.enable => d.status = "Drying"
    /\ mode = "Run" /\ ~reset /\ DuctAlarm(d)
         => /\ ~e.coldGlycolPump.enable /\ ~e.hotGlycolPump.enable
            /\ e.status = "Fault"

LEMMA MainSafe ==
  ASSUME NEW d, NEW r \in Recipe, NEW in \in Input, NEW mode \in {"Init", "Run"},
         NEW reset \in BOOLEAN, NEW enable, DeviceInv(d)
  PROVE  LET e == Main(r, d, in, mode, reset, enable)
         IN IF enable THEN MainStep(e, d, mode, reset) ELSE e = d
  <1> DEFINE p == Prepare(r, d, in, mode, reset)
             o == Override(Remember(p, mode))
             c == MainFSM(o)
             x == AirDistributionController(r, c, mode, in)
             e == DeviceManager(r, x, mode, in)
  <1>1. CASE ~enable
    BY <1>1 DEF Main
  <1>2. CASE enable
    <2>0. /\ d \in DeviceMemory /\ Throwing(d)
          /\ d.coldGlycolPump \in ActuatorMemory /\ d.hotGlycolPump \in ActuatorMemory
          /\ d.airFlow \in ActuatorMemory
          /\ Coupled(d.coldGlycolPump) /\ Coupled(d.hotGlycolPump) /\ Coupled(d.airFlow)
      BY DEF DeviceInv, DeviceMemory
    <2>1. Prepared(p, d, mode, reset)
      BY <2>0, PrepareStops
    <2> HIDE DEF p
    <2>2. /\ o \in DeviceMemory /\ SamePumps(o, d) /\ Throwing(o)
          /\ mode = "Init" => ~StopActive(o)
          /\ o.status \in {d.status, "Standby", "Fault"}
          /\ mode = "Run" /\ StopActive(o) => o.status \in {"Standby", "Fault"}
          /\ mode = "Run" /\ ~reset /\ DuctAlarm(d) => StopActive(o) /\ o.status = "Fault"
      BY <2>1, OverrideStops
    <2> HIDE DEF o
    <2>3. /\ c \in DeviceMemory
          /\ \E cold, hot, air \in BOOLEAN :
                 /\ Commanded(c, o, cold, hot, air)
                 /\ cold \/ hot => air
                 /\ o.status \in {"Standby", "Fault"} => ~air
                 /\ cold /\ hot => o.status = "Drying"
          /\ o.status = "Fault" /\ StopActive(o) => c.status = "Fault"
      BY <2>2, MainFSMCommands
    <2> HIDE DEF c
    <2>4. PICK cold, hot, air \in BOOLEAN :
                 /\ Commanded(c, o, cold, hot, air)
                 /\ cold \/ hot => air
                 /\ o.status \in {"Standby", "Fault"} => ~air
                 /\ cold /\ hot => o.status = "Drying"
      BY <2>3
    <2>5. Throwing(c) /\ c.signalMgmt = o.signalMgmt
      BY <2>2, <2>4 DEF Commanded, Throwing, InPosition
    <2>6. /\ x \in DeviceMemory /\ SamePlant(x, c) /\ ToThrow(x)
          /\ mode = "Init" => x.airDistribution.status = "Init"
      BY <2>3, <2>5, ControllerThrows
    <2> HIDE DEF x
    <2>7. /\ e \in DeviceMemory /\ Throwing(e) /\ Scans(e, x, mode)
          /\ e.ahuFan = x.ahuFan /\ e.signalMgmt = x.signalMgmt /\ e.status = x.status
      BY <2>6, DeviceManagerScans
    <2> HIDE DEF e
    <2>8. /\ x.coldGlycolPump = Command(d.coldGlycolPump, cold)
          /\ x.hotGlycolPump = Command(d.hotGlycolPump, hot)
          /\ x.airFlow = Command(d.airFlow, air)
      BY <2>2, <2>4, <2>6 DEF SamePlant, Commanded, SamePumps
    <2>9. e.ahuFan = air /\ (StopActive(e) <=> StopActive(o)) /\ e.status = c.status
      BY <2>4, <2>5, <2>6, <2>7 DEF SamePlant, Commanded, StopActive
    <2>10. PICK i, j, k \in ActuatorInput :
        /\ i.operationType = mode /\ j.operationType = mode /\ k.operationType = mode
        /\ e.coldGlycolPump = ActuatorScan(Command(d.coldGlycolPump, cold), PumpConfig, i)
        /\ e.hotGlycolPump = ActuatorScan(Command(d.hotGlycolPump, hot), PumpConfig, j)
        /\ e.airFlow = ActuatorScan(Command(d.airFlow, air), PumpConfig, k)
      BY <2>7, <2>8 DEF Scans
    <2>11. ASSUME mode = "Run" PROVE MainStep(e, d, mode, reset)
      <3>1. /\ Coupled(e.coldGlycolPump) /\ e.coldGlycolPump.enable = cold
            /\ Coupled(e.hotGlycolPump) /\ e.hotGlycolPump.enable = hot
            /\ Coupled(e.airFlow) /\ e.airFlow.enable = air
        BY <2>0, <2>10, <2>11, PumpObeys
      <3>2. SafeDevices(e)
        BY <2>2, <2>4, <2>9, <2>11, <3>1 DEF SafeDevices
      <3>3. DeviceInv(e)
        BY <2>7, <3>1, <3>2 DEF DeviceInv
      <3>4. cold /\ hot => d.status = "Drying"
        BY <2>2, <2>4
      <3>5. ~reset /\ DuctAlarm(d) => ~cold /\ ~hot /\ e.status = "Fault"
        BY <2>2, <2>3, <2>4, <2>9, <2>11
      <3> QED BY <3>1, <3>3, <3>4, <3>5 DEF MainStep
    <2>12. ASSUME mode = "Init" PROVE MainStep(e, d, mode, reset)
      <3>1. /\ Coupled(e.coldGlycolPump) /\ ~e.coldGlycolPump.enable
            /\ Coupled(e.hotGlycolPump) /\ ~e.hotGlycolPump.enable
            /\ Coupled(e.airFlow)
        BY <2>0, <2>10, <2>12, PumpInit, CommandType, ZenonT(30)
      <3>2. SafeDevices(e)
        BY <2>2, <2>9, <2>12, <3>1 DEF SafeDevices
      <3>3. DeviceInv(e)
        BY <2>7, <3>1, <3>2 DEF DeviceInv
      <3> QED BY <2>12, <3>1, <3>3 DEF MainStep
    <2>13. Main(r, d, in, mode, reset, enable) = e
      BY <1>2 DEF Main, e, x, c, o, p
    <2> QED BY <1>2, <2>11, <2>12, <2>13
  <1> QED BY <1>1, <1>2

-----------------------------------------------------------------------------
(* The recipe management: a recipe is awaited only below the end of the    *)
(* list, so that its successor's index still lies within it.               *)
ConfigInv(c, size) ==
    /\ c \in DeviceConfigMemory(size)
    /\ c.status = "WaitProcessing" => c.currentConfigIndex < c.configNameListSize

LEMMA ConfigScanType ==
  ASSUME NEW size \in Nat, NEW c, ConfigInv(c, size), NEW enable \in BOOLEAN,
         NEW completed \in BOOLEAN, NEW ok \in BOOLEAN
  PROVE  ConfigInv(DeviceConfigScan(c, enable, completed, size, ok), size)
  <1> DEFINE edge == completed /\ ~c.configCompletedOld
             b == [c EXCEPT !.configCompletedOld = completed]
  <1>1. ConfigInv(b, size) /\ b.status = c.status
    BY DEF ConfigInv, DeviceConfigMemory
  <1>2. edge \in BOOLEAN
    OBVIOUS
  <1>3. b.status \in DeviceConfigMgmtStatus
    BY <1>1 DEF ConfigInv, DeviceConfigMemory
  <1>4. DeviceConfigScan(c, enable, completed, size, ok) =
          CASE b.status = "Idle" -> StartConfig(b, enable)
            [] b.status = "Init" -> ReadConfigList(b, size, ok)
            [] b.status = "Load" -> LoadConfig(b, ok)
            [] b.status = "WaitProcessing" -> WaitConfig(b, edge)
            [] b.status = "Completed" -> CompleteConfigs(b)
            [] b.status = "Resetting" -> ResetConfigs(b)
    BY DEF DeviceConfigScan
  <1> HIDE DEF b, edge
  <1>0. PICK zero \in 0..size : zero = 0
    OBVIOUS
  <1> USE DEF ConfigInv, DeviceConfigMemory, DeviceConfigMgmtStatus
  <1>5. ConfigInv(StartConfig(b, enable), size)
    BY <1>1 DEF StartConfig
  <1>6. ConfigInv(ReadConfigList(b, size, ok), size)
    <2> DEFINE error == ~ok
               list == IF ok THEN size ELSE zero
               status == IF ok THEN "Load" ELSE "Resetting"
    <2>1. error \in BOOLEAN /\ list \in 0..size /\ status \in {"Load", "Resetting"}
      OBVIOUS
    <2>2. ReadConfigList(b, size, ok) =
            [b EXCEPT !.allConfigLoaded = FALSE, !.error = error,
                      !.configNameListSize = list, !.status = status]
      BY <1>0 DEF ReadConfigList
    <2> HIDE DEF error, list, status
    <2> QED BY <1>1, <2>1, <2>2
  <1>7. ConfigInv(LoadConfig(b, ok), size)
    <2>1. CASE b.currentConfigIndex >= b.configNameListSize
      BY <1>1, <2>1 DEF LoadConfig
    <2>2. CASE b.currentConfigIndex < b.configNameListSize
      <3> DEFINE error == ~ok
                 recipe == IF ok THEN b.currentConfigIndex + 1 ELSE zero
                 status == IF ok THEN "WaitProcessing" ELSE "Resetting"
      <3>1. /\ error \in BOOLEAN /\ recipe \in 0..size
            /\ status \in {"WaitProcessing", "Resetting"}
        BY <1>1, <2>2
      <3>2. LoadConfig(b, ok) =
              [b EXCEPT !.error = error, !.recipe = recipe, !.status = status]
        BY <1>0, <1>1, <2>2 DEF LoadConfig
      <3> HIDE DEF error, recipe, status
      <3> QED BY <1>1, <2>2, <3>1, <3>2
    <2> QED BY <1>1, <2>1, <2>2
  <1>8. ASSUME b.status = "WaitProcessing" PROVE ConfigInv(WaitConfig(b, edge), size)
    <2> DEFINE next == b.currentConfigIndex + 1
    <2>1. next \in 0..size
      BY <1>1, <1>8
    <2>2. WaitConfig(b, edge) \in
            {[b EXCEPT !.busy = FALSE, !.currentConfigIndex = next, !.status = "Load"],
             [b EXCEPT !.busy = FALSE]}
      BY <1>1 DEF WaitConfig
    <2> HIDE DEF next
    <2> QED BY <1>1, <2>1, <2>2
  <1>9. ConfigInv(CompleteConfigs(b), size)
    <2>1. CompleteConfigs(b) =
            [b EXCEPT !.allConfigLoaded = TRUE, !.busy = FALSE, !.error = FALSE,
                      !.currentConfigIndex = zero, !.status = "Idle"]
      BY <1>0 DEF CompleteConfigs
    <2> QED BY <1>1, <2>1
  <1>10. ConfigInv(ResetConfigs(b), size)
    <2>1. ResetConfigs(b) =
            [b EXCEPT !.error = FALSE, !.currentConfigIndex = zero, !.status = "Init"]
      BY <1>0 DEF ResetConfigs
    <2> QED BY <1>1, <2>1
  <1> QED BY <1>3, <1>4, <1>5, <1>6, <1>7, <1>8, <1>9, <1>10

-----------------------------------------------------------------------------
(* The inductive invariant of the program.                                 *)
IInv ==
    /\ plant \in Plants
    /\ moqui \in MoquiMemory
    /\ ConfigInv(configMgmt, Len(plant.recipes))
    /\ DeviceInv(dev)
    /\ second \in {0, 1}

LEMMA IInvImplies == IInv => TypeOK /\ SafeOutputs /\ ThrowsInPosition
  <1> SUFFICES ASSUME IInv PROVE TypeOK /\ SafeOutputs /\ ThrowsInPosition
    OBVIOUS
  <1>1. TypeOK
    BY DEF IInv, TypeOK, ConfigInv, DeviceInv
  <1>2. SafeOutputs
    BY DEF IInv, DeviceInv, SafeDevices, SafeOutputs, Conditioning
  <1>3. ThrowsInPosition
    <2>1. dev.airDistribution.status \in AirDistributionControllerStatus /\ Throwing(dev)
      BY DEF IInv, DeviceInv, DeviceMemory
    <2> QED BY <2>1 DEF ThrowsInPosition, Throwing, InPosition, HighThrow, LowThrow,
                        AirDistributionControllerStatus, Opens, Closes
  <1> QED BY <1>1, <1>2, <1>3

LEMMA DeviceColdStartInv == DeviceInv(DeviceColdStart)
  <1>1. ActuatorColdStart \in ActuatorMemory /\ Coupled(ActuatorColdStart)
        /\ ~ActuatorColdStart.enable
    BY DEF ActuatorColdStart, ActuatorMemory, ActuatorStatus, Coupled, Opening
  <1>2. SignalColdStart \in SignalMemory(7) /\ SignalColdStart.cumulativeOutputAction = {}
    BY DEF SignalColdStart, SignalMemory, SignalCategory, SignalOutputAction, Alarm,
           Information, ActionBits
  <1>3. DeviceColdStart \in DeviceMemory
    BY <1>1, <1>2 DEF DeviceColdStart, DeviceMemory, MainStatus, Requests,
                      AirDistributionControllerStatus
  <1>4. SafeDevices(DeviceColdStart) /\ Throwing(DeviceColdStart)
    BY <1>1, <1>2 DEF DeviceColdStart, SafeDevices, StopActive, Throwing, InPosition,
                      HighThrow, LowThrow
  <1> QED BY <1>1, <1>3, <1>4 DEF DeviceInv, DeviceColdStart

LEMMA PlantType ==
  ASSUME plant \in Plants
  PROVE  /\ plant \in Plant /\ Len(plant.recipes) \in Nat
         /\ plant.commandResults \subseteq BOOLEAN
         /\ \A i \in 0..Len(plant.recipes) : Data(i) \in Recipe
         /\ Inputs \subseteq Input
  <1>1. plant \in Plant
    BY MoquiStartAssumption
  <1>2. plant.recipes \in Seq(Recipe) /\ plant.commandResults \subseteq BOOLEAN
    BY <1>1 DEF Plant
  <1>3. ASSUME NEW i \in 0..Len(plant.recipes) PROVE Data(i) \in Recipe
    <2>1. CASE i = 0
      <3>1. UnconfiguredDamper \in ActuatorConfig
        BY PumpConfigType DEF UnconfiguredDamper, ActuatorConfig
      <3>2. NoRecipe \in Recipe
        BY <3>1 DEF NoRecipe, Recipe
      <3> QED BY <2>1, <3>2 DEF Data
    <2>2. CASE i # 0
      BY <1>2, <2>2 DEF Data
    <2> QED BY <2>1, <2>2
  <1>4. Inputs \subseteq Input
    <2>1. /\ plant.temps \subseteq Nat /\ plant.humidities \subseteq Nat
          /\ plant.ducts \subseteq Nat /\ plant.trips \subseteq BOOLEAN
          /\ plant.positions \subseteq Position
      BY <1>1 DEF Plant
    <2> QED BY <2>1 DEF Inputs, Input
  <1> QED BY <1>1, <1>2, <1>3, <1>4

LEMMA BegunType ==
  ASSUME moqui \in MoquiMemory, NEW c, c.error \in BOOLEAN
  PROVE  Begun(c) \in MoquiMemory
  <1> DEFINE old == moqui.mainDone
             pending == moqui.mainInitPending \/ moqui.init
             reset == \/ moqui.deviceConfigContextResetRequest
                      \/ moqui.mainDone /\ ~moqui.mainDoneOld
             e == c.error
  <1>1. old \in BOOLEAN /\ pending \in BOOLEAN /\ reset \in BOOLEAN /\ e \in BOOLEAN
    BY DEF MoquiMemory
  <1>2. Begun(c) = [moqui EXCEPT !.init = FALSE, !.mainInitPending = pending, !.error = e,
                                 !.mainDoneOld = old,
                                 !.deviceConfigContextResetRequest = reset]
    BY DEF Begun, MoquiMemory
  <1> HIDE DEF old, pending, reset, e
  <1> QED BY <1>1, <1>2 DEF MoquiMemory

(* The statements with which every scan begins.                            *)
LEMMA ScanBegins ==
  ASSUME IInv, RunConfigMgmt, UNCHANGED plant
  PROVE  /\ ConfigInv(configMgmt', Len(plant'.recipes))
         /\ Begun(configMgmt') \in MoquiMemory
  <1>1. plant.commandResults \subseteq BOOLEAN /\ Len(plant.recipes) \in Nat
    BY PlantType DEF IInv
  <1>2. moqui \in MoquiMemory /\ moqui.enable \in BOOLEAN /\ moqui.mainDone \in BOOLEAN
    BY DEF IInv, MoquiMemory
  <1>3. ConfigInv(configMgmt', Len(plant.recipes))
    BY <1>1, <1>2, ConfigScanType DEF IInv, RunConfigMgmt
  <1>4. configMgmt'.error \in BOOLEAN
    BY <1>3 DEF ConfigInv, DeviceConfigMemory
  <1> QED BY <1>2, <1>3, <1>4, BegunType

LEMMA TickType ==
  ASSUME second \in {0, 1}, NEW tick, Tick(tick)
  PROVE  second' \in {0, 1}
  BY DEF Tick

(* A scan that does not call Main.                                         *)
LEMMA QuietScan ==
  ASSUME IInv, RunConfigMgmt, UNCHANGED <<plant, dev>>, moqui' \in MoquiMemory,
         NEW tick, Tick(tick)
  PROVE  IInv'
  BY ScanBegins, TickType DEF IInv

LEMMA IdleScans ==
  ASSUME IInv, UNCHANGED plant,
         StayIdle \/ Start \/ StopOnConfigError \/ WaitForConfig \/ Finish
  PROVE  IInv'
  <1> DEFINE m == Begun(configMgmt')
  <1>1. RunConfigMgmt /\ UNCHANGED dev /\ \E tick \in BOOLEAN : Tick(tick)
    BY DEF StayIdle, Start, StopOnConfigError, WaitForConfig, Finish
  <1>2. m \in MoquiMemory
    BY <1>1, ScanBegins
  <1>3. moqui' \in {m, [m EXCEPT !.mainDone = FALSE,
                                 !.deviceConfigContextResetRequest = FALSE,
                                 !.status = "Run"],
                    [m EXCEPT !.status = "Error"],
                    [m EXCEPT !.enable = FALSE, !.status = "Idle"]}
    BY DEF StayIdle, Start, StopOnConfigError, WaitForConfig, Finish
  <1> HIDE DEF m
  <1>4. moqui' \in MoquiMemory
    BY <1>2, <1>3 DEF MoquiMemory
  <1> QED BY <1>1, <1>4, QuietScan

(* What a scan that calls Main finds and does.                             *)
LEMMA CallMainSteps ==
  ASSUME IInv, UNCHANGED plant, NEW in \in Inputs, CallMain(in)
  PROVE  LET m == Begun(configMgmt')
         IN /\ m \in MoquiMemory /\ ConfigInv(configMgmt', Len(plant'.recipes))
            /\ IF m.enable THEN MainStep(dev', dev, Mode(m),
                                         m.deviceConfigContextResetRequest)
               ELSE dev' = dev
            /\ DeviceInv(dev')
  <1> DEFINE m == Begun(configMgmt')
             r == Data(configMgmt'.recipe)
             mode == Mode(m)
             reset == m.deviceConfigContextResetRequest
             enable == m.enable
  <1>1. RunConfigMgmt /\ dev' = Main(r, dev, in, mode, reset, enable)
    BY DEF CallMain
  <1>2. m \in MoquiMemory /\ ConfigInv(configMgmt', Len(plant'.recipes))
    BY <1>1, ScanBegins
  <1>3. r \in Recipe /\ in \in Input
    BY <1>2, PlantType DEF IInv, ConfigInv, DeviceConfigMemory
  <1>4. mode \in {"Init", "Run"} /\ reset \in BOOLEAN
    BY <1>2 DEF Mode, MoquiMemory
  <1> HIDE DEF r, mode, reset, enable
  <1>5. IF enable THEN MainStep(dev', dev, mode, reset) ELSE dev' = dev
    BY <1>1, <1>3, <1>4, MainSafe DEF IInv
  <1>6. DeviceInv(dev')
    BY <1>5 DEF MainStep, IInv
  <1> QED BY <1>2, <1>5, <1>6 DEF mode, reset, enable

LEMMA CallMainScan ==
  ASSUME IInv, UNCHANGED plant, NEW in \in Inputs, CallMain(in)
  PROVE  IInv'
  <1> DEFINE m == Begun(configMgmt')
             completed == dev'.isCompleted
             error == dev'.error
             status == IF dev'.error THEN "Error" ELSE m.status
  <1>1. Tick(in.clock1s)
    BY DEF CallMain
  <1>2. /\ m \in MoquiMemory /\ ConfigInv(configMgmt', Len(plant'.recipes))
        /\ DeviceInv(dev')
    BY CallMainSteps
  <1>3. moqui' = [m EXCEPT !.mainDone = completed, !.error = error,
                           !.mainInitPending = FALSE,
                           !.deviceConfigContextResetRequest = FALSE, !.status = status]
    BY <1>2 DEF CallMain, MoquiMemory
  <1>4. completed \in BOOLEAN /\ error \in BOOLEAN /\ status \in {"Idle", "Run", "Error"}
    BY <1>2 DEF DeviceInv, DeviceMemory, MoquiMemory
  <1> HIDE DEF m, completed, error, status
  <1>5. moqui' \in MoquiMemory
    BY <1>2, <1>3, <1>4 DEF MoquiMemory
  <1> QED BY <1>1, <1>2, <1>5, TickType DEF IInv

LEMMA RetryType ==
  ASSUME NEW m \in MoquiMemory, NEW tick
  PROVE  Retry(m, tick) \in MoquiMemory
  <1> DEFINE time == m.retryTime + (IF tick THEN 1 ELSE 0)
             count == m.retryCount + 1
  <1>0. minRetryTime \in Nat /\ maxRetryCount \in Nat /\ retryOnError \in BOOLEAN
    BY MoquiStartAssumption
  <1>1. m.retryTime \in 0..minRetryTime /\ m.retryCount \in 0..maxRetryCount
    BY DEF MoquiMemory
  <1>2. PICK zero \in 0..minRetryTime : zero = 0
    BY <1>0
  <1>3. CASE ~(retryOnError /\ m.retryCount < maxRetryCount)
    BY <1>3 DEF Retry
  <1>4. CASE retryOnError /\ m.retryCount < maxRetryCount /\ time < minRetryTime
    <2>1. time \in 0..minRetryTime
      BY <1>0, <1>1, <1>4
    <2>2. Retry(m, tick) = [m EXCEPT !.retryTime = time]
      BY <1>0, <1>1, <1>4 DEF Retry, MoquiMemory
    <2> HIDE DEF time
    <2> QED BY <2>1, <2>2 DEF MoquiMemory
  <1>5. CASE retryOnError /\ m.retryCount < maxRetryCount /\ time >= minRetryTime
    <2>1. count \in 0..maxRetryCount
      BY <1>0, <1>1, <1>5
    <2>2. Retry(m, tick) = [m EXCEPT !.retryCount = count, !.retryTime = zero,
                                     !.autoReset = TRUE]
      BY <1>0, <1>1, <1>2, <1>5 DEF Retry, MoquiMemory
    <2> HIDE DEF count
    <2> QED BY <2>1, <2>2 DEF MoquiMemory
  <1> QED BY <1>0, <1>1, <1>3, <1>4, <1>5

LEMMA RecoverOrWaitScan ==
  ASSUME IInv, UNCHANGED plant, NEW reset, NEW tick, RecoverOrWait(reset, tick)
  PROVE  IInv'
  <1> DEFINE b == Begun(configMgmt')
             m == Retry(b, tick)
  <1>0. minRetryTime \in Nat /\ maxRetryCount \in Nat
    BY MoquiStartAssumption
  <1>1. RunConfigMgmt /\ Tick(tick) /\ UNCHANGED dev
    BY DEF RecoverOrWait
  <1>2. b \in MoquiMemory
    BY <1>1, ScanBegins
  <1>3. m \in MoquiMemory
    BY <1>2, RetryType
  <1>4. PICK count \in 0..maxRetryCount, time \in 0..minRetryTime : count = 0 /\ time = 0
    BY <1>0
  <1>5. moqui' \in {m, [m EXCEPT !.error = FALSE, !.retryCount = count, !.retryTime = time,
                                  !.mainInitPending = TRUE, !.status = "Idle",
                                  !.deviceConfigContextResetRequest = FALSE]}
    BY <1>4 DEF RecoverOrWait
  <1> HIDE DEF b, m
  <1>6. moqui' \in MoquiMemory
    BY <1>3, <1>5 DEF MoquiMemory
  <1> QED BY <1>1, <1>6, QuietScan

LEMMA Supervision ==
  ASSUME IInv, UNCHANGED plant,
         EnableFramework \/ DisableFramework \/ RequestInit \/ SelectVentilation
  PROVE  IInv'
  <1>1. CASE EnableFramework \/ DisableFramework \/ RequestInit
    <2>1. UNCHANGED <<configMgmt, dev, second>>
      BY <1>1 DEF EnableFramework, DisableFramework, RequestInit, Supervise
    <2>2. moqui' \in MoquiMemory
      BY <1>1 DEF EnableFramework, DisableFramework, RequestInit, Supervise, IInv, MoquiMemory
    <2> QED BY <2>1, <2>2 DEF IInv
  <1>2. CASE SelectVentilation
    <2>1. dev' = [dev EXCEPT !.status = "Ventilation"] /\ "Ventilation" \in MainStatus
          /\ UNCHANGED <<moqui, configMgmt, second>> /\ DeviceInv(dev)
      BY <1>2 DEF SelectVentilation, MainStatus, IInv
    <2>2. dev' \in DeviceMemory /\ SameDevices(dev', dev) /\ dev'.signalMgmt = dev.signalMgmt
      BY <2>1, StatusType DEF DeviceInv
    <2>3. DeviceInv(dev')
      BY <2>1, <2>2 DEF DeviceInv, SameDevices, SafeDevices, StopActive, Throwing, InPosition
    <2> QED BY <2>1, <2>3 DEF IInv
  <1> QED BY <1>1, <1>2

LEMMA InitInv == Init => IInv
  <1> SUFFICES ASSUME Init PROVE IInv
    OBVIOUS
  <1>0. minRetryTime \in Nat /\ maxRetryCount \in Nat /\ Len(plant.recipes) \in Nat
    BY MoquiStartAssumption, PlantType DEF Init
  <1>1. moqui \in MoquiMemory
    BY <1>0 DEF Init, MoquiMemory
  <1>2. ConfigInv(configMgmt, Len(plant.recipes))
    BY <1>0 DEF Init, ConfigInv, DeviceConfigColdStart, DeviceConfigMemory,
                DeviceConfigMgmtStatus
  <1> QED BY <1>1, <1>2, DeviceColdStartInv DEF Init, IInv

LEMMA NextInv == IInv /\ [Next]_vars => IInv'
  <1> SUFFICES ASSUME IInv, [Next]_vars PROVE IInv'
    OBVIOUS
  <1>1. CASE UNCHANGED vars
    BY <1>1 DEF vars, IInv
  <1>2. CASE Next
    <2>1. UNCHANGED plant
      BY <1>2 DEF Next
    <2>2. CASE StayIdle \/ Start \/ StopOnConfigError \/ WaitForConfig \/ Finish
      BY <2>1, <2>2, IdleScans
    <2>3. CASE MainScan
      BY <2>1, <2>3, CallMainScan DEF MainScan
    <2>4. CASE ErrorScan
      BY <2>1, <2>4, RecoverOrWaitScan DEF ErrorScan
    <2>5. CASE EnableFramework \/ DisableFramework \/ RequestInit \/ SelectVentilation
      BY <2>1, <2>5, Supervision
    <2> QED BY <1>2, <2>2, <2>3, <2>4, <2>5 DEF Next
  <1> QED BY <1>1, <1>2

(* The other steps leave the devices alone, but for the selected state.    *)
LEMMA OtherSteps ==
  ASSUME [Next]_vars, ~MainScan
  PROVE  \/ UNCHANGED dev
         \/ SelectVentilation
  BY DEF Next, vars, StayIdle, Start, StopOnConfigError, WaitForConfig, Finish, ErrorScan,
         RecoverOrWait, EnableFramework, DisableFramework, RequestInit, Supervise

LEMMA OverlapStep ==
  ASSUME IInv, [Next]_vars, dev'.coldGlycolPump.enable, dev'.hotGlycolPump.enable
  PROVE  dev.status = "Drying" \/ UNCHANGED <<dev.coldGlycolPump, dev.hotGlycolPump>>
  <1>1. CASE MainScan
    <2>1. PICK in \in Inputs : CallMain(in)
      BY <1>1 DEF MainScan
    <2>2. UNCHANGED plant
      BY DEF Next, vars
    <2> DEFINE m == Begun(configMgmt')
    <2>3. IF m.enable THEN MainStep(dev', dev, Mode(m), m.deviceConfigContextResetRequest)
          ELSE dev' = dev
      BY <2>1, <2>2, CallMainSteps
    <2> QED BY <2>3 DEF MainStep
  <1>2. CASE SelectVentilation
    BY <1>2 DEF SelectVentilation, IInv, DeviceInv, DeviceMemory
  <1>3. CASE UNCHANGED dev
    BY <1>3
  <1> QED BY <1>1, <1>2, <1>3, OtherSteps

LEMMA DuctStep ==
  ASSUME IInv, [Next]_vars, RuleScan, DuctAlarm(dev), ~SelectVentilation
  PROVE  ~Conditioning' /\ dev'.status = "Fault"
  <1>1. CASE MainScan
    <2>1. PICK in \in Inputs : CallMain(in)
      BY <1>1 DEF MainScan
    <2>2. UNCHANGED plant
      BY DEF Next, vars
    <2> DEFINE m == Begun(configMgmt')
    <2>3. IF m.enable THEN MainStep(dev', dev, Mode(m), m.deviceConfigContextResetRequest)
          ELSE dev' = dev
      BY <2>1, <2>2, CallMainSteps
    <2>4. moqui \in MoquiMemory
      BY DEF IInv
    <2>5. m.enable /\ Mode(m) = "Run" /\ ~m.deviceConfigContextResetRequest
      BY <2>4 DEF RuleScan, Begun, Mode, MoquiMemory
    <2> HIDE DEF m
    <2> QED BY <2>3, <2>5 DEF MainStep, Conditioning
  <1>2. CASE ~MainScan
    <2>1. UNCHANGED <<configMgmt, dev>>
      BY <1>2 DEF Next, vars, RuleScan, StayIdle, Start, StopOnConfigError, WaitForConfig,
                  Finish, ErrorScan, RecoverOrWait, EnableFramework, DisableFramework,
                  RequestInit, Supervise
    <2> QED BY <2>1 DEF RuleScan
  <1> QED BY <1>1, <1>2

(* The memories of the program, its recipes and its devices hold what they *)
(* are declared to hold.                                                   *)
THEOREM TypesHold == Spec => []TypeOK
  BY InitInv, NextInv, IInvImplies, PTL DEF Spec

(* No glycol pump runs without the air flow and the fan, and a standing    *)
(* stop alarm leaves nothing driven, for every recipe, plant and           *)
(* supervision.                                                            *)
THEOREM OutputsStaySafe == Spec => []SafeOutputs
  BY InitInv, NextInv, IInvImplies, PTL DEF Spec

(* A phase of low throw is counted only with both dampers in position, and *)
(* no scan leaves both dampers opening or both closing, whatever their     *)
(* configuration and their sensors.                                        *)
THEOREM ThrowsStayInPosition == Spec => []ThrowsInPosition
  BY InitInv, NextInv, IInvImplies, PTL DEF Spec

(* The two glycol groups run together only for Drying: no change of phase  *)
(* lets them overlap for a scan.                                           *)
THEOREM GroupsStaySeparate == Spec => GroupsOverlapOnlyInDrying
  <1>1. IInv /\ [Next]_vars =>
          [dev'.coldGlycolPump.enable /\ dev'.hotGlycolPump.enable
             => \/ dev.status = "Drying"
                \/ UNCHANGED <<dev.coldGlycolPump, dev.hotGlycolPump>>]_vars
    BY OverlapStep
  <1> QED BY <1>1, InitInv, NextInv, PTL DEF Spec, GroupsOverlapOnlyInDrying

(* Supply air outside its limits stops heat and cold in the next scan of   *)
(* the rules and leads the program to Fault, from every state.             *)
THEOREM DuctViolationsStop == Spec => DuctViolationStops
  <1>1. IInv /\ [Next]_vars =>
          [RuleScan /\ (dev.ductTempOverMax \/ dev.ductTempUnderMin) /\ ~SelectVentilation
             => ~Conditioning' /\ dev'.status = "Fault"]_vars
    BY DuctStep DEF DuctAlarm
  <1> QED BY <1>1, InitInv, NextInv, PTL DEF Spec, DuctViolationStops

-----------------------------------------------------------------------------
(* An undisturbed plant: no cause of an alarm arises, and the progress of  *)
(* a recipe begins with its first active phase.                            *)
Stopped(d) == ~d.coldGlycolPump.enable /\ ~d.hotGlycolPump.enable

(* No progress has been made since the last reset or initialization.       *)
Zero(d) ==
    /\ d.processActualDuration = 0 /\ d.actualRuntime = 0
    /\ ~d.isCompleted /\ ~d.timeBreakEnabled
Fresh(d) == Zero(d) /\ d.lastStatus = "Standby"

Faultless(d) ==
    /\ ~d.coldGlycolPump.fault /\ ~d.hotGlycolPump.fault /\ ~d.airFlow.fault
    /\ ~d.highFlowDamper.fault /\ ~d.lowFlowDamper.fault

(* No alarm stands, and none can rise from what the devices remember.      *)
NoAlarm(d) ==
    /\ Faultless(d) /\ ~DuctAlarm(d)
    /\ d.signalMgmt.signalList = {} /\ d.signalMgmt.cumulativeOutputAction = {}
    /\ "Fault" \notin d.requests /\ d.status # "Fault" /\ ~d.error
Calm(d) == NoAlarm(d) /\ (d.lastStatus = "Standby" => Fresh(d))

SameProgress(e, d) ==
    /\ e.processActualDuration = d.processActualDuration
    /\ e.actualRuntime = d.actualRuntime
    /\ e.isCompleted = d.isCompleted /\ e.timeBreakEnabled = d.timeBreakEnabled
    /\ e.lastStatus = d.lastStatus
    /\ e.ductTempOverMax = d.ductTempOverMax /\ e.ductTempUnderMin = d.ductTempUnderMin

(* Sensors within the band of the recipe. *)
InBand(r, in) ==
    /\ in.temp < r.tempSetpoint + r.tempHysteresis
    /\ r.tempSetpoint < in.temp + r.tempHysteresis
    /\ r.ductTempMin <= in.duct /\ in.duct <= r.ductTempMax

(* An actuator that is not diagnosed has only the faults it is told.       *)
LEMMA ScanFaultless ==
  ASSUME NEW b \in ActuatorMemory, NEW c \in ActuatorConfig, NEW in \in ActuatorInput,
         ~b.fault, ~c.diagnosticsEnable, ~in.externalFault
  PROVE  ~ActuatorScan(b, c, in).fault
  <1>1. ASSUME NEW x \in ActuatorMemory PROVE ~Elaborate(x, c, in).fault
    <2> DEFINE t == ClockHandler(x, in)
               e == EnabledFeedback(t, c, in)
               d == DisabledFeedback(t, c, in)
               m == StatusMachine(t, c, e, d)
               z == t.timer = 0
               g == Diagnose(m, c, in, e, d, z)
    <2>1. t \in ActuatorMemory
      BY DEF ClockHandler, ActuatorMemory, ActuatorInput
    <2>2. Elaborate(x, c, in) = Actuate(g, c)
      BY DEF Elaborate
    <2> HIDE DEF t
    <2>3. e \in BOOLEAN /\ d \in BOOLEAN /\ z \in BOOLEAN
      BY <2>1 DEF EnabledFeedback, DisabledFeedback, ActuatorMemory, ActuatorConfig,
                  ActuatorInput, ActuatorFeedbackType
    <2> HIDE DEF e, d, z
    <2>4. m \in ActuatorMemory
      BY <2>1, <2>3, StatusMachineAnswers
    <2> HIDE DEF m
    <2>5. g \in ActuatorMemory
      BY <2>3, <2>4, DiagnoseType
    <2>6. ~g.fault
      BY <2>3, <2>4 DEF Diagnose, ActuatorMemory, ActuatorConfig, ActuatorInput
    <2> HIDE DEF g
    <2> QED BY <2>2, <2>5, <2>6 DEF Actuate, ActuatorMemory, ActuatorConfig,
                                    ActuatorActuationType
  <1>2. CASE in.operationType = "Run"
    BY <1>1, <1>2 DEF ActuatorScan
  <1>3. CASE in.operationType = "Init" /\ c.identified
    BY <1>1, <1>3, InitHandlerType DEF ActuatorScan
  <1>4. CASE in.operationType = "Init" /\ ~c.identified
    BY <1>4 DEF ActuatorScan, ActuatorMemory
  <1> QED BY <1>2, <1>3, <1>4 DEF ActuatorInput, ActuatorConfig

(* A signal without cause does not enter an empty list.                    *)
LEMMA ScannedQuiet ==
  ASSUME NEW m \in SignalMemory(7), NEW code \in 1..7, NEW causes, code \notin causes,
         m.signalList = {}, m.cumulativeOutputAction = {}
  PROVE  LET q == Scanned(m, code, causes)
         IN /\ q \in SignalMemory(7)
            /\ q.signalList = {} /\ q.cumulativeOutputAction = {}
  <1> DEFINE active == code \in causes
             s == AlarmOf(code)
             on == StaysActive(m, s, active, NoReset)
             q == ProcessSignal(m, s, active, NoReset)
  <1>1. q \in SignalMemory(7) /\ q = Scanned(m, code, causes)
    BY ScannedType DEF Scanned
  <1>2. s.code = code
    BY DEF AlarmOf
  <1> HIDE DEF s
  <1>3. ~on
    BY <1>2 DEF StaysActive
  <1>4. /\ q.signalList = IF on THEN m.signalList \cup {s.code} ELSE m.signalList \ {s.code}
        /\ q.cumulativeOutputAction = IF on THEN m.cumulativeOutputAction \cup s.outputAction
                                      ELSE m.cumulativeOutputAction
    BY DEF ProcessSignal, SignalMemory
  <1> HIDE DEF q, on
  <1>5. q.signalList = {} /\ q.cumulativeOutputAction = {}
    BY <1>3, <1>4
  <1> QED BY <1>1, <1>5

LEMMA DiagnosticsQuiet ==
  ASSUME NEW d \in DeviceMemory, Faultless(d), ~DuctAlarm(d), d.signalMgmt.signalList = {}
  PROVE  /\ DeviceDiagnostics(d).signalList = {}
         /\ DeviceDiagnostics(d).cumulativeOutputAction = {}
  <1> DEFINE on == AlarmCauses(d)
             m0 == PrepareSignals(d.signalMgmt, NoReset)
             m1 == Scanned(m0, 1, on)
             m2 == Scanned(m1, 2, on)
             m3 == Scanned(m2, 3, on)
             m4 == Scanned(m3, 4, on)
             m5 == Scanned(m4, 5, on)
             m6 == Scanned(m5, 6, on)
             m7 == Scanned(m6, 7, on)
             Silent(m) == /\ m \in SignalMemory(7)
                          /\ m.signalList = {} /\ m.cumulativeOutputAction = {}
  <1>1. on = {}
    BY DEF AlarmCauses, Faultless, DuctAlarm
  <1>2. Silent(m0)
    <2>1. m0 \in SignalMemory(7)
      BY PrepareSignalsType DEF DeviceMemory
    <2>2. d.signalMgmt \in SignalMemory(7)
      BY DEF DeviceMemory
    <2>3. m0.signalList = {} /\ m0.cumulativeOutputAction = {}
      BY <2>2 DEF PrepareSignals, SignalMemory, SignalOutputAction
    <2> QED BY <2>1, <2>3
  <1>3. DeviceDiagnostics(d) = m7
    BY DEF DeviceDiagnostics
  <1> HIDE DEF on, m0
  <1>4. Silent(m1)
    BY <1>1, <1>2, ScannedQuiet
  <1> HIDE DEF m1
  <1>5. Silent(m2)
    BY <1>1, <1>4, ScannedQuiet
  <1> HIDE DEF m2
  <1>6. Silent(m3)
    BY <1>1, <1>5, ScannedQuiet
  <1> HIDE DEF m3
  <1>7. Silent(m4)
    BY <1>1, <1>6, ScannedQuiet
  <1> HIDE DEF m4
  <1>8. Silent(m5)
    BY <1>1, <1>7, ScannedQuiet
  <1> HIDE DEF m5
  <1>9. Silent(m6)
    BY <1>1, <1>8, ScannedQuiet
  <1> HIDE DEF m6
  <1>10. Silent(m7)
    BY <1>1, <1>9, ScannedQuiet
  <1> QED BY <1>3, <1>10

(* While a recipe waits to start nothing is counted.                       *)
LEMMA TimingQuiet ==
  ASSUME NEW d \in DeviceMemory, NEW r \in Recipe, NEW in \in Input
  PROVE  LET e == Timing(r, d, in)
         IN /\ e.lastStatus = d.lastStatus /\ e.requests = d.requests /\ e.error = d.error
            /\ e.ductTempOverMax = d.ductTempOverMax
            /\ e.ductTempUnderMin = d.ductTempUnderMin
            /\ d.status = "Standby" /\ Fresh(d) => Fresh(e)
  <1> DEFINE n == Count(r, d)
             c == /\ n.processActualDuration >= r.processEstimatedDuration
                  /\ n.processActualDuration >= r.processMinDuration
             e == [n EXCEPT !.isCompleted = c]
             Keeps(x) == /\ x.lastStatus = d.lastStatus /\ x.requests = d.requests
                         /\ x.error = d.error /\ x.ductTempOverMax = d.ductTempOverMax
                         /\ x.ductTempUnderMin = d.ductTempUnderMin
  <1>1. n \in {d, CountBreak(r, d), CountActive(r, d), CountDwell(d)}
    BY DEF Count
  <1>2. n \in DeviceMemory
    BY CountType
  <1>3. Keeps(n)
    BY <1>1 DEF CountBreak, CountActive, CountDwell, DeviceMemory
  <1>4. d.status = "Standby" /\ Fresh(d) => n = d
    BY DEF Count, Fresh, Zero
  <1> HIDE DEF n
  <1>5. Timing(r, d, in) \in {d, n} \/ (Timing(r, d, in) = e /\ r.processEstimatedDuration > 0)
    BY DEF Timing, n, Input, Recipe
  <1>6. Keeps(e)
    BY <1>2, <1>3 DEF DeviceMemory
  <1>7. ASSUME d.status = "Standby", Fresh(d), r.processEstimatedDuration > 0 PROVE Fresh(e)
    <2>1. ~c
      BY <1>4, <1>7 DEF Fresh, Zero, Recipe
    <2> HIDE DEF c
    <2> QED BY <1>4, <1>7, <2>1 DEF Fresh, Zero, DeviceMemory
  <1> QED BY <1>3, <1>4, <1>5, <1>6, <1>7

(* In the band no phase starts once the recipe is complete.                *)
LEMMA RuleQuiet ==
  ASSUME NEW d \in DeviceMemory, NEW r \in Recipe, NEW in \in Input, InBand(r, in),
         d.status # "Fault",
         d.status = "Standby" /\ d.lastStatus = "Standby" => ~d.isCompleted
  PROVE  /\ "Fault" \notin Rule(r, d, in)
         /\ d.isCompleted => Rule(r, d, in) = {"Standby"}
  <1>1. ~tempAboveSetpointBand(r, in) /\ ~tempBelowSetpointBand(r, in)
    BY DEF InBand, tempAboveSetpointBand, tempBelowSetpointBand, Recipe, Input
  <1>2. d.status \in {"Standby", "Ventilation", "Cooling", "Heating", "Drying"}
        /\ d.isCompleted \in BOOLEAN
    BY DEF DeviceMemory, MainStatus
  <1>3. CASE d.status = "Standby"
    <2>1. Rule(r, d, in) = StandbyRule(r, d, in)
      BY <1>3 DEF Rule
    <2>2. StandbyRule(r, d, in) \in {{"Drying"}, {"Standby"}}
      BY <1>1 DEF StandbyRule
    <2>3. d.isCompleted => StandbyRule(r, d, in) = {"Standby"}
      BY <1>1, <1>3 DEF StandbyRule
    <2> QED BY <2>1, <2>2, <2>3
  <1>4. CASE d.status = "Ventilation"
    BY <1>2, <1>4 DEF Rule, KeepPhase
  <1>5. CASE d.status = "Cooling"
    BY <1>2, <1>5 DEF Rule, CoolingRule, KeepPhase
  <1>6. CASE d.status = "Heating"
    BY <1>2, <1>6 DEF Rule, HeatingRule, KeepPhase
  <1>7. CASE d.status = "Drying"
    BY <1>2, <1>7 DEF Rule, DryingRule, DryingOver, KeepPhase
  <1> QED BY <1>2, <1>3, <1>4, <1>5, <1>6, <1>7

(* A call of Main, up to the FSM: what the rules, a reset between two      *)
(* recipes and an initialization make of a calm memory.                    *)
PreparedQuiet(p, d, mode, reset) ==
    /\ NoAlarm(p)
    /\ mode = "Init" \/ reset =>
         /\ p.status = "Standby" /\ Zero(p) /\ p.requests = d.requests
         /\ mode = "Run" => p.lastStatus = "Standby"
    /\ mode = "Run" /\ ~reset =>
         /\ p.status = d.status /\ p.lastStatus = d.lastStatus
         /\ p.isCompleted => p.requests = {"Standby"}
         /\ d.status = "Standby" /\ Fresh(d) => Fresh(p)

LEMMA EngineQuiet ==
  ASSUME NEW d \in DeviceMemory, NEW r \in Recipe, NEW in \in Input, InBand(r, in), Calm(d)
  PROVE  PreparedQuiet(MainRuleEngine(r, d, in), d, "Run", FALSE)
  <1> DEFINE over == in.duct > r.ductTempMax
             under == in.duct < r.ductTempMin
             sm == DeviceDiagnostics(d)
             t == [d EXCEPT !.signalMgmt = sm, !.ductTempOverMax = over,
                            !.ductTempUnderMin = under]
             n == Timing(r, t, in)
             q == IF StopActive(n) THEN {"Fault", "Standby"} ELSE Rule(r, n, in)
             e == [n EXCEPT !.requests = q]
  <1>1. /\ sm \in SignalMemory(7) /\ over = FALSE /\ under = FALSE
        /\ sm.signalList = {} /\ sm.cumulativeOutputAction = {}
    <2>1. sm \in SignalMemory(7)
      BY DiagnosticsType
    <2>2. sm.signalList = {} /\ sm.cumulativeOutputAction = {}
      BY DiagnosticsQuiet DEF Calm, NoAlarm
    <2>3. ~over /\ ~under
      BY DEF InBand, Recipe, Input
    <2> QED BY <2>1, <2>2, <2>3
  <1> HIDE DEF sm, over, under
  <1>2. /\ t \in DeviceMemory /\ SameDevices(t, d) /\ t.signalMgmt = sm
        /\ t.status = d.status /\ t.error = d.error /\ t.lastStatus = d.lastStatus
        /\ ~t.ductTempOverMax /\ ~t.ductTempUnderMin /\ (Fresh(d) => Fresh(t))
    <2>1. t \in DeviceMemory
      BY <1>1 DEF DeviceMemory
    <2>2. /\ SameDevices(t, d) /\ t.signalMgmt = sm
          /\ t.status = d.status /\ t.error = d.error /\ t.lastStatus = d.lastStatus
          /\ ~t.ductTempOverMax /\ ~t.ductTempUnderMin
      BY <1>1 DEF DeviceMemory, SameDevices
    <2>3. Fresh(d) => Fresh(t)
      BY DEF DeviceMemory, Fresh, Zero
    <2> QED BY <2>1, <2>2, <2>3
  <1> HIDE DEF t
  <1>3. /\ n \in DeviceMemory /\ SameDevices(n, d) /\ n.signalMgmt = sm
        /\ n.status = d.status /\ n.error = d.error /\ n.lastStatus = d.lastStatus
        /\ ~n.ductTempOverMax /\ ~n.ductTempUnderMin
        /\ d.status = "Standby" /\ Fresh(d) => Fresh(n)
    BY <1>2, TimingType, TimingQuiet DEF SameDevices, SameState
  <1> HIDE DEF n
  <1>4. q = Rule(r, n, in)
    BY <1>1, <1>3 DEF StopActive
  <1>5. n.status = "Standby" /\ n.lastStatus = "Standby" => ~n.isCompleted
    BY <1>3 DEF Calm, Fresh, Zero
  <1>6. /\ q \in SUBSET Requests /\ "Fault" \notin q
        /\ n.isCompleted => q = {"Standby"}
    BY <1>3, <1>4, <1>5, RuleType, RuleQuiet DEF Calm, NoAlarm
  <1>7. MainRuleEngine(r, d, in) = e
    BY DEF MainRuleEngine, n, t, sm, over, under
  <1> HIDE DEF q
  <1>8. /\ SameDevices(e, n) /\ SameProgress(e, n)
        /\ e.signalMgmt = n.signalMgmt /\ e.requests = q
        /\ e.status = n.status /\ e.error = n.error
    BY <1>3 DEF DeviceMemory, SameDevices, SameProgress
  <1> HIDE DEF e
  <1>9. NoAlarm(e)
    BY <1>1, <1>3, <1>6, <1>8 DEF Calm, NoAlarm, Faultless, DuctAlarm, SameDevices,
                                  SameProgress
  <1>10. d.status = "Standby" /\ Fresh(d) => Fresh(e)
    BY <1>3, <1>8 DEF Fresh, Zero, SameProgress
  <1> QED BY <1>3, <1>6, <1>7, <1>8, <1>9, <1>10 DEF PreparedQuiet, SameProgress

(* The requests of a damper do not touch its faults.                       *)
LEMMA ThrowFaultless ==
  ASSUME NEW d \in DeviceMemory, NEW high \in BOOLEAN, NEW s, NEW x, NEW y
  PROVE  LET e == Enter(Throw(d, high), s, x, y)
         IN /\ SameProgress(e, d) /\ e.error = d.error
            /\ e.highFlowDamper.fault = d.highFlowDamper.fault
            /\ e.lowFlowDamper.fault = d.lowFlowDamper.fault
  <1> DEFINE c1 == Command(d.highFlowDamper, high)
             c2 == Command(d.lowFlowDamper, ~high)
             a == [status |-> s, high |-> x, low |-> y]
             e == [[d EXCEPT !.highFlowDamper = c1, !.lowFlowDamper = c2]
                      EXCEPT !.airDistribution = a]
  <1>1. c1.fault = d.highFlowDamper.fault /\ c2.fault = d.lowFlowDamper.fault
    BY DEF Command, DeviceMemory, ActuatorMemory
  <1>2. Enter(Throw(d, high), s, x, y) = e
    BY DEF Enter, Throw
  <1> HIDE DEF c1, c2, a
  <1>3. /\ SameProgress(e, d) /\ e.error = d.error
        /\ e.highFlowDamper = c1 /\ e.lowFlowDamper = c2
    BY DEF DeviceMemory, SameProgress
  <1> QED BY <1>1, <1>2, <1>3

LEMMA ClearQuiet ==
  ASSUME NEW d \in DeviceMemory, Calm(d)
  PROVE  LET e == ClearContext(d)
         IN /\ NoAlarm(e) /\ Zero(e) /\ e.status = "Standby"
            /\ e.requests = d.requests
  <1>0. PICK z \in Nat : z = 0
    OBVIOUS
  <1>1. "Init" \in AirDistributionControllerStatus /\ "Standby" \in MainStatus
    BY DEF AirDistributionControllerStatus, MainStatus
  <1> DEFINE a == Enter(Throw(d, TRUE), "Init", z, z)
             e == [a EXCEPT !.status = "Standby", !.actualRuntime = 0,
                            !.actualBreakDuration = 0, !.processActualDuration = 0,
                            !.timeBreakEnabled = FALSE, !.isCompleted = FALSE]
  <1>2. /\ a \in DeviceMemory /\ SamePlant(a, d) /\ SameProgress(a, d) /\ a.error = d.error
        /\ a.highFlowDamper.fault = d.highFlowDamper.fault
        /\ a.lowFlowDamper.fault = d.lowFlowDamper.fault
    <2>1. a \in DeviceMemory /\ SamePlant(a, d)
      BY <1>1, ThrowType
    <2>2. /\ SameProgress(a, d) /\ a.error = d.error
          /\ a.highFlowDamper.fault = d.highFlowDamper.fault
          /\ a.lowFlowDamper.fault = d.lowFlowDamper.fault
      <3>1. PICK high \in BOOLEAN : high = TRUE
        OBVIOUS
      <3>2. LET x == Enter(Throw(d, high), "Init", z, z)
            IN /\ SameProgress(x, d) /\ x.error = d.error
               /\ x.highFlowDamper.fault = d.highFlowDamper.fault
               /\ x.lowFlowDamper.fault = d.lowFlowDamper.fault
        BY ThrowFaultless
      <3> QED BY <3>1, <3>2
    <2> QED BY <2>1, <2>2
  <1>3. ClearContext(d) = e
    BY <1>0 DEF ClearContext, InitAirDistribution
  <1> HIDE DEF a
  <1>4. /\ SameDevices(e, a) /\ e.signalMgmt = a.signalMgmt /\ e.requests = a.requests
        /\ e.status = "Standby" /\ e.error = a.error
        /\ e.ductTempOverMax = a.ductTempOverMax /\ e.ductTempUnderMin = a.ductTempUnderMin
    BY <1>2 DEF DeviceMemory, SameDevices
  <1>5. Zero(e)
    BY <1>2 DEF DeviceMemory, Zero
  <1> HIDE DEF e
  <1>6. NoAlarm(e)
    BY <1>2, <1>4 DEF Calm, NoAlarm, Faultless, DuctAlarm, SamePlant, SameProgress,
                      SameDevices
  <1> QED BY <1>2, <1>3, <1>4, <1>5, <1>6 DEF SamePlant

LEMMA PrepareQuiet ==
  ASSUME NEW d \in DeviceMemory, NEW r \in Recipe, NEW in \in Input,
         NEW mode \in {"Init", "Run"}, NEW reset \in BOOLEAN, Calm(d),
         mode = "Run" => InBand(r, in)
  PROVE  PreparedQuiet(Prepare(r, d, in, mode, reset), d, mode, reset)
  <1> DEFINE c == ClearContext(d)
  <1>1. /\ NoAlarm(c) /\ Zero(c) /\ c.status = "Standby" /\ c.requests = d.requests
        /\ c \in DeviceMemory
    BY ClearQuiet, ClearContextType
  <1> HIDE DEF c
  <1>2. CASE mode = "Init"
    <2> DEFINE s == ResetSignals(c.signalMgmt)
               e == [c EXCEPT !.signalMgmt = s]
    <2>1. s.signalList = {} /\ s.cumulativeOutputAction = {}
      BY <1>1, ResetSignalsType DEF DeviceMemory, ResetSignals, SignalMemory
    <2>2. Prepare(r, d, in, mode, reset) = e
      BY <1>2 DEF Prepare, c
    <2> HIDE DEF s
    <2>3. /\ SameDevices(e, c) /\ SameProgress(e, c) /\ e.signalMgmt = s
          /\ e.status = c.status /\ e.requests = c.requests /\ e.error = c.error
      BY <1>1 DEF DeviceMemory, SameDevices, SameProgress
    <2> HIDE DEF e
    <2> QED BY <1>1, <1>2, <2>1, <2>2, <2>3 DEF PreparedQuiet, NoAlarm, Faultless, DuctAlarm,
                   Zero, SameDevices, SameProgress
  <1>3. CASE mode = "Run" /\ reset
    <2> DEFINE e == [c EXCEPT !.lastStatus = "Standby"]
    <2>1. Prepare(r, d, in, mode, reset) = e
      BY <1>3 DEF Prepare, c
    <2>2. /\ SameDevices(e, c) /\ e.signalMgmt = c.signalMgmt
          /\ e.status = c.status /\ e.requests = c.requests /\ e.error = c.error
          /\ e.ductTempOverMax = c.ductTempOverMax
          /\ e.ductTempUnderMin = c.ductTempUnderMin
          /\ e.lastStatus = "Standby"
      BY <1>1 DEF DeviceMemory, SameDevices
    <2>3. Zero(e)
      BY <1>1 DEF DeviceMemory, Zero
    <2> HIDE DEF e
    <2> QED BY <1>1, <1>3, <2>1, <2>2, <2>3 DEF PreparedQuiet, NoAlarm, Faultless, DuctAlarm,
                   SameDevices
  <1>4. CASE mode = "Run" /\ ~reset
    BY <1>4, EngineQuiet DEF Prepare
  <1> QED BY <1>2, <1>3, <1>4

(* Remember keeps what a fresh recipe is recognized by: a status other     *)
(* than Standby is remembered with the first progress it makes.            *)
LEMMA RememberQuiet ==
  ASSUME NEW d \in DeviceMemory, Calm(d), NEW p \in DeviceMemory,
         NEW mode \in {"Init", "Run"}, NEW reset \in BOOLEAN,
         PreparedQuiet(p, d, mode, reset)
  PROVE  LET o == Override(Remember(p, mode))
         IN /\ Calm(o) /\ o.status = p.status /\ o.requests = p.requests
            /\ o.isCompleted = p.isCompleted
            /\ mode = "Init" \/ reset => Fresh(o)
            /\ mode = "Run" /\ ~reset /\ d.status = "Standby" /\ Fresh(d) => Fresh(o)
  <1> DEFINE last == IF mode = "Init" \/ p.status # "Standby" THEN p.status ELSE p.lastStatus
             m == [p EXCEPT !.lastStatus = last]
  <1>1. m \in DeviceMemory
    BY DEF DeviceMemory
  <1>2. Remember(p, mode) = m
    BY DEF Remember, DeviceMemory
  <1>3. /\ SameDevices(m, p) /\ m.signalMgmt = p.signalMgmt /\ m.requests = p.requests
        /\ m.status = p.status /\ m.error = p.error /\ m.lastStatus = last
        /\ m.ductTempOverMax = p.ductTempOverMax /\ m.ductTempUnderMin = p.ductTempUnderMin
        /\ m.isCompleted = p.isCompleted /\ (Zero(m) <=> Zero(p))
    <2> HIDE DEF last
    <2>1. /\ SameDevices(m, p) /\ m.signalMgmt = p.signalMgmt /\ m.requests = p.requests
          /\ m.status = p.status /\ m.error = p.error /\ m.lastStatus = last
          /\ m.ductTempOverMax = p.ductTempOverMax /\ m.ductTempUnderMin = p.ductTempUnderMin
          /\ m.isCompleted = p.isCompleted
      BY DEF DeviceMemory, SameDevices
    <2>2. Zero(m) <=> Zero(p)
      BY DEF DeviceMemory, Zero
    <2> QED BY <2>1, <2>2
  <1> HIDE DEF m
  <1>4. NoAlarm(m)
    BY <1>3 DEF PreparedQuiet, NoAlarm, Faultless, DuctAlarm, SameDevices
  <1>5. Override(m) = m
    <2>1. Override(m) = [m EXCEPT !.status = m.status]
      BY <1>4 DEF Override, NoAlarm
    <2> QED BY <1>1, <2>1 DEF DeviceMemory
  <1>6. mode = "Init" \/ reset => Fresh(m)
    BY <1>3 DEF PreparedQuiet, Fresh
  <1>7. ASSUME mode = "Run", ~reset PROVE m.lastStatus = "Standby" => Fresh(m)
    BY <1>3, <1>7 DEF PreparedQuiet, Calm, Fresh
  <1>8. ASSUME mode = "Run", ~reset, d.status = "Standby", Fresh(d) PROVE Fresh(m)
    BY <1>3, <1>8 DEF PreparedQuiet, Fresh
  <1> QED BY <1>2, <1>3, <1>4, <1>5, <1>6, <1>7, <1>8 DEF Calm

(* The FSM moves on to a state that is asked for, and never to Fault.      *)
LEMMA UpdateQuiet ==
  ASSUME NEW d \in DeviceMemory, d.status # "Fault"
  PROVE  LET e == Update(d)
         IN /\ SameProgress(e, d) /\ e.requests = d.requests /\ e.error = d.error
            /\ e.status # "Fault"
            /\ d.requests = {} => e = d
  <1> DEFINE order == Successors(d.status)
             asked == {i \in DOMAIN order : order[i] \in d.requests}
             first == CHOOSE i \in asked : \A j \in asked : i <= j
  <1>1. CASE asked = {}
    BY <1>1 DEF Update, SameProgress
  <1>2. CASE asked # {}
    <2>0. d.requests # {}
      BY <1>2
    <2>1. Update(d) = [d EXCEPT !.status = order[first]]
      BY <1>2 DEF Update
    <2>2. order[first] # "Fault"
      <3>1. \A i \in DOMAIN order : order[i] # "Fault"
        <4>1. CASE d.status \in {"Standby", "Ventilation"}
          BY <4>1 DEF Successors
        <4>2. CASE d.status \in {"Cooling", "Heating"}
          BY <4>2 DEF Successors
        <4>3. CASE d.status = "Drying"
          BY <4>3 DEF Successors
        <4> QED BY <4>1, <4>2, <4>3 DEF DeviceMemory, MainStatus
      <3>2. \E i \in asked : \A j \in asked : i <= j
        <4>1. DOMAIN order \subseteq 1..4
          <5>1. CASE d.status \in {"Standby", "Ventilation"}
            BY <5>1 DEF Successors
          <5>2. CASE d.status \in {"Cooling", "Heating"}
            BY <5>2 DEF Successors
          <5>3. CASE d.status = "Drying"
            BY <5>3 DEF Successors
          <5> QED BY <5>1, <5>2, <5>3 DEF DeviceMemory, MainStatus
        <4> QED BY <1>2, <4>1, LeastOf4
      <3>3. first \in DOMAIN order
        BY <3>2
      <3> QED BY <3>1, <3>3
    <2> HIDE DEF order, asked, first
    <2> DEFINE e == [d EXCEPT !.status = order[first]]
    <2>3. /\ SameProgress(e, d) /\ e.requests = d.requests /\ e.error = d.error
          /\ e.status = order[first]
      BY DEF DeviceMemory, SameProgress
    <2> QED BY <2>0, <2>1, <2>2, <2>3
  <1> QED BY <1>1, <1>2

LEMMA CommandFaultless ==
  ASSUME NEW b \in ActuatorMemory, NEW on
  PROVE  Command(b, on).fault = b.fault
  BY DEF Command, ActuatorMemory

LEMMA OutputQuiet ==
  ASSUME NEW d \in DeviceMemory, NEW cold \in BOOLEAN, NEW hot \in BOOLEAN,
         NEW air \in BOOLEAN
  PROVE  LET e == OutputFunction(Acknowledge(d), cold, hot, air)
         IN /\ SameProgress(e, d) /\ e.requests = d.requests \ {d.status}
            /\ e.error = d.error
  <1> DEFINE rest == d.requests \ {d.status}
             a == [d EXCEPT !.requests = rest]
             c1 == Command(a.coldGlycolPump, cold)
             c2 == Command(a.hotGlycolPump, hot)
             c3 == Command(a.airFlow, air)
             e == [a EXCEPT !.coldGlycolPump = c1, !.hotGlycolPump = c2, !.airFlow = c3,
                            !.ahuFan = air]
  <1>1. OutputFunction(Acknowledge(d), cold, hot, air) = e
    BY DEF OutputFunction, Acknowledge, DeviceMemory
  <1> HIDE DEF rest, c1, c2, c3
  <1>2. SameProgress(e, d) /\ e.requests = rest /\ e.error = d.error
    BY DEF DeviceMemory, SameProgress
  <1> QED BY <1>1, <1>2 DEF rest

LEMMA MainFSMQuiet ==
  ASSUME NEW d \in DeviceMemory, Calm(d)
  PROVE  LET e == MainFSM(d)
         IN /\ Calm(e) /\ SameProgress(e, d) /\ e.requests = d.requests \ {d.status}
            /\ d.status = "Standby" /\ d.requests \subseteq {"Standby"}
                 => e.status = "Standby" /\ e.requests = {}
  <1> DEFINE cold == d.status \in {"Cooling", "Drying"}
             hot == d.status \in {"Heating", "Drying"}
             air == d.status # "Standby"
             o == OutputFunction(Acknowledge(d), cold, hot, air)
             e == Update(o)
  <1>1. d.status # "Fault" /\ MainFSM(d) = e
    BY DEF MainFSM, Calm, NoAlarm
  <1>2. cold \in BOOLEAN /\ hot \in BOOLEAN /\ air \in BOOLEAN
    OBVIOUS
  <1> HIDE DEF cold, hot, air
  <1>3. /\ o \in DeviceMemory /\ Commanded(o, d, cold, hot, air) /\ o.status = d.status
        /\ SameProgress(o, d) /\ o.requests = d.requests \ {d.status} /\ o.error = d.error
    <2>1. o \in DeviceMemory /\ Commanded(o, d, cold, hot, air) /\ o.status = d.status
      BY <1>2, OutputFunctionCommands
    <2>2. SameProgress(o, d) /\ o.requests = d.requests \ {d.status} /\ o.error = d.error
      BY <1>2, OutputQuiet
    <2> QED BY <2>1, <2>2
  <1> HIDE DEF o
  <1>4. /\ SameDevices(e, o) /\ e.signalMgmt = o.signalMgmt /\ SameProgress(e, o)
        /\ e.requests = o.requests /\ e.error = o.error /\ e.status # "Fault"
        /\ o.requests = {} => e = o
    BY <1>1, <1>3, UpdateType, UpdateQuiet
  <1> HIDE DEF e
  <1>5. /\ d.coldGlycolPump \in ActuatorMemory /\ d.hotGlycolPump \in ActuatorMemory
        /\ d.airFlow \in ActuatorMemory
    BY DEF DeviceMemory
  <1>6. Faultless(e)
    BY <1>3, <1>4, <1>5, CommandFaultless DEF Commanded, SameDevices, Calm, NoAlarm, Faultless
  <1>7. SameProgress(e, d) /\ e.signalMgmt = d.signalMgmt /\ e.requests = d.requests \ {d.status}
        /\ e.error = d.error
    BY <1>3, <1>4 DEF SameProgress, Commanded
  <1>8. Calm(e)
    BY <1>4, <1>6, <1>7 DEF Calm, NoAlarm, DuctAlarm, SameProgress, Fresh, Zero
  <1>9. d.status = "Standby" /\ d.requests \subseteq {"Standby"}
          => e.status = "Standby" /\ e.requests = {}
    BY <1>3, <1>4, <1>7
  <1> QED BY <1>1, <1>7, <1>8, <1>9

(* The air distribution and the device manager. *)
LEMMA ControllerQuiet ==
  ASSUME NEW d \in DeviceMemory, NEW r \in Recipe, NEW in \in Input,
         NEW mode \in {"Init", "Run"}
  PROVE  LET e == AirDistributionController(r, d, mode, in)
         IN /\ SameProgress(e, d) /\ e.error = d.error
            /\ e.highFlowDamper.fault = d.highFlowDamper.fault
            /\ e.lowFlowDamper.fault = d.lowFlowDamper.fault
  <1> DEFINE Keeps(e) == /\ SameProgress(e, d) /\ e.error = d.error
                         /\ e.highFlowDamper.fault = d.highFlowDamper.fault
                         /\ e.lowFlowDamper.fault = d.lowFlowDamper.fault
  <1>1. Keeps(d)
    BY DEF SameProgress
  <1>2. ASSUME NEW high \in BOOLEAN, NEW s, NEW x, NEW y
        PROVE  Keeps(Enter(Throw(d, high), s, x, y))
    BY ThrowFaultless
  <1>3. ASSUME NEW s, NEW x, NEW y PROVE Keeps(Enter(d, s, x, y))
    <2> DEFINE a == [status |-> s, high |-> x, low |-> y]
    <2>1. Enter(d, s, x, y) = [d EXCEPT !.airDistribution = a]
      BY DEF Enter
    <2> HIDE DEF a
    <2> QED BY <2>1 DEF DeviceMemory, SameProgress
  <1> HIDE DEF Keeps
  <1>4. Keeps(HighPhase(r, d, in)) /\ Keeps(LowPhase(r, d, in))
    BY <1>2, <1>3 DEF HighPhase, LowPhase
  <1>5. /\ Keeps(Transition(d, d.highFlowDamper, d.lowFlowDamper, "LowPhase"))
        /\ Keeps(Transition(d, d.lowFlowDamper, d.highFlowDamper, "HighPhase"))
    BY <1>1, <1>3 DEF Transition
  <1>6. d.airDistribution.status \in AirDistributionControllerStatus
    BY DEF DeviceMemory
  <1>7. Keeps(ThrowFSM(r, d, in))
    BY <1>2, <1>4, <1>5, <1>6 DEF ThrowFSM, AirDistributionControllerStatus
  <1>8. Keeps(AirDistributionController(r, d, mode, in))
    BY <1>1, <1>2, <1>7 DEF AirDistributionController, InitAirDistribution
  <1> QED BY <1>8 DEF Keeps

LEMMA DriveFaultless ==
  ASSUME NEW in \in Input, NEW position \in Position, NEW trip \in BOOLEAN,
         NEW mode \in {"Init", "Run"}, NEW b \in ActuatorMemory, NEW c \in ActuatorConfig,
         ~b.fault, ~c.diagnosticsEnable, ~trip
  PROVE  ~Drive(b, c, mode, in, position, trip).fault
  <1> DEFINE i == [operationType |-> mode, clock |-> in.clock100ms,
                   enabledSensor |-> position.enabled, disabledSensor |-> position.disabled,
                   externalFault |-> trip]
  <1>1. i \in ActuatorInput /\ ~i.externalFault
    BY DEF ActuatorInput, Input, Position
  <1>2. Drive(b, c, mode, in, position, trip) = ActuatorScan(b, c, i)
    BY DEF Drive
  <1> HIDE DEF i
  <1> QED BY <1>1, <1>2, ScanFaultless

LEMMA ManagerQuiet ==
  ASSUME NEW d \in DeviceMemory, NEW r \in Recipe, NEW in \in Input,
         NEW mode \in {"Init", "Run"}, ~in.pumpTrip, ~r.damper.diagnosticsEnable, Calm(d)
  PROVE  LET e == DeviceManager(r, d, mode, in)
         IN /\ Calm(e) /\ SameProgress(e, d)
            /\ e.status = d.status /\ e.requests = d.requests
  <1>0. PICK no \in BOOLEAN : no = FALSE
    OBVIOUS
  <1> DEFINE cold == Drive(d.coldGlycolPump, PumpConfig, mode, in, NoPosition, in.pumpTrip)
             hot == Drive(d.hotGlycolPump, PumpConfig, mode, in, NoPosition, no)
             air == Drive(d.airFlow, PumpConfig, mode, in, NoPosition, no)
             high == Drive(d.highFlowDamper, r.damper, mode, in, in.highFlow, no)
             low == Drive(d.lowFlowDamper, r.damper, mode, in, in.lowFlow, no)
             coldValve == cold.enableRequest
             hotValve == hot.enableRequest
             e == [d EXCEPT !.coldGlycolPump = cold, !.coldGlycolValve = coldValve,
                            !.hotGlycolPump = hot, !.hotGlycolValve = hotValve,
                            !.airFlow = air, !.highFlowDamper = high,
                            !.lowFlowDamper = low]
  <1>1. /\ NoPosition \in Position /\ in.highFlow \in Position /\ in.lowFlow \in Position
        /\ in.pumpTrip \in BOOLEAN /\ r.damper \in ActuatorConfig
        /\ PumpConfig \in ActuatorConfig /\ ~PumpConfig.diagnosticsEnable
    BY PumpConfigType DEF NoPosition, Position, Input, Recipe, PumpConfig
  <1>2. /\ d.coldGlycolPump \in ActuatorMemory /\ d.hotGlycolPump \in ActuatorMemory
        /\ d.airFlow \in ActuatorMemory
        /\ d.highFlowDamper \in ActuatorMemory /\ d.lowFlowDamper \in ActuatorMemory
    BY DEF DeviceMemory
  <1>3. Faultless(d)
    BY DEF Calm, NoAlarm
  <1>4. ~cold.fault /\ ~hot.fault /\ ~air.fault
    BY <1>0, <1>1, <1>2, <1>3, DriveFaultless DEF Faultless
  <1>5. ~high.fault /\ ~low.fault
    BY <1>0, <1>1, <1>2, <1>3, DriveFaultless DEF Faultless
  <1>6. DeviceManager(r, d, mode, in) = e
    BY <1>0 DEF DeviceManager
  <1> HIDE DEF cold, hot, air, high, low, coldValve, hotValve
  <1>7. /\ e.coldGlycolPump = cold /\ e.hotGlycolPump = hot /\ e.airFlow = air
        /\ e.highFlowDamper = high /\ e.lowFlowDamper = low
        /\ e.signalMgmt = d.signalMgmt /\ e.status = d.status /\ e.requests = d.requests
        /\ e.error = d.error /\ SameProgress(e, d)
    BY DEF DeviceMemory, SameProgress
  <1> HIDE DEF e
  <1>8. Calm(e)
    BY <1>4, <1>5, <1>7 DEF Calm, NoAlarm, Faultless, DuctAlarm, SameProgress, Fresh, Zero
  <1> QED BY <1>6, <1>7, <1>8

(* One call of Main: an undisturbed device stays calm; a reset or an       *)
(* initialization stops it and clears its progress; the rules complete a   *)
(* recipe only towards Standby, and start nothing in the scan in which     *)
(* they decide to.                                                         *)
MainQuietStep(e, d, mode, reset) ==
    /\ Calm(e)
    /\ e.isCompleted => e.requests \subseteq {"Standby"}
    /\ mode = "Init" \/ reset =>
         /\ Stopped(e) /\ Fresh(e)
         /\ d.requests \subseteq {"Standby"} => e.status = "Standby" /\ e.requests = {}
    /\ mode = "Run" /\ ~reset /\ d.status = "Standby" /\ Fresh(d) => Stopped(e) /\ Fresh(e)

LEMMA MainQuiet ==
  ASSUME NEW d, NEW r \in Recipe, NEW in \in Input, NEW mode \in {"Init", "Run"},
         NEW reset \in BOOLEAN, NEW enable, enable, DeviceInv(d), Calm(d),
         ~in.pumpTrip, ~r.damper.diagnosticsEnable, mode = "Run" => InBand(r, in)
  PROVE  MainQuietStep(Main(r, d, in, mode, reset, enable), d, mode, reset)
  <1> DEFINE p == Prepare(r, d, in, mode, reset)
             o == Override(Remember(p, mode))
             c == MainFSM(o)
             x == AirDistributionController(r, c, mode, in)
             e == DeviceManager(r, x, mode, in)
  <1>0. /\ d \in DeviceMemory /\ Throwing(d)
        /\ d.coldGlycolPump \in ActuatorMemory /\ d.hotGlycolPump \in ActuatorMemory
        /\ Coupled(d.coldGlycolPump) /\ Coupled(d.hotGlycolPump)
    BY DEF DeviceInv, DeviceMemory
  <1>1. Prepared(p, d, mode, reset) /\ p \in DeviceMemory /\ PreparedQuiet(p, d, mode, reset)
    BY <1>0, PrepareStops, PrepareQuiet DEF Prepared
  <1> HIDE DEF p
  <1>2. o \in DeviceMemory /\ SamePumps(o, d) /\ Throwing(o)
    BY <1>1, OverrideStops
  <1>3. /\ Calm(o) /\ o.status = p.status /\ o.requests = p.requests
        /\ o.isCompleted = p.isCompleted
        /\ mode = "Init" \/ reset => Fresh(o)
        /\ mode = "Run" /\ ~reset /\ d.status = "Standby" /\ Fresh(d) => Fresh(o)
    BY <1>0, <1>1, RememberQuiet
  <1> HIDE DEF o
  <1>4. /\ c \in DeviceMemory
        /\ \E cold, hot, air \in BOOLEAN :
               /\ Commanded(c, o, cold, hot, air)
               /\ cold \/ hot => air
               /\ o.status \in {"Standby", "Fault"} => ~air
    BY <1>2, MainFSMCommands
  <1>5. /\ Calm(c) /\ SameProgress(c, o) /\ c.requests = o.requests \ {o.status}
        /\ o.status = "Standby" /\ o.requests \subseteq {"Standby"}
             => c.status = "Standby" /\ c.requests = {}
    BY <1>2, <1>3, MainFSMQuiet
  <1> HIDE DEF c
  <1>6. PICK cold, hot, air \in BOOLEAN :
               /\ Commanded(c, o, cold, hot, air)
               /\ cold \/ hot => air
               /\ o.status \in {"Standby", "Fault"} => ~air
    BY <1>4
  <1>7. Throwing(c)
    BY <1>2, <1>6 DEF Commanded, Throwing, InPosition
  <1>8. /\ x \in DeviceMemory /\ SamePlant(x, c) /\ ToThrow(x)
        /\ mode = "Init" => x.airDistribution.status = "Init"
    BY <1>4, <1>7, ControllerThrows
  <1>9. /\ SameProgress(x, c) /\ x.error = c.error
        /\ x.highFlowDamper.fault = c.highFlowDamper.fault
        /\ x.lowFlowDamper.fault = c.lowFlowDamper.fault
    BY <1>4, ControllerQuiet
  <1> HIDE DEF x
  <1>10. Calm(x)
    BY <1>5, <1>8, <1>9 DEF Calm, NoAlarm, Faultless, DuctAlarm, SamePlant, SameProgress,
                            Fresh, Zero
  <1>11. /\ Calm(e) /\ SameProgress(e, x)
         /\ e.status = x.status /\ e.requests = x.requests
    BY <1>8, <1>10, ManagerQuiet
  <1>12. Scans(e, x, mode)
    BY <1>8, DeviceManagerScans
  <1> HIDE DEF e
  <1>13. /\ e.requests = o.requests \ {o.status} /\ e.isCompleted = p.isCompleted
         /\ (Fresh(e) <=> Fresh(o)) /\ e.status = c.status
    BY <1>3, <1>5, <1>8, <1>9, <1>11 DEF SamePlant, SameProgress, Fresh, Zero
  <1>14. /\ x.coldGlycolPump = Command(d.coldGlycolPump, cold)
         /\ x.hotGlycolPump = Command(d.hotGlycolPump, hot)
    BY <1>2, <1>6, <1>8 DEF SamePlant, Commanded, SamePumps
  <1>15. PICK i, j \in ActuatorInput :
        /\ i.operationType = mode /\ j.operationType = mode
        /\ e.coldGlycolPump = ActuatorScan(Command(d.coldGlycolPump, cold), PumpConfig, i)
        /\ e.hotGlycolPump = ActuatorScan(Command(d.hotGlycolPump, hot), PumpConfig, j)
    BY <1>12, <1>14 DEF Scans
  <1>16. ASSUME o.status = "Standby" PROVE Stopped(e)
    <2>1. CASE mode = "Run"
      <3>1. ~cold /\ ~hot
        BY <1>6, <1>16
      <3>2. e.coldGlycolPump.enable = cold /\ e.hotGlycolPump.enable = hot
        BY <1>0, <1>15, <2>1, PumpObeys
      <3> QED BY <3>1, <3>2 DEF Stopped
    <2>2. CASE mode = "Init"
      BY <1>0, <1>15, <2>2, PumpInit, CommandType DEF Stopped
    <2> QED BY <2>1, <2>2
  <1>17. e.isCompleted => e.requests \subseteq {"Standby"}
    BY <1>1, <1>3, <1>13 DEF PreparedQuiet, Zero
  <1>18. ASSUME mode = "Init" \/ reset
         PROVE  /\ Stopped(e) /\ Fresh(e)
                /\ d.requests \subseteq {"Standby"} => e.status = "Standby" /\ e.requests = {}
    <2>1. p.status = "Standby" /\ p.requests = d.requests
      BY <1>1, <1>18 DEF PreparedQuiet
    <2> QED BY <1>3, <1>5, <1>13, <1>16, <1>18, <2>1
  <1>19. ASSUME mode = "Run", ~reset, d.status = "Standby", Fresh(d)
         PROVE  Stopped(e) /\ Fresh(e)
    BY <1>1, <1>3, <1>13, <1>16, <1>19 DEF PreparedQuiet
  <1>20. Main(r, d, in, mode, reset, enable) = e
    BY DEF Main, e, x, c, o, p
  <1> QED BY <1>11, <1>17, <1>18, <1>19, <1>20 DEF MainQuietStep

(* What an undisturbed plant shows its devices.                            *)
LEMMA UndisturbedInputs ==
  ASSUME plant \in Plants, Undisturbed, NEW in \in Inputs, NEW i \in 0..Len(plant.recipes)
  PROVE  /\ ~in.pumpTrip /\ ~Data(i).damper.diagnosticsEnable
         /\ i # 0 => InBand(Data(i), in)
  <1>1. /\ plant \in Plant /\ Len(plant.recipes) \in Nat
        /\ Data(i) \in Recipe /\ in \in Input
    BY PlantType
  <1>2. in.temp \in plant.temps /\ in.duct \in plant.ducts /\ in.pumpTrip \in plant.trips
    BY DEF Inputs
  <1>3. ~in.pumpTrip
    BY <1>1, <1>2 DEF Undisturbed, Input
  <1>4. CASE i = 0
    BY <1>3, <1>4 DEF Data, NoRecipe, UnconfiguredDamper, PumpConfig
  <1>5. CASE i # 0
    <2>1. i \in DOMAIN plant.recipes /\ Data(i) = plant.recipes[i]
      BY <1>1, <1>5 DEF Data, Plant
    <2>2. /\ ~Data(i).damper.diagnosticsEnable
          /\ in.temp < Data(i).tempSetpoint + Data(i).tempHysteresis
          /\ Data(i).tempSetpoint < in.temp + Data(i).tempHysteresis
          /\ in.duct \in Data(i).ductTempMin..Data(i).ductTempMax
      BY <1>2, <2>1 DEF Undisturbed
    <2> QED BY <1>1, <1>3, <2>2 DEF InBand, Recipe, Input
  <1> QED BY <1>4, <1>5

-----------------------------------------------------------------------------
(* The recipe management in the same installation: what each state knows.  *)
ConfigQuiet(c, size) ==
    /\ c.status \in {"Load", "WaitProcessing", "Completed", "Resetting"}
         => ~c.allConfigLoaded
    /\ c.status = "Resetting" => c.error
    /\ c.status = "WaitProcessing" => ~c.error /\ c.recipe # 0
    /\ c.status \in {"Load", "WaitProcessing"} => c.configNameListSize = size
    /\ c.status \in {"Idle", "Init"} => c.currentConfigIndex = 0
    /\ c.status = "Load" /\ ~c.busy /\ c.recipe = 0 => c.currentConfigIndex = 0

(* Between two recipes, or between a failed load and its repetition.       *)
Between(c) == c.status \in {"Resetting", "Init", "Load"} /\ ~c.busy

(* The transitions of one call.                                            *)
ConfigStep(c, q, enable, edge, size) ==
    \/ /\ c.status = "Idle"
       /\ ~Between(q) /\ q.status \in {"Idle", "Init"} /\ (enable => q.status = "Init" /\ q.busy)
    \/ /\ c.status = "Init" /\ (Between(q) <=> Between(c))
       /\ q.status \in {"Load", "Resetting"}
    \/ /\ c.status = "Load" /\ (Between(c) /\ ~q.error => ~Between(q))
       /\ (Between(q) => Between(c)) /\ q.busy = c.busy
       /\ \/ q.status \in {"WaitProcessing", "Resetting"}
          \/ q.status = "Completed" /\ q.recipe = c.recipe /\ c.currentConfigIndex >= size
    \/ /\ c.status = "WaitProcessing" /\ q.recipe = c.recipe /\ q.error = c.error /\ ~q.busy
       /\ q.status = IF edge THEN "Load" ELSE "WaitProcessing"
       /\ q.allConfigLoaded = c.allConfigLoaded
    \/ c.status = "Completed" /\ q.status = "Idle" /\ q.allConfigLoaded
    \/ c.status = "Resetting" /\ q.status = "Init" /\ (Between(q) <=> Between(c))

LEMMA ConfigScanQuiet ==
  ASSUME NEW size \in Nat, NEW c, ConfigInv(c, size), ConfigQuiet(c, size),
         NEW enable \in BOOLEAN, NEW completed \in BOOLEAN, NEW ok \in BOOLEAN
  PROVE  LET q == DeviceConfigScan(c, enable, completed, size, ok)
         IN /\ ConfigQuiet(q, size) /\ q.configCompletedOld = completed
            /\ ConfigStep(c, q, enable, completed /\ ~c.configCompletedOld, size)
  <1> DEFINE edge == completed /\ ~c.configCompletedOld
             b == [c EXCEPT !.configCompletedOld = completed]
             Good(q) == /\ ConfigQuiet(q, size) /\ q.configCompletedOld = completed
                        /\ ConfigStep(c, q, enable, edge, size)
  <1>1. /\ b \in DeviceConfigMemory(size) /\ b.status = c.status /\ b.error = c.error
        /\ b.busy = c.busy /\ b.recipe = c.recipe /\ b.allConfigLoaded = c.allConfigLoaded
        /\ b.currentConfigIndex = c.currentConfigIndex
        /\ b.configNameListSize = c.configNameListSize /\ b.configCompletedOld = completed
    BY DEF ConfigInv, DeviceConfigMemory
  <1>2. edge \in BOOLEAN /\ c.status \in DeviceConfigMgmtStatus
    BY DEF ConfigInv, DeviceConfigMemory
  <1>3. DeviceConfigScan(c, enable, completed, size, ok) =
          CASE b.status = "Idle" -> StartConfig(b, enable)
            [] b.status = "Init" -> ReadConfigList(b, size, ok)
            [] b.status = "Load" -> LoadConfig(b, ok)
            [] b.status = "WaitProcessing" -> WaitConfig(b, edge)
            [] b.status = "Completed" -> CompleteConfigs(b)
            [] b.status = "Resetting" -> ResetConfigs(b)
    BY DEF DeviceConfigScan
  <1> HIDE DEF b, edge
  <1> USE DEF ConfigQuiet, ConfigStep, Between, DeviceConfigMemory
  <1>4. CASE c.status = "Idle"
    <2>1. Good(StartConfig(b, enable))
      BY <1>1, <1>4 DEF StartConfig
    <2> QED BY <1>1, <1>3, <1>4, <2>1 DEF edge
  <1>5. CASE c.status = "Init"
    <2>1. Good(ReadConfigList(b, size, ok))
      BY <1>1, <1>5 DEF ReadConfigList
    <2> QED BY <1>1, <1>3, <1>5, <2>1 DEF edge
  <1>6. CASE c.status = "Load"
    <2>1. Good(LoadConfig(b, ok))
      <3>1. CASE b.currentConfigIndex >= b.configNameListSize
        <4>1. LoadConfig(b, ok) = [b EXCEPT !.status = "Completed"]
          BY <3>1 DEF LoadConfig
        <4> QED BY <1>1, <1>6, <3>1, <4>1
      <3>2. CASE b.currentConfigIndex < b.configNameListSize
        <4> DEFINE error == ~ok
                   recipe == IF ok THEN b.currentConfigIndex + 1 ELSE 0
                   status == IF ok THEN "WaitProcessing" ELSE "Resetting"
        <4>1. /\ error \in BOOLEAN /\ status \in {"WaitProcessing", "Resetting"}
              /\ status = "Resetting" => error
              /\ status = "WaitProcessing" => ~error /\ recipe # 0
          BY <1>1
        <4>2. LoadConfig(b, ok) = [b EXCEPT !.error = error, !.recipe = recipe,
                                            !.status = status]
          BY <1>1, <3>2 DEF LoadConfig
        <4> HIDE DEF error, recipe, status
        <4>3. /\ LoadConfig(b, ok).status = status /\ LoadConfig(b, ok).error = error
              /\ LoadConfig(b, ok).recipe = recipe
              /\ LoadConfig(b, ok).busy = b.busy
              /\ LoadConfig(b, ok).allConfigLoaded = b.allConfigLoaded
              /\ LoadConfig(b, ok).configNameListSize = b.configNameListSize
              /\ LoadConfig(b, ok).configCompletedOld = b.configCompletedOld
          BY <1>1, <4>2
        <4> QED BY <1>1, <1>6, <4>1, <4>3
      <3> QED BY <1>1, <3>1, <3>2
    <2> QED BY <1>1, <1>3, <1>6, <2>1 DEF edge
  <1>7. CASE c.status = "WaitProcessing"
    <2>1. Good(WaitConfig(b, edge))
      BY <1>1, <1>2, <1>7 DEF WaitConfig
    <2> QED BY <1>1, <1>3, <1>7, <2>1 DEF edge
  <1>8. CASE c.status = "Completed"
    <2>1. Good(CompleteConfigs(b))
      BY <1>1, <1>8 DEF CompleteConfigs
    <2> QED BY <1>1, <1>3, <1>8, <2>1 DEF edge
  <1>9. CASE c.status = "Resetting"
    <2>1. Good(ResetConfigs(b))
      BY <1>1, <1>9 DEF ResetConfigs
    <2> QED BY <1>1, <1>3, <1>9, <2>1 DEF edge
  <1> QED BY <1>2, <1>4, <1>5, <1>6, <1>7, <1>8, <1>9 DEF DeviceConfigMgmtStatus

(* The invariant of the undisturbed program.  Without the first conjuncts  *)
(* the two properties are not inductive: what a completed load will find   *)
(* is decided by what the rules left when they completed the recipe        *)
(* before, and by the initialization that a failed load leaves pending.    *)
CalmState(m, c, d, size) ==
    /\ Calm(d)
    /\ d.isCompleted => d.requests \subseteq {"Standby"}
    /\ m.mainDone => d.isCompleted
    /\ c.status # "WaitProcessing" \/ m.status # "Run" => Stopped(d) /\ Fresh(d)
    /\ Between(c) => d.status = "Standby" /\ d.requests = {} /\ size > 0
    /\ m.status = "Run" => m.enable /\ c.status # "Resetting"
    /\ c.configCompletedOld = m.mainDoneOld
    /\ ConfigQuiet(c, size)
    /\ Between(c) /\ (m.status = "Idle" \/ (m.status = "Run" /\ c.status = "Init"))
         => m.mainInitPending

CalmInv == Undisturbed => CalmState(moqui, configMgmt, dev, Len(plant.recipes))

LEMMA InitCalm == Init => CalmInv
  <1> SUFFICES ASSUME Init PROVE CalmState(moqui, configMgmt, dev, Len(plant.recipes))
    BY DEF CalmInv
  <1>0. ~ActuatorColdStart.fault /\ ~ActuatorColdStart.enable
    BY DEF ActuatorColdStart
  <1>1. dev.isCompleted = FALSE /\ Calm(dev) /\ Stopped(dev) /\ Fresh(dev)
    <2>1. SignalColdStart.signalList = {} /\ SignalColdStart.cumulativeOutputAction = {}
      BY DEF SignalColdStart, SignalOutputAction
    <2>2. dev = DeviceColdStart
      BY DEF Init
    <2>3. Zero(dev) /\ dev.lastStatus = "Standby" /\ Stopped(dev) /\ Faultless(dev)
      BY <1>0, <2>2 DEF DeviceColdStart, Zero, Stopped, Faultless
    <2>4. NoAlarm(dev)
      BY <2>1, <2>2, <2>3 DEF DeviceColdStart, NoAlarm, DuctAlarm
    <2> QED BY <2>3, <2>4 DEF Calm, Fresh, Zero
  <1>2. /\ moqui.mainDone = FALSE /\ moqui.mainDoneOld = FALSE /\ moqui.status = "Idle"
        /\ configMgmt.status = "Idle" /\ configMgmt.configCompletedOld = FALSE
        /\ configMgmt.currentConfigIndex = 0
    BY DEF Init, DeviceConfigColdStart
  <1> QED BY <1>1, <1>2 DEF CalmState, Between, ConfigQuiet

(* What the recipe management does at the beginning of each scan.          *)
LEMMA ConfigScanCalm ==
  ASSUME IInv, RunConfigMgmt
  PROVE  LET edge == moqui.mainDone /\ ~configMgmt.configCompletedOld
             size == Len(plant.recipes)
         IN ConfigQuiet(configMgmt, size)
              => /\ ConfigQuiet(configMgmt', size)
                 /\ configMgmt'.configCompletedOld = moqui.mainDone
                 /\ ConfigStep(configMgmt, configMgmt', moqui.enable, edge, size)
  <1>1. plant.commandResults \subseteq BOOLEAN /\ Len(plant.recipes) \in Nat
    BY PlantType DEF IInv
  <1>2. moqui.enable \in BOOLEAN /\ moqui.mainDone \in BOOLEAN
    BY DEF IInv, MoquiMemory
  <1>3. PICK ok \in BOOLEAN :
           configMgmt' = DeviceConfigScan(configMgmt, moqui.enable, moqui.mainDone,
                                          Len(plant.recipes), ok)
    BY <1>1 DEF RunConfigMgmt
  <1>4. ConfigInv(configMgmt, Len(plant.recipes))
    BY DEF IInv
  <1> QED BY <1>1, <1>2, <1>3, <1>4, ConfigScanQuiet

(* A scan that does not call Main leaves a calm program calm.              *)
LEMMA IdleCalm ==
  ASSUME IInv, Undisturbed, CalmState(moqui, configMgmt, dev, Len(plant.recipes)),
         RunConfigMgmt, UNCHANGED <<plant, dev>>,
         moqui'.mainDone => moqui.mainDone, moqui'.mainDoneOld = moqui.mainDone,
         moqui.status = "Run" => \/ configMgmt'.error \/ configMgmt'.busy
                                 \/ configMgmt'.allConfigLoaded,
         moqui'.status = "Run" => moqui'.enable /\ ~configMgmt'.error,
         \/ moqui'.status = "Error" \/ moqui'.mainInitPending \/ configMgmt'.busy
         \/ moqui.status = "Idle" /\ ~moqui.mainInitPending
         \/ moqui.status = "Run" /\ configMgmt'.allConfigLoaded
  PROVE  CalmState(moqui', configMgmt', dev', Len(plant'.recipes))
  <1> DEFINE edge == moqui.mainDone /\ ~configMgmt.configCompletedOld
             size == Len(plant.recipes)
             c == configMgmt
             q == configMgmt'
  <1>1. /\ Calm(dev) /\ (dev.isCompleted => dev.requests \subseteq {"Standby"})
        /\ moqui.mainDone => dev.isCompleted
        /\ c.status # "WaitProcessing" \/ moqui.status # "Run" => Stopped(dev) /\ Fresh(dev)
        /\ Between(c) => dev.status = "Standby" /\ dev.requests = {} /\ size > 0
        /\ moqui.status = "Run" => moqui.enable /\ c.status # "Resetting"
        /\ ConfigQuiet(c, size)
        /\ Between(c) /\ (moqui.status = "Idle" \/ (moqui.status = "Run" /\ c.status = "Init"))
             => moqui.mainInitPending
    BY DEF CalmState
  <1>2. /\ ConfigQuiet(q, size) /\ q.configCompletedOld = moqui.mainDone
        /\ ConfigStep(c, q, moqui.enable, edge, size)
    BY <1>1, ConfigScanCalm
  <1> HIDE DEF c, q, size
  <1>3. c.status # "WaitProcessing" \/ moqui.status # "Run"
    BY <1>1, <1>2 DEF ConfigStep, ConfigQuiet, c, q
  <1>4. Stopped(dev) /\ Fresh(dev) /\ ~moqui.mainDone
    BY <1>1, <1>3 DEF Fresh, Zero
  <1>5. Between(q) => Between(c)
    BY <1>2, <1>4 DEF ConfigStep, Between
  <1>6. moqui'.status = "Run" => moqui'.enable /\ q.status # "Resetting"
    BY <1>2 DEF ConfigQuiet, q
  <1>7. ASSUME Between(q), moqui'.status = "Idle" \/ (moqui'.status = "Run" /\ q.status = "Init")
        PROVE  moqui'.mainInitPending
    <2>1. CASE configMgmt'.busy
      BY <1>7, <2>1 DEF Between, q
    <2>2. CASE moqui.status = "Idle" /\ ~moqui.mainInitPending
      BY <1>1, <1>5, <1>7, <2>2
    <2>3. CASE moqui.status = "Run" /\ configMgmt'.allConfigLoaded
      BY <1>1, <1>2, <1>7, <2>3 DEF Between, ConfigQuiet, ConfigStep, q
    <2> QED BY <1>7, <2>1, <2>2, <2>3
  <1> QED BY <1>1, <1>2, <1>4, <1>5, <1>6, <1>7 DEF CalmState, q, size

LEMMA QuietCalm ==
  ASSUME IInv, Undisturbed, CalmState(moqui, configMgmt, dev, Len(plant.recipes)),
         UNCHANGED plant,
         \/ StayIdle \/ Start \/ StopOnConfigError \/ WaitForConfig \/ Finish
         \/ ErrorScan
  PROVE  CalmState(moqui', configMgmt', dev', Len(plant'.recipes))
  <1> DEFINE m == Begun(configMgmt')
  <1>0. moqui \in MoquiMemory /\ (moqui.status = "Run" => moqui.enable)
    BY DEF IInv, CalmState
  <1>1. RunConfigMgmt /\ UNCHANGED dev
    BY DEF StayIdle, Start, StopOnConfigError, WaitForConfig, Finish, ErrorScan, RecoverOrWait
  <1>2. m \in MoquiMemory
    BY <1>1, ScanBegins
  <1>3. /\ m.mainDone = moqui.mainDone /\ m.mainDoneOld = moqui.mainDone
        /\ m.status = moqui.status /\ m.enable = moqui.enable
        /\ moqui.mainInitPending => m.mainInitPending
    BY <1>0 DEF Begun, MoquiMemory
  <1>4. CASE StayIdle
    <2>1. moqui' = m /\ moqui.status = "Idle"
      BY <1>4 DEF StayIdle
    <2> QED BY <1>1, <1>3, <2>1, IdleCalm
  <1>5. CASE Start
    <2>1. /\ moqui.status = "Idle" /\ moqui.enable /\ ~configMgmt'.error
          /\ moqui' = [m EXCEPT !.mainDone = FALSE,
                                !.deviceConfigContextResetRequest = FALSE, !.status = "Run"]
      BY <1>5 DEF Start
    <2> HIDE DEF m
    <2>2. /\ moqui'.mainDone = FALSE /\ moqui'.mainDoneOld = moqui.mainDone
          /\ moqui'.enable = moqui.enable /\ moqui'.mainInitPending = m.mainInitPending
      BY <1>2, <1>3, <2>1 DEF MoquiMemory
    <2> QED BY <1>1, <1>3, <2>1, <2>2, IdleCalm
  <1>6. CASE StopOnConfigError
    <2>1. configMgmt'.error /\ moqui' = [m EXCEPT !.status = "Error"]
      BY <1>6 DEF StopOnConfigError
    <2> HIDE DEF m
    <2>2. /\ moqui'.mainDone = m.mainDone /\ moqui'.mainDoneOld = moqui.mainDone
          /\ moqui'.status = "Error"
      BY <1>2, <1>3, <2>1 DEF MoquiMemory
    <2> QED BY <1>1, <1>3, <2>1, <2>2, IdleCalm
  <1>7. CASE WaitForConfig
    <2>1. moqui.status = "Run" /\ configMgmt'.busy /\ ~configMgmt'.error /\ moqui' = m
      BY <1>7 DEF WaitForConfig
    <2> QED BY <1>0, <1>1, <1>3, <2>1, IdleCalm
  <1>8. CASE Finish
    <2>1. /\ moqui.status = "Run" /\ configMgmt'.allConfigLoaded
          /\ moqui' = [m EXCEPT !.enable = FALSE, !.status = "Idle"]
      BY <1>8 DEF Finish
    <2> HIDE DEF m
    <2>2. /\ moqui'.mainDone = m.mainDone /\ moqui'.mainDoneOld = moqui.mainDone
          /\ moqui'.status = "Idle"
      BY <1>2, <1>3, <2>1 DEF MoquiMemory
    <2> QED BY <1>1, <1>3, <2>1, <2>2, IdleCalm
  <1>9. CASE ErrorScan
    <2>1. PICK reset \in plant.resets, tick \in BOOLEAN : RecoverOrWait(reset, tick)
      BY <1>9 DEF ErrorScan
    <2> DEFINE n == Retry(m, tick)
    <2> HIDE DEF m
    <2>2. /\ n \in MoquiMemory /\ n.mainDone = m.mainDone /\ n.mainDoneOld = m.mainDoneOld
          /\ n.status = m.status
      <3>1. n \in MoquiMemory
        BY <1>2, RetryType
      <3>2. maxRetryCount \in Nat /\ retryOnError \in BOOLEAN /\ minRetryTime \in Nat
        BY MoquiStartAssumption
      <3>3. m.retryTime \in Nat /\ m.retryCount \in Nat
        BY <1>2, <3>2 DEF MoquiMemory
      <3> DEFINE time == m.retryTime + (IF tick THEN 1 ELSE 0)
                 count == m.retryCount + 1
      <3>4. n \in {m, [m EXCEPT !.retryTime = time],
                   [m EXCEPT !.retryCount = count, !.retryTime = 0, !.autoReset = TRUE]}
        BY <1>2, <3>2, <3>3 DEF Retry, MoquiMemory
      <3> HIDE DEF n, time, count
      <3> QED BY <1>2, <3>1, <3>4 DEF MoquiMemory
    <2>3. /\ moqui.status = "Error"
          /\ \/ moqui' = n
             \/ moqui' = [n EXCEPT !.error = FALSE, !.retryCount = 0, !.retryTime = 0,
                                   !.mainInitPending = TRUE, !.status = "Idle",
                                   !.deviceConfigContextResetRequest = FALSE]
      BY <2>1 DEF RecoverOrWait, m
    <2> HIDE DEF n
    <2>4. /\ moqui'.mainDone = m.mainDone /\ moqui'.mainDoneOld = m.mainDoneOld
          /\ moqui'.status = "Error" \/ (moqui'.status = "Idle" /\ moqui'.mainInitPending)
      BY <1>3, <2>2, <2>3 DEF MoquiMemory
    <2> QED BY <1>1, <1>3, <2>3, <2>4, IdleCalm
  <1> QED BY <1>4, <1>5, <1>6, <1>7, <1>8, <1>9

(* A scan that calls Main leaves it calm.                                  *)
LEMMA MainCalm ==
  ASSUME IInv, Undisturbed, CalmState(moqui, configMgmt, dev, Len(plant.recipes)),
         UNCHANGED plant, NEW in \in Inputs, CallMain(in)
  PROVE  CalmState(moqui', configMgmt', dev', Len(plant'.recipes))
  <1> DEFINE edge == moqui.mainDone /\ ~configMgmt.configCompletedOld
             size == Len(plant.recipes)
             c == configMgmt
             q == configMgmt'
             m == Begun(q)
             r == Data(q.recipe)
             mode == Mode(m)
             reset == m.deviceConfigContextResetRequest
             enable == m.enable
  <1>1. /\ Calm(dev) /\ (dev.isCompleted => dev.requests \subseteq {"Standby"})
        /\ moqui.mainDone => dev.isCompleted
        /\ c.status # "WaitProcessing" => Stopped(dev) /\ Fresh(dev)
        /\ Between(c) => dev.status = "Standby" /\ dev.requests = {} /\ size > 0
        /\ moqui.enable /\ c.status # "Resetting"
        /\ c.configCompletedOld = moqui.mainDoneOld
        /\ ConfigQuiet(c, size)
        /\ Between(c) /\ c.status = "Init" => moqui.mainInitPending
    BY DEF CalmState, CallMain
  <1>2. /\ RunConfigMgmt /\ ~q.error /\ ~q.busy /\ ~q.allConfigLoaded
        /\ moqui.status = "Run" /\ dev' = Main(r, dev, in, mode, reset, enable)
        /\ moqui' = [m EXCEPT !.mainDone = dev'.isCompleted, !.error = dev'.error,
                              !.mainInitPending = FALSE,
                              !.deviceConfigContextResetRequest = FALSE,
                              !.status = IF dev'.error THEN "Error" ELSE @]
    BY DEF CallMain
  <1>3. /\ ConfigQuiet(q, size) /\ q.configCompletedOld = moqui.mainDone
        /\ ConfigStep(c, q, TRUE, edge, size)
    BY <1>1, <1>2, ConfigScanCalm
  <1>4. m \in MoquiMemory /\ ConfigInv(q, size) /\ moqui \in MoquiMemory
    BY <1>2, ScanBegins DEF IInv
  <1>5. /\ m.mainDoneOld = moqui.mainDone /\ m.status = moqui.status /\ enable /\ m.enable
        /\ mode = "Init" \/ ~moqui.mainInitPending
        /\ edge => reset
    BY <1>1, <1>4 DEF Begun, MoquiMemory, Mode
  <1>6. mode \in {"Init", "Run"} /\ reset \in BOOLEAN /\ enable \in BOOLEAN
    BY <1>4 DEF Mode, MoquiMemory
  <1>7. /\ r \in Recipe /\ in \in Input /\ q.recipe \in 0..size /\ plant \in Plants
        /\ DeviceInv(dev) /\ DeviceInv(dev') /\ size \in Nat
        /\ c.status = "WaitProcessing" => c.currentConfigIndex < c.configNameListSize
        /\ c.currentConfigIndex \in Nat
    BY <1>4, PlantType, CallMainSteps DEF IInv, ConfigInv, DeviceConfigMemory
  <1>8. /\ ~in.pumpTrip /\ ~r.damper.diagnosticsEnable
        /\ q.recipe # 0 => InBand(r, in)
    BY <1>7, UndisturbedInputs
  <1> HIDE DEF r, m, mode, reset, enable, c, q, size
  <1>9. \/ c.status = "Init" /\ q.status = "Load" /\ Between(c) /\ mode = "Init"
        \/ c.status = "Load" /\ q.status = "WaitProcessing" /\ q.recipe # 0
        \/ c.status = "Load" /\ q.status = "Completed" /\ Between(c) /\ q.recipe # 0
        \/ /\ c.status = "WaitProcessing" /\ q.status \in {"Load", "WaitProcessing"}
           /\ q.recipe # 0 /\ (q.status = "Load" => edge /\ size > 0)
    <2>1. c.status \in {"Init", "Load", "WaitProcessing"}
      BY <1>1, <1>2, <1>3 DEF ConfigStep
    <2>2. CASE c.status = "Init"
      BY <1>1, <1>2, <1>3, <1>5, <2>2 DEF ConfigStep, ConfigQuiet, Between
    <2>3. CASE c.status = "Load"
      BY <1>1, <1>2, <1>3, <1>7, <2>3 DEF ConfigStep, ConfigQuiet, Between
    <2>4. CASE c.status = "WaitProcessing"
      BY <1>1, <1>3, <1>7, <2>4 DEF ConfigStep, ConfigQuiet
    <2> QED BY <2>1, <2>2, <2>3, <2>4
  <1>10. mode = "Run" => InBand(r, in)
    BY <1>8, <1>9
  <1>11. MainQuietStep(dev', dev, mode, reset)
    <2>1. MainQuietStep(Main(r, dev, in, mode, reset, enable), dev, mode, reset)
      <3>1. Calm(dev) /\ enable
        BY <1>1, <1>5
      <3>2. r \in Recipe /\ in \in Input /\ DeviceInv(dev)
        BY <1>7
      <3>3. ~in.pumpTrip /\ ~r.damper.diagnosticsEnable
        BY <1>8
      <3> QED BY <1>6, <1>10, <3>1, <3>2, <3>3, MainQuiet
    <2> QED BY <1>2, <2>1
  <1>12. Calm(dev') /\ (dev'.isCompleted => dev'.requests \subseteq {"Standby"}) /\ ~dev'.error
    BY <1>11 DEF MainQuietStep, Calm, NoAlarm
  <1>13. /\ moqui'.mainDone = dev'.isCompleted /\ moqui'.mainDoneOld = moqui.mainDone
         /\ moqui'.status = "Run" /\ moqui'.enable
    <2> DEFINE done == dev'.isCompleted
               error == dev'.error
               status == IF dev'.error THEN "Error" ELSE m.status
    <2>1. moqui' = [m EXCEPT !.mainDone = done, !.error = error,
                             !.mainInitPending = FALSE,
                             !.deviceConfigContextResetRequest = FALSE, !.status = status]
      BY <1>2, <1>4 DEF MoquiMemory
    <2>2. status = "Run"
      BY <1>2, <1>5, <1>12
    <2> HIDE DEF done, error, status
    <2>3. /\ moqui'.mainDone = done /\ moqui'.mainDoneOld = m.mainDoneOld
          /\ moqui'.status = status /\ moqui'.enable = m.enable
      BY <1>4, <2>1 DEF MoquiMemory
    <2> QED BY <1>5, <2>2, <2>3 DEF done
  <1>14. q.status # "WaitProcessing" => Stopped(dev') /\ Fresh(dev')
    <2>1. CASE mode = "Init" \/ reset
      BY <1>11, <2>1 DEF MainQuietStep
    <2>2. CASE mode = "Run" /\ ~reset
      <3>1. ASSUME q.status # "WaitProcessing"
            PROVE  dev.status = "Standby" /\ Fresh(dev)
        BY <1>1, <1>5, <1>9, <2>2, <3>1
      <3> QED BY <1>11, <2>2, <3>1 DEF MainQuietStep
    <2> QED BY <1>6, <2>1, <2>2
  <1>15. Between(q) => dev'.status = "Standby" /\ dev'.requests = {} /\ size > 0
    <2> SUFFICES ASSUME Between(q)
                 PROVE  dev'.status = "Standby" /\ dev'.requests = {} /\ size > 0
      OBVIOUS
    <2>1. CASE c.status = "Init" /\ Between(c) /\ mode = "Init"
      BY <1>1, <1>11, <2>1 DEF MainQuietStep
    <2>2. CASE c.status = "WaitProcessing" /\ edge /\ size > 0
      <3>1. dev.requests \subseteq {"Standby"} /\ reset
        BY <1>1, <1>5, <2>2
      <3> QED BY <1>11, <2>2, <3>1 DEF MainQuietStep
    <2> QED BY <1>9, <2>1, <2>2 DEF Between
  <1>16. q.status \notin {"Init", "Resetting"}
    BY <1>9
  <1> QED BY <1>3, <1>12, <1>13, <1>14, <1>15, <1>16 DEF CalmState, q, size

LEMMA NextCalm == IInv /\ CalmInv /\ [Next]_vars => CalmInv'
  <1> SUFFICES ASSUME IInv, CalmInv, [Next]_vars, Undisturbed'
               PROVE  CalmState(moqui', configMgmt', dev', Len(plant'.recipes))
    BY DEF CalmInv
  <1>1. UNCHANGED plant
    BY DEF Next, vars
  <1>2. Undisturbed
    BY <1>1 DEF Undisturbed
  <1>3. CalmState(moqui, configMgmt, dev, Len(plant.recipes)) /\ moqui \in MoquiMemory
    BY <1>2 DEF CalmInv, IInv
  <1>4. CASE UNCHANGED vars
    BY <1>3, <1>4 DEF vars
  <1>5. CASE StayIdle \/ Start \/ StopOnConfigError \/ WaitForConfig \/ Finish \/ ErrorScan
    BY <1>1, <1>2, <1>3, <1>5, QuietCalm
  <1>6. CASE MainScan
    BY <1>1, <1>2, <1>3, <1>6, MainCalm DEF MainScan
  <1>7. CASE EnableFramework \/ RequestInit
    <2>1. UNCHANGED <<configMgmt, dev>>
      BY <1>7 DEF EnableFramework, RequestInit, Supervise
    <2>2. /\ moqui'.mainDone = moqui.mainDone /\ moqui'.mainDoneOld = moqui.mainDoneOld
          /\ moqui'.status = moqui.status /\ moqui'.mainInitPending = moqui.mainInitPending
          /\ moqui.enable => moqui'.enable
      BY <1>3, <1>7 DEF EnableFramework, RequestInit, Supervise, MoquiMemory
    <2> QED BY <1>1, <1>3, <2>1, <2>2 DEF CalmState
  <1>8. CASE DisableFramework \/ SelectVentilation
    BY <1>2, <1>8 DEF DisableFramework, SelectVentilation, Undisturbed
  <1> QED BY <1>4, <1>5, <1>6, <1>7, <1>8 DEF Next

(* In an installation within the band of its recipes, with sound pumps and *)
(* supply air, the pumps have been stopped whenever the program is outside *)
(* Run: after the end of the last recipe, between two recipes and after a  *)
(* load that failed, for every list of recipes and every outcome of the    *)
(* file commands.                                                          *)
THEOREM PumpsStopOutsideRun == Spec => []StoppedUnlessRunning
  <1>1. CalmInv => StoppedUnlessRunning
    BY DEF CalmInv, CalmState, StoppedUnlessRunning, StoppedOutsideRun, Conditioning, Stopped
  <1> QED BY <1>1, InitInv, NextInv, InitCalm, NextCalm, PTL DEF Spec

(* There each recipe starts without the progress of the one before, also   *)
(* when its load failed and the list was read again.                       *)
THEOREM ProgressIsNotInherited == Spec => NoInheritedProgress
  <1>1. CalmInv => [Undisturbed /\ configMgmt.status = "Load"
                      /\ configMgmt'.status = "WaitProcessing"
                      => /\ dev.processActualDuration = 0 /\ dev.actualRuntime = 0
                         /\ ~dev.isCompleted /\ ~dev.timeBreakEnabled]_vars
    BY DEF CalmInv, CalmState, Fresh, Zero
  <1> QED BY <1>1, InitInv, NextInv, InitCalm, NextCalm, PTL DEF Spec, NoInheritedProgress
=============================================================================
