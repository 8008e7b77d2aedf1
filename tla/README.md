# Verification of the moqui-plc control framework and its tools

This directory holds TLA+ specifications of the Structured Text in
`src/iec61131/moqui` and of the Python tools that turn the surveys of a plant into
a PLC program, TLC configurations that check them on small instances, and proofs
that TLAPS checks. Below, `F` stands for
`src/iec61131/moqui/framework/src/main/org/moqui`, `START` for
`src/iec61131/moqui/framework/src/start`, `HVAC` for
`src/iec61131/moqui/runtime/component/mantle-hvac/src/main` and `SKILLS` for
`src/.agents/skills`.

1. [The system](#1-the-system)
2. [The modules and the code](#2-the-modules-and-the-code)
3. [What the runs show](#3-what-the-runs-show)
4. [Environment, fairness and bounds](#4-environment-fairness-and-bounds)
5. [What is proved](#5-what-is-proved)
6. [Disagreements between code and documentation](#6-disagreements-between-code-and-documentation)
7. [What is not covered](#7-what-is-not-covered)
8. [Plan](#8-plan)

To repeat a check: `tlc -workers 2 -config Devices.cfg MCDevices` and
`tlapm DeviceProofs.tla` (the pairs of module and configuration are in
`PROJECT.json`, `runs`).

## 1. The system

moqui-plc is a framework for PLC programs, an HVAC application built on it, and a
chain of engineering tools that generate further applications.

**On the controller.** A PLC runs *tasks*: programs that the runtime calls again and again, each call a
*scan* that reads inputs, computes and writes outputs. Function blocks keep their
variables from scan to scan. Four tasks run (`src/iec61131/configuration.st`):
`StartTask` (10 ms, priority 1), `MqttParameterSubTask` (1 s, priority 1),
`LogDispatcherTask` (1 s, priority 3) and `MqttParameterPubTask` (3 s, priority
3). Within a task everything is sequential; a task of a higher priority preempts
one of a lower priority between any two of its statements.

```
 supervision ──requests, enable, init──┐
                                       v
 StartTask:  ClockGeneration ─> MoquiStart ─┬─> DeviceConfigMgmt ─> DeviceConfigCmds ─> recipe files
                                            └─> HVAC Main ─┬─> DeviceDiagnostics ─> SignalMgmt
                                                           ├─> MainRuleEngine
                                                           └─> DeviceManager ─> Actuator, ActuatorGroup, ...
                 every block ─> LoggerFacade ─> LogRingBuffer
                                                     ^ preempted reads
 LogDispatcherTask:  LogDispatcher ─> MqttLogAppender ─> MqttConnectionFactory ─> broker
 MqttParameterPub / MqttParameterSub ────────────────────────┘
```

**On the engineer's desk.** A *design session* is a directory of survey files that a
person fills in: the tree of subsystems, devices, signals, controllers, groups, live
parameters and one FSM for each supervisor. Tools check them, derive a *seed* (the
rows of the supervision's database) and, from seed and surveys together, one PLC
application for each top-level subsystem. Separate tools convert the canonical
Structured Text for other controllers.

```
 init_session ─> survey files <── engineer edits
                    │  validate_upstream_surveys, render_guided_questions ─> session.json
                    v
       render_seed_from_surveys ─> seed ─> validate_transport_projection
                    │                │
                    v                v
       render_codesys_applications ─┬─> render_statusflow_templates         (Main, MainRuleEngine)
         (one run, all applications)├─> render_device_catalog_from_seed     (facade, I/O)
                                    ├─> render_live_parameter_mapper
                                    └─> subsystem controllers, manifests ─> import ─> controller

 iec61131/moqui ─> prepare-ax-process-build (process | motion | full) ─> simatic-ax/src/moqui
                     hand-written overrides kept in memory meanwhile ┘
```

### Inventory

| Component | State it keeps | Operations | Interactions | What is hard, and what makes it right |
|---|---|---|---|---|
| `Actuator` (`F/device/Actuator.st`) | FSM Disabled, EnablePhase, Enabled, DisablePhase; one timer; outputs `enable`, `disable`; faults | Init scan, Run scan | Requests are `VAR_IN_OUT`: caller and block write the same variable, its falling edge is the acknowledgement | Requests reversed or doubled in any phase; a timer used by the diagnostics after the FSM re-armed it. Outputs agree with the FSM, requests are acknowledged truthfully, nothing waits for ever unnoticed |
| `ActuatorGroup` (`F/device/ActuatorGroup.st`) | FSM Disabled, Running, Stopping, Autochange; priority order; swap step; three TONs | one scan | Commands up to `ACTUATOR_GROUP_MAX_SIZE` actuators through shared request arrays; sees the effect one scan later | Staging, recovery and rotation decide on counts that are one scan old and may coincide. Minimum and maximum are kept, one actuator at a time is given up, the order is never corrupted, a stop and a rotation end |
| `SignalMgmt` (`F/diagnostics/SignalMgmt.st`) | list of active signals, edges of the reset buttons, cumulative outputs | Reset, Prepare, Process | Called once to prepare a cycle and once per signal | Outputs are built up over calls; a held button. Outputs agree with the list, one press resets once |
| `MoquiStart` (`START/MoquiStart.st`) | Idle, Run, Error; enable, init, pending Init; retry count and time | one scan | Calls the recipe management and the component; its `ec` is written by both | Flags raised, passed on and cleared in one scan whether or not they were served. No inherited progress, every error is retried |
| `DeviceConfigMgmt`, `DeviceConfigCmds` (`F/device`) | FSM, current recipe, command in progress | Init, Load, Reset | Recipe files through an external recipe manager | A load that fails between two recipes |
| HVAC `Main`, `MainRuleEngine`, `DeviceDiagnostics`, `DeviceManager` (`HVAC`) | phase (Standby, Cooling, Heating, Drying, Ventilation, Fault), counters of run, break and duration, pumps, fan | Init scan, Run scan | Diagnostics, rules and device calls in one fixed order per scan | Overrides between phases and the fault override write the same outputs; predicates are one scan old. No conditioning without air, an alarm stops everything, recipes complete |
| `LoggerFacade`, `LogRingBuffer` (`F/context`) | ring with head, tail, size, overflow count; last message; registration | Push, Peek, Pop, Clear, IncrementLast; log call | One buffer per logger, shared with the dispatcher's task | Six commands on one ring; a counter that wraps. The ring is a bounded log, nothing goes unrecorded |
| `LogDispatcher`, `MqttLogAppender` (`START`, `F/mqtt`) | source index, per logger a mark (last size, last overflow); mapper and publisher | one scan | Copies a buffer while its logger may write it; one publisher for all loggers; MQTT client | Preemption between reads; a connection that comes and goes. Marks never run ahead, a batch is not forgotten, what is published is what was committed |
| `AirDistributionController` (`HVAC`) | phase of the air throw, two counters | Init, Run, Standby | Sequences two damper actuators on their acknowledgements | Change-over on the acknowledgements of two devices. Never both dampers closed, a throw is counted in position |
| `EdgeTrigStatusMgr`, `LevelCtrlStatusMgr` (`F/device`) | PLCopen command FSM, two timers | one scan | none in the repository | Abort and reset handshakes without timeout |
| `ProcessPid` (`F/device`) | PID, ramps, four TONs, sleep and boost flags | one scan | none in the repository but tests | Modes that exclude each other and timers that outlive them |
| `Axis`, `AxisGroup` (`F/motion`) | FSM of 39 and 19 states, execute flags, a pending command | one scan | PLCopen blocks of the drive | Buffered and aborted commands, stop and errors at any time: no execute flag may survive |
| `MqttParameterPub`, `MqttParameterSub`, `MqttConnectionFactory` | client, mapper, publisher, parser | one scan each | One connection called from three tasks | Preemption between calls to the one connection, messages that overtake a running parser |
| Engineering surveys (`SKILLS/moqui-plant-designer/scripts/survey_validation.py`) | survey files, `session.json` | validate, ask guided questions | read by every other tool | Some hundred rules over ten tables. What they accept must be enough for the tools behind them |
| Session setup (`init_session.py`) | survey files, context, `session.json` | start or resume | a session that exists is left alone | Killed between files; a session that can be resumed is complete |
| Seed renderer (`render_seed_from_surveys.py`), transport validator | seed | render draft or final, validate | resolves each signal to a connection, gateway or request | Two rule sets that must agree. Requests of a seed name only what is in it |
| PLC code generators (`SKILLS/moqui-plc-designer/scripts`) | bundles, manifests, project manifest | one run over all applications, four tools for each | read surveys and seed again, each with its own walk over the plant | Runs that fail or die half-way over the files of earlier runs; what one tool takes for granted of another. A listed bundle is whole and of one run |
| Generated application (`Main.template.pou`, `MainRuleEngine.template.pou`, `SubsystemController.template.pou`) | status, requests, flags | Init scan, Run scan | two texts meet in request flags | The program does what the reviewed FSM says; a fault stops at once; no device is commanded both ways |
| SIMATIC AX staging (`src/scripts/prepare-ax-process-build.py`, `ax_port/policy.py`) | target tree, report | one run in one of three profiles | deletes and rewrites a tree with hand-written files in it | Runs of different profiles in any order, killed at any file. A finished run is exact, no handwork is lost |
| the rest | see [section 7](#7-what-is-not-covered) | | | |

The chief hazards of the code, each at its line with the properties that watch it,
are listed in `PROJECT.json`, `hazards`; section 7 names those no property watches.

## 2. The modules and the code

### On the controller

A function block is modelled by a record with its variables and by an operator that
maps the record and the inputs of a call to the record after the call: the file is
named `...FB.tla`. One step of a component's module is one whole scan (or one call),
with everything the scan does, in the order of the code. The module of the
component adds the environment: caller, mechanism, process, operator, other tasks.
`PROJECT.json`, `map`, gives the lines of the code for every definition.

| Module | Models | Built on |
|---|---|---|
| `ActuatorFB` | the block Actuator: `InitHandler`, `ClockHandler`, feedback, one operator per FSM state, `Diagnose`, `Actuate`, joined in `ActuatorScan` | |
| `Actuator` | one Actuator, an arbitrary caller, and a mechanism that is sound or arbitrary | `ActuatorFB` |
| `ActuatorGroup` | the whole group with its actuators: one step calls every actuator and then the group. One action per branch of the FSM: `InvalidScan`, `DisabledScan`, `StopGroup`, `RunningScan`, `StoppingScan`, `AutochangeScan` | `ActuatorFB` |
| `EvenWearSort` | the group's in-place sort, comparison by comparison. `ActuatorGroup` uses the order the sort produces | |
| `SignalMgmtFB`, `SignalMgmt` | the block, and the cycle Prepare, Process, Process, ... with causes and buttons that change between any two calls | |
| `DeviceConfigFB` | the recipe management with the commands Init, Load, Reset | |
| `HvacFB` | `Main` of the HVAC component with rules, diagnostics, air distribution, pumps and dampers (each an Actuator) and the signals it raises | `ActuatorFB`, `SignalMgmtFB` |
| `MoquiStart` | the program: one action per branch of its scan, plus the supervision | `HvacFB`, `DeviceConfigFB` |
| `BoundedLog` | *abstract*: a log of the last `Capacity` events | |
| `LogRingBufferFB` | the ring buffer and the facade | |
| `Axis` | the block Axis, its caller and the drive: `DetectError`, `HandleError`, `PowerOff` and `EmergencyStop` before the FSM, then one operator per kind of state, since the states of the commands repeat one text: `DoState` (with `Finish` and `Replace`), `CheckState`, `OutState`; joined in `AxisCall`. The drive's blocks are the set that shows Done | |
| `LogDispatch` | loggers and dispatcher; the dispatcher's scan is split at every read of a shared buffer: `BeginScan`, `CopySlot`, `ReadOverflow`, `ReadSize`, `SkipSource` or `CommitSource`, `AppendLog`. Refines `BoundedLog` | `LogRingBufferFB` |
| `DeviceProofs` (Actuator and Axis), `ActuatorGroupProofs`, `EvenWearSortProofs`, `SignalMgmtProofs`, `MoquiStartProofs`, `LogDispatchProofs` | theorems | |

### On the desk

The rules are operators over surveys and seeds, which are records of tables; a tool
is a sequence of actions, one for each file it writes. Between two writes it can be
killed, and where the code raises `SystemExit` it gives up and leaves what it has
written.

| Module | Models | Built on |
|---|---|---|
| `SurveyRules` | the tables with their defaults, the two validations, the guided questions | |
| `SeedRules` | the seed that is derived from surveys, and the validation of its transports | `SurveyRules` |
| `PlcRules` | what the generators of Main, facade, mapper and subsystem controllers require, declare and assign, and the program they write (`ProgramOf`) | `SeedRules` |
| `DesignSession` | the session: `WriteSurveys` ... `WriteSession` (init_session), `WriteNotes`, `RecordNotes` (guided questions), `Validate`, `ValidateForSeed`, `WriteSeed`, `RecordSeed` (seed renderer), `ValidateForPlc`, `RenderStatusflow` ... `WriteManifest`, `WriteProject` (generators), `Edit` and `Crash` | `PlcRules` |
| `GeneratedMain` | the three templates, scan by scan, over any program | |
| `Engineering` | session, import of a bundle and the scans of what was imported | `DesignSession`, `GeneratedMain` |
| `AxStaging` | the policies, the run file by file, the audit | |
| `EngineeringProofs`, `AxStagingProofs` | theorems | `Engineering`, `AxStaging` |

`MC*` modules are the instances TLC checks, of both parts. Each module states its
type (`TypeOK`, or `Types` in the last two proof modules); only that of `Actuator` is also
an invariant of a run, the others are proved or served while the module was built.

### Abstractions

On the controller:

* Log messages are left out of every module but `LogDispatch`.
* REAL values (temperatures, demand, run hours, thresholds) matter only by their
  order and are small naturals.
* A TON is `off`, `on` or `done`: it may take any number of scans to elapse.
* Clock pulses are chosen anew for every scan.
* Actuators of a group are scanned before the group, as its header prescribes
  (`ActuatorGroup.st`, usage). As a consequence "Cancel pending starts" of the
  group meets requests that the actuators have already consumed or will drop.
* `PRIORITY` order means single-core preemption: a logger's call is one step for
  the dispatcher, the dispatcher's reads are many for the loggers.

On the desk:

* A row keeps the keys that a rule or a generator reads; texts that are only tested
  for presence share a flag (`named`, `described`); letter case is normalised.
* A text that becomes an identifier is the sequence of its words, so that
  `to_lower_camel` and the like are what they are, a function that forgets separators;
  an expression is the sequence of its names. Names of one word suffice for the runs.
* Enumerations of the vendor data, polling times, IEC types, comments and the order of
  the rows in a seed are left out. Predicates do not read one another.
* A file is written at once. The files one tool writes without a check between them
  (Main and its rule engine, with the facade they need; catalog and I/O) are one step.
* Tools run one at a time; surveys and trees are edited between runs.
* The subsystems of a run are generated in one fixed order. Supervisors of different
  subsystems have different names, and so have the directories of their components.
* The converter of `AxStaging` is a function of the version of the canonical text. The
  audit compares with the canonical text, as the code does; `Reshaped` says of which texts
  the converter changes comments or indentation. Stems and directories are compared in
  lower case through `LowerCase`, whole paths as spelt, and the prefix rule of
  `should_include` is the set `Process`.

## 3. What the runs show

| Run | Question and answer |
|---|---|
| `devices` | An Actuator or an Axis, which share nothing. Actuator: all twelve pairs of feedback and actuation type, with variants of every parameter. The outputs agree with the FSM (`OutputsFollowStatus`); contradictory requests do not survive a scan (`ScanResolvesContradiction`); a position is entered only when its sensors show it, and a request is dropped only in its position or for an overriding request; where the position was entered before, the sensors may have changed, and then the scan that drops the request raises the fault, if anything is diagnosed (`RequestsAcknowledged`); with a sound mechanism a scan shows an internal fault only if it reverses the command (`FalseAlarmOnlyOnReversal`), so never at rest; a request is resolved or a fault is raised (`RequestsResolved`). Axis: five programs over aborting and buffered commands, synchronization, services, stops and a missing reference, with a drive that fails and loses power at any time. Nothing is executed but what the state waits for or has buffered (`OnlyCurrentRuns`); each command starts on a fresh edge and is reported (`CommandsAccounted`); each command and each disengagement ends (`CommandsEnd`) |
| `group_safety` | Groups of two and three, staged, rotating, wearing evenly, growing and shrinking, one actuator tripping or interlocked. The order stays a permutation, the maximum is kept, demand stops keep the minimum and a rotation costs one actuator (`CapacityKept`), a disabled group has stopped |
| `group_live` | A stop and a rotation end (`PhasesEnd`), and a steady demand is followed |
| `group_sort` | The sort of four actuators ends in the stable sorted order for all hours and previous orders |
| `group_recovery` (violation) | `FaultRecovered`, see section 6 |
| `signals` | Outputs agree with the list after every cycle; one press resets a signal once |
| `hvac` | Five plants. Any weather with re-initialization and manual ventilation; alarms with resets; the framework disabled and enabled; two recipes whose files may fail to load; alternating air throws with dampers whose sensors show either position or none. No conditioning without air, and a stop alarm stops both in the same scan (`SafeOutputs`); a phase of low throw is counted only with both dampers in position, and no scan of a throw commands both open or both closed (`ThrowsInPosition`); the two groups overlap only in Drying; a duct violation stops everything one scan later; progress is not inherited, recipes complete, errors are retried, pumps stand still outside Run |
| `finished_unstopped`, `fault_recovery` (violations) | see section 6 |
| `log_dispatch` | Buffers are bounded logs (`RefinesBoundedLog`), events are recorded, marks never run ahead of the buffers, the payload is the committed batch, and a batch is served (`BacklogIsServed`) |
| `engineering` | Seven versions of surveys, edited twice, tools killed anywhere. A session that exists is complete and names only what exists; accepted surveys give a valid seed (`SeedIsProjectable`); the project manifest lists whole bundles of its own run; a live parameter the broker may write is mapped in its application (`LiveWritesAreMapped`). Then any listed application is imported and run: it takes the reviewed transitions, in their order (`MainFollowsReview`), a fault gives the outputs of the fault state in the same scan (`FaultStopsAtOnce`), no actuator is told to start and to stop (`CommandsAgree`) |
| `ax_staging` | Runs of three profiles in any order over an edited tree. A finished run leaves what its profile says, whatever the tree held, and the audit then reports the files the converter has reshaped and no other (`FinishedRunIsExact`); an override that all profiles know is never lost by runs that end (`HandworkSurvives`) |

Every property has a mutant: a definition of the module with a plausible bug
(`PROJECT.json`, `mutants`) under which the property fails in the same run.

Properties with a restriction, and why:

* `FalseAlarmOnlyOnReversal` is checked for the actuation types that retain their
  output. With `DoubleActuationNoRetain` the
  pulse ends, the next scan's diagnostics compares the feedback with an output that
  is off, and the block reports a fault at rest. An initialization of an actuator that is
  not identified diagnoses nothing, and leaves the fault it finds: it is excepted too.
* `CapacityKept` has two parts: the minimum is about the modes without rotation and an
  unchanged configuration; that a rotation costs one excludes EvenWear, where a staged
  stop and a swap may choose different actuators in one scan.
* `MarksNeverAhead` holds below the wrap of `overflowCount`, and for buffers that
  are not emptied behind their facade.
* `PayloadIsCommitted` excludes a client that reports an error: then `busy` is
  cleared without a reset of the publisher, and an old payload may be published
  again.
* `StoppedUnlessRunning`, `NoInheritedProgress` and `RecipesComplete` are about a cell
  within the band of its recipes, with sound pumps and supply air, dampers whose
  diagnostics is off, and a supervision that neither disables the framework nor selects a
  state by hand (`Undisturbed`); the last also about one that requests no initialization,
  which would start the recipe again. Elsewhere the first is refuted by `finished_unstopped`; a drying recipe
  whose break ends outside the inner window waits until the temperature returns; and a
  framework that was disabled in the scan of a completion runs rules with the old recipe
  after the reset of the progress.
* `SeedIsProjectable` is about gateways whose membership in a group has the standard
  purpose and about surveys some domain of which lists signals (of others the seed has
  no request, and the validator finds no projection), `LiveWritesAreMapped` and
  `MainFollowsReview` about code generated from surveys
  and the seed of the same surveys. Section 6 tells what happens otherwise.
* `MainFollowsReview` is about a supervisor whose FSM is `Disciplined`, which no tool asks
  of it: at most one transition between two states; requests assigned by transitions
  only, one of the supervisor's own giving nothing but the request of the state it leads to,
  one to a subsystem none at all; the latter after the former and without an assignment
  to `status`; no state but that of the fault called fault. And Main is not alone: a
  subsystem called after it may move it, by a transition of its own from the status it is in
  (`MovedBySubsystem`). The run reaches scans with disciplined supervisors, with others, and
  with a supervisor a subsystem moved elsewhere.
* `FaultStopsAtOnce` leaves out what is assigned again after Main's outputs, by the
  transitions Main takes from the fault state and by subsystem controllers (`LaterTargets`),
  and fields that are assigned twice in the fault state.
* `CommandsAgree` is about actuators that are commanded by activation and deactivation
  alone: a reviewed assignment, predicate or request of the same name may set one of the two
  fields without the other, and no rule of the surveys forbids it (`AssignedByHand`).
* `OnlyCurrentRuns` and `CommandsAccounted` are about commands that abort, or about a buffer
  that works (`Orderly`): every command can be buffered and none is replaced in the scan
  that finds it done. They except what a stop leaves executing (`LeftBehind`). Section 6.
  `CommandsEnd` is about commands that abort, and not about Jog, which ends with its command.
* `HandworkSurvives` is about runs that end, for the tree is deleted first.

## 4. Environment, fairness and bounds

**Fairness.** Each assumption is something the PLC's runtime does, never something
an operator, a device or a broker is asked to do.

| Module | Assumption | Why |
|---|---|---|
| `Actuator` | `WF(ClockedScan)` | The task is cyclic and ClockGeneration keeps pulsing |
| `Axis` | `WF(Answered)`: a scan in which every block that was executed before and still is shows Done | The task is cyclic, and a PLCopen block that stays executed ends with Done or Error. The caller and the drive's faults are not restricted. In `MCDevices` the same two assumptions, each for the block that runs |
| `ActuatorGroup` | `WF(TimePasses)`: a clocked scan without commands in which every TON that runs elapses | The same; a TON with a standing input elapses. In every state such a scan is possible, so that commands are allowed and never owed |
| `MoquiStart` | `WF(Second)` on the variable that changes with `clock1s` | `MoquiStart` calls ClockGeneration first in every scan, whatever its status |
| `LogDispatch` | `WF(Dispatch)`, `SF(AppendLog("up", "done", "done"))` | The dispatcher is cyclic and the control task does not use up the processor; the strong fairness says that a broker that is tried again and again answers once. It speaks only of plants in which the connection can be up |
| `DesignSession`, `Engineering`, `AxStaging` | none | Nothing obliges a person to run a tool, and what the tools promise is safety |

Deadlock is checked in every run but `group_sort`, where a finished sort stops, and
`engineering` and `ax_staging`, where everything may be done and no edit be left.

**Bounds.** All are constants, and named.

| Run | Bound | Why it is enough |
|---|---|---|
| `devices`, Actuator | `Travel` = 2, limits 1 to 4 | Limits below, at and above the travel time; the timer reaches zero in the middle of a phase. A sound mechanism needs less time than its limit, because an Init scan that is itself clocked costs one pulse |
| `devices`, Axis | programs of three or four of the 24 commands, with all references or none | One command of each class that the code tells apart, after, behind and in place of each of another class. Commands of one class have the same text but for their names |
| `group_*` | `MaxSize` 3 (live: 2), one actuator that trips or locks, `maxHours` 2 | Two decisions that coincide need one actuator to stop, one to start, one bystander. Tripping plants and rotating plants are checked apart to keep the runs small; interlocks are left out of the live and of the wearing plants |
| `group_sort` | four actuators, hours 0..2 | Six comparisons, early exits after each pass, ties |
| `signals` | two signals | Every pair of policies that interact: manual, auxiliary, conditioned, unconditioned |
| MoquiStart runs | setpoint 3, band 2..4, limits 1 and 5; durations of 1 to 5 pulses, throws of one; dampers that need one pulse of 100 ms before they are diagnosed; `minRetryTime` 2, `maxRetryCount` 1 | Every predicate is true and false, runs and breaks end before, with and after the duration; both change-overs of a throw happen, with faults, breaks and re-initializations in them. The counters of the code are UINT and are never near their limit |
| `log_dispatch` | three slots, batches of two, counters that wrap at 3, up to two overflows with a broker | A full buffer, a batch below the size of the buffer, overflow while the dispatcher reads, and the wrap (with the dispatcher off) |
| `engineering` | eight versions: the empty template; one pump; the pump with a domain that lists no signal; a draft of it with a further state and a second transport; a state machine with two transitions of one pair, behind a gateway of another purpose; two cells with two controllers, a shared broker and a subsystem with an FSM of its own; the two cells under one application id; the pump with a live parameter whose key no text of the program can hold; `MaxEdits` 2 | Any version after any other, also back, with seeds and bundles of both about. Every rule is evaluated on all versions; rejections come from the template, drafts, name clashes and bundles that were left half-way |
| `ax_staging` | eight sources, one of each kind the policies tell apart, two texts in `src-manual`, three that may be hand-written, one asset; `MaxEdits` 2 | Each profile after each other, a text the converter reshapes and stems the prefix rule excludes among the sources, with a source edited or an override rewritten in between, and with globals that make the run give up |

The TLA+ constants of the group (`autochangeLevel`, the start and stop points) keep
the relation the header asks for: demand `k` asks for `k` actuators.

## 5. What is proved

Assumptions are the named `ASSUME`s of the modules (`ActuatorAssumption`, `AxisAssumption`,
`GroupAssumption`, `SortAssumption`, `SignalAssumption`, `LogAssumption`, `DispatchAssumption`,
`MoquiStartAssumption`, `SurveysAssumption`, `StagingAssumption`): the types of the constants, that sizes are
positive and that the signals of an application have distinct codes. Each proof is for every value of them.

**`DeviceProofs`**, Actuator (all configurations, any mechanism, any travel time)

* `TypeCorrect`: every part of a scan keeps the type of the memory, one lemma per
  part, composed in the order of the scan.
* `OutputsCorrect`: `OutputsFollowStatus` is not inductive: it says nothing of
  `disable` of a single-acting actuator in states that do not enable it, and a start
  from such a state would leave both outputs on. `OutputInv` adds the type and that
  single-acting actuators never disable. In the middle of a scan the agreement does
  not hold; there the lemmas use the weaker `Commanded`, which the FSM establishes
  (`StatusMachineCommands`), the diagnostics keep (`DiagnoseCommands`) and the
  post-elaboration turns into agreement (`ActuateAgrees`).
* `ContradictionResolved`, `HandshakeCorrect` (of `RequestsAcknowledged`): action properties, by cases on the
  FSM state before the scan; the diagnostics and the post-elaboration are shown not
  to touch the requests (`OutputKeepsHandshake`). What the feedback predicates say of the
  sensors is `FeedbackShown`; that a request dropped in `Enabled` or `Disabled` either meets
  them or meets the fault is `ElaborateAcknowledges`, over every feedback and actuation type.
* `FalseAlarmsCorrect`: of `FalseAlarmOnlyOnReversal`. That the alarm is silent says
  nothing of how close it is; `SoundInv` counts: while the output is on, at least as many
  pulses are left on the timer as positions are left to travel, and the same on the way
  back (`InTime`), and an actuator that commands neither is where it started (`AtRest`).
  The limits exceed the travel (`Ample`), so a command, an Init handler and the clocked
  scan it may be part of re-arm the timer with enough; and a timeout finds the mechanism
  arrived, where the feedback agrees with the output unless this scan has turned it
  (`FeedbackSound`, `DiagnoseAlarms`).

**`DeviceProofs`**, Axis (any programs over all the commands, any drive)

* `FlagsCorrect`, `CommandsCorrect`: of `OnlyCurrentRuns` and `CommandsAccounted`. The
  first is not inductive, for it allows a buffered command anywhere: `Ordered` adds that one
  is buffered only behind a command that can have one behind it, that it is the one
  remembered, is executed already and is another one than the current; and that without
  one the command remembered is the current. `Moves(a, f)` is that the scan from `a` to `f`
  keeps `Ordered` and does what `CommandsAccounted` asks. One lemma for each kind of state
  shows it, and `CallOrder` composes them with the three stages before the FSM, which
  either leave the memory alone or decide the scan.
* `AxisTypeCorrect`: the drive shows Done only for what is executed, which the lemmas on
  the FSM do not need.

**`ActuatorGroupProofs`** (groups of any size, any plant, any thresholds, any one
configuration of the actuators)

* What the group decides in a scan it decides on the outputs its actuators have just
  shown. `ScannedFollows` is what the group may rely on: an actuator is on only if it was
  on or requested, and a request that is left belongs to an actuator that is on. It needs
  `Phased` (an actuator in EnablePhase is on), which is therefore part of the invariant.
* `Loaded` is the set of actuators that run or are about to. Since a scan of the actuators
  adds none, and the group starts one at a time and only below the maximum
  (`RunningKept`), `MaximumKept` would be inductive but for the swap, which starts a
  replacement without counting. `Safe` adds that the place of the actuator that is to stop
  is free already, `PlaceFree`: without it `Loaded` is at most `maxRunning - 1`.
* `MaximumCorrect` and `DisabledCorrect` are about a configuration that does not change at
  run time: a maximum that is lowered takes no running actuator down at once, and a group
  that shrinks abandons what it no longer counts. `TypeCorrect` and `OrderCorrect` hold
  with any change.
* `OrderCorrect`: each operation on the priority order permutes the entries in use
  (`RotateOrder`, `MoveToEndOrder`, `EvenWearOrders`), and new slots take their own number,
  which nobody else has (`FilledOrder`). `EvenWearOrder` places a slot behind those that go
  before it, and counting them is an injection of the slots in use into themselves.

* `CapacityCorrect`: of `CapacityKept`, which is about two scans: a stop is decided in one
  and carried out in the next, and a count in between would count the actuator still.
  `CInv` adds to `GInv` what the group holds in reserve (`Reserve`): the actuators that run
  and will still run after the next scan (`Staying`) are as many as the minimum asks, and
  one less than run during a swap. The actuators themselves keep what they are not asked
  to stop, and leave no stop request of before (`Keeps`); it needs that the output follows
  the status (`Coupled`). The theorem assumes a configuration that does not change, and an
  actuation other than DoubleActuationNoRetain (`Retained`): there the output is a pulse,
  and the enable that the group counts goes away by itself.

**`EvenWearSortProofs`** (any number of actuators, any hours)

* `SortTypeCorrect`, `SortPermutes`: the inductive invariant is the type with the
  bounds of `j` in each pass, and the permutation; `ExchangePermutes` is the lemma
  about one exchange.
* `SortCorrect`: of `EndsSortedAndStable`. `Progress` says what each comparison has
  established: the places behind the present pass hold what belongs there (`Sunk`), the
  slot under comparison comes after all that the pass has left behind (`Carried`), a pass
  that has exchanged nothing has met slots in order (`Untouched`, which justifies the
  early exit), and slots of equal rank stand as they stood (`Stable`). It rests on the
  rank being a total preorder (`RankOrder`).

**`SignalMgmtProofs`** (applications with any signals, any list size)

* `Invariance`: within a cycle neither property holds, so `IInv` states both for the
  part of the cycle that is done. `OutputsInv`: the outputs are those of the latched
  signals whose call has been made (`Counted`), except before the first call ever.
  `PressInv`: a signal that a press has reset (`Spent`) cannot be reset by it again,
  because it is not in the list and its call in this cycle is over. That is what carries
  the claim over a reset of the supervisor, which forgets the held button but the
  list too.
* `OutputsAgree`, `PressesSpentOnce`: of `OutputsAgreeWithList` and `OnePressResetsOnce`.

**`MoquiStartProofs`** (any set of installations: recipes, sensor values, damper
configurations and sensors, trips, outcomes of the file commands, supervision)

* The proof goes by calls: each part of `Main` has a lemma that says what it leaves to the
  next one, composed in `MainSafe`. After `Prepare` a stop alarm that stands comes with a
  fault request or meets Standby (`PrepareStops`); the override turns that into a state
  that commands nothing (`OverrideStops`, `MainFSMCommands`); and the pumps do in the same
  scan what they are commanded (`PumpObeys`). The last needs `Coupled`, that the output of
  a pump follows the status of its FSM, because the next scan starts from the status: with
  `SafeDevices` and the types it is the invariant, `DeviceInv`.
* `OutputsStaySafe`, `GroupsStaySeparate`, `DuctViolationsStop`: of `SafeOutputs`,
  `GroupsOverlapOnlyInDrying` and `DuctViolationStops`. The second and third are about a
  step, `MainStep`: both pumps only out of Drying; and a duct alarm is in the signal list
  after the diagnostics (`DiagnosticsType`), whatever the other calls of the scan add.
* `ThrowsStayInPosition`: `ThrowsInPosition` says nothing of the change-over. `Throwing`
  adds that in every state of the controller one damper is opening or open and the other
  closing or closed, and that a request that is gone was acknowledged *in position*
  (`Opens`, `Closes`). An actuator with any configuration and any sensors keeps that
  (`ElaborateAnswers`), because it clears a request only when its status agrees; the
  controller reads the requests only before it commands again (`ThrowFSMThrows`). An Init
  call, in which an actuator may preset its status, resets the controller first.
* `TypesHold`: of `TypeOK`, with `ConfigInv`: the index of a recipe that is awaited lies
  below the end of the list.
* `PumpsStopOutsideRun`, `ProgressIsNotInherited`: of `StoppedUnlessRunning` and
  `NoInheritedProgress`. Both depend on a protocol of several scans between the recipe
  management, the program and Main, which `CalmState` states. Outside the processing of a
  recipe the devices are stopped and the progress is zero. That a completed recipe leaves
  them so needs what the rules left when they completed it: the only request that may
  stand is the one of Standby. That the edge of the completion, which the recipe
  management and the program see each in a variable of its own, resets the context in the
  scan in which the next recipe is due needs that the two variables agree. After a failed
  load, an initialization is pending when the list has been read again (`Between`).
  `MainQuietStep` is what one call of Main adds to that, composed from one lemma for each
  part: the device stays without alarm and without its causes (`Calm`), because the cell
  is within the band and nothing is diagnosed; and the last state is Standby only as long
  as nothing has been counted (`Fresh`). `Undisturbed` cannot be weakened to the sensors
  alone: a cell outside the band refutes the first property (`finished_unstopped`).

**`LogDispatchProofs`** (buffers of any size, any number of loggers, every plant)

* `TailCorrect`: `Sound(r)` (type and tail) is preserved by each command of the
  buffer, one lemma each, and by the facade's call; `LoggersInv` carries it over the
  steps of both tasks.
* `MarksCorrect`: `MarksNeverAhead` is not inductive: a commit takes over what was
  read earlier. `Inv` adds that what the dispatcher has read so far in this scan is
  at most what the buffer holds now and at least the mark of the source it is
  reading. It holds because without direct commands sizes and overflow counts only
  grow (`RingGrows`), below the wrap.

* `BuffersAreLogs`: `Spec => RefinesBoundedLog`. The refinement mapping `Contents` reads
  the slots from `head` on, around the end of the array. `Good(r)` adds to `Sound(r)`
  that these slots hold real events: without it what is read could be a blank slot,
  which `LastRead` maps to nothing read. One lemma for each command says what the step
  is to the log (`Recorded`, `Repeated`, `Peeked`, `Popped`, `Cleared` or `Kept`); a
  command is an action of `BoundedLog` or, on an empty buffer, a stutter. `Plant` leaves
  the command Push out of what is given to a buffer directly: only the facade pushes
  (`LoggerFacade.st:116`).
* `EventsCorrect`: of `EventsAreRecorded`. That the newest event is the facade's last
  message is preserved by each kind of step of the log (`NewestKept`,
  `NewestRecorded`), whoever makes it. Hence a duplicate is never counted in an empty
  buffer as long as nobody else has taken the event (`Holds`).

* `PayloadCorrect`: of `PayloadIsCommitted`, for a client that reports no error (`Steady`).
  `Pipeline` says how mapper and publisher of an appender stand between two calls: the
  publisher is under way exactly when the mapper is done, with `busy` for either.
  `CommitInv` adds that the dispatcher reads no other buffer while something is under way,
  and that what is under way is the committed snapshot. `ExecuteCarries` is the call itself,
  with any connection and any outcome of the two external blocks.

**`EngineeringProofs`** (any list of survey versions, any number of edits and any plant; the
first four theorems whatever the rules compute of a version, the others of what they compute)

* `Invariance`: `IInv` is inductive. To the three claims below it adds `Types`; `ToolInv`,
  what each tool has found or written when it reaches a step; `PlcInv`, that the
  subsystem the generators work on, those before it and those to come are distinct ones
  of the present surveys; `StepInv`, which parts of the present bundle are of this run
  at each step; and `DoneInv`, that finished bundles stay whole. The last is the point:
  two subsystems with one application id overwrite each other's manifest, and the ids
  are compared only at the end, so the invariant can say no more than that the manifest
  is that of *some* finished subsystem with that id.
* `SessionsComplete`, `RecordsTrue`: the invariants of the session, for every place a
  tool can be killed.
* `ManifestTrue`: `ManifestDescribesBundles`. When `WriteProject` has found the ids
  distinct, "some subsystem with that id" is the subsystem itself.
* `SeedsProjectable`: of `SeedIsProjectable`. `Sound` says of surveys that the rules accept
  them, that the renderer does not refuse them, that their tables are tables and that the
  property is about them. The lemmas from there derive the rules of the validator from it, request by
  request: those of a domain over a gateway or a connection, those over one channel, and
  the writes of live parameters. Both sides read the surveys through `Select`, the rows a
  condition keeps, so the proof rests on one fact about data, `KeptRows`: a row is kept
  iff it is in the table and wanted. It is an induction over the length of a table, stated
  as a smallest counterexample (`SmallestOf`, from `WFMin` of the library), which needs no
  induction rule with an operator parameter. The assumption is `SurveysAssumption`: what
  is listed in a survey is a sequence, as `_as_list_of_dicts` enforces, the name of a
  device or of a state is a sequence of words, and `precedence` and `call_sequence` are
  integers, as the loader's `int()` sees to.
* `EngineeringInvariance`: `EInv` adds to the session's `IInv` what ties a scan to it: a
  program that runs was generated completely (`Compilable`: a manifest is written last,
  and `Import` takes only what a manifest lists), and none runs before one is imported.
* `ActuatorsAgree`: of `CommandsAgree`. Each part of a scan is shown to keep two fields
  apart that are given opposite values by the outputs of every status and assigned by
  nothing else (`OutputsOnly`): the rule engine, the rest of Main, each controller, and the
  controllers one after the other (`ControlledOpposite`, an induction over their number,
  for which `ControlledSteps` derives the steps from the recursive function). The outputs a
  generator writes are such (`OutputsOpposed`): whatever devices and nested controllers a
  state activates and deactivates, the two request fields of an actuator occur together and
  with opposite values. That rests on names: of the fields of another device none is the
  request field of this one, for a field name ends where its last word begins (`LastWord`).
* `FaultsStopAtOnce`: of `FaultStopsAtOnce`. The gate of the engine evaluates the reviewed
  condition over the same fields as the review, so the request of the fault stands in the
  scan itself and Main's override is taken; what is not among the later targets stays as
  the outputs put it, through the applied branch and every controller
  (`ControlledElsewhere`).
* `ReviewFollowed`: of `MainFollowsReview`. Two texts are generated apart, the engine from
  the seed, in its order, and Main from the surveys; `Mirrors` says what both owe to one FSM,
  branch by branch and place by place, and `ProgramMirrors` derives it from the rules
  and the generators (`OrderedPlaces`: numbers no two rows share put each row in one
  place). For a program that mirrors a disciplined FSM, the engine withdraws all requests
  and then asks for what the first open transition asks for (`EngineAsks`), and of Main's
  branches that one is taken (`SuperviseMoves`, `MainFollows`).
  `ControlledSends`, an induction over the controllers, says of one that changes
  the supervisor's status afterwards that its branch is a reviewed transition. For that
  the controllers need their fields: `FieldsInvariance`, a second invariant beside `EInv`.

**`AxStagingProofs`** (any canonical tree, any overrides and assets, any number of edits
and of runs, killed anywhere)

* `Invariance`: `IInv` says where things are at each step of a run. `FoundInv`: the
  overrides in memory are those of `src-manual` or else of the tree as the run found it;
  `TreeInv`: between the deletion and the first file the tree is empty, and from then on
  it holds only what the profile includes or memory keeps, each with its text, and every
  included source already passed; `HandInv`: handwork is in the tree before the
  deletion and in memory after it.
* `HandworkKept`: of `HandworkSurvives`. The handover between the two halves of `HandInv`
  rests on `OverridesNested`: each profile keeps at least what `process` keeps.
* `RunsExact`: of `FinishedRunIsExact`, from `TreeInv` at the end of the sources. Of the audit
  it says that what it reports is the reshaping of the converter: every override lies in the
  stems the audit skips, and every other file has the text of now.

**Model-checked only.** All liveness, since TLAPS 1.4.5 does not reason about ENABLED:
`RequestsResolved`, `CommandsEnd`, `PhasesEnd`, `DemandFollowed`, `RecipesComplete`,
`ErrorIsRetried` and `BacklogIsServed`. Of the safety properties one, `LiveWritesAreMapped`:
it holds of the versions of the run but not of every survey the rules accept, since a group
of devices need not lie in one subsystem. No module uses RECURSIVE.

## 6. Disagreements between code and documentation

Three runs refute a statement of the documentation; the quotations are in
`PROJECT.json`, `findings`.

| Run | Statement | What the code does |
|---|---|---|
| `group_recovery` | The group starts a standby when a fault takes it below its minimum (`ActuatorGroup.st:38-39`) | A tripped actuator keeps `enable`, counts as running, and no standby is started |
| `finished_unstopped` | A completed recipe is held in Standby until the next one (`MainRuleEngine.st:184-186`) | A request computed in the scan that completes the last recipe outlives the context reset and is acted on; the program then goes idle, calls Main no more, and pump and fan keep running |
| `fault_recovery` | Main waits in Fault for the alarms to be cleared, and an Init leads back to Standby (`Main.st:259`, `HvacTestSuite.st:68`) | `Main.error` is cleared in state Fault only, which the Init call leaves; the program fails for ever |

Met while modelling, kept in the models as the code has it, and not runs of their own:

* Heating "switches to Heating temporarily, then returns to Drying once tempOverMin"
  (`MainRuleEngine.st:226-227`), but `lastStatus` is overwritten in the second scan of
  Heating and the condition of line 284 then never holds.
* A generated application: "a state persists until a reviewed transition condition
  asserts the corresponding request" (`MainRuleEngine.template.pou:11-12`), but a scan of
  Init sets the initial status and then consumes requests that the last scan of Run left
  (`Main.template.pou:57-61`). As an action property: a scan of Init may end in another
  state than the initial one.
* The air distribution "implements a Make-Before-Break transition"
  (`AirDistributionController.st:7`), but one damper is told to close in the scan in which
  the other is told to open; which position comes first is left to the mechanics. The
  first high throw is counted from its command, without the wait that later ones have
  (lines 51-58); so is a throw that a recipe's context reset starts anew.
* "Both sides" of an assignment must be reviewed (`SKILL.md:99` of the PLC designer);
  of subsystem controllers only `apply_assignments` is checked.
* Overrides under `simatic-ax/src/moqui` are said to be preserved (`simatic-ax/README.md`,
  lines 36, 64, 96, 263); a run that is killed, or that gives up because the canonical
  globals lack `VAR_GLOBAL`, has deleted the tree. The next run regenerates those files
  from the canonical source, and the audit does not notice, for it skips overrides.
* The converter "deliberately preserves comments, indentation, blank lines"
  (`ax_port/transforms.py:202`), but `flatten_nested_comments` (lines 131-166) rewrites
  nested comments. A finished run of profile `full` therefore leaves five files the audit
  reports, of the repository as it is: `LevelCtrlStatusMgr`, `processCyclicOutFieldbusData`,
  `RemoteIoModuleDiagnostics`, `Filter` and `WorkEffort`. After `process` and `motion`, which
  stage none of them, it reports nothing.

Other behaviour worth a look, kept in the models as the code has it:

* A nominal start raises `actuatorFault` for one scan (`Actuator.st:172`).
* A group reports `underMinimum` from its start, `autochangeActive` through an
  aborted rotation; with an invalid configuration it reports Disabled while actuators
  run; a group that shrinks abandons what it no longer counts.
* The count of retries is cleared by each reset, so `maxRetryCount` does not limit
  consecutive failures; and `autoReset`, once set, is never cleared, so later errors
  are retried without `minRetryTime`.
* A framework disabled while a phase runs leaves the devices as they are.
* The pump acknowledges a request that the second device of the group has not seen.
* A request for a position already entered is dropped without a look at the sensors
  (`Actuator.st:196`, 224). The fault of the same scan is then all that tells, and of a pulsed
  actuator that has drifted from Enabled to the disabled sensor there is none: its output is
  off, which agrees with that sensor.
* The dispatcher's copy of a buffer and its size may disagree by the events pushed
  in between; a batch committed while the client is not connected is published only
  with the next one; after the wrap of the overflow count a full buffer waits.
* **Axis.** In a buffered mode a command that is replaced in the very scan that finds the
  active one done leaves a buffered command in a state that never takes it
  (`Axis.st:780-836` after 747-779), and a command that cannot be buffered ends in Ready
  with the active block still executed (lines 830-833). An emergency stop leaves the
  services, GearOut and CamOut executed (lines 460-484), and the next of them has no edge.
  A disengagement is waited for whatever the command; Ready powers off unless the caller
  sets `axisEnable` again, which the end of the homing has cleared (line 550).
* **Surveys and seed.** A gateway whose membership has another purpose than
  `DgmpEdgeGateway`, rows of a gateway given twice, and several scoped or unscoped plc4j
  connections pass the validation and fail, or resolve to one of them, in the seed. No
  signal in any domain gives "no projection". A status id shared between flows
  passes the validation, and the seed refuses it unless type and name agree (the default
  types differ). Device, signal and domain ids may be given twice and the last row wins. A subsystem
  without a `DG_` group leaves its devices in no application. The guided questions say
  that the upstream data are complete without controllers or groups.
* **Seed and code.** A hybrid domain ("both") makes I/O names collide, and so does a live
  parameter whose key is the name of a signal. Live parameters of an unknown controller,
  or of several with a tree without root, are mapped in no application. Signal names must
  be unique in an application, which no validation asks. Of two transitions between the
  same states Main uses the first and the engine the last. A transition whose request
  assignments leave out its own request is generated and never taken. A state that an older seed
  lacks is generated without code. The generators test neither the age nor the approval
  of a seed, and a draft replaces a final seed at the same path.
* **Runs of the generators.** Application ids are compared when bundles and manifests are
  already written. A run that fails or dies leaves the old manifests beside a new Main
  with a facade that is still a placeholder; `Engineering!Import` therefore asks for a
  whole bundle.
* **Generated application.** Subsystem controllers run after Main's outputs and may
  override those of a fault, and the status. Nothing assigns `error`. An FSM without a
  fault state ignores faults; a fault state named in the FSM and another one named
  "Fault" share a request. An acknowledgement given before the fault takes effect after
  it. The facade's initial status is the first by sequence, Main's Init uses `isInitial`.
* **AX.** A text that `src-manual` also has is overwritten where it was edited under
  `src/moqui`. A run of `process` drops motion overrides that only the target has, which
  `test_motion_policy` intends.

## 7. What is not covered

* The status managers, `ProcessPid`, `AxisGroup`, parameter replication and `ClockGeneration`: planned, section 8.
* Floating point: the PID law, ramps, filters and conversions of representation
  (`F/util`). TLC cannot enumerate them and their control is trivial.
* Signal updates (their bodies are commented examples), fieldbus mappings (stateless),
  network diagnostics (not called), parameter lists and JSON mappers (assignments
  without control), entities and configuration (declarations).
* Vendor libraries (MQTT, JSON, recipes, PLCopen motion blocks, the CODESYS IDE):
  external, modelled by the outcomes the code distinguishes.
* Conversion of texts (`convert-iec61131-to-ax.py`): regular expressions without memory
  between files. `AxStaging` takes its result as a function of the version, and what it does to
  comments and indentation as a constant.
* Tools beside the chain: exporters of recipes and of CODESYS projects, the compiler
  check, dossiers, seed templates, gateway guides, the validator of generated texts, the
  staging for the C runtime (the scheme of `AxStaging` again).
* The other ports (`src/iot-firmware`, `src/rust-plc`), generated or written from the
  Structured Text, which is their reference; generated examples; test suites.
* Within the modelled parts: `DeviceConfigCmds` without Create, Save and Delete, which
  no code calls; the HVAC component without the signals of invalid
  controller configurations and the warning of the duct humidity; its
  valves and its fan are outputs without feedback. Of the generated applications,
  `DeviceManager` and the function blocks it calls are the framework's.

Hazards that no property watches, because the component is not modelled or the code
offers nothing to hold on to:

| Where | What |
|---|---|
| `Actuator.st:278` | With `DoubleActuationNoRetain` the diagnostics compare the sensors with an output that the end of the scan before has taken back (section 3) |
| `ActuatorGroup.st:227` | A configuration that becomes invalid while actuators run reports Disabled and returns |
| `MainRuleEngine.st:203` | After a break outside the inner window no rule of Standby applies to a drying recipe |
| `LogDispatcher.st:36` | The copy of a buffer and its metadata are read in different steps; they may disagree |
| `LogRingBuffer.st:38` | `overflowCount` wraps to 1; until it has caught up with the mark a full buffer is not urgent |
| `MqttConnectionFactory.st:95` | One instance is called from tasks of priority 1 and 3 |
| `EdgeTrigStatusMgr.st:83`, `LevelCtrlStatusMgr.st:166` | The timeouts count in Executing only: an abort that is never confirmed waits for ever |
| `ProcessPid.st:322` | Sleep, wake-up, boost and dead band: four timers whose conditions exclude each other, on an output that is one scan old |
| `Actuator.st:164` | The UINT timer is decremented in every clocked scan, also with zero limits and after an Init in the middle of a phase. `TypeCorrect` proves that it does not wrap |
| `MqttParameterSub.st:74` | A message that arrives while the parser runs replaces the payload under it |

## 8. Plan

The order is by weight for the system: first what every device depends on, then
what combines devices, then the program, then the services.

| Step | Modules | State |
|---|---|---|
| 1 | `ActuatorFB`, `Actuator`, `DeviceProofs` | done |
| 2 | `ActuatorGroup`, `ActuatorGroupProofs`, `EvenWearSort`, `EvenWearSortProofs` | modelled, checked; the safety of the group and the sort proved |
| 3 | `SignalMgmtFB`, `SignalMgmt`, `SignalMgmtProofs` | modelled, checked, proved |
| 4 | `DeviceConfigFB`, `HvacFB`, `MoquiStart`, `MoquiStartProofs` | modelled, checked; all safety proved |
| 5 | `BoundedLog`, `LogRingBufferFB`, `LogDispatch`, `LogDispatchProofs` | modelled, checked; the refinement and four invariants proved |
| 6 | `SurveyRules`, `SeedRules`, `PlcRules`, `DesignSession`, `GeneratedMain`, `Engineering`, `EngineeringProofs` | modelled, checked; the session, the seed, the commands of devices, the fault stop and the reviewed transitions proved |
| 7 | `AxStaging`, `AxStagingProofs` | modelled, checked, proved |
| 8 | The air distribution in `HvacFB`. Left: that throws alternate, as a liveness property with sound dampers | modelled, checked |
| 9 | `CommandFB`, `CommandLifecycle`: edge- and level-triggered managers. Abstract specification: a PLCopen command (idle, busy, then exactly one of done, error, aborted). Refinement by both | next |
| 10 | `Axis` with the drive's blocks as environment. Left: an abstract specification, a queue of at most one pending command, and `CommandsEnd` for buffered commands | modelled, checked; both safety properties proved |
| 11 | `AxisGroup`, sharing the pattern of 10 | after 10 |
| 12 | `ProcessPidModes`: sleep, boost, wake-up, dead band, tracking and freeze, without the PID law | after 10 |
| 13 | `ParameterReplication`: publisher, subscriber and dispatcher on one connection | after 10 |
| 14 | `FirmwareStaging` as a second instance of the scheme of `AxStaging`; the validator of generated texts as an operator over `ProgramOf` | after 13 |

Where further runs would be too many, plants of one component share a run, as those of
`MCMoquiStart` and `MCLogDispatch` do, or components that are alike, as in `MCDevices`.

Theorems, in the order of their worth:

1. `LiveWritesAreMapped`: validator and generator walk the plant differently, one along the
   groups of devices, the other along the tree of subsystems. It needs a hypothesis that
   the two agree, which no tool tests.
2. That the order `EvenWearSort` ends with is the `EvenWearOrder` of `ActuatorGroup`.
3. The refinements of step 9.
