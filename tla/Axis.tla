-------------------------------- MODULE Axis --------------------------------
(***************************************************************************)
(* One Axis function block, the program that calls it and the PLCopen      *)
(* blocks of the drive.                                                    *)
(*                                                                         *)
(* A scan of the block samples the command, runs the diagnostics and the   *)
(* FSM on what the drive's blocks showed after the last scan, and calls    *)
(* each of them with its Execute input.  A block starts on the rising edge *)
(* of Execute, takes any time, and shows Done until Execute falls; any     *)
(* block may fail at any time.                                             *)
(***************************************************************************)
EXTENDS Naturals

CONSTANT AxisPlants     \* the programs and axes considered

(* Commands, and the classes the code tells apart.                         *)
Services == {"ReadParameter", "ReadBoolParameter", "WriteParameter",
             "WriteBoolParameter", "TouchProbe", "AbortTrigger"}
Profiles == {"PositionProfile", "VelocityProfile", "AccelerationProfile"}
Synchronizing == {"GearIn", "GearInPos", "CamIn"}
Positioning == {"MoveAbsolute", "MoveRelative", "MoveAdditive", "MoveSuperimposed"}

(* The states in which a new command is buffered, the commands that can be *)
(* buffered, the states left for a check of the parameters, and the        *)
(* commands that need a reference.                                         *)
Buffering == Positioning \cup Profiles \cup {"Phasing", "Halt", "SetPosition"}
Bufferable == Buffering \cup Synchronizing \cup {"MoveVelocity"}
Checked == Positioning \cup Synchronizing \cup {"MoveVelocity"}
Referring == Synchronizing \cup Profiles \cup {"Phasing", "TouchProbe", "AbortTrigger"}
Motions == Bufferable \cup {"HaltSuperimposed"}
AxisCmd == Motions \cup Services \cup {"Idle", "Jog", "Stop"}

(* The blocks of the drive, by the command they carry out.  Jog has no     *)
(* Execute, Power is of its own.                                           *)
DisengageOf(c) == IF c = "CamIn" THEN "CamOut" ELSE "GearOut"
Blocks == Motions \cup Services \cup {"Stop", "Home", "Reset", "GearOut", "CamOut"}

(* internalStatus: Do is the state of the command current (StoppingState   *)
(* for Stop), Check its check state, Out the disengagement.                *)
AxisStep == {"NotPowered", "WaitPower", "Powered", "Ready", "Do", "Check", "Out",
             "Error", "WaitReset"}
AxisMemory ==
    [step: AxisStep, current: AxisCmd, oldCmd: AxisCmd, raised: SUBSET Blocks,
     hasPending: BOOLEAN, pendingCmd: AxisCmd,
     commandExecuted: BOOLEAN, commandAborted: BOOLEAN, resetOld: BOOLEAN]
AxisColdStart ==
    [step |-> "NotPowered", current |-> "Idle", oldCmd |-> "Idle", raised |-> {},
     hasPending |-> FALSE, pendingCmd |-> "Idle",
     commandExecuted |-> FALSE, commandAborted |-> FALSE, resetOld |-> FALSE]

(* What a scan samples.  changed: a parameter that the present state checks *)
(* differs from the one remembered.  fault: a block of the drive shows an  *)
(* error, or the drive is in ErrorStop.  powered: Status of its MC_Power.  *)
AxisInput ==
    [cmd: AxisCmd, axisEnable: BOOLEAN, aborting: BOOLEAN, reset: BOOLEAN,
     changed: BOOLEAN, fault: BOOLEAN, powered: BOOLEAN]

AxisPlant ==
    [commands: SUBSET AxisCmd, aborting: BOOLEAN, references: SUBSET Referring]

ASSUME AxisAssumption == AxisPlants \subseteq AxisPlant

-----------------------------------------------------------------------------
(* Diagnostics, with the recovery from an error.                           *)
DetectError(a, in) ==
    IF a.step \notin {"Error", "WaitReset"} /\ in.fault
    THEN [a EXCEPT !.step = "Error", !.commandAborted = TRUE]
    ELSE a

HandleError(a, in, done, edge) ==
    CASE a.step = "Error" ->
           [a EXCEPT !.commandExecuted = FALSE, !.hasPending = FALSE,
                     !.raised = IF edge THEN @ \cup {"Reset"} ELSE @,
                     !.step = IF edge THEN "WaitReset" ELSE @]
      [] a.step = "WaitReset" /\ "Reset" \in done ->
           [a EXCEPT !.commandExecuted = FALSE, !.commandAborted = FALSE,
                     !.raised = {}, !.hasPending = FALSE, !.oldCmd = "Idle",
                     !.step = "NotPowered"]
      [] OTHER -> a

(* The checks before the FSM: enable withdrawn, and the emergency stop,    *)
(* which supersedes the motion but no service and no disengagement.        *)
Commandable(a) == a.step \in {"Ready", "Do", "Check", "Out"}
Stopping(a) == a.step = "Do" /\ a.current = "Stop"

PowerOff(a, in) ==
    IF ~in.axisEnable /\ Commandable(a)
    THEN [a EXCEPT !.raised = {}, !.hasPending = FALSE,
                   !.commandAborted = a.step # "Ready", !.step = "NotPowered"]
    ELSE a

(* Mutant: the command that the stop supersedes is not reported. *)
UnreportedEmergencyStop(a, in) ==
    IF in.cmd = "Stop" /\ Commandable(a) /\ ~Stopping(a)
    THEN [a EXCEPT !.raised = (@ \ Motions) \cup {"Stop"}, !.oldCmd = "Stop",
                   !.step = "Do", !.current = "Stop"]
    ELSE a

EmergencyStop(a, in) ==
    IF in.cmd = "Stop" /\ Commandable(a) /\ ~Stopping(a)
    THEN [a EXCEPT !.raised = (@ \ Motions) \cup {"Stop"},
                   !.commandAborted = a.step # "Ready", !.oldCmd = "Stop",
                   !.step = "Do", !.current = "Stop"]
    ELSE a

-----------------------------------------------------------------------------
(* The FSM.  Each state first reads Done, then the command.                *)
Initialize(a, in, done) ==
    CASE a.step = "NotPowered" ->
           [a EXCEPT !.raised = {}, !.hasPending = FALSE,
                     !.step = IF in.axisEnable THEN "WaitPower" ELSE @]
      [] a.step = "WaitPower" /\ in.powered ->
           [a EXCEPT !.raised = @ \cup {"Home"}, !.step = "Powered"]
      [] a.step = "Powered" /\ "Home" \in done ->
           [a EXCEPT !.raised = @ \ {"Home"}, !.step = "Ready"]
      [] OTHER -> a

Accepted(cmd, references) ==
    cmd \notin {"Idle", "Stop"} /\ (cmd \in Referring => cmd \in references)
ReadyState(a, in, references) ==
    LET b == [a EXCEPT !.commandExecuted = FALSE, !.commandAborted = FALSE]
    IN IF Accepted(in.cmd, references)
       THEN [b EXCEPT !.raised = @ \cup ({in.cmd} \ {"Jog"}), !.oldCmd = in.cmd,
                      !.step = "Do", !.current = in.cmd]
       ELSE b

(* A command that is carried out, with a buffered one behind it or not.    *)
Finish(a) ==
    LET c == a.current
        b == [a EXCEPT !.raised = @ \ {c}]
    IN IF a.hasPending /\ c \in Buffering
       THEN [b EXCEPT !.hasPending = FALSE,
                      !.commandExecuted = FALSE, !.commandAborted = FALSE,
                      !.step = IF a.oldCmd \in Bufferable THEN "Do" ELSE "Ready",
                      !.current = a.oldCmd]
       ELSE [b EXCEPT !.commandExecuted = TRUE,
                      !.step = IF c \in Checked THEN "Check" ELSE "Ready"]

(* Mutant: the Execute flag of the buffered command stays. *)
AbortLeavingPending(a, c) ==
    [a EXCEPT !.raised = @ \ {c}, !.commandAborted = TRUE, !.step = "Ready",
              !.hasPending = IF c \in Buffering THEN FALSE ELSE @]

(* Another command than the remembered one, in the state of command c.     *)
Abort(a, c) ==
    [a EXCEPT !.raised = @ \ ({c} \cup IF a.hasPending /\ c \in Buffering
                                       THEN {a.pendingCmd} ELSE {}),
              !.hasPending = IF c \in Buffering THEN FALSE ELSE @,
              !.commandAborted = TRUE, !.step = "Ready"]
Disengage(a, c) ==
    [a EXCEPT !.raised = (@ \ {c}) \cup {DisengageOf(c)},
              !.commandAborted = TRUE, !.step = "Out", !.current = c]
Buffer(a, cmd) ==
    LET b == [a EXCEPT !.pendingCmd = cmd, !.oldCmd = cmd]
    IN IF cmd \in Bufferable
       THEN [b EXCEPT !.hasPending = TRUE, !.raised = @ \cup {cmd}]
       ELSE [b EXCEPT !.hasPending = FALSE, !.commandAborted = TRUE, !.step = "Ready"]

Replace(a, c, in) ==
    CASE c \in Synchronizing -> Disengage(a, c)
      [] c \in Buffering /\ ~in.aborting /\ ~a.hasPending -> Buffer(a, in.cmd)
      [] OTHER -> Abort(a, c)
DoState(a, in, done) ==
    LET c == a.current
        b == IF c \in done THEN Finish(a) ELSE a
    IN IF c # "Stop" /\ in.cmd # b.oldCmd THEN Replace(b, c, in) ELSE b

(* Mutant: the disengagement is waited for and not executed. *)
UndrivenCheckState(a, in) ==
    IF in.cmd # a.oldCmd
    THEN [a EXCEPT !.commandExecuted = FALSE,
                   !.step = IF a.current \in Synchronizing THEN "Out" ELSE "Ready"]
    ELSE a

CheckState(a, in) ==
    CASE in.cmd # a.oldCmd ->
           IF a.current \in Synchronizing
           THEN [a EXCEPT !.commandExecuted = FALSE, !.step = "Out",
                          !.raised = @ \cup {DisengageOf(a.current)}]
           ELSE [a EXCEPT !.commandExecuted = FALSE, !.step = "Ready"]
      [] in.cmd = a.oldCmd /\ in.changed ->
           [a EXCEPT !.commandExecuted = FALSE, !.step = "Do",
                     !.raised = @ \cup {a.current}]
      [] OTHER -> a

OutState(a, done) ==
    LET out == DisengageOf(a.current)
    IN IF out \in done THEN [a EXCEPT !.raised = @ \ {out}, !.step = "Ready"] ELSE a

AxisFSM(a, in, done, references) ==
    CASE a.step \in {"NotPowered", "WaitPower", "Powered"} -> Initialize(a, in, done)
      [] a.step = "Ready" -> ReadyState(a, in, references)
      [] a.step = "Do" -> DoState(a, in, done)
      [] a.step = "Check" -> CheckState(a, in)
      [] a.step = "Out" -> OutState(a, done)

(* One call of the block.                                                  *)
AxisCall(a, in, done, references) ==
    LET edge == in.reset /\ ~a.resetOld
        b == DetectError([a EXCEPT !.resetOld = in.reset], in)
        c == HandleError(b, in, done, edge)
        d == EmergencyStop(PowerOff(c, in), in)
    IN IF c.step \in {"Error", "WaitReset"} THEN c ELSE AxisFSM(d, in, done, references)

-----------------------------------------------------------------------------
VARIABLES
    axis,       \* memory of the block
    drive,      \* the drive's blocks that show Done
    site,       \* the program and the axis
    raced       \* history: a command was replaced in the scan that found it done
axisVars == <<axis, drive, site, raced>>

AxisInit ==
    /\ axis = AxisColdStart /\ drive = {} /\ raced = FALSE
    /\ site \in AxisPlants

(* A block whose reference is missing is not called.  One that is done     *)
(* stays so while it is executed.                                          *)
Called == Blocks \ (Referring \ site.references)
Replaced(in) ==
    ~in.aborting /\ axis.step = "Do" /\ axis.current \in drive /\ in.cmd # axis.oldCmd
AxisScan(in) ==
    /\ axis' = AxisCall(axis, in, drive, site.references)
    /\ drive' \in SUBSET (axis'.raised \cap Called)
    /\ drive \cap axis'.raised \subseteq drive'
    /\ raced' = (raced \/ Replaced(in))
    /\ site' = site

(* The caller writes the command and the enable before each scan, the      *)
(* enable again because the block clears it at the end of the homing.  An  *)
(* input that one state only reads has a value of no account in the others. *)
ReadIn(step) == IF axis.step = step THEN BOOLEAN ELSE {FALSE}
AxisInputs ==
    [cmd: site.commands, aborting: {site.aborting}, axisEnable: BOOLEAN,
     reset: BOOLEAN, changed: ReadIn("Check"), fault: BOOLEAN,
     powered: ReadIn("WaitPower")]
AxisNext == \E in \in AxisInputs : AxisScan(in)
AxisSpec == AxisInit /\ [][AxisNext]_axisVars

(* The task is cyclic, and a block that stays executed is done in the end. *)
Answered ==
    \E in \in AxisInputs :
        AxisScan(in) /\ axis.raised \cap axis'.raised \cap Called \subseteq drive'
AxisFairSpec == AxisSpec /\ WF_axisVars(Answered)

-----------------------------------------------------------------------------
(* Type invariant. *)
AxisTypeOK == axis \in AxisMemory /\ drive \subseteq axis.raised /\ raced \in BOOLEAN

(* The buffer works as long as no command is replaced in the scan that     *)
(* finds it done, no command that cannot be buffered is given, and no      *)
(* emergency stop.                                                         *)
Orderly == site.aborting \/ (~raced /\ site.commands \subseteq Bufferable)

(* What an emergency stop leaves executing (Axis.st:460-484).              *)
LeftBehind == IF "Stop" \in site.commands THEN Services \cup {"GearOut", "CamOut"} ELSE {}

(* The blocks that the present state waits for.                            *)
Awaited(a) ==
    CASE a.step = "Powered" -> {"Home"}
      [] a.step = "Do" -> {a.current} \ {"Jog"}
      [] a.step = "Out" -> {DisengageOf(a.current)}
      [] a.step \in {"NotPowered", "WaitPower", "Ready", "Check"} -> {}
      [] OTHER -> Blocks
Pending(a) == IF a.hasPending THEN {a.pendingCmd} ELSE {}

(* Between the commands nothing is executed, in a command its own block    *)
(* and the one buffered behind it; and nothing that was executing before a *)
(* loss of power or an error is executing when the axis is powered and     *)
(* homed again (Axis.st:420-427 and 487-492).                              *)
OnlyCurrentRuns ==
    Orderly =>
        /\ axis.raised \subseteq Awaited(axis) \cup Pending(axis) \cup LeftBehind
        /\ axis.step \in {"NotPowered", "WaitPower", "Powered"} =>
               axis.raised \subseteq {"Home"}

(* A block starts on a rising edge only: each command, repetition of a     *)
(* command and disengagement finds its block at rest, unless it was        *)
(* buffered; and a command that is not buffered behind another one does    *)
(* not end without a report to the caller, who waits for commandExecuted   *)
(* or commandAborted.                                                      *)
StartsFresh(blocks) == blocks \subseteq LeftBehind \/ blocks \cap axis.raised = {}
Entered == <<axis'.step, axis'.current>> # <<axis.step, axis.current>>
EdgeGiven ==
    /\ Entered /\ axis'.step \in {"Do", "Out"} =>
          /\ Awaited(axis') \subseteq axis'.raised
          /\ StartsFresh(Awaited(axis') \ Pending(axis))
    /\ axis'.hasPending /\ ~axis.hasPending => StartsFresh(Pending(axis'))
EndReported ==
    axis.step = "Do" /\ site.aborting /\ Entered
      => axis'.commandExecuted \/ axis'.commandAborted
CommandsAccounted == [][Orderly' => EdgeGiven /\ EndReported]_axisVars

(* Every command and every disengagement comes to its end, whatever the    *)
(* caller does in the meantime, if its reference is there.                 *)
CommandsEnd ==
    site.aborting /\ axis.step \in {"Do", "Out"} /\ axis.current # "Jog"
        ~> axis.step \notin {"Do", "Out"}
=============================================================================
