----------------------------- MODULE AxStaging -----------------------------
(* The staging of the canonical Structured Text for SIMATIC AX             *)
(* (prepare-ax-process-build.py, ax_port/policy.py). The tree under        *)
(* simatic-ax/src/moqui is deleted and written anew; some of its files are *)
(* maintained by hand and kept in memory meanwhile. A run can be killed    *)
(* between any two files, and gives up if the canonical globals have no    *)
(* VAR_GLOBAL section. The trees are edited between runs only.             *)
(*                                                                         *)
(* A path is the include root it is under, a directory a policy may        *)
(* exclude (or Blank) and the stem of the file. A text is written by hand  *)
(* or converted from a version of the canonical tree.                      *)
EXTENDS Integers, Sequences, FiniteSets, Functions

CONSTANTS
    Sources,    \* the paths of the canonical tree, in the order of their names
    Manual,     \* src-manual: the hand-written texts, by path
    Assets,     \* files of the target that are no Structured Text: recipes, CSV
    Handmade,   \* the paths that somebody may write by hand under src/moqui
    LowerCase,  \* str.lower of the stems and directories of the tree
    Process,    \* the lower-case stems that begin with "process"
    Reshaped,   \* <<path, version>>: the converter changes comments or indentation
    MaxEdits

ASSUME StagingAssumption ==
    /\ Len(Sources) \in Nat /\ DOMAIN Sources = 1..Len(Sources)
    /\ \A path \in Range(Sources) : {path.part, path.stem} \subseteq DOMAIN LowerCase
    /\ MaxEdits \in Nat

Blank == ""
Path(root, part, stem) == [root |-> root, part |-> part, stem |-> stem]
In(root, stems) == {Path(root, Blank, stem) : stem \in stems}
InMotion(stems) == {Path("motion", "motion", stem) : stem \in stems}

-----------------------------------------------------------------------------
(* The policies of the profiles. *)

COMMON_EXCLUDED_PATH_PARTS == {"json", "mqtt", "test"}
COMMON_EXCLUDED_FILE_STEMS == {"mqttparameterpub", "mqttparametersub"}
PROCESS_MANUAL_OVERRIDE_STEMS ==
    In("context", {"LoggerFacade", "LogRingBuffer", "LogSource"})
    \cup In("diagnostics", {"SignalMgmt", "SignalOutputAction"})
    \cup In("device", {"Actuator", "ProcessPid", "ParseRecipeDInt", "ParseRecipeReal",
                       "ParseRecipeTime", "R_TRIG", "DeviceConfigCmds", "DeviceConfigMgmt",
                       "EdgeTrigStatusMgr"})
    \cup In("util", {"ClockGeneration", "IIRFilter", "nowTimestamp", "SShapedFunc"})
    \cup In("start", {"MoquiStart"})
    \cup In("hvac", {"Main", "MainRuleEngine", "AirDistributionController"})
    \cup {Path("hvac", "test", "HvacTestSuite")}
MOTION_MANUAL_OVERRIDE_STEMS ==
    PROCESS_MANUAL_OVERRIDE_STEMS
    \cup InMotion({"Axis", "AxisGroup", "AxisMotionCompat", "AxisGroupCompat",
                   "AxisInternalStatus", "AxisGroupInternalStatus", "Trajectory"})

PROCESS_POLICY ==
    [include_roots |-> {"context", "device", "diagnostics", "util", "start", "hvac"},
     excluded_relative_paths |->
        In("resources", {"MoquiConf"}) \cup In("context", {"ec"})
          \cup In("hvac", {"InputSignalUpdate", "OutputSignalUpdate", "IOFacade"}),
     excluded_path_parts |-> COMMON_EXCLUDED_PATH_PARTS \cup {"motion", "opcua"},
     excluded_file_stems |->
        COMMON_EXCLUDED_FILE_STEMS \cup
          {"actuatorgroup", "actuatorgroupautochange", "actuatorgroupstatus",
           "deserializejsontoparameters", "inputsignalupdate", "iofacade",
           "jsontoparametersmapper", "levelctrlstatusmgr", "logdispatcher",
           "parameterstojsonmapper", "remoteiomodulediagnostics", "serializelogtojson",
           "serializeparameterstojson", "signaloutputaction", "networkdiagnostics"},
     manual_override_stems |-> PROCESS_MANUAL_OVERRIDE_STEMS]
MOTION_POLICY ==
    [PROCESS_POLICY EXCEPT
        !.include_roots = @ \cup {"motion"},
        !.excluded_relative_paths = @ \cup InMotion({"Axis", "AxisGroup"}),
        !.excluded_path_parts = COMMON_EXCLUDED_PATH_PARTS \cup {"opcua"},
        !.manual_override_stems = MOTION_MANUAL_OVERRIDE_STEMS]
FULL_POLICY ==
    [MOTION_POLICY EXCEPT
        !.include_roots = @ \cup {"mqtt", "resources"},
        !.excluded_file_stems = COMMON_EXCLUDED_FILE_STEMS]
POLICIES == [process |-> PROCESS_POLICY, motion |-> MOTION_POLICY, full |-> FULL_POLICY]
Profiles == DOMAIN POLICIES

ALLOWED_UTIL_STEMS ==
    {"clocks", "clockgeneration", "iirfilter", "meanfiltertype", "nowtimestamp", "sshapedfunc"}
(* Directories and stems are compared in lower case, whole paths as spelt. *)
includes(policy, path) ==
    /\ path \notin policy.excluded_relative_paths
    /\ LowerCase[path.part] \notin policy.excluded_path_parts
    /\ LowerCase[path.stem] \notin policy.excluded_file_stems
    /\ path.root \in policy.include_roots
should_include(path, profile) ==
    /\ includes(POLICIES[profile], path)
    /\ profile \in {"process", "motion"} =>
         /\ path.root = "util" => LowerCase[path.stem] \in ALLOWED_UTIL_STEMS
         /\ path.root = "device" => LowerCase[path.stem] \notin Process \ {"processpid"}

-----------------------------------------------------------------------------
VARIABLES
    canonical, \* the version of the canonical tree, and whether its globals are well-formed
    target,    \* the texts of simatic-ax/src/moqui, by path
    assets,    \* its other files
    config,    \* the version configuration.st is written from, and the profile of apax.yml
    report,    \* the profile and the converted paths staging-transformations.md names
    run,       \* the staging at work, or Idle
    edits,
    written,   \* history: what was last written by hand under src/moqui, by path
    intact     \* history: no run has died after it began to delete

vars == <<canonical, target, assets, config, report, run, edits, written, intact>>

Idle == [step |-> "idle"]
ByHand(version) == [author |-> "hand", version |-> version]
convert_text(version) == [author |-> "converter", version |-> version]
(* A tree in which the file at path has the text. *)
Put(tree, path, text) ==
    [p \in DOMAIN tree \cup {path} |-> IF p = path THEN text ELSE tree[p]]
NoReport == [profile |-> Blank, converted |-> {}]

Init ==
    /\ canonical = [version |-> 1, globals |-> TRUE]
    /\ target = [path \in Handmade |-> ByHand(0)] /\ assets = Assets
    /\ config = [version |-> 0, profile |-> "process"] /\ report = NoReport
    /\ run = Idle /\ edits = 0
    /\ written = target /\ intact = TRUE

(* Between the runs the canonical tree goes on and overrides are written   *)
(* by hand where they are read from.                                       *)
EditCanonical ==
    /\ run = Idle /\ edits < MaxEdits /\ edits' = edits + 1
    /\ \E globals \in BOOLEAN :
         canonical' = [version |-> canonical.version + 1, globals |-> globals]
    /\ UNCHANGED <<target, assets, config, report, run, written, intact>>
EditOverride ==
    /\ run = Idle /\ edits < MaxEdits /\ edits' = edits + 1
    /\ \E path \in Handmade :
         /\ target' = Put(target, path, ByHand(edits + 1))
         /\ written' = [written EXCEPT ![path] = ByHand(edits + 1)]
    /\ UNCHANGED <<canonical, assets, config, report, run, intact>>

-----------------------------------------------------------------------------
(* A run. *)

apply_profile_apax_config ==
    /\ run = Idle
    /\ \E profile \in Profiles :
         /\ config' = [config EXCEPT !.profile = profile]
         /\ run' = [step |-> "collect", profile |-> profile, before |-> target,
                    assets |-> assets]
    /\ UNCHANGED <<canonical, target, assets, report, edits, written, intact>>

(* Mutant: only src-manual is searched. *)
manual_only_overrides(stems) == [path \in stems \cap DOMAIN Manual |-> Manual[path]]
(* src-manual first, then the present target.                              *)
collect_preserved_manual_overrides(stems) ==
    [path \in stems \cap (DOMAIN Manual \cup DOMAIN target) |->
        IF path \in DOMAIN Manual THEN Manual[path] ELSE target[path]]
Collect ==
    /\ run.step = "collect"
    /\ run' = [step |-> "clean", profile |-> run.profile, before |-> run.before,
               assets |-> assets, n |-> 1,
               preserved |->
                 collect_preserved_manual_overrides(POLICIES[run.profile].manual_override_stems)]
    /\ UNCHANGED <<canonical, target, assets, config, report, edits, written, intact>>

(* The directory is deleted file by file, in one order. *)
FirstOf(names) == CHOOSE name \in names : TRUE
clean_target_root ==
    /\ run.step = "clean"
    /\ \/ /\ DOMAIN target # {}
          /\ target' = Restrict(target, DOMAIN target \ {FirstOf(DOMAIN target)})
          /\ UNCHANGED <<assets, run>>
       \/ /\ DOMAIN target = {} /\ assets # {}
          /\ assets' = assets \ {FirstOf(assets)}
          /\ UNCHANGED <<target, run>>
       \/ /\ DOMAIN target = {} /\ assets = {}
          /\ run' = [run EXCEPT !.step = "restore"]
          /\ UNCHANGED <<target, assets>>
    /\ UNCHANGED <<canonical, config, report, edits, written, intact>>
restore_target_assets ==
    /\ run.step = "restore"
    /\ assets' = run.assets
    /\ run' = [run EXCEPT !.step = "configuration"]
    /\ UNCHANGED <<canonical, target, config, report, edits, written, intact>>
(* Without the globals the run gives up, and the tree stays deleted.       *)
write_ax_configuration ==
    /\ run.step = "configuration"
    /\ IF canonical.globals
       THEN /\ config' = [config EXCEPT !.version = canonical.version]
            /\ run' = [run EXCEPT !.step = "stage"] /\ UNCHANGED intact
       ELSE run' = Idle /\ intact' = FALSE /\ UNCHANGED config
    /\ UNCHANGED <<canonical, target, assets, report, edits, written>>

(* Mutant: an override is regenerated if it has a canonical source. *)
RegeneratedStaged(path) ==
    IF path \in DOMAIN run.preserved \ Range(Sources) THEN run.preserved[path]
    ELSE convert_text(canonical.version)
Staged(path) ==
    IF path \in DOMAIN run.preserved THEN run.preserved[path] ELSE convert_text(canonical.version)
stage_source ==
    /\ run.step = "stage" /\ run.n <= Len(Sources)
    /\ target' = IF should_include(Sources[run.n], run.profile)
                 THEN Put(target, Sources[run.n], Staged(Sources[run.n])) ELSE target
    /\ run' = [run EXCEPT !.n = @ + 1]
    /\ UNCHANGED <<canonical, assets, config, report, edits, written, intact>>
(* Overrides that no source was staged for. *)
stage_override ==
    /\ run.step = "stage" /\ run.n > Len(Sources)
    /\ LET missing == DOMAIN run.preserved \ DOMAIN target
           path == FirstOf(missing)
       IN missing # {} /\ target' = Put(target, path, run.preserved[path])
    /\ UNCHANGED <<canonical, assets, config, report, run, edits, written, intact>>
AllStaged ==
    run.step = "stage" /\ run.n > Len(Sources) /\ DOMAIN run.preserved \subseteq DOMAIN target
write_report ==
    /\ AllStaged
    /\ report' = [profile |-> run.profile,
                  converted |-> {path \in Range(Sources) : should_include(path, run.profile)}
                                  \ DOMAIN run.preserved]
    /\ run' = Idle
    /\ UNCHANGED <<canonical, target, assets, config, edits, written, intact>>

Crash ==
    /\ run # Idle /\ run' = Idle
    /\ intact' = (intact /\ run.step = "collect")
    /\ UNCHANGED <<canonical, target, assets, config, report, edits, written>>

Next ==
    \/ EditCanonical \/ EditOverride \/ apply_profile_apax_config \/ Collect
    \/ clean_target_root \/ restore_target_assets \/ write_ax_configuration
    \/ stage_source \/ stage_override \/ write_report \/ Crash
Spec == Init /\ [][Next]_vars

-----------------------------------------------------------------------------
(* audit-ax-fidelity, overrides apart: the files whose comments, or, with  *)
(* as many lines, indentation are not those of their canonical source.     *)
(* What a person writes, or has changed in a new version, stands for such  *)
(* a difference; so does what the converter itself rewrites of a text.     *)
audit_fidelity ==
    {path \in DOMAIN target \cap Range(Sources) :
        /\ path \notin MOTION_MANUAL_OVERRIDE_STEMS
        /\ \/ target[path] # convert_text(canonical.version)
           \/ <<path, canonical.version>> \in Reshaped}

(* A run that ends with its report leaves what its report and its profile  *)
(* say, whatever the target held before: each override as src-manual has   *)
(* it, or else as it was; each other file converted from the canonical     *)
(* tree of now; every asset; nothing else.  The audit then finds no stale  *)
(* text, only the drift the converter itself brings into what it converts. *)
FinishedRunIsExact ==
    [][run # Idle /\ AllStaged /\ run' = Idle =>
       LET overrides == POLICIES[run.profile].manual_override_stems
           kept == overrides \cap (DOMAIN Manual \cup DOMAIN run.before)
           sources == {path \in Range(Sources) : should_include(path, run.profile)}
       IN /\ DOMAIN target' = sources \cup kept
          /\ \A path \in kept :
               target'[path] = IF path \in DOMAIN Manual THEN Manual[path] ELSE run.before[path]
          /\ \A path \in sources \ kept : target'[path] = convert_text(canonical.version)
          /\ audit_fidelity' = {path \in sources \ MOTION_MANUAL_OVERRIDE_STEMS :
                                 <<path, canonical.version>> \in Reshaped}
          /\ assets' = run.assets
          /\ config' = [version |-> canonical.version, profile |-> run.profile]]_vars

(* An override all profiles have that was written by hand under src/moqui  *)
(* is there after any sequence of their runs, unless a run died while it   *)
(* had it in memory only, or src-manual has another text for it.           *)
HandworkSurvives ==
    intact /\ run = Idle =>
        \A path \in (DOMAIN written \cap PROCESS_MANUAL_OVERRIDE_STEMS) \ DOMAIN Manual :
            path \in DOMAIN target /\ target[path] = written[path]
=============================================================================
