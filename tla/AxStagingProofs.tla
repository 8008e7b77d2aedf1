-------------------------- MODULE AxStagingProofs --------------------------
(* What the staging leaves behind, for any canonical tree, any overrides   *)
(* and any number of edits: theorems about AxStaging.                      *)
EXTENDS AxStaging, TLAPS

(* The steps of a run that has its overrides in memory. *)
Steps == {"clean", "restore", "configuration", "stage"}
Collecting(p, b, a) == [step |-> "collect", profile |-> p, before |-> b, assets |-> a]
Working(s, p, b, a, n, kept) ==
    [step |-> s, profile |-> p, before |-> b, assets |-> a, n |-> n, preserved |-> kept]

(* The types the proofs need. *)
RunType ==
    \/ run = Idle
    \/ \E p \in Profiles : \E b, a : run = Collecting(p, b, a)
    \/ \E s \in Steps, p \in Profiles, n \in Nat \ {0} : \E b, a, kept :
         run = Working(s, p, b, a, n, kept)
Types ==
    /\ canonical \in [version : Nat, globals : BOOLEAN]
    /\ config \in [version : Nat, profile : Profiles]
    /\ edits \in Nat
    /\ DOMAIN written = Handmade
    /\ RunType

(* What a run has found, step by step. *)
Kept(r) == POLICIES[r.profile].manual_override_stems \cap (DOMAIN Manual \cup DOMAIN r.before)
KeptText(r, path) == IF path \in DOMAIN Manual THEN Manual[path] ELSE r.before[path]
Included(profile) == {path \in Range(Sources) : should_include(path, profile)}
FoundInv ==
    /\ run # Idle => config.profile = run.profile
    /\ run.step = "collect" => target = run.before /\ assets = run.assets
    /\ run.step \in Steps =>
         /\ DOMAIN run.preserved = Kept(run)
         /\ \A path \in Kept(run) : run.preserved[path] = KeptText(run, path)

(* What it has left of the trees. *)
TreeInv ==
    /\ run.step \in {"clean", "restore", "configuration"} => run.n = 1
    /\ run.step \in {"restore", "configuration"} => DOMAIN target = {}
    /\ run.step \in {"configuration", "stage"} => assets = run.assets
    /\ run.step = "stage" =>
         /\ config.version = canonical.version
         /\ DOMAIN target \subseteq Included(run.profile) \cup Kept(run)
         /\ \A path \in DOMAIN target : target[path] = Staged(path)
         /\ \A i \in DOMAIN Sources :
              i < run.n /\ should_include(Sources[i], run.profile) => Sources[i] \in DOMAIN target

(* Where the handwork is that the claim is about: in the tree, or in the   *)
(* memory of the run.                                                      *)
Handwork == (DOMAIN written \cap PROCESS_MANUAL_OVERRIDE_STEMS) \ DOMAIN Manual
InTree == \A path \in Handwork : path \in DOMAIN target /\ target[path] = written[path]
InMemory ==
    \A path \in Handwork :
        path \in DOMAIN run.preserved /\ run.preserved[path] = written[path]
HandInv ==
    intact => /\ run.step \in {"idle", "collect"} => InTree
              /\ run.step \in Steps => InMemory

IInv == Types /\ FoundInv /\ TreeInv /\ HandInv

-----------------------------------------------------------------------------
(* Every profile keeps what the process profile keeps, and none more than  *)
(* the motion profile.                                                     *)
LEMMA OverridesNested ==
  \A p \in Profiles :
     /\ PROCESS_MANUAL_OVERRIDE_STEMS \subseteq POLICIES[p].manual_override_stems
     /\ POLICIES[p].manual_override_stems \subseteq MOTION_MANUAL_OVERRIDE_STEMS
  <1>1. PROCESS_MANUAL_OVERRIDE_STEMS \subseteq MOTION_MANUAL_OVERRIDE_STEMS
    BY DEF MOTION_MANUAL_OVERRIDE_STEMS
  <1>2. PROCESS_POLICY.manual_override_stems = PROCESS_MANUAL_OVERRIDE_STEMS
    BY DEF PROCESS_POLICY
  <1>3. MOTION_POLICY.manual_override_stems = MOTION_MANUAL_OVERRIDE_STEMS
    BY DEF MOTION_POLICY, PROCESS_POLICY
  <1>4. FULL_POLICY.manual_override_stems = MOTION_MANUAL_OVERRIDE_STEMS
    BY DEF FULL_POLICY, MOTION_POLICY, PROCESS_POLICY
  <1>5. Profiles = {"process", "motion", "full"}
    BY DEF Profiles, POLICIES
  <1>6. /\ POLICIES["process"] = PROCESS_POLICY /\ POLICIES["motion"] = MOTION_POLICY
        /\ POLICIES["full"] = FULL_POLICY
    BY DEF POLICIES
  <1> QED BY <1>1, <1>2, <1>3, <1>4, <1>5, <1>6

(* Idle is not a step of a run. *)
LEMMA RunIsKnown ==
  ASSUME RunType
  PROVE  /\ run.step = "idle" <=> run = Idle
         /\ run # Idle => run.step \in {"collect"} \cup Steps /\ run.profile \in Profiles
  BY DEF RunType, Idle, Collecting, Working, Steps

LEMMA InitEstablishes == Init => IInv
  <1> SUFFICES ASSUME Init PROVE IInv OBVIOUS
  <1>1. Types
    BY DEF Init, Types, RunType, Profiles, POLICIES
  <1>2. run.step = "idle"
    BY DEF Init, Idle
  <1>3. FoundInv /\ TreeInv /\ HandInv
    BY <1>2 DEF Init, FoundInv, TreeInv, HandInv, InTree, Handwork, Steps
  <1> QED BY <1>1, <1>3 DEF IInv

-----------------------------------------------------------------------------
(* Between runs the canonical tree does not matter to what is at rest.     *)
LEMMA EditCanonicalStep == IInv /\ EditCanonical => IInv'
  <1> SUFFICES ASSUME IInv, EditCanonical PROVE IInv' OBVIOUS
  <1>1. run'.step = "idle" /\ run.step = "idle"
    BY DEF EditCanonical, Idle
  <1>2. Types'
    BY DEF IInv, Types, RunType, EditCanonical
  <1>3. FoundInv' /\ TreeInv' /\ HandInv'
    BY <1>1 DEF IInv, FoundInv, TreeInv, HandInv, InTree, Handwork, Steps, EditCanonical
  <1> QED BY <1>2, <1>3 DEF IInv

(* A text written by hand is remembered as written.                        *)
LEMMA EditOverrideStep == IInv /\ EditOverride => IInv'
  <1> SUFFICES ASSUME IInv, EditOverride PROVE IInv' OBVIOUS
  <1>1. run'.step = "idle" /\ run.step = "idle" /\ run = Idle /\ run' = Idle
    BY DEF EditOverride, Idle
  <1>2. PICK path \in Handmade :
          /\ target' = Put(target, path, ByHand(edits + 1))
          /\ written' = [written EXCEPT ![path] = ByHand(edits + 1)]
    BY DEF EditOverride
  <1>3. Types'
    BY <1>2 DEF IInv, Types, RunType, EditOverride
  <1>4. FoundInv' /\ TreeInv'
    BY <1>1 DEF IInv, FoundInv, TreeInv, Steps, EditOverride
  <1>5. HandInv'
    <2>1. /\ DOMAIN target' = DOMAIN target \cup {path}
          /\ target'[path] = ByHand(edits + 1)
          /\ \A q \in DOMAIN target : q # path => target'[q] = target[q]
      BY <1>2 DEF Put
    <2>2. /\ DOMAIN written = Handmade /\ DOMAIN written' = Handmade
          /\ written'[path] = ByHand(edits + 1)
          /\ \A q \in Handmade : q # path => written'[q] = written[q]
      BY <1>2 DEF IInv, Types
    <2>3. ASSUME intact, NEW q \in Handwork
          PROVE  q \in DOMAIN target' /\ target'[q] = written'[q]
      <3>1. q \in Handmade /\ q \in DOMAIN target /\ target[q] = written[q]
        BY <2>2, <2>3, <1>1 DEF IInv, HandInv, InTree, Handwork
      <3> QED BY <3>1, <2>1, <2>2
    <2>4. Handwork' = Handwork /\ intact' = intact
      BY <2>2 DEF Handwork, EditOverride
    <2> QED BY <2>3, <2>4, <1>1 DEF HandInv, InTree, Steps
  <1> QED BY <1>3, <1>4, <1>5 DEF IInv

(* A run begins with the trees as they are.                                *)
LEMMA ApplyProfileStep == IInv /\ apply_profile_apax_config => IInv'
  <1> SUFFICES ASSUME IInv, apply_profile_apax_config PROVE IInv' OBVIOUS
  <1>1. PICK p \in Profiles :
          /\ config' = [config EXCEPT !.profile = p]
          /\ run' = Collecting(p, target, assets)
    BY DEF apply_profile_apax_config, Collecting
  <1>2. /\ run'.step = "collect" /\ run'.profile = p
        /\ run'.before = target /\ run'.assets = assets /\ run.step = "idle"
    BY <1>1 DEF Collecting, apply_profile_apax_config, Idle
  <1>3. Types'
    BY <1>1 DEF IInv, Types, RunType, apply_profile_apax_config
  <1>4. FoundInv' /\ TreeInv'
    BY <1>1, <1>2 DEF IInv, Types, FoundInv, TreeInv, Steps, apply_profile_apax_config
  <1>5. HandInv'
    BY <1>2 DEF IInv, HandInv, InTree, Handwork, Steps, apply_profile_apax_config
  <1> QED BY <1>3, <1>4, <1>5 DEF IInv

(* The overrides are taken into memory from the tree the run has found.    *)
LEMMA CollectStep == IInv /\ Collect => IInv'
  <1> SUFFICES ASSUME IInv, Collect PROVE IInv' OBVIOUS
  <1> DEFINE kept == collect_preserved_manual_overrides(
                       POLICIES[run.profile].manual_override_stems)
  <1>1. run.profile \in Profiles /\ run # Idle
    BY RunIsKnown DEF IInv, Types, Collect, Idle
  <1>2. run' = Working("clean", run.profile, run.before, assets, 1, kept)
    BY DEF Collect, Working
  <1>3. /\ run'.step = "clean" /\ run'.profile = run.profile /\ run'.before = run.before
        /\ run'.preserved = kept /\ run'.n = 1
    BY <1>2 DEF Working
  <1>4. target = run.before /\ run.step = "collect"
    BY DEF IInv, FoundInv, Collect
  <1>5. DOMAIN kept = Kept(run) /\ \A path \in Kept(run) : kept[path] = KeptText(run, path)
    BY <1>4 DEF collect_preserved_manual_overrides, Kept, KeptText
  <1>6. Types'
    BY <1>1, <1>2 DEF IInv, Types, RunType, Steps, Collect
  <1>7. FoundInv' /\ TreeInv'
    BY <1>1, <1>3, <1>5 DEF IInv, FoundInv, TreeInv, Kept, KeptText, Collect
  <1>8. HandInv'
    <2>1. ASSUME intact, NEW path \in Handwork
          PROVE  path \in DOMAIN kept /\ kept[path] = written[path]
      <3>1. path \in DOMAIN target /\ target[path] = written[path]
        BY <2>1, <1>4 DEF IInv, HandInv, InTree
      <3>2. path \in Kept(run) /\ KeptText(run, path) = target[path]
        BY <3>1, <1>1, <1>4, OverridesNested DEF Handwork, Kept, KeptText
      <3> QED BY <3>1, <3>2, <1>5
    <2> QED BY <2>1, <1>3 DEF HandInv, InMemory, Handwork, Collect
  <1> QED BY <1>6, <1>7, <1>8 DEF IInv

-----------------------------------------------------------------------------
(* A run that has its overrides in memory keeps them from step to step.    *)
LEMMA StepChange ==
  ASSUME RunType, run.step \in Steps, NEW s \in Steps, run' = [run EXCEPT !.step = s]
  PROVE  /\ RunType' /\ run'.step = s /\ run'.profile = run.profile
         /\ run'.before = run.before /\ run'.assets = run.assets /\ run'.n = run.n
         /\ run'.preserved = run.preserved
  <1>1. PICK p, n, b, a, kept :
          p \in Profiles /\ n \in Nat \ {0} /\ run = Working(run.step, p, b, a, n, kept)
    BY DEF RunType, Idle, Collecting, Working, Steps
  <1>2. run' = Working(s, p, b, a, n, kept)
    BY <1>1 DEF Working
  <1>3. RunType'
    BY <1>1, <1>2 DEF RunType
  <1> QED BY <1>1, <1>2, <1>3 DEF Working

(* The tree is deleted when the handwork is in memory.                     *)
LEMMA CleanStep == IInv /\ clean_target_root => IInv'
  <1> SUFFICES ASSUME IInv, clean_target_root PROVE IInv' OBVIOUS
  <1>0. run.step = "clean" /\ run # Idle
    BY DEF clean_target_root, Idle
  <1>1. CASE UNCHANGED run
    <2>1. Types'
      BY <1>1 DEF IInv, Types, RunType, clean_target_root
    <2>2. FoundInv' /\ TreeInv'
      BY <1>0, <1>1 DEF IInv, FoundInv, TreeInv, Kept, KeptText, Steps, clean_target_root
    <2>3. HandInv'
      BY <1>0, <1>1 DEF IInv, HandInv, InMemory, Handwork, Steps, clean_target_root
    <2> QED BY <2>1, <2>2, <2>3 DEF IInv
  <1>2. CASE run' = [run EXCEPT !.step = "restore"] /\ DOMAIN target = {} /\ UNCHANGED target
    <2>0. /\ RunType' /\ run'.step = "restore" /\ run'.profile = run.profile
          /\ run'.before = run.before /\ run'.n = run.n /\ run'.preserved = run.preserved
      BY <1>0, <1>2, StepChange DEF IInv, Types, Steps
    <2>1. Types'
      BY <2>0 DEF IInv, Types, clean_target_root
    <2>2. FoundInv' /\ TreeInv'
      BY <1>0, <1>2, <2>0
         DEF IInv, FoundInv, TreeInv, Kept, KeptText, Steps, clean_target_root
    <2>3. HandInv'
      BY <1>0, <2>0 DEF IInv, HandInv, InMemory, Handwork, Steps, clean_target_root
    <2> QED BY <2>1, <2>2, <2>3 DEF IInv
  <1> QED BY <1>1, <1>2 DEF clean_target_root

(* The other assets come back as the run has found them.                   *)
LEMMA RestoreStep == IInv /\ restore_target_assets => IInv'
  <1> SUFFICES ASSUME IInv, restore_target_assets PROVE IInv' OBVIOUS
  <1>0. run.step = "restore" /\ run # Idle
    BY DEF restore_target_assets, Idle
  <1>1. /\ RunType' /\ run'.step = "configuration" /\ run'.profile = run.profile
        /\ run'.before = run.before /\ run'.n = run.n /\ run'.preserved = run.preserved
        /\ run'.assets = run.assets
    BY <1>0, StepChange DEF IInv, Types, Steps, restore_target_assets
  <1>2. Types'
    BY <1>1 DEF IInv, Types, restore_target_assets
  <1>3. FoundInv' /\ TreeInv'
    BY <1>0, <1>1 DEF IInv, FoundInv, TreeInv, Kept, KeptText, Steps, restore_target_assets
  <1>4. HandInv'
    BY <1>0, <1>1 DEF IInv, HandInv, InMemory, Handwork, Steps, restore_target_assets
  <1> QED BY <1>2, <1>3, <1>4 DEF IInv

(* An end that loses the memory makes the claim void.                      *)
LEMMA GivesUp ==
  ASSUME IInv, run' = Idle, intact' = FALSE,
         UNCHANGED <<canonical, target, config, edits, written>>
  PROVE  IInv'
  <1>1. run'.step = "idle"
    BY DEF Idle
  <1>2. Types'
    BY DEF IInv, Types, RunType
  <1>3. FoundInv' /\ TreeInv' /\ HandInv'
    BY <1>1 DEF FoundInv, TreeInv, HandInv, Steps
  <1> QED BY <1>2, <1>3 DEF IInv

(* The configuration is of the canonical tree that is then staged.         *)
LEMMA WriteConfigurationStep == IInv /\ write_ax_configuration => IInv'
  <1> SUFFICES ASSUME IInv, write_ax_configuration PROVE IInv' OBVIOUS
  <1>0. run.step = "configuration" /\ run # Idle
    BY DEF write_ax_configuration, Idle
  <1>1. CASE ~ canonical.globals
    BY <1>1, GivesUp DEF write_ax_configuration
  <1>2. CASE canonical.globals
    <2>0. /\ RunType' /\ run'.step = "stage" /\ run'.profile = run.profile
          /\ run'.before = run.before /\ run'.n = run.n /\ run'.preserved = run.preserved
          /\ run'.assets = run.assets
      BY <1>0, <1>2, StepChange DEF IInv, Types, Steps, write_ax_configuration
    <2>1. Types'
      BY <1>2, <2>0 DEF IInv, Types, write_ax_configuration
    <2>2. FoundInv'
      BY <1>0, <1>2, <2>0
         DEF IInv, Types, FoundInv, Kept, KeptText, Steps, write_ax_configuration
    <2>3. TreeInv'
      <3>1. DOMAIN target' = {} /\ run'.n = 1 /\ assets' = run'.assets
        BY <1>0, <1>2, <2>0 DEF IInv, TreeInv, write_ax_configuration
      <3>2. config'.version = canonical'.version
        BY <1>2 DEF IInv, Types, write_ax_configuration
      <3>3. \A i \in DOMAIN Sources : ~ (i < 1)
        BY StagingAssumption
      <3> QED BY <2>0, <3>1, <3>2, <3>3 DEF TreeInv
    <2>4. HandInv'
      BY <1>0, <1>2, <2>0 DEF IInv, HandInv, InMemory, Handwork, Steps, write_ax_configuration
    <2> QED BY <2>1, <2>2, <2>3, <2>4 DEF IInv
  <1> QED BY <1>1, <1>2

-----------------------------------------------------------------------------
(* A source is staged where the profile includes it, with its own text.    *)
LEMMA StageSourceStep == IInv /\ stage_source => IInv'
  <1> SUFFICES ASSUME IInv, stage_source PROVE IInv' OBVIOUS
  <1> DEFINE path == Sources[run.n]
  <1>0. run.step = "stage" /\ run # Idle /\ run.n <= Len(Sources)
    BY DEF stage_source, Idle
  <1>1. PICK p, n, b, a, kept :
          p \in Profiles /\ n \in Nat \ {0} /\ run = Working("stage", p, b, a, n, kept)
    BY <1>0 DEF IInv, Types, RunType, Idle, Collecting, Working, Steps
  <1>2. run' = Working("stage", p, b, a, n + 1, kept)
    BY <1>1 DEF Working, stage_source
  <1>3. /\ run'.step = "stage" /\ run'.profile = run.profile /\ run'.before = run.before
        /\ run'.assets = run.assets /\ run'.preserved = run.preserved
        /\ run'.n = run.n + 1 /\ run.n \in Nat \ {0}
    BY <1>1, <1>2 DEF Working
  <1>4. Types'
    <2> DEFINE m == n + 1
    <2>1. p \in Profiles /\ m \in Nat \ {0} /\ "stage" \in Steps
      BY <1>1 DEF Steps
    <2>2. run' = Working("stage", p, b, a, m, kept)
      BY <1>2
    <2> HIDE DEF m
    <2>3. RunType'
      BY <2>1, <2>2 DEF RunType
    <2> QED BY <2>3 DEF IInv, Types, stage_source
  <1>5. FoundInv'
    BY <1>0, <1>3 DEF IInv, FoundInv, Kept, KeptText, Steps, stage_source
  <1>6. \A q : Staged(q)' = Staged(q)
    BY <1>3 DEF Staged, stage_source
  <1>7. run.n \in DOMAIN Sources
    BY <1>0, <1>3, StagingAssumption
  <1>8. TreeInv'
    <2>1. assets' = run'.assets /\ config'.version = canonical'.version
      BY <1>0, <1>3 DEF IInv, TreeInv, stage_source
    <2>2. /\ DOMAIN target \subseteq Included(run.profile) \cup Kept(run)
          /\ \A q \in DOMAIN target : target[q] = Staged(q)
          /\ \A i \in DOMAIN Sources :
               i < run.n /\ should_include(Sources[i], run.profile) => Sources[i] \in DOMAIN target
      BY <1>0 DEF IInv, TreeInv
    <2>3. Included(run'.profile) = Included(run.profile) /\ Kept(run') = Kept(run)
      BY <1>3 DEF Kept
    <2>4. \A i \in DOMAIN Sources : i < run'.n => i < run.n \/ i = run.n
      BY <1>3, StagingAssumption
    <2>5. CASE should_include(path, run.profile)
      <3>1. /\ DOMAIN target' = DOMAIN target \cup {path} /\ target'[path] = Staged(path)
            /\ \A q \in DOMAIN target : q # path => target'[q] = target[q]
        BY <2>5 DEF Put, stage_source
      <3>2. path \in Included(run.profile)
        BY <2>5, <1>7 DEF Included, Range
      <3>3. DOMAIN target' \subseteq Included(run'.profile) \cup Kept(run')
        BY <2>2, <2>3, <3>1, <3>2
      <3>4. \A q \in DOMAIN target' : target'[q] = Staged(q)'
        BY <2>2, <3>1, <1>6
      <3>5. \A i \in DOMAIN Sources :
              i < run'.n /\ should_include(Sources[i], run'.profile)
              => Sources[i] \in DOMAIN target'
        BY <2>2, <2>4, <3>1, <1>3
      <3> QED BY <1>3, <2>1, <3>3, <3>4, <3>5 DEF TreeInv
    <2>6. CASE ~ should_include(path, run.profile)
      <3>1. target' = target
        BY <2>6 DEF stage_source
      <3>2. \A i \in DOMAIN Sources :
              i < run'.n /\ should_include(Sources[i], run'.profile)
              => Sources[i] \in DOMAIN target'
        BY <2>2, <2>4, <2>6, <3>1, <1>3
      <3>3. \A q \in DOMAIN target' : target'[q] = Staged(q)'
        BY <2>2, <3>1, <1>6
      <3> QED BY <1>3, <2>1, <2>2, <2>3, <3>1, <3>2, <3>3 DEF TreeInv
    <2> QED BY <2>5, <2>6
  <1>9. HandInv'
    BY <1>0, <1>3 DEF IInv, HandInv, InMemory, Handwork, Steps, stage_source
  <1> QED BY <1>4, <1>5, <1>8, <1>9 DEF IInv

(* Overrides without a source are written from memory.                     *)
LEMMA StageOverrideStep == IInv /\ stage_override => IInv'
  <1> SUFFICES ASSUME IInv, stage_override PROVE IInv' OBVIOUS
  <1> DEFINE missing == DOMAIN run.preserved \ DOMAIN target
             path == FirstOf(missing)
  <1>0. /\ run.step = "stage" /\ run # Idle /\ UNCHANGED run
        /\ missing # {} /\ target' = Put(target, path, run.preserved[path])
    BY DEF stage_override, Idle
  <1>1. path \in missing
    BY <1>0 DEF FirstOf
  <1>2. Types'
    BY DEF IInv, Types, RunType, stage_override
  <1>3. FoundInv'
    BY <1>0 DEF IInv, FoundInv, Kept, KeptText, Steps, stage_override
  <1>4. TreeInv'
    <2>1. path \in Kept(run) /\ Staged(path) = run.preserved[path]
      BY <1>0, <1>1 DEF IInv, FoundInv, Steps, Staged
    <2>2. \A q : Staged(q)' = Staged(q)
      BY <1>0 DEF Staged, stage_override
    <2>3. /\ DOMAIN target' = DOMAIN target \cup {path}
          /\ target'[path] = run.preserved[path]
          /\ \A q \in DOMAIN target : q # path => target'[q] = target[q]
      BY <1>0 DEF Put
    <2>4. \A q \in DOMAIN target : target[q] = Staged(q)
      BY <1>0 DEF IInv, TreeInv
    <2>5. \A q \in DOMAIN target' : target'[q] = Staged(q)'
      BY <2>1, <2>2, <2>3, <2>4
    <2> QED BY <1>0, <2>1, <2>3, <2>5 DEF IInv, TreeInv, Kept, stage_override
  <1>5. HandInv'
    BY <1>0 DEF IInv, HandInv, InMemory, Handwork, Steps, stage_override
  <1> QED BY <1>2, <1>3, <1>4, <1>5 DEF IInv

(* With everything staged the tree has what the memory had.                *)
LEMMA WriteReportStep == IInv /\ write_report => IInv'
  <1> SUFFICES ASSUME IInv, write_report PROVE IInv' OBVIOUS
  <1>0. run.step = "stage" /\ DOMAIN run.preserved \subseteq DOMAIN target
    BY DEF write_report, AllStaged
  <1>1. run' = Idle /\ run'.step = "idle"
    BY DEF write_report, Idle
  <1>2. Types'
    BY <1>1 DEF IInv, Types, RunType, write_report
  <1>3. FoundInv' /\ TreeInv'
    BY <1>1 DEF FoundInv, TreeInv, Steps
  <1>4. HandInv'
    <2>1. ASSUME intact, NEW path \in Handwork
          PROVE  path \in DOMAIN target /\ target[path] = written[path]
      <3>1. path \in DOMAIN run.preserved /\ run.preserved[path] = written[path]
        BY <2>1, <1>0 DEF IInv, HandInv, InMemory, Steps
      <3> QED BY <3>1, <1>0 DEF IInv, TreeInv, Staged
    <2> QED BY <2>1, <1>1 DEF HandInv, InTree, Handwork, Steps, write_report
  <1> QED BY <1>2, <1>3, <1>4 DEF IInv

(* Before the tree is touched a run may die and lose nothing.              *)
LEMMA CrashStep == IInv /\ Crash => IInv'
  <1> SUFFICES ASSUME IInv, Crash PROVE IInv' OBVIOUS
  <1>1. run' = Idle /\ run'.step = "idle"
    BY DEF Crash, Idle
  <1>2. Types'
    BY <1>1 DEF IInv, Types, RunType, Crash
  <1>3. FoundInv' /\ TreeInv'
    BY <1>1 DEF FoundInv, TreeInv, Steps
  <1>4. HandInv'
    BY <1>1 DEF IInv, HandInv, InTree, Handwork, Steps, Crash
  <1> QED BY <1>2, <1>3, <1>4 DEF IInv

-----------------------------------------------------------------------------
(* The inductive invariant of the staging: what a run has found, what it   *)
(* has left of the trees and where the handwork is at each of its steps.   *)
THEOREM Invariance == Spec => []IInv
  <1>1. IInv /\ [Next]_vars => IInv'
    <2> SUFFICES ASSUME IInv, [Next]_vars PROVE IInv' OBVIOUS
    <2>1. CASE Next
      BY <2>1, EditCanonicalStep, EditOverrideStep, ApplyProfileStep, CollectStep, CleanStep,
         RestoreStep, WriteConfigurationStep, StageSourceStep, StageOverrideStep,
         WriteReportStep, CrashStep DEF Next
    <2>2. CASE UNCHANGED vars
      BY <2>2 DEF vars, IInv, Types, RunType, FoundInv, TreeInv, HandInv, InTree, InMemory,
                  Handwork, Kept, KeptText, Staged
    <2> QED BY <2>1, <2>2
  <1> QED BY <1>1, InitEstablishes, PTL DEF Spec

(* HandworkSurvives: runs of any profiles that end keep the overrides that *)
(* are common to all, whatever sources there are and however often they    *)
(* are edited.                                                             *)
THEOREM HandworkKept == Spec => []HandworkSurvives
  <1>1. IInv => HandworkSurvives
    BY DEF IInv, HandInv, InTree, Handwork, HandworkSurvives, Idle
  <1> QED BY <1>1, Invariance, PTL

(* FinishedRunIsExact: the tree a finished run leaves is a function of the *)
(* canonical tree, src-manual, the overrides it has found and its profile. *)
THEOREM RunsExact == Spec => FinishedRunIsExact
  <1> DEFINE
        kept == POLICIES[run.profile].manual_override_stems
                  \cap (DOMAIN Manual \cup DOMAIN run.before)
        sources == {path \in Range(Sources) : should_include(path, run.profile)}
        Drift == {path \in sources \ MOTION_MANUAL_OVERRIDE_STEMS :
                    <<path, canonical.version>> \in Reshaped}
        Exact ==
          /\ DOMAIN target' = sources \cup kept
          /\ \A path \in kept :
               target'[path] = IF path \in DOMAIN Manual THEN Manual[path] ELSE run.before[path]
          /\ \A path \in sources \ kept : target'[path] = convert_text(canonical.version)
          /\ audit_fidelity' = Drift
          /\ assets' = run.assets
          /\ config' = [version |-> canonical.version, profile |-> run.profile]
  <1>1. ASSUME IInv, Next, run # Idle, AllStaged, run' = Idle PROVE Exact
    <2>1. run.step = "stage" /\ run.n > Len(Sources) /\ DOMAIN run.preserved \subseteq DOMAIN target
      BY <1>1 DEF AllStaged
    <2>2. run.profile \in Profiles /\ run.n \in Nat
      <3>1. PICK p, n, b, a, known :
          p \in Profiles /\ n \in Nat \ {0} /\ run = Working("stage", p, b, a, n, known)
        BY <1>1, <2>1 DEF IInv, Types, RunType, Idle, Collecting, Working
      <3> QED BY <3>1 DEF Working
    <2>3. /\ DOMAIN run.preserved = kept
          /\ \A path \in kept : run.preserved[path] = KeptText(run, path)
      BY <1>1, <2>1 DEF IInv, FoundInv, Steps, Kept
    <2>4. UNCHANGED <<canonical, target, assets, config>>
      <3>1. ~ stage_source /\ ~ stage_override
        BY <1>1, <2>1, <2>2, StagingAssumption DEF stage_source, stage_override
      <3>2. ~ EditCanonical /\ ~ EditOverride /\ ~ apply_profile_apax_config
        BY <1>1 DEF EditCanonical, EditOverride, apply_profile_apax_config
      <3>3. /\ ~ Collect /\ ~ clean_target_root /\ ~ restore_target_assets
            /\ ~ write_ax_configuration
        BY <2>1 DEF Collect, clean_target_root, restore_target_assets, write_ax_configuration
      <3> QED BY <1>1, <3>1, <3>2, <3>3 DEF Next, write_report, Crash
    <2>5. DOMAIN target = sources \cup kept
      <3>1. DOMAIN target \subseteq sources \cup kept
        BY <1>1, <2>1 DEF IInv, TreeInv, Included, Kept
      <3>2. ASSUME NEW path \in sources PROVE path \in DOMAIN target
        <4>1. PICK i \in DOMAIN Sources : path = Sources[i]
          BY DEF Range
        <4>2. i < run.n
          BY <2>1, <2>2, StagingAssumption
        <4> QED BY <4>1, <4>2, <1>1, <2>1 DEF IInv, TreeInv
      <3> QED BY <3>1, <3>2, <2>1, <2>3
    <2>6. \A path \in DOMAIN target : target[path] = Staged(path)
      BY <1>1, <2>1 DEF IInv, TreeInv
    <2>7. audit_fidelity' = Drift
      <3>1. kept \subseteq MOTION_MANUAL_OVERRIDE_STEMS
        BY <2>2, OverridesNested
      <3>2. DOMAIN target \ MOTION_MANUAL_OVERRIDE_STEMS = sources \ MOTION_MANUAL_OVERRIDE_STEMS
        BY <2>5, <3>1
      <3>3. ASSUME NEW path \in sources \ MOTION_MANUAL_OVERRIDE_STEMS
            PROVE  target[path] = convert_text(canonical.version)
        BY <2>3, <2>5, <2>6, <3>1 DEF Staged
      <3>4. audit_fidelity = Drift
        BY <3>2, <3>3 DEF audit_fidelity
      <3> QED BY <2>4, <3>4 DEF audit_fidelity
    <2>8. config = [version |-> canonical.version, profile |-> run.profile]
      BY <1>1, <2>1 DEF IInv, Types, FoundInv, TreeInv
    <2>9. assets = run.assets
      BY <1>1, <2>1 DEF IInv, TreeInv
    <2> QED BY <2>3, <2>4, <2>5, <2>6, <2>7, <2>8, <2>9 DEF Staged, KeptText
  <1>2. IInv /\ [Next]_vars => [run # Idle /\ AllStaged /\ run' = Idle => Exact]_vars
    BY <1>1
  <1> QED BY <1>2, Invariance, PTL DEF Spec, FinishedRunIsExact
=============================================================================
