------------------------ MODULE EngineeringProofs --------------------------
(* Theorems about DesignSession and Engineering, for all versions the      *)
(* surveys can have, any number of edits and any plant. First, that what a *)
(* session leaves on the disk is what its records say; what the tools      *)
(* compute of the surveys does not matter to it, that they compute it from *)
(* the same surveys does. Second, about the seed: the rules of the surveys *)
(* and of the renderer imply those a seed is validated with. Third, about  *)
(* the programs that are generated, and their scans: what they command     *)
(* and, in the end, where their supervisor goes.                           *)
EXTENDS Engineering, FiniteSetTheorems, WellFoundedInduction, TLAPS

AllRoots == UNION {AppRoots[d] : d \in Reviewable}
Part ==
    [docs : Versions \cup {0}, seed : Versions \cup {0}, root : AllRoots \cup {Blank}]
Bundle == [main : Part, facade : Part, mapper : Part, controllers : Part]
PlcSteps ==
    {"statusflow", "record", "catalog", "mapper", "controllers", "manifest", "project"}
PlcTools ==
    [name : {"plc"}, step : PlcSteps, root : AllRoots, rest : SUBSET AllRoots,
     done : SUBSET AllRoots]
Tools ==
    {Idle, Run("plc")}
    \cup [name : {"init"}, step : {"start", "context", "session"}]
    \cup [name : {"guided"}, step : {"start", "record"}]
    \cup [name : {"validate"}, step : {"start"}]
    \cup [name : {"seed"}, step : {"start", "write", "record"}, draft : BOOLEAN]
    \cup PlcTools

(* The types the proofs need. *)
Types ==
    /\ docs \in Versions
    /\ session # NoSession =>
         /\ "artifacts" \in DOMAIN session
         /\ session.artifacts \subseteq {SeedArtifact, NotesArtifact} \cup Components
    /\ seed # NoSeed => seed.docs \in Seedable
    /\ bundles \in [Components -> Bundle]
    /\ manifests \in [AppIds -> Part]
    /\ tool \in Tools

(* A tool, once it has started, is at a step that the files allow. *)
ToolInv ==
    /\ tool.name \notin {"idle", "init"} => session # NoSession
    /\ At("init", "context") => files = "all"
    /\ At("init", "session") => files = "all" /\ context
    /\ At("guided", "record") => notes
    /\ At("seed", "write") => docs \in Seedable
    /\ At("seed", "record") => seed # NoSeed

(* The generator of applications: the subsystem it works on, those before  *)
(* it and those to come are different ones of the present surveys.         *)
Generating == tool.name = "plc" /\ tool.step # "start"
PlcInv ==
    Generating =>
        /\ docs \in Reviewable /\ seed # NoSeed
        /\ tool.root \in AppRoots[docs]
        /\ tool.rest \subseteq AppRoots[docs] \ {tool.root}
        /\ tool.done \subseteq AppRoots[docs] \ tool.rest
        /\ tool.step # "project" => tool.root \notin tool.done

(* The parts a bundle has at each step are of this run. *)
PartOf(root) == [docs |-> docs, seed |-> seed.docs, root |-> root]
Has(root, parts) ==
    /\ ApplicationAccepted(Model[docs], Fsms[docs], root)
    /\ \A part \in parts : bundles[Component(docs, root)][part] = PartOf(root)
AllParts == {"main", "facade", "mapper", "controllers"}
StepInv ==
    /\ At("plc", "record") => Has(tool.root, {"main"})
    /\ At("plc", "catalog") => Has(tool.root, {"main"})
    /\ At("plc", "mapper") => Has(tool.root, {"main", "facade"})
    /\ At("plc", "controllers") => Has(tool.root, {"main", "facade", "mapper"})
    /\ At("plc", "manifest") => Has(tool.root, AllParts)
(* The bundles that are done stay complete; a manifest can be replaced,    *)
(* but only by that of another subsystem with the same application id.     *)
DoneInv ==
    Generating =>
        \A r \in tool.done :
            /\ Has(r, AllParts)
            /\ \E q \in tool.done : /\ AppId(docs, q) = AppId(docs, r)
                                    /\ manifests[AppId(docs, r)] = PartOf(q)

IInv ==
    /\ SessionIsComplete /\ RecordedIsWritten
    /\ Types /\ ToolInv /\ PlcInv /\ StepInv /\ DoneInv

-----------------------------------------------------------------------------
(* The surveys have versions, counted from 1.                              *)
LEMMA VersionsCounted == 1 \in Versions /\ 0 \notin Versions
  BY SurveysAssumption DEF Versions

(* Surveys that can be reviewed, or seeded, are versions.                  *)
LEMMA SeedableVersions == Reviewable \subseteq Versions /\ Seedable \subseteq Reviewable
  BY DEF Reviewable, Seedable

(* Approved surveys have a subsystem to generate an application for.       *)
LEMMA RootsExist ==
  ASSUME NEW d \in Reviewable, Generatable(Model[d], Fsms[d])
  PROVE  AppRoots[d] # {}
  <1>1. PICK n \in DOMAIN Fsms[d] : TRUE
    BY DEF Generatable
  <1>2. Fsms[d][n] \in Range(Fsms[d])
    BY <1>1 DEF Range
  <1>3. top_level_subsystem(Model[d], Fsms[d][n]) \in AppRoots[d]
    BY <1>2 DEF AppRoots, Roots
  <1> QED BY <1>3

(* The next subsystem to generate is one of those that are left.           *)
LEMMA FirstOfIsOne == ASSUME NEW roots, roots # {} PROVE FirstOf(roots) \in roots
  BY DEF FirstOf

(* The subsystems of a version are among all that any version has.         *)
LEMMA RootsKnown == ASSUME NEW d \in Reviewable PROVE AppRoots[d] \subseteq AllRoots
  BY DEF AllRoots

(* A part of this run is not the empty one, which carries version 0.       *)
LEMMA PartsAreNot ==
  ASSUME NEW d \in Versions, NEW e, NEW r
  PROVE  [docs |-> d, seed |-> e, root |-> r] # NoPart
  BY VersionsCounted DEF NoPart

(* An accepted application has one supervisor, which names it. *)
LEMMA IdsKnown ==
  ASSUME NEW d \in Reviewable, NEW r, ApplicationAccepted(Model[d], Fsms[d], r)
  PROVE  AppId(d, r) \in AppIds
  <1> DEFINE S == Supervisors(Model[d], Fsms[d], r)
  <1>1. S # {}
    BY FS_EmptySet DEF ApplicationAccepted
  <1>2. Supervisor(Model[d], Fsms[d], r) \in S
    BY <1>1 DEF Supervisor
  <1>3. Supervisor(Model[d], Fsms[d], r) \in Range(Fsms[d])
    BY <1>2 DEF Supervisors, OwnFsms
  <1> QED BY <1>3 DEF AppIds, AppId, application_id

(* So is the directory of an accepted application.                         *)
LEMMA ComponentKnown ==
  ASSUME NEW d \in Reviewable, NEW r \in AppRoots[d],
         ApplicationAccepted(Model[d], Fsms[d], r)
  PROVE  Component(d, r) \in Components
  BY DEF Components, ComponentsOf, Component, AppId, AppRoots

(* Components, the seed and the notes are different artifacts. *)
LEMMA ArtifactsDiffer ==
  /\ SeedArtifact # NotesArtifact
  /\ \A d, r : Component(d, r) \notin {SeedArtifact, NotesArtifact}
  /\ \A c \in Components : c \notin {SeedArtifact, NotesArtifact}
  /\ \A d, e, r, q : Component(d, r) = Component(e, q) => r = q
  BY DEF SeedArtifact, NotesArtifact, Component, Components, ComponentsOf

(* A rule is evaluated only of an accepted application.                    *)
LEMMA ChecksNeedAcceptance ==
  ASSUME NEW d \in Reviewable, NEW e \in Seedable, NEW r \in AppRoots[d],
         \/ Checks[d][e][r].statusflow \/ Checks[d][e][r].catalog
         \/ Checks[d][e][r].mapper \/ Checks[d][e][r].controllers \/ Checks[d][e][r].manifest
  PROVE  ApplicationAccepted(Model[d], Fsms[d], r)
  <1>1. e \in DOMAIN SeedTable
    BY DEF SeedTable
  <1>2. r \in Roots(Model[d], Fsms[d])
    BY DEF AppRoots
  <1>3. Checks[d][e][r] = Generation(Model[d], Fsms[d], SeedTable[e], r)
    BY <1>1, <1>2 DEF Checks, Generations
  <1> DEFINE a == /\ ApplicationAccepted(Model[d], Fsms[d], r)
                  /\ StatusflowRenders(SeedTable[e], Model[d], Supervisor(Model[d], Fsms[d], r))
  <1>4. \A b, p, c, m : LET s == Stages(a, b, p, c, m)
                        IN (s.statusflow \/ s.catalog \/ s.mapper \/ s.controllers \/ s.manifest) => a
    <2> HIDE DEF a
    <2> TAKE b, p, c, m
    <2>1. Stages(a, b, p, c, m).statusflow => a
      BY Zenon DEF Stages
    <2>2. Stages(a, b, p, c, m).catalog => a
      BY Zenon DEF Stages
    <2>3. Stages(a, b, p, c, m).mapper => a
      BY Zenon DEF Stages
    <2>4. Stages(a, b, p, c, m).controllers => a
      BY Zenon DEF Stages
    <2>5. Stages(a, b, p, c, m).manifest => a
      BY Zenon DEF Stages
    <2> QED BY <2>1, <2>2, <2>3, <2>4, <2>5, Zenon
  <1> QED BY <1>3, <1>4, Zenon DEF Generation

(* A generator that works has a tool with all its fields, and its parts    *)
(* have their type.                                                        *)
LEMMA GeneratorKnown ==
  ASSUME Types, PlcInv, Generating
  PROVE  tool \in PlcTools /\ CurrentPart \in Part /\ NoPart \in Part
  <1>1. tool \in PlcTools
    BY DEF Types, Generating, Tools, Idle, Run
  <1>2. CurrentPart \in Part /\ NoPart \in Part
    BY SeedableVersions, RootsKnown DEF Types, PlcInv, CurrentPart, Part, NoPart
  <1> QED BY <1>1, <1>2

(* An empty directory satisfies the invariant.                             *)
LEMMA InitEstablishes == Init => IInv
  <1> SUFFICES ASSUME Init PROVE IInv OBVIOUS
  <1>1. NoPart \in Part
    BY DEF Part, NoPart
  <1>2. Types
    BY <1>1, VersionsCounted DEF Init, Types, Tools, Bundle, NoBundle
  <1> QED BY <1>2
             DEF Init, IInv, SessionIsComplete, RecordedIsWritten, ToolInv, PlcInv,
                 StepInv, DoneInv, Generating, At, Idle

-----------------------------------------------------------------------------
(* One lemma for each action. *)

(* Edits change the surveys between tools, when none holds a part of them. *)
LEMMA EditStep == IInv /\ Edit => IInv'
  <1> SUFFICES ASSUME IInv, Edit PROVE IInv' OBVIOUS
  <1>1. SessionIsComplete' /\ RecordedIsWritten'
    BY DEF IInv, SessionIsComplete, RecordedIsWritten, Exists, Edit
  <1>2. Types'
    BY DEF IInv, Types, Edit
  <1>3. ToolInv' /\ PlcInv'
    BY DEF ToolInv, PlcInv, At, Idle, Generating, Edit
  <1>4. StepInv' /\ DoneInv'
    BY DEF StepInv, DoneInv, At, Idle, Generating, Edit
  <1> QED BY <1>1, <1>2, <1>3, <1>4 DEF IInv

(* A tool starts with nothing read and nothing written.                    *)
LEMMA StartStep == IInv /\ Start => IInv'
  <1> SUFFICES ASSUME IInv, Start PROVE IInv' OBVIOUS
  <1>1. SessionIsComplete' /\ RecordedIsWritten'
    BY DEF IInv, SessionIsComplete, RecordedIsWritten, Exists, Start
  <1>2. Types'
    BY DEF IInv, Types, Run, Tools, Start
  <1>3. ToolInv' /\ PlcInv'
    BY DEF ToolInv, PlcInv, At, Run, Generating, Start
  <1>4. StepInv' /\ DoneInv'
    BY DEF StepInv, DoneInv, At, Run, Generating, Start
  <1> QED BY <1>1, <1>2, <1>3, <1>4 DEF IInv

(* A tool that dies leaves the files as they are.                          *)
LEMMA CrashStep == IInv /\ Crash => IInv'
  <1> SUFFICES ASSUME IInv, Crash PROVE IInv' OBVIOUS
  <1>1. SessionIsComplete' /\ RecordedIsWritten'
    BY DEF IInv, SessionIsComplete, RecordedIsWritten, Exists, Crash
  <1>2. Types'
    BY DEF IInv, Types, End, Tools, Crash
  <1>3. ToolInv' /\ PlcInv'
    BY DEF ToolInv, PlcInv, At, End, Idle, Generating, Crash
  <1>4. StepInv' /\ DoneInv'
    BY DEF StepInv, DoneInv, At, End, Idle, Generating, Crash
  <1> QED BY <1>1, <1>2, <1>3, <1>4 DEF IInv

(* init_session writes the empty surveys first ...                         *)
LEMMA WriteSurveysStep == IInv /\ WriteSurveys => IInv'
  <1> SUFFICES ASSUME IInv, WriteSurveys PROVE IInv' OBVIOUS
  <1>1. SessionIsComplete' /\ RecordedIsWritten'
    BY DEF IInv, SessionIsComplete, RecordedIsWritten, Exists, WriteSurveys
  <1>2. Types'
    BY DEF IInv, Types, At, Run, Step, Idle, Tools, PlcTools, WriteSurveys
  <1>3. ToolInv' /\ PlcInv'
    BY DEF IInv, Types, ToolInv, PlcInv, At, Run, Step, Idle, Tools, PlcTools,
           Generating, WriteSurveys
  <1>4. StepInv' /\ DoneInv'
    BY DEF IInv, Types, StepInv, DoneInv, At, Run, Step, Idle, Tools, PlcTools,
           Generating, WriteSurveys
  <1> QED BY <1>1, <1>2, <1>3, <1>4 DEF IInv

(* ... then the context ...                                                *)
LEMMA WriteContextStep == IInv /\ WriteContext => IInv'
  <1> SUFFICES ASSUME IInv, WriteContext PROVE IInv' OBVIOUS
  <1>1. SessionIsComplete' /\ RecordedIsWritten'
    BY DEF IInv, SessionIsComplete, RecordedIsWritten, Exists, WriteContext
  <1>2. Types'
    BY DEF IInv, Types, At, Run, Step, Idle, Tools, PlcTools, WriteContext
  <1>3. ToolInv' /\ PlcInv'
    BY DEF IInv, ToolInv, PlcInv, At, Step, Generating, WriteContext
  <1>4. StepInv' /\ DoneInv'
    BY DEF StepInv, DoneInv, At, Step, Generating, WriteContext
  <1> QED BY <1>1, <1>2, <1>3, <1>4 DEF IInv

(* ... and session.json last, when all it needs is there.                  *)
LEMMA WriteSessionStep == IInv /\ WriteSession => IInv'
  <1> SUFFICES ASSUME IInv, WriteSession PROVE IInv' OBVIOUS
  <1>1. SessionIsComplete' /\ RecordedIsWritten'
    BY DEF IInv, SessionIsComplete, RecordedIsWritten, ToolInv, NewSession, WriteSession
  <1>2. Types'
    BY DEF IInv, Types, End, NewSession, Tools, WriteSession
  <1>3. ToolInv' /\ PlcInv'
    BY DEF ToolInv, PlcInv, At, End, Idle, Generating, WriteSession
  <1>4. StepInv' /\ DoneInv'
    BY DEF StepInv, DoneInv, At, End, Idle, Generating, WriteSession
  <1> QED BY <1>1, <1>2, <1>3, <1>4 DEF IInv

(* The guided interview writes its notes ...                               *)
LEMMA WriteNotesStep == IInv /\ WriteNotes => IInv'
  <1> SUFFICES ASSUME IInv, WriteNotes PROVE IInv' OBVIOUS
  <1>1. SessionIsComplete' /\ RecordedIsWritten'
    BY DEF IInv, SessionIsComplete, RecordedIsWritten, Exists, WriteNotes
  <1>2. Types'
    BY DEF IInv, Types, At, Run, Step, Idle, Tools, PlcTools, WriteNotes
  <1>3. ToolInv' /\ PlcInv'
    BY DEF IInv, ToolInv, PlcInv, At, Step, Generating, WriteNotes
  <1>4. StepInv' /\ DoneInv'
    BY DEF StepInv, DoneInv, At, Step, Generating, WriteNotes
  <1> QED BY <1>1, <1>2, <1>3, <1>4 DEF IInv

(* ... and then records that it has.                                       *)
LEMMA RecordNotesStep == IInv /\ RecordNotes => IInv'
  <1> SUFFICES ASSUME IInv, RecordNotes PROVE IInv' OBVIOUS
  <1>1. SessionIsComplete' /\ RecordedIsWritten'
    BY DEF IInv, SessionIsComplete, RecordedIsWritten, ToolInv, At, Exists, RecordNotes
  <1>2. Types'
    BY DEF IInv, Types, ToolInv, At, End, Tools, RecordNotes
  <1>3. ToolInv' /\ PlcInv'
    BY DEF ToolInv, PlcInv, At, End, Idle, Generating, RecordNotes
  <1>4. StepInv' /\ DoneInv'
    BY DEF StepInv, DoneInv, At, End, Idle, Generating, RecordNotes
  <1> QED BY <1>1, <1>2, <1>3, <1>4 DEF IInv

(* Validation reviews the session and writes nothing else.                 *)
LEMMA ValidateStep == IInv /\ Validate => IInv'
  <1> SUFFICES ASSUME IInv, Validate PROVE IInv' OBVIOUS
  <1>1. SessionIsComplete' /\ RecordedIsWritten'
    BY DEF IInv, SessionIsComplete, RecordedIsWritten, NoSession, Exists, Reviewed,
           Validate
  <1>2. Types'
    BY DEF IInv, Types, End, NoSession, Tools, Reviewed, Validate
  <1>3. ToolInv' /\ PlcInv'
    BY DEF ToolInv, PlcInv, At, End, Idle, Generating, Validate
  <1>4. StepInv' /\ DoneInv'
    BY DEF StepInv, DoneInv, At, End, Idle, Generating, Validate
  <1> QED BY <1>1, <1>2, <1>3, <1>4 DEF IInv

(* The seed renderer goes on only with surveys a seed can be made of.      *)
LEMMA ValidateForSeedStep == IInv /\ ValidateForSeed => IInv'
  <1> SUFFICES ASSUME IInv, ValidateForSeed PROVE IInv' OBVIOUS
  <1>1. SessionIsComplete' /\ RecordedIsWritten'
    BY DEF IInv, SessionIsComplete, RecordedIsWritten, NoSession, Exists, Reviewed,
           ValidateForSeed
  <1>2. Types'
    BY DEF IInv, Types, At, Run, Step, End, Idle, NoSession, Tools, PlcTools, Reviewed,
           ValidateForSeed
  <1>3. ToolInv' /\ PlcInv'
    BY DEF IInv, Types, ToolInv, PlcInv, At, Run, Step, End, Idle, NoSession, Tools,
           PlcTools, Generating, Reviewed, ValidateForSeed
  <1>4. StepInv' /\ DoneInv'
    BY DEF IInv, Types, StepInv, DoneInv, At, Run, Step, End, Idle, Tools, PlcTools,
           Generating, ValidateForSeed
  <1> QED BY <1>1, <1>2, <1>3, <1>4 DEF IInv

(* A seed is of the surveys at hand, which allow one.                      *)
LEMMA WriteSeedStep == IInv /\ WriteSeed => IInv'
  <1> SUFFICES ASSUME IInv, WriteSeed PROVE IInv' OBVIOUS
  <1>1. SessionIsComplete' /\ RecordedIsWritten'
    BY VersionsCounted
       DEF IInv, SessionIsComplete, RecordedIsWritten, Types, NoSeed, Exists, WriteSeed
  <1>2. Types'
    BY DEF IInv, Types, ToolInv, At, Run, Step, Idle, Tools, PlcTools, WriteSeed
  <1>3. ToolInv' /\ PlcInv'
    BY VersionsCounted
       DEF IInv, Types, ToolInv, PlcInv, At, Step, NoSeed, Generating, WriteSeed
  <1>4. StepInv' /\ DoneInv'
    BY DEF StepInv, DoneInv, At, Step, Generating, WriteSeed
  <1> QED BY <1>1, <1>2, <1>3, <1>4 DEF IInv

(* The seed is recorded when it is there.                                  *)
LEMMA RecordSeedStep == IInv /\ RecordSeed => IInv'
  <1> SUFFICES ASSUME IInv, RecordSeed PROVE IInv' OBVIOUS
  <1>1. SessionIsComplete' /\ RecordedIsWritten'
    BY ArtifactsDiffer
       DEF IInv, SessionIsComplete, RecordedIsWritten, ToolInv, At, Exists, RecordSeed
  <1>2. Types'
    BY DEF IInv, Types, ToolInv, At, End, Tools, RecordSeed
  <1>3. ToolInv' /\ PlcInv'
    BY DEF ToolInv, PlcInv, At, End, Idle, Generating, RecordSeed
  <1>4. StepInv' /\ DoneInv'
    BY DEF StepInv, DoneInv, At, End, Idle, Generating, RecordSeed
  <1> QED BY <1>1, <1>2, <1>3, <1>4 DEF IInv

(* The generators start with the first subsystem of approved surveys.      *)
LEMMA ValidateForPlcStep == IInv /\ ValidateForPlc => IInv'
  <1> SUFFICES ASSUME IInv, ValidateForPlc PROVE IInv' OBVIOUS
  <1>1. SessionIsComplete' /\ RecordedIsWritten'
    BY DEF IInv, SessionIsComplete, RecordedIsWritten, NoSession, Exists, Reviewed, Begin,
           ValidateForPlc
  <1>2. Types'
    BY FirstOfIsOne, RootsExist, RootsKnown
       DEF IInv, Types, End, NoSession, Tools, PlcTools, PlcSteps, Reviewed, Begin,
           ValidateForPlc
  <1>3. ToolInv' /\ PlcInv'
    BY FirstOfIsOne, RootsExist
       DEF IInv, Types, ToolInv, PlcInv, At, End, Idle, NoSession, Generating, Reviewed, Begin,
           ValidateForPlc
  <1>4. StepInv' /\ DoneInv'
    BY DEF StepInv, DoneInv, At, End, Idle, Generating, Begin, ValidateForPlc
  <1> QED BY <1>1, <1>2, <1>3, <1>4 DEF IInv

(* A step of an application writes to its bundle, which exists, or the run *)
(* ends.                                                                   *)
LEMMA PlcStepEffect ==
  ASSUME IInv, NEW step \in {"statusflow", "catalog", "mapper", "controllers"}, NEW next, NEW bundle,
         PlcStep(step, next, bundle)
  PROVE  /\ Generating /\ tool.step = step
         /\ \/ /\ Step(next) /\ ApplicationAccepted(Model[docs], Fsms[docs], tool.root)
               /\ Component(docs, tool.root) \in Components
               /\ bundles' = [bundles EXCEPT ![Component(docs, tool.root)] = bundle]
            \/ End /\ UNCHANGED bundles
  <1>1. Generating /\ tool.step = step
    BY DEF PlcStep, At, Generating
  <1>2. docs \in Reviewable /\ seed.docs \in Seedable /\ tool.root \in AppRoots[docs]
    BY <1>1 DEF IInv, Types, PlcInv
  <1>3. Checks[docs][seed.docs][tool.root][step] =>
          /\ ApplicationAccepted(Model[docs], Fsms[docs], tool.root)
          /\ Component(docs, tool.root) \in Components
    BY <1>2, ChecksNeedAcceptance, ComponentKnown
  <1> QED BY <1>1, <1>3 DEF PlcStep

(* A new Main makes the bundle of its subsystem that of this run, and does *)
(* not touch those that are done.                                          *)
LEMMA RenderStatusflowStep == IInv /\ RenderStatusflow => IInv'
  <1> SUFFICES ASSUME IInv, RenderStatusflow PROVE IInv' OBVIOUS
  <1> DEFINE here == Component(docs, tool.root)
  <1>e. /\ Generating /\ tool.name = "plc" /\ tool.step = "statusflow"
        /\ \/ /\ Step("record") /\ here \in Components
              /\ ApplicationAccepted(Model[docs], Fsms[docs], tool.root)
              /\ bundles' = [bundles EXCEPT ![here] =
                              [bundles[here] EXCEPT !.main = CurrentPart, !.facade = NoPart]]
           \/ End /\ UNCHANGED bundles
    BY PlcStepEffect DEF RenderStatusflow, CurrentBundle, Generating
  <1>0. CurrentPart \in Part /\ NoPart \in Part /\ tool \in PlcTools
    BY <1>e, GeneratorKnown DEF IInv
  <1>f. \A c \in Components :
          \/ bundles'[c] = bundles[c] /\ (c = here => tool' = Idle)
          \/ c = here /\ bundles'[c].main = CurrentPart
    BY <1>e, <1>0 DEF IInv, Types, Bundle, End
  <1>1. SessionIsComplete' /\ RecordedIsWritten'
    BY <1>f, PartsAreNot, ArtifactsDiffer
       DEF IInv, SessionIsComplete, RecordedIsWritten, Types, Exists, CurrentPart,
           OnlyBundles, RenderStatusflow
  <1>2. Types'
    <2>1. tool' \in Tools
      BY <1>e, <1>0 DEF RenderStatusflow, Tools, PlcTools, PlcSteps, Step, End
    <2>2. bundles' \in [Components -> Bundle]
      BY <1>e, <1>0 DEF IInv, Types, Bundle
    <2> QED BY <2>1, <2>2 DEF IInv, Types, RenderStatusflow, OnlyBundles
  <1>3. ToolInv' /\ PlcInv'
    BY <1>e DEF IInv, Types, ToolInv, PlcInv, At, Run, Step, End, Idle, Tools, PlcTools,
           Generating, OnlyBundles, RenderStatusflow
  <1>4. StepInv' /\ DoneInv'
    <2>0. \/ tool' = Idle
          \/ /\ tool' = [tool EXCEPT !.step = "record"]
             /\ ApplicationAccepted(Model[docs], Fsms[docs], tool.root) /\ here \in Components
             /\ bundles'[here].main = CurrentPart
      <3>1. CASE End
        BY <3>1 DEF End
      <3>2. CASE Step("record") /\ here \in Components
                 /\ bundles' = [bundles EXCEPT ![here] =
                                 [bundles[here] EXCEPT !.main = CurrentPart, !.facade = NoPart]]
        <4>1. bundles'[here].main = CurrentPart
          BY <3>2 DEF IInv, Types, Bundle
        <4> QED BY <1>e, <3>2, <4>1 DEF Step, End
      <3> QED BY <1>e, <3>1, <3>2
    <2>1. StepInv'
      BY <2>0, <1>0 DEF StepInv, RenderStatusflow, OnlyBundles, At, Idle, Has, PartOf,
         CurrentPart, PlcTools
    <2>2. DoneInv'
      <3>1. CASE tool' = Idle
        BY <3>1 DEF DoneInv, Generating, Idle
      <3>2. CASE tool' = [tool EXCEPT !.step = "record"]
        <4>1. tool'.done = tool.done /\ tool.root \notin tool.done
          BY <3>2, <1>0, <1>e DEF IInv, PlcInv, PlcTools
        <4>2. ASSUME NEW r \in tool.done, Has(r, AllParts) PROVE Has(r, AllParts)'
          <5>1. Component(docs, r) # here
            BY <4>1, ArtifactsDiffer
          <5>2. Component(docs, r) \in Components
            BY <4>2, <1>e, ComponentKnown DEF IInv, Types, PlcInv, Has
          <5> QED BY <5>1, <5>2, <1>f, <4>2 DEF Has, PartOf, RenderStatusflow, OnlyBundles
        <4> QED BY <4>1, <4>2, <1>e DEF IInv, DoneInv, RenderStatusflow, OnlyBundles, PartOf
      <3> QED BY <2>0, <3>1, <3>2
    <2> QED BY <2>1, <2>2
  <1> QED BY <1>1, <1>2, <1>3, <1>4 DEF IInv

(* The bundle is recorded when its Main is there.                          *)
LEMMA RecordStatusflowStep == IInv /\ RecordStatusflow => IInv'
  <1> SUFFICES ASSUME IInv, RecordStatusflow PROVE IInv' OBVIOUS
  <1>1. SessionIsComplete' /\ RecordedIsWritten'
    BY ArtifactsDiffer, PartsAreNot
       DEF IInv, SessionIsComplete, RecordedIsWritten, Types, ToolInv, StepInv, At,
           Exists, PartOf, Has, RecordStatusflow
  <1>2. Types'
    BY ComponentKnown
       DEF IInv, Types, ToolInv, PlcInv, StepInv, At, Run, Step, Idle, Tools, PlcTools,
           PlcSteps, Generating, Has, RecordStatusflow
  <1>3. ToolInv' /\ PlcInv'
    <2>1. session' # NoSession
      BY DEF RecordStatusflow, IInv, Types, ToolInv, NoSession, At
    <2> QED BY <2>1
               DEF IInv, Types, ToolInv, PlcInv, At, Run, Step, Idle, Tools, PlcTools,
                   Generating, RecordStatusflow
  <1>4. StepInv' /\ DoneInv'
    BY DEF IInv, Types, ToolInv, PlcInv, StepInv, DoneInv, At, Run, Step, Idle, Tools,
           PlcTools, Generating, PartOf, Has, RecordStatusflow
  <1> QED BY <1>1, <1>2, <1>3, <1>4 DEF IInv

(* Facade, mapper and controllers complete the bundle, one after the other *)
LEMMA RenderCatalogStep == IInv /\ RenderCatalog => IInv'
  <1> SUFFICES ASSUME IInv, RenderCatalog PROVE IInv' OBVIOUS
  <1> DEFINE here == Component(docs, tool.root)
  <1>e. /\ Generating /\ tool.name = "plc" /\ tool.step = "catalog"
        /\ \/ /\ Step("mapper") /\ here \in Components
              /\ ApplicationAccepted(Model[docs], Fsms[docs], tool.root)
              /\ bundles' = [bundles EXCEPT ![here] = [bundles[here] EXCEPT !.facade = CurrentPart]]
           \/ End /\ UNCHANGED bundles
    BY PlcStepEffect DEF RenderCatalog, CurrentBundle, Generating
  <1>0. CurrentPart \in Part /\ tool \in PlcTools
    BY <1>e, GeneratorKnown DEF IInv
  <1>1. SessionIsComplete' /\ RecordedIsWritten'
    BY <1>e, <1>0, PartsAreNot
       DEF IInv, SessionIsComplete, RecordedIsWritten, Types, Bundle, Exists,
           CurrentPart, OnlyBundles, RenderCatalog
  <1>2. Types'
    <2>1. tool' \in Tools
      BY <1>e, <1>0 DEF Tools, PlcTools, PlcSteps, Step, End
    <2>2. bundles' \in [Components -> Bundle]
      BY <1>e, <1>0 DEF IInv, Types, Bundle
    <2> QED BY <2>1, <2>2 DEF IInv, Types, RenderCatalog, OnlyBundles
  <1>3. ToolInv' /\ PlcInv'
    BY <1>e DEF IInv, Types, ToolInv, PlcInv, At, Run, Step, End, Idle, Tools, PlcTools,
           Generating, OnlyBundles, RenderCatalog
  <1>4. \/ tool' = Idle
        \/ /\ tool' = [tool EXCEPT !.step = "mapper"]
           /\ ApplicationAccepted(Model[docs], Fsms[docs], tool.root) /\ here \in Components
           /\ bundles'[here].main = bundles[here].main /\ bundles'[here].facade = CurrentPart
    <2>1. CASE End
      BY <2>1 DEF End
    <2>2. CASE bundles' = [bundles EXCEPT ![here] = [bundles[here] EXCEPT !.facade = CurrentPart]]
               /\ here \in Components
      <3>1. bundles'[here].main = bundles[here].main /\ bundles'[here].facade = CurrentPart
        BY <2>2 DEF IInv, Types, Bundle
      <3> QED BY <1>e, <2>2, <3>1 DEF Step, End
    <2> QED BY <1>e, <2>1, <2>2
  <1>5. \A c \in Components : c # here => bundles'[c] = bundles[c]
    BY <1>e DEF IInv, Types
  <1>6. StepInv'
    BY <1>e, <1>0, <1>4
       DEF IInv, StepInv, At, Idle, PlcTools, PartOf, Has, CurrentPart, OnlyBundles, RenderCatalog
  <1>7. DoneInv'
    <2>1. CASE tool' = Idle
      BY <2>1 DEF DoneInv, Generating, Idle
    <2>2. CASE tool' = [tool EXCEPT !.step = "mapper"]
      <3>1. tool'.done = tool.done /\ tool.root \notin tool.done
        BY <2>2, <1>0, <1>e DEF IInv, PlcInv, PlcTools
      <3>2. ASSUME NEW r \in tool.done, Has(r, AllParts) PROVE Has(r, AllParts)'
        <4>1. Component(docs, r) # here
          BY <3>1, ArtifactsDiffer
        <4>2. Component(docs, r) \in Components
          BY <3>2, <1>e, ComponentKnown DEF IInv, Types, PlcInv, Has
        <4> QED BY <4>1, <4>2, <1>5, <3>2 DEF Has, PartOf, RenderCatalog, OnlyBundles
      <3> QED BY <3>1, <3>2, <1>e DEF IInv, DoneInv, RenderCatalog, OnlyBundles, PartOf
    <2> QED BY <1>4, <2>1, <2>2
  <1> QED BY <1>1, <1>2, <1>3, <1>6, <1>7 DEF IInv

(* The mapper leaves the other parts as they are.                          *)
LEMMA RenderMapperStep == IInv /\ RenderMapper => IInv'
  <1> SUFFICES ASSUME IInv, RenderMapper PROVE IInv' OBVIOUS
  <1> DEFINE here == Component(docs, tool.root)
  <1>e. /\ Generating /\ tool.name = "plc" /\ tool.step = "mapper"
        /\ \/ /\ Step("controllers") /\ here \in Components
              /\ ApplicationAccepted(Model[docs], Fsms[docs], tool.root)
              /\ bundles' = [bundles EXCEPT ![here] = [bundles[here] EXCEPT !.mapper = CurrentPart]]
           \/ End /\ UNCHANGED bundles
    BY PlcStepEffect DEF RenderMapper, CurrentBundle, Generating
  <1>0. CurrentPart \in Part /\ tool \in PlcTools
    BY <1>e, GeneratorKnown DEF IInv
  <1>1. SessionIsComplete' /\ RecordedIsWritten'
    BY <1>e, <1>0, PartsAreNot
       DEF IInv, SessionIsComplete, RecordedIsWritten, Types, Bundle, Exists,
           CurrentPart, OnlyBundles, RenderMapper
  <1>2. Types'
    <2>1. tool' \in Tools
      BY <1>e, <1>0 DEF Tools, PlcTools, PlcSteps, Step, End
    <2>2. bundles' \in [Components -> Bundle]
      BY <1>e, <1>0 DEF IInv, Types, Bundle
    <2> QED BY <2>1, <2>2 DEF IInv, Types, RenderMapper, OnlyBundles
  <1>3. ToolInv' /\ PlcInv'
    BY <1>e DEF IInv, Types, ToolInv, PlcInv, At, Run, Step, End, Idle, Tools, PlcTools,
           Generating, OnlyBundles, RenderMapper
  <1>4. \/ tool' = Idle
        \/ /\ tool' = [tool EXCEPT !.step = "controllers"]
           /\ ApplicationAccepted(Model[docs], Fsms[docs], tool.root) /\ here \in Components
           /\ bundles'[here].main = bundles[here].main
           /\ bundles'[here].facade = bundles[here].facade /\ bundles'[here].mapper = CurrentPart
    <2>1. CASE End
      BY <2>1 DEF End
    <2>2. CASE bundles' = [bundles EXCEPT ![here] = [bundles[here] EXCEPT !.mapper = CurrentPart]]
               /\ here \in Components
      <3>1. /\ bundles'[here].main = bundles[here].main
            /\ bundles'[here].facade = bundles[here].facade /\ bundles'[here].mapper = CurrentPart
        BY <2>2 DEF IInv, Types, Bundle
      <3> QED BY <1>e, <2>2, <3>1 DEF Step, End
    <2> QED BY <1>e, <2>1, <2>2
  <1>5. \A c \in Components : c # here => bundles'[c] = bundles[c]
    BY <1>e DEF IInv, Types
  <1>6. StepInv'
    BY <1>e, <1>0, <1>4
       DEF IInv, StepInv, At, Idle, PlcTools, PartOf, Has, CurrentPart, OnlyBundles, RenderMapper
  <1>7. DoneInv'
    <2>1. CASE tool' = Idle
      BY <2>1 DEF DoneInv, Generating, Idle
    <2>2. CASE tool' = [tool EXCEPT !.step = "controllers"]
      <3>1. tool'.done = tool.done /\ tool.root \notin tool.done
        BY <2>2, <1>0, <1>e DEF IInv, PlcInv, PlcTools
      <3>2. ASSUME NEW r \in tool.done, Has(r, AllParts) PROVE Has(r, AllParts)'
        <4>1. Component(docs, r) # here
          BY <3>1, ArtifactsDiffer
        <4>2. Component(docs, r) \in Components
          BY <3>2, <1>e, ComponentKnown DEF IInv, Types, PlcInv, Has
        <4> QED BY <4>1, <4>2, <1>5, <3>2 DEF Has, PartOf, RenderMapper, OnlyBundles
      <3> QED BY <3>1, <3>2, <1>e DEF IInv, DoneInv, RenderMapper, OnlyBundles, PartOf
    <2> QED BY <1>4, <2>1, <2>2
  <1> QED BY <1>1, <1>2, <1>3, <1>6, <1>7 DEF IInv

(* The controllers are the last part of a bundle.                          *)
LEMMA RenderControllersStep == IInv /\ RenderControllers => IInv'
  <1> SUFFICES ASSUME IInv, RenderControllers PROVE IInv' OBVIOUS
  <1> DEFINE here == Component(docs, tool.root)
  <1>e. /\ Generating /\ tool.name = "plc" /\ tool.step = "controllers"
        /\ \/ /\ Step("manifest") /\ here \in Components
              /\ ApplicationAccepted(Model[docs], Fsms[docs], tool.root)
              /\ bundles' = [bundles EXCEPT ![here] =
                              [bundles[here] EXCEPT !.controllers = CurrentPart]]
           \/ End /\ UNCHANGED bundles
    BY PlcStepEffect DEF RenderControllers, CurrentBundle, Generating
  <1>0. CurrentPart \in Part /\ tool \in PlcTools
    BY <1>e, GeneratorKnown DEF IInv
  <1>1. SessionIsComplete' /\ RecordedIsWritten'
    BY <1>e, <1>0, PartsAreNot
       DEF IInv, SessionIsComplete, RecordedIsWritten, Types, Bundle, Exists,
           CurrentPart, OnlyBundles, RenderControllers
  <1>2. Types'
    <2>1. tool' \in Tools
      BY <1>e, <1>0 DEF Tools, PlcTools, PlcSteps, Step, End
    <2>2. bundles' \in [Components -> Bundle]
      BY <1>e, <1>0 DEF IInv, Types, Bundle
    <2> QED BY <2>1, <2>2 DEF IInv, Types, RenderControllers, OnlyBundles
  <1>3. ToolInv' /\ PlcInv'
    BY <1>e DEF IInv, Types, ToolInv, PlcInv, At, Run, Step, End, Idle, Tools, PlcTools,
           Generating, OnlyBundles, RenderControllers
  <1>4. StepInv' /\ DoneInv'
    BY <1>e, ArtifactsDiffer, ComponentKnown
       DEF IInv, Types, ToolInv, PlcInv, StepInv, DoneInv, At, Run, Step, End, Idle,
           Tools, PlcTools, PlcSteps, Generating, PartOf, Has, AllParts,
           CurrentPart, OnlyBundles, Bundle, RenderControllers
  <1> QED BY <1>1, <1>2, <1>3, <1>4 DEF IInv

(* With its manifest a subsystem is done, and the next one is another.     *)
LEMMA WriteManifestStep == IInv /\ WriteManifest => IInv'
  <1> SUFFICES ASSUME IInv, WriteManifest PROVE IInv' OBVIOUS
  <1> DEFINE ok == Checks[docs][seed.docs][tool.root].manifest
  <1>0. /\ CurrentPart \in Part /\ tool.step = "manifest" /\ tool.name = "plc"
        /\ Generating /\ tool \in PlcTools
    BY GeneratorKnown DEF IInv, WriteManifest, At, Generating
  <1>01. AppId(docs, tool.root) \in AppIds
    BY <1>0, IdsKnown DEF IInv, PlcInv, StepInv, At, Has
  <1>1. ASSUME ok, tool.rest = {} PROVE Types' /\ ToolInv' /\ PlcInv' /\ StepInv'
    <2>0. tool' = [tool EXCEPT !.step = "project", !.done = tool.done \cup {tool.root}]
      BY <1>1 DEF WriteManifest
    <2>1. /\ tool' \in PlcTools /\ Generating'
          /\ tool'.root = tool.root /\ tool'.rest = {} /\ tool'.step = "project"
          /\ tool'.done = tool.done \cup {tool.root}
      BY <1>1, <1>0, <2>0 DEF WriteManifest, PlcTools, PlcSteps, Generating
    <2>3. Types'
      BY <1>0, <1>1, <1>01, <2>1 DEF IInv, Types, WriteManifest, Tools
    <2>4. ToolInv' /\ StepInv'
      BY <2>1, <1>0 DEF ToolInv, StepInv, WriteManifest, At, IInv, Generating
    <2>5. PlcInv'
      BY <2>1, <1>0, <1>1 DEF PlcInv, WriteManifest, At, IInv
    <2> QED
      BY <2>3, <2>4, <2>5
  <1>2. ASSUME ok, tool.rest # {} PROVE Types' /\ ToolInv' /\ PlcInv' /\ StepInv'
    <2> DEFINE next == FirstOf(tool.rest)
    <2>0. next \in tool.rest
      BY <1>2, FirstOfIsOne
    <2>01. tool' = [tool EXCEPT !.step = "statusflow", !.root = next, !.rest = @ \ {next},
                                !.done = tool.done \cup {tool.root}]
      BY <1>2 DEF WriteManifest
    <2>1. /\ tool' \in PlcTools /\ Generating'
          /\ tool'.root = next /\ tool'.rest = tool.rest \ {next} /\ tool'.step = "statusflow"
          /\ tool'.done = tool.done \cup {tool.root}
      BY <2>0, <2>01, <1>0 DEF PlcTools, PlcSteps, Generating
    <2>3. Types'
      BY <1>0, <1>2, <1>01, <2>1 DEF IInv, Types, WriteManifest, Tools
    <2>4. ToolInv' /\ StepInv'
      BY <2>1, <1>0 DEF ToolInv, StepInv, WriteManifest, At, IInv, Generating
    <2>5. PlcInv'
      BY <2>0, <2>1, <1>0, <1>1 DEF PlcInv, WriteManifest, At, IInv
    <2> QED
      BY <2>3, <2>4, <2>5
  <1>3. ASSUME ok PROVE DoneInv'
    <2>1. tool'.done = tool.done \cup {tool.root}
       BY <1>3, <1>0 DEF WriteManifest, PlcTools
    <2>2. ASSUME NEW r \in tool'.done PROVE Has(r, AllParts)'
       BY <2>1, <2>2, <1>0 DEF IInv, DoneInv, StepInv, Has, WriteManifest, At, PartOf
    <2>3. ASSUME NEW r \in tool'.done
          PROVE  \E q \in tool'.done : /\ AppId(docs, q) = AppId(docs, r)
                                       /\ manifests'[AppId(docs, r)] = PartOf(q)
      <3>0. manifests' = [manifests EXCEPT ![AppId(docs, tool.root)] = PartOf(tool.root)]
         BY <1>3 DEF WriteManifest, CurrentPart, PartOf
      <3>1. CASE AppId(docs, r) = AppId(docs, tool.root)
         BY <3>0, <3>1, <1>01, <2>1 DEF IInv, Types
      <3>2. CASE AppId(docs, r) # AppId(docs, tool.root)
        <4>1. r \in tool.done
          BY <2>1, <2>3, <3>2
        <4>2. manifests'[AppId(docs, r)] = manifests[AppId(docs, r)]
          BY <3>0, <3>2, <1>01 DEF IInv, Types
        <4> QED BY <4>1, <4>2, <2>1, <1>0 DEF IInv, DoneInv
      <3> QED BY <3>1, <3>2
    <2> QED
      BY <2>2, <2>3 DEF DoneInv, WriteManifest, PartOf
  <1>4. SessionIsComplete' /\ RecordedIsWritten'
    BY DEF IInv, SessionIsComplete, RecordedIsWritten, WriteManifest, Exists
  <1>5. CASE ~ok
    BY <1>5
       DEF IInv, SessionIsComplete, RecordedIsWritten, Types, ToolInv, PlcInv, StepInv,
           DoneInv, At, End, Idle, Exists, Tools, Generating, WriteManifest
  <1>6. CASE ok
    BY <1>1, <1>2, <1>3, <1>4, <1>6 DEF IInv
  <1> QED BY <1>5, <1>6

(* The project manifest is the last file of a run.                         *)
LEMMA WriteProjectStep == IInv /\ WriteProject => IInv'
  <1> SUFFICES ASSUME IInv, WriteProject PROVE IInv' OBVIOUS
  <1>1. SessionIsComplete' /\ RecordedIsWritten'
    BY DEF IInv, SessionIsComplete, RecordedIsWritten, Exists, WriteProject
  <1>2. Types'
    BY DEF IInv, Types, End, Tools, WriteProject
  <1>3. ToolInv' /\ PlcInv'
    BY DEF ToolInv, PlcInv, At, End, Idle, Generating, WriteProject
  <1>4. StepInv' /\ DoneInv'
    BY DEF StepInv, DoneInv, At, End, Idle, Generating, WriteProject
  <1> QED BY <1>1, <1>2, <1>3, <1>4 DEF IInv

-----------------------------------------------------------------------------
(* Every step keeps the invariant.                                         *)
LEMMA NextPreserves == IInv /\ [Next]_vars => IInv'
  <1> SUFFICES ASSUME IInv, [Next]_vars PROVE IInv' OBVIOUS
  <1>1. CASE UNCHANGED vars
    BY <1>1
       DEF vars, IInv, SessionIsComplete, RecordedIsWritten, Types, ToolInv, PlcInv,
           StepInv, DoneInv, At, Exists, Generating, PartOf, Has
  <1>2. CASE Next
    BY <1>2, EditStep, StartStep, CrashStep, WriteSurveysStep, WriteContextStep,
       WriteSessionStep, WriteNotesStep, RecordNotesStep, ValidateStep, ValidateForSeedStep,
       WriteSeedStep, RecordSeedStep, ValidateForPlcStep, RenderStatusflowStep,
       RecordStatusflowStep, RenderCatalogStep, RenderMapperStep, RenderControllersStep,
       WriteManifestStep, WriteProjectStep DEF Next
  <1> QED BY <1>1, <1>2

(* At every moment of every session, between any two writes of any tool,   *)
(* the files agree with each other as IInv says.                           *)
THEOREM Invariance == Spec => []IInv
  <1>1. Init => IInv
    BY InitEstablishes
  <1>2. IInv /\ [Next]_vars => IInv'
    BY NextPreserves
  <1> QED BY <1>1, <1>2, PTL DEF Spec

(* A session.json is the last file of init_session: wherever that died     *)
(* before, the next one starts over, and none takes half a session for one *)
(* to resume.                                                              *)
THEOREM SessionsComplete == Spec => []SessionIsComplete
  <1>1. IInv => SessionIsComplete
    BY DEF IInv
  <1> QED BY <1>1, Invariance, PTL

(* No interruption of any tool leaves session.json with an artifact that   *)
(* was never written.                                                      *)
THEOREM RecordsTrue == Spec => []RecordedIsWritten
  <1>1. IInv => RecordedIsWritten
    BY DEF IInv
  <1> QED BY <1>1, Invariance, PTL

(* The project manifest lists complete bundles of one run, each with its   *)
(* own manifest, whatever failed runs have left in their directories.      *)
THEOREM ManifestTrue == Spec => ManifestDescribesBundles
  <1>1. IInv /\ [Next]_vars =>
          [project' # project => \A row \in project' :
             LET b == bundles[<<row.app, row.root>>]
             IN {b.main, b.facade, b.mapper, b.controllers, manifests[row.app]}
                  = {[docs |-> docs, seed |-> seed.docs, root |-> row.root]}]_vars
    <2> SUFFICES ASSUME IInv, Next, project' # project, NEW row \in project'
                 PROVE  LET b == bundles[<<row.app, row.root>>]
                        IN {b.main, b.facade, b.mapper, b.controllers, manifests[row.app]}
                             = {[docs |-> docs, seed |-> seed.docs, root |-> row.root]}
      BY DEF vars
    <2>1. WriteProject
      BY DEF Next, Edit, Start, Crash, WriteSurveys, WriteContext, WriteSession,
             WriteNotes,
             RecordNotes, Validate, ValidateForSeed, WriteSeed, RecordSeed, ValidateForPlc,
             RenderStatusflow, RecordStatusflow, RenderCatalog, RenderMapper, RenderControllers,
             WriteManifest, OnlyBundles
    <2>2. \A r, q \in tool.done : AppId(docs, r) = AppId(docs, q) => r = q
      BY <2>1 DEF WriteProject
    <2>3. PICK r \in tool.done : row = [app |-> AppId(docs, r), root |-> r, docs |-> docs]
      BY <2>1, <2>2 DEF WriteProject
    <2>4. Has(r, AllParts) /\ manifests[AppId(docs, r)] = PartOf(r)
      BY <2>1, <2>2, <2>3 DEF IInv, DoneInv, WriteProject, At, Generating
    <2>5. Component(docs, r) = <<row.app, row.root>>
      BY <2>3 DEF Component
    <2> QED BY <2>3, <2>4, <2>5 DEF Has, AllParts, PartOf
  <1> QED BY <1>1, Invariance, PTL DEF Spec, ManifestDescribesBundles

-----------------------------------------------------------------------------
(* Tables. The rows selected from a table are those of a set, in a table;  *)
(* by induction over its length, as a smallest counterexample.             *)

(* A set of naturals has a least element: what induction needs. *)
LEMMA SmallestOf ==
    ASSUME NEW T, T \subseteq Nat, T # {} PROVE \E x \in T : \A y \in T : x <= y
  <1>1. IsWellFoundedOn(OpToRel(<, Nat), Nat)
    BY NatLessThanWellFounded
  <1>2. PICK x \in T : \A y \in T : ~ (<<y, x>> \in OpToRel(<, Nat))
    BY <1>1, WFMin, Zenon
  <1>3. \A y \in T : ~ (y < x)
    BY <1>2, Zenon DEF OpToRel
  <1> QED BY <1>3

LEMMA AppendedRange ==
    ASSUME NEW S, NEW s \in Seq(S), NEW e \in S
    PROVE  Range(Append(s, e)) = Range(s) \cup {e}
  <1> DEFINE a == Append(s, e)
  <1>1. DOMAIN s = 1..Len(s) /\ Len(s) \in Nat /\ DOMAIN a = 1..(Len(s) + 1)
    OBVIOUS
  <1>2. \A i \in 1..Len(s) : a[i] = s[i]
    OBVIOUS
  <1>3. a[Len(s) + 1] = e
    OBVIOUS
  <1> HIDE DEF a
  <1>4. Range(a) \subseteq Range(s) \cup {e}
    BY <1>1, <1>2, <1>3 DEF Range
  <1>5. Range(s) \subseteq Range(a)
    BY <1>1, <1>2 DEF Range
  <1>6. e \in Range(a)
    BY <1>1, <1>3 DEF Range
  <1>7. Range(a) = Range(s) \cup {e}
    BY <1>4, <1>5, <1>6
  <1> QED BY <1>7 DEF a

LEMMA KeptRows ==
    ASSUME NEW t, IsTable(t), NEW rows
    PROVE  /\ Kept(t, rows) \in Seq(Range(t))
           /\ Range(Kept(t, rows)) = Range(t) \cap rows
  <1> DEFINE R == Range(t)
             n == Len(t)
             Extended(i, before) == IF t[i] \in rows THEN Append(before, t[i]) ELSE before
             Upto(k, f) == /\ f \in [0..k -> Seq(R)] /\ f[0] = <<>>
                           /\ \A i \in 1..k : f[i] = Extended(i, f[i - 1])
             Missing == {k \in 0..n : ~ \E f : Upto(k, f)}
  <1>1. n \in Nat /\ t \in [1..n -> R]
    BY DEF IsTable
  <1> HIDE DEF n, R
  <1>2. Missing = {}
    <2>1. SUFFICES ASSUME Missing # {} PROVE FALSE
      OBVIOUS
    <2>2. PICK k \in Missing : \A j \in Missing : k <= j
      <3>1. Missing \subseteq Nat
        BY <1>1
      <3> HIDE DEF Missing
      <3> QED BY <2>1, <3>1, SmallestOf
    <2> HIDE DEF Upto
    <2>3. k # 0
      <3>1. Upto(0, [i \in 0..0 |-> <<>>])
        BY DEF Upto
      <3> QED BY <3>1
    <2>4. PICK f : Upto(k - 1, f)
      <3>1. k - 1 \in 0..n
        BY <1>1, <2>3
      <3>2. k - 1 \notin Missing
        <4> HIDE DEF Missing
        <4>1. k \in Nat
          BY <1>1 DEF Missing
        <4> QED BY <4>1, <2>2
      <3> QED BY <3>1, <3>2
    <2> DEFINE g == [i \in 0..k |-> IF i = k THEN Extended(k, f[k - 1]) ELSE f[i]]
    <2>5. k \in 1..n /\ t[k] \in R
      BY <1>1, <2>3
    <2>6. f \in [0..(k - 1) -> Seq(R)] /\ f[0] = <<>>
      BY <2>4 DEF Upto
    <2>7. \A i \in 1..(k - 1) : f[i] = Extended(i, f[i - 1])
      BY <2>4 DEF Upto
    <2>8. Extended(k, f[k - 1]) \in Seq(R)
      <3>1. f[k - 1] \in Seq(R)
        BY <1>1, <2>5, <2>6
      <3> QED BY <2>5, <3>1
    <2> HIDE DEF Extended
    <2>9. k \in Nat /\ k > 0
      BY <1>1, <2>5
    <2>10. g \in [0..k -> Seq(R)] /\ g[0] = <<>>
      BY <2>6, <2>8, <2>9
    <2>11. \A i \in 1..k : g[i] = Extended(i, g[i - 1])
      <3>1. \A i \in 1..k : g[i - 1] = f[i - 1]
        BY <2>9
      <3>2. g[k] = Extended(k, f[k - 1])
        BY <2>9
      <3>3. \A i \in 1..(k - 1) : g[i] = f[i]
        BY <2>9
      <3> HIDE DEF g
      <3> QED BY <2>7, <2>9, <3>1, <3>2, <3>3
    <2>12. Upto(k, g)
      BY <2>10, <2>11 DEF Upto
    <2> QED BY <2>2, <2>12
  <1>3. PICK f : Upto(n, f)
    <2>1. n \in 0..n
      BY <1>1
    <2> HIDE DEF Upto, Missing
    <2>2. n \notin Missing
      BY <1>2
    <2> QED BY <2>1, <2>2 DEF Missing
  <1> DEFINE Is(g) == g = [i \in 0..n |-> IF i = 0 THEN <<>> ELSE Extended(i, g[i - 1])]
             kept == CHOOSE g : Is(g)
  <1>4. Is(f)
    <2> DEFINE h == [i \in 0..n |-> IF i = 0 THEN <<>> ELSE Extended(i, f[i - 1])]
    <2>1. DOMAIN f = 0..n /\ f = [i \in 0..n |-> f[i]] /\ f[0] = <<>>
      BY <1>3
    <2>2. \A i \in 1..n : f[i] = Extended(i, f[i - 1])
      BY <1>3
    <2> HIDE DEF Extended
    <2>3. \A i \in 0..n : h[i] = f[i]
      BY <1>1, <2>1, <2>2
    <2> QED BY <2>1, <2>3
  <1>5. Is(kept)
    <2> HIDE DEF Is
    <2> QED BY <1>4
  <1>6. Kept(t, rows) = kept[n]
    BY DEF Kept, n
  <1> DEFINE Good(i) == /\ kept[i] \in Seq(R)
                        /\ Range(kept[i]) = {t[j] : j \in 1..i} \cap rows
             Bad == {i \in 0..n : ~ Good(i)}
  <1>7. kept[0] = <<>> /\ \A i \in 1..n : kept[i] = Extended(i, kept[i - 1])
    <2> HIDE DEF kept, Extended
    <2> QED BY <1>1, <1>5
  <1> HIDE DEF kept, Is, Good, Extended
  <1>8. Bad = {}
    <2>1. SUFFICES ASSUME Bad # {} PROVE FALSE
      OBVIOUS
    <2>2. PICK k \in Bad : \A j \in Bad : k <= j
      <3>1. Bad \subseteq Nat
        BY <1>1
      <3> HIDE DEF Bad
      <3> QED BY <2>1, <3>1, SmallestOf
    <2>3. ~ Good(k) /\ k \in 0..n
      OBVIOUS
    <2>4. ASSUME k # 0 PROVE Good(k - 1)
      <3>1. k - 1 \in 0..n
        BY <1>1, <2>3, <2>4
      <3>2. k - 1 \notin Bad
        <4> HIDE DEF Bad
        <4> QED BY <1>1, <2>2, <2>3
      <3> QED BY <3>1, <3>2
    <2> HIDE DEF Bad
    <2>5. CASE k = 0
      <3>1. kept[k] = <<>> /\ <<>> \in Seq(R) /\ Range(<<>>) = {}
        BY <1>7, <2>5 DEF Range
      <3>2. 1..k = {}
        BY <2>5
      <3> QED BY <2>3, <3>1, <3>2 DEF Good
    <2>6. CASE k # 0
      <3>1. k \in 1..n /\ t[k] \in R
        BY <1>1, <2>3, <2>6
      <3>2. kept[k] = Extended(k, kept[k - 1])
        BY <1>7, <3>1
      <3>3. kept[k - 1] \in Seq(R) /\ Range(kept[k - 1]) = {t[j] : j \in 1..(k - 1)} \cap rows
        BY <2>4, <2>6 DEF Good
      <3>4. {t[j] : j \in 1..k} = {t[j] : j \in 1..(k - 1)} \cup {t[k]}
        BY <1>1, <3>1
      <3>5. CASE t[k] \in rows
        <4>1. kept[k] = Append(kept[k - 1], t[k])
          BY <3>2, <3>5 DEF Extended
        <4>2. kept[k] \in Seq(R)
          BY <3>1, <3>3, <4>1
        <4>3. Range(kept[k]) = Range(kept[k - 1]) \cup {t[k]}
          BY <3>1, <3>3, <4>1, AppendedRange
        <4>4. Good(k)
          BY <3>3, <3>4, <3>5, <4>2, <4>3 DEF Good
        <4> QED BY <2>3, <4>4
      <3>6. CASE t[k] \notin rows
        <4>1. kept[k] = kept[k - 1]
          BY <3>2, <3>6 DEF Extended
        <4>2. Good(k)
          BY <3>3, <3>4, <3>6, <4>1 DEF Good
        <4> QED BY <2>3, <4>2
      <3> QED BY <3>5, <3>6
    <2> QED BY <2>5, <2>6
  <1>9. Good(n)
    BY <1>1, <1>8
  <1>10. {t[j] : j \in 1..n} = R
    BY <1>1 DEF Range, R
  <1> QED BY <1>6, <1>9, <1>10 DEF Good, R


LEMMA KeptFirst ==
    ASSUME NEW t, IsTable(t), NEW rows, Kept(t, rows) # <<>>
    PROVE  Kept(t, rows)[1] \in Range(t) \cap rows
  <1> DEFINE k == Kept(t, rows)
  <1>1. k \in Seq(Range(t)) /\ Range(k) = Range(t) \cap rows
    BY KeptRows
  <1> HIDE DEF k
  <1>2. 1 \in DOMAIN k
    BY <1>1 DEF k
  <1>3. k[1] \in Range(k)
    BY <1>2 DEF Range
  <1> QED BY <1>1, <1>3 DEF k

LEMMA KeptTable ==
    ASSUME NEW t, IsTable(t), NEW rows
    PROVE  IsTable(Kept(t, rows))
  <1> DEFINE k == Kept(t, rows)
  <1>1. k \in Seq(Range(t))
    BY KeptRows
  <1> HIDE DEF k
  <1>2. Len(k) \in Nat /\ DOMAIN k = 1..Len(k) /\ k = [i \in 1..Len(k) |-> k[i]]
    BY <1>1
  <1>3. \A i \in 1..Len(k) : k[i] \in Range(k)
    BY <1>2 DEF Range
  <1>4. k \in Seq(Range(k))
    BY <1>2, <1>3
  <1> QED BY <1>4 DEF IsTable, k

LEMMA TableLoaded ==
    ASSUME NEW doc, NEW key, NEW defaults, key \in DOMAIN doc => IsTable(doc[key])
    PROVE  IsTable(Table(doc, key, defaults))
  <1> DEFINE t == Table(doc, key, defaults)
  <1>1. CASE key \notin DOMAIN doc
    <2>1. t = <<>>
      BY <1>1 DEF Table
    <2>2. <<>> \in Seq(Range(<<>>))
      OBVIOUS
    <2> QED BY <2>1, <2>2 DEF IsTable
  <1>2. CASE key \in DOMAIN doc
    <2>1. DOMAIN doc[key] = 1..Len(doc[key]) /\ Len(doc[key]) \in Nat
      BY <1>2 DEF IsTable
    <2>2. t = [i \in DOMAIN doc[key] |-> Loaded(doc[key][i], defaults)]
      BY <1>2 DEF Table
    <2> HIDE DEF t
    <2>3. \A i \in 1..Len(doc[key]) : t[i] \in Range(t)
      BY <2>1, <2>2 DEF Range
    <2>4. t \in [1..Len(doc[key]) -> Range(t)]
      BY <2>1, <2>2, <2>3
    <2>5. t \in Seq(Range(t))
      BY <2>1, <2>4
    <2> QED BY <2>5 DEF IsTable, t
  <1> QED BY <1>1, <1>2

(* The last row with an id there is. *)
LEMMA LatestExists ==
    ASSUME NEW t, IsTable(t), NEW key, NEW id \in Ids(t, key)
    PROVE  Latest(t, key, id) \in Range(t) /\ Latest(t, key, id)[key] = id
  <1> DEFINE n == Len(t)
             From == {k \in Nat : k <= n /\ t[n - k][key] = id /\ n - k \in 1..n}
             IsLast(i) == t[i][key] = id /\ \A j \in (i + 1)..n : t[j][key] # id
  <1>1. n \in Nat /\ DOMAIN t = 1..n
    BY DEF IsTable
  <1>2. PICK i \in 1..n : t[i][key] = id
    BY <1>1 DEF Ids, Range
  <1> HIDE DEF n
  <1>3. n - i \in From
    <2>1. n - i \in Nat /\ n - (n - i) = i /\ n - i <= n
      BY <1>1
    <2> QED BY <1>2, <2>1
  <1>4. PICK k \in From : \A j \in From : k <= j
    <2>1. From \subseteq Nat /\ From # {}
      BY <1>3
    <2> HIDE DEF From
    <2> QED BY <2>1, SmallestOf
  <1>5. n - k \in 1..n /\ t[n - k][key] = id
    BY <1>4
  <1>6. ASSUME NEW j \in ((n - k) + 1)..n PROVE t[j][key] # id
    <2>1. n - j \in Nat /\ n - j < k /\ n - (n - j) = j /\ j \in 1..n /\ n - j <= n
      BY <1>1, <1>5
    <2>2. n - j \notin From
      <3> HIDE DEF From
      <3>1. k \in Nat
        BY <1>4 DEF From
      <3> QED BY <1>4, <2>1, <3>1
    <2> QED BY <2>1, <2>2
  <1>7. IsLast(n - k)
    BY <1>5, <1>6
  <1> DEFINE c == CHOOSE q \in DOMAIN t : IsLast(q)
  <1> HIDE DEF IsLast
  <1>8. c \in DOMAIN t /\ IsLast(c)
    BY <1>1, <1>5, <1>7
  <1>9. Latest(t, key, id) = t[c]
    BY DEF Latest, IsLast, n
  <1> QED BY <1>8, <1>9 DEF IsLast, Range

-----------------------------------------------------------------------------
(* Transports. *)

(* The tables of a model the rules below select rows from. *)
TablesOf(m) ==
    /\ IsTable(m.controllers) /\ IsTable(m.gateways) /\ IsTable(m.gateway_transports)
    /\ IsTable(m.plc4j_connections) /\ IsTable(m.live_parameters) /\ IsTable(m.signals)

LEMMA ModelTables == ASSUME NEW d \in Versions PROVE TablesOf(Model[d])
  <1> DEFINE doc == Surveys[d]
  <1>1. \A key \in Tables \cap DOMAIN doc : IsTable(doc[key])
    BY SurveysAssumption DEF Versions, Listed
  <1>2. Model[d] = LoadUpstream(doc)
    BY DEF Model
  <1>3. /\ Model[d].controllers = Table(doc, "controllers", ControllerRow)
        /\ Model[d].signals = Table(doc, "signals", SignalRow)
        /\ Model[d].gateways = Table(doc, "gateways", GatewayRow)
        /\ Model[d].gateway_transports = Table(doc, "gateway_transports", GatewayTransportRow)
        /\ Model[d].plc4j_connections = Table(doc, "plc4j_connections", ConnectionRow)
        /\ Model[d].live_parameters = Table(doc, "live_parameters", LiveParameterRow)
    BY <1>2 DEF LoadUpstream
  <1> HIDE DEF doc
  <1>4. {"controllers", "signals", "gateways", "gateway_transports", "plc4j_connections",
         "live_parameters"} \subseteq Tables
    BY DEF Tables
  <1> QED BY <1>1, <1>3, <1>4, TableLoaded DEF TablesOf

LEMMA RowsSelected ==
    ASSUME NEW m, TablesOf(m)
    PROVE  /\ IsTable(Controllers(m)) /\ IsTable(Gateways(m)) /\ IsTable(GatewayTransports(m))
           /\ IsTable(Connections(m)) /\ IsTable(LiveRows(m))
           /\ Range(Controllers(m)) =
                {r \in Range(m.controllers) : r.controller_device_id # Blank \/ r.named}
           /\ Range(Gateways(m)) = {r \in Range(m.gateways) : _gateway_row_is_meaningful(r)}
           /\ Range(GatewayTransports(m)) =
                {r \in Range(m.gateway_transports) : _gateway_transport_row_is_meaningful(r)}
  <1>1. IsTable(Controllers(m))
    BY KeptTable DEF TablesOf, Controllers, Select
  <1>2. IsTable(Gateways(m))
    BY KeptTable DEF TablesOf, Gateways, Select
  <1>3. IsTable(GatewayTransports(m))
    BY KeptTable DEF TablesOf, GatewayTransports, Select
  <1>4. IsTable(Connections(m))
    BY KeptTable DEF TablesOf, Connections, Select
  <1>5. IsTable(LiveRows(m))
    BY KeptTable DEF TablesOf, LiveRows, Select
  <1>6. Range(Controllers(m)) =
          {r \in Range(m.controllers) : r.controller_device_id # Blank \/ r.named}
    BY KeptRows DEF TablesOf, Controllers, Select, Rows
  <1>7. Range(Gateways(m)) = {r \in Range(m.gateways) : _gateway_row_is_meaningful(r)}
    BY KeptRows DEF TablesOf, Gateways, Select, Rows
  <1>8. Range(GatewayTransports(m)) =
          {r \in Range(m.gateway_transports) : _gateway_transport_row_is_meaningful(r)}
    BY KeptRows DEF TablesOf, GatewayTransports, Select, Rows
  <1> QED BY <1>1, <1>2, <1>3, <1>4, <1>5, <1>6, <1>7, <1>8

(* The surveys that are accepted and render, but for those the property    *)
(* excepts.                                                                *)
Sound(m, fsms) ==
    TablesOf(m) /\ UpstreamAccepted(m) /\ Renderable(m, fsms) /\ StandardPurpose(m)
(* What a request is checked against. *)
SeedOf(s, m) == s.members = Members(m) /\ s.connections = DeviceConnections(m)
RequestValid(r, s) ==
    /\ r.router = "DrrMoquiDeviceGateway" =>
         GatewayRequestValid(r, s) /\ MembersFor(s, "DgmpEdgeGateway") # {}
    /\ r.service = "run#Plc4jRequest" => DirectRequestValid(r, s)

LEMMA ControllerIsMember ==
    ASSUME NEW m, UpstreamAccepted(m), NEW c \in ControllerIds(m), NEW s, SeedOf(s, m)
    PROVE  c \in MembersFor(s, "DgmpProcessPLC")
  <1>1. ControllerIds(m) \X {"DgmpProcessPLC"} \subseteq
          {<<r.member_device_id, r.purpose_enum_id>> : r \in Members(m)}
    BY DEF UpstreamAccepted, GroupsAccepted
  <1>2. PICK r \in Members(m) : <<c, "DgmpProcessPLC">> = <<r.member_device_id, r.purpose_enum_id>>
    BY <1>1
  <1> QED BY <1>2 DEF MembersFor, SeedOf

LEMMA GatewayFound ==
    ASSUME NEW m, NEW fsms, Sound(m, fsms), NEW s, SeedOf(s, m),
           NEW id, Len(gateway_by_id(m, id)) = 1
    PROVE  /\ id # Blank
           /\ gateway_by_id(m, id)[1].gateway_device_id \in MembersFor(s, "DgmpEdgeGateway")
           /\ gateway_by_id(m, id)[1].rest_base_uri # Blank
  <1> DEFINE g == gateway_by_id(m, id)[1]
  <1>1. IsTable(Gateways(m)) /\ Range(Gateways(m)) \subseteq Range(m.gateways)
    BY RowsSelected DEF Sound
  <1>2. gateway_by_id(m, id) # <<>>
    OBVIOUS
  <1>3. g \in Range(Gateways(m)) /\ g.gateway_device_id = id
    BY <1>1, <1>2, KeptFirst DEF gateway_by_id, Select, Rows
  <1> HIDE DEF g
  <1>4. id # Blank /\ g.rest_base_uri # Blank
    BY <1>3 DEF Sound, UpstreamAccepted, GatewaysAccepted, ArchitectureAccepted
  <1>5. g \in Rows(m.gateways, LAMBDA x : x.gateway_device_id # Blank)
    BY <1>1, <1>3, <1>4 DEF Rows
  <1>6. g.gateway_member_purpose_enum_id \in {Blank, "DgmpEdgeGateway"}
    BY <1>3 DEF Sound, StandardPurpose
  <1>7. <<g.gateway_device_id, "DgmpEdgeGateway">> \in
          {<<r.member_device_id, r.purpose_enum_id>> : r \in Members(m)}
    BY <1>5, <1>6 DEF Sound, UpstreamAccepted, GroupsAccepted
  <1>8. PICK r \in Members(m) :
          <<g.gateway_device_id, "DgmpEdgeGateway">> = <<r.member_device_id, r.purpose_enum_id>>
    BY <1>7
  <1>9. g.gateway_device_id \in MembersFor(s, "DgmpEdgeGateway")
    BY <1>8 DEF MembersFor, SeedOf
  <1> QED BY <1>4, <1>9 DEF g

(* The wrapper of a request that is in the seed. *)
LEMMA WrapperValid ==
    ASSUME NEW m, NEW fsms, Sound(m, fsms), NEW s, SeedOf(s, m),
           NEW t, Len(gateway_by_id(m, t.gateway_device_id)) = 1, NEW request \in s.requests
    PROVE  RequestValid(append_gateway_dispatch_wrapper(m, request, t), s)
  <1> DEFINE w == append_gateway_dispatch_wrapper(m, request, t)
             g == gateway_by_id(m, t.gateway_device_id)[1]
  <1>1. g.gateway_device_id \in MembersFor(s, "DgmpEdgeGateway") /\ g.rest_base_uri # Blank
    BY GatewayFound
  <1>2. /\ w.service = "dispatch#GatewayRequest" /\ w.device = g.gateway_device_id
        /\ w.query = request.name /\ w.broker = g.rest_base_uri
    BY DEF append_gateway_dispatch_wrapper, Request
  <1> HIDE DEF w, g
  <1>3. GatewayRequestValid(w, s)
    BY <1>1, <1>2 DEF GatewayRequestValid
  <1> QED BY <1>1, <1>2, <1>3 DEF RequestValid, w

(* A channel a domain or the whole plant uses: its gateway is found, and   *)
(* it reaches its controller over a broker or a connection of the seed.    *)
LEMMA UsedChannelFound ==
    ASSUME NEW m, NEW fsms, Sound(m, fsms), NEW t \in UsedChannels(m)
    PROVE  Len(gateway_by_id(m, t.gateway_device_id)) = 1
  BY DEF Sound, Renderable

LEMMA ChannelReaches ==
    ASSUME NEW m, UpstreamAccepted(m), NEW s, SeedOf(s, m), NEW t \in Range(GatewayTransports(m))
    PROVE  /\ t.protocol \in {"mqtt", "opcua"}
           /\ t.protocol = "mqtt" => t.broker_uri # Blank
           /\ t.protocol = "opcua" =>
                t.connection_name # Blank /\ t.connection_name \in ConnectionNames(s)
  <1>1. /\ t.protocol \in {"mqtt", "opcua"}
        /\ t.protocol = "mqtt" => t.broker_uri # Blank
        /\ t.protocol = "opcua" => t.connection_name # Blank
    BY DEF UpstreamAccepted, GatewayTransportsAccepted
  <1>2. ASSUME t.protocol = "opcua" PROVE t.connection_name \in ConnectionNames(s)
    <2> DEFINE c == [name |-> t.connection_name,
                     driver |-> IF t.driver_enum_id = Blank THEN "DcdOpcUa" ELSE t.driver_enum_id,
                     transport |-> IF t.transport_enum_id = Blank THEN "DctrTcp"
                                   ELSE t.transport_enum_id,
                     config |-> t.transport_config]
    <2>1. c \in DeviceConnections(m)
      BY <1>2 DEF DeviceConnections
    <2>2. c.name = t.connection_name
      OBVIOUS
    <2> HIDE DEF c
    <2> QED BY <2>1, <2>2 DEF ConnectionNames, SeedOf
  <1> QED BY <1>1, <1>2

(* A field request and its wrapper over a broker, as those to the log and  *)
(* to the live parameters are.                                             *)
LEMMA ChannelRequestsValid ==
    ASSUME NEW m, NEW fsms, Sound(m, fsms), NEW s, SeedOf(s, m),
           NEW device \in ControllerIds(m), NEW t, t.broker_uri # Blank,
           Len(gateway_by_id(m, t.gateway_device_id)) = 1,
           NEW name, NEW type, NEW query,
           ChannelRequests(m, name, type, device, t, query) \subseteq s.requests,
           NEW r \in ChannelRequests(m, name, type, device, t, query)
    PROVE  RequestValid(r, s)
  <1> DEFINE field == Request(name, type, device, "DrrMoquiDeviceGateway", Blank, t.broker_uri,
                              Blank, query)
             wrapper == append_gateway_dispatch_wrapper(m, field, t)
  <1>1. {field, wrapper} \subseteq s.requests /\ r \in {field, wrapper}
    BY DEF ChannelRequests
  <1>2. /\ field.service = Blank /\ field.device = device /\ field.broker = t.broker_uri
        /\ field.connection = Blank
    BY DEF Request
  <1> HIDE DEF field
  <1>3. RequestValid(wrapper, s)
    BY <1>1, WrapperValid
  <1>4. wrapper.router = "DrrMoquiDeviceGateway"
    BY DEF append_gateway_dispatch_wrapper, Request
  <1>5. device \in MembersFor(s, "DgmpProcessPLC")
    BY ControllerIsMember DEF Sound
  <1>6. GatewayRequestValid(field, s)
    BY <1>2, <1>5 DEF GatewayRequestValid, Blank
  <1>7. RequestValid(field, s)
    BY <1>2, <1>3, <1>4, <1>6 DEF RequestValid, Blank
  <1> QED BY <1>1, <1>3, <1>7

(* A channel for one purpose is used, of a gateway and has a broker.       *)
LEMMA PurposeChannel ==
    ASSUME NEW m, NEW fsms, Sound(m, fsms), m.transport_architecture.gateway_required,
           NEW p \in {"supports_plc_logs", "supports_live_parameters"}, Channels(m, p) # <<>>,
           p = "supports_live_parameters" => LiveRows(m) # <<>>
    PROVE  /\ Channels(m, p)[1].broker_uri # Blank
           /\ Len(gateway_by_id(m, Channels(m, p)[1].gateway_device_id)) = 1
  <1> DEFINE t == Channels(m, p)[1]
  <1>1. t \in Range(m.gateway_transports) /\ t[p]
    BY KeptFirst DEF Channels, Select, Rows, Sound, TablesOf
  <1>2. t \in UsedChannels(m)
    BY DEF UsedChannels
  <1>3. Len(gateway_by_id(m, t.gateway_device_id)) = 1
    BY <1>2, UsedChannelFound
  <1> HIDE DEF t
  <1>4. t.gateway_device_id # Blank
    <2> DEFINE s == [members |-> Members(m), connections |-> DeviceConnections(m)]
    <2>1. SeedOf(s, m)
      BY DEF SeedOf
    <2> HIDE DEF s
    <2> QED BY <1>3, <2>1, GatewayFound
  <1>5. t \in Range(GatewayTransports(m))
    <2>1. _gateway_transport_row_is_meaningful(t)
      <3>1. t.gateway_device_id \in {t.transport_id, t.gateway_device_id, t.protocol, t.broker_uri,
                                     t.connection_name, t.transport_config}
        OBVIOUS
      <3> QED BY <1>4, <3>1, Zenon DEF _gateway_transport_row_is_meaningful
    <2> QED BY <1>1, <2>1, RowsSelected DEF Sound
  <1>6. t.protocol = "mqtt" /\ t.broker_uri # Blank
    BY <1>1, <1>5 DEF Sound, UpstreamAccepted, GatewayTransportsAccepted
  <1> QED BY <1>3, <1>6 DEF t

LEMMA RootIsController ==
    ASSUME NEW m, NEW fsms, Sound(m, fsms)
    PROVE  root_device_id(m) \in ControllerIds(m)
  <1> DEFINE named == Rows(m.controllers, LAMBDA r : r.controller_device_id # Blank)
             chosen == Kept(m.controllers, named)
  <1>1. IsTable(m.controllers) /\ IsTable(Controllers(m)) /\ Controllers(m) # <<>>
    BY RowsSelected DEF Sound, TablesOf, UpstreamAccepted, ControllersAccepted
  <1>2. PICK c \in Range(Controllers(m)) : TRUE
    <2>1. 1 \in DOMAIN Controllers(m)
      BY <1>1 DEF IsTable
    <2> QED BY <2>1 DEF Range
  <1>3. c.controller_device_id # Blank /\ c \in Range(m.controllers)
    BY <1>2, RowsSelected DEF Sound, UpstreamAccepted, ControllersAccepted
  <1>4. chosen # <<>>
    <2>1. Range(chosen) = Range(m.controllers) \cap named
      BY <1>1, KeptRows
    <2>2. c \in named
      BY <1>3 DEF Rows
    <2>3. Range(<<>>) = {}
      BY DEF Range
    <2> HIDE DEF chosen, named
    <2> QED BY <1>3, <2>1, <2>2, <2>3
  <1>5. chosen[1] \in Range(m.controllers) /\ chosen[1].controller_device_id # Blank
    <2>1. chosen[1] \in Range(m.controllers) \cap named
      BY <1>1, <1>4, KeptFirst
    <2> HIDE DEF chosen
    <2> QED BY <2>1 DEF Rows
  <1>6. root_device_id(m) = chosen[1].controller_device_id
    BY DEF root_device_id, Select
  <1> HIDE DEF chosen
  <1> QED BY <1>5, <1>6, RowsSelected DEF ControllerIds, Ids, Sound

LEMMA ControllerChosen ==
    ASSUME NEW m, NEW fsms, Sound(m, fsms), NEW device,
           NEW c \in controller_for_device(m, fsms, device)
    PROVE  c \in ControllerIds(m)
  <1>1. PICK r \in Rows(m.controllers, LAMBDA x : x.controller_device_id # Blank) :
           c = r.controller_device_id
    BY DEF controller_for_device
  <1>2. r \in Range(Controllers(m))
    BY <1>1, RowsSelected DEF Sound, Rows
  <1> QED BY <1>1, <1>2 DEF ControllerIds, Ids

LEMMA LogRequestsValid ==
    ASSUME NEW m, NEW fsms, Sound(m, fsms), NEW s, SeedOf(s, m),
           LogRequests(m) \subseteq s.requests, NEW r \in LogRequests(m)
    PROVE  RequestValid(r, s)
  <1> DEFINE t == Channels(m, "supports_plc_logs")[1]
  <1>1. m.transport_architecture.gateway_required /\ Channels(m, "supports_plc_logs") # <<>>
    BY DEF LogRequests
  <1>2. LogRequests(m) =
          ChannelRequests(m, <<root_device_id(m), "PlcLogSubscribe">>, "DrtSubscribe",
                          root_device_id(m), t, <<t.plc_log_topic>>)
    BY <1>1 DEF LogRequests
  <1>3. t.broker_uri # Blank /\ Len(gateway_by_id(m, t.gateway_device_id)) = 1
    BY <1>1, PurposeChannel
  <1> HIDE DEF t
  <1> QED BY <1>2, <1>3, RootIsController, ChannelRequestsValid

LEMMA LiveRequestsValid ==
    ASSUME NEW m, NEW fsms, Sound(m, fsms), NEW s, SeedOf(s, m),
           LiveRequests(m, fsms) \subseteq s.requests, NEW r \in LiveRequests(m, fsms)
    PROVE  RequestValid(r, s)
  <1> DEFINE p == "supports_live_parameters"
             t == Channels(m, p)[1]
             of(c) == ChannelRequests(m, <<c, "LiveParametersWrite">>, "DrtWrite", c, t, <<>>)
  <1>1. m.transport_architecture.gateway_required /\ LiveRows(m) # <<>>
    BY DEF LiveRequests
  <1>2. Channels(m, p) # <<>>
    <2> DEFINE supporting == Select(GatewayTransports(m), LAMBDA x : x[p])
    <2>1. Len(supporting) = 1
      BY <1>1 DEF Sound, UpstreamAccepted, GatewayTransportsAccepted
    <2>2. supporting # <<>>
      BY <2>1
    <2>3. PICK x \in Range(GatewayTransports(m)) : x[p]
      BY <2>2, KeptFirst, RowsSelected DEF Select, Rows, Sound
    <2>4. x \in Range(m.gateway_transports)
      BY <2>3, RowsSelected DEF Sound
    <2>5. x \in Range(Channels(m, p))
      BY <2>3, <2>4, KeptRows DEF Channels, Select, Rows, Sound, TablesOf
    <2> QED BY <2>5 DEF Range
  <1>3. t.broker_uri # Blank /\ Len(gateway_by_id(m, t.gateway_device_id)) = 1
    BY <1>1, <1>2, PurposeChannel
  <1> DEFINE controllers ==
               UNION {controller_for_device(m, fsms, DeviceOf(m, x.parameter_id).device) :
                        x \in Range(LiveRows(m))}
  <1>4. LiveRequests(m, fsms) = UNION {of(c) : c \in controllers}
    BY <1>1, Zenon DEF LiveRequests
  <1>5. controllers \subseteq ControllerIds(m)
    BY ControllerChosen
  <1> HIDE DEF t, of, controllers
  <1>6. PICK c \in ControllerIds(m) : r \in of(c) /\ of(c) \subseteq s.requests
    BY <1>4, <1>5
  <1> QED BY <1>3, <1>6, ChannelRequestsValid DEF of

(* The transports of a domain are those it is scoped to. *)
LEMMA TransportScopes ==
    ASSUME NEW m, UpstreamAccepted(m), NEW d, NEW transport \in transports_for_domain(d, m)
    PROVE  /\ transport \in {"gateway", "plc4j"}
           /\ transport = "gateway" => GatewayScoped(m, d)
           /\ transport = "plc4j" => m.transport_architecture.plc4j_required
  <1>1. m.transport_architecture.primary_transport_mode \in {"gateway", "plc4j", "hybrid"}
    BY DEF UpstreamAccepted, ArchitectureAccepted
  <1>2. CASE m.transport_architecture.primary_transport_mode = "gateway"
    BY <1>2 DEF transports_for_domain, GatewayScoped
  <1>3. CASE m.transport_architecture.primary_transport_mode = "plc4j"
    BY <1>3 DEF transports_for_domain, UpstreamAccepted, ArchitectureAccepted
  <1>4. CASE m.transport_architecture.primary_transport_mode = "hybrid"
    <2>1. m.transport_architecture.plc4j_required
      BY <1>4 DEF UpstreamAccepted, ArchitectureAccepted
    <2> DEFINE scope == _normalize_transport_scope(d.transport_projection)
    <2> HIDE DEF scope
    <2>2. CASE scope \in {"gateway", "plc4j"}
      <3>1. transports_for_domain(d, m) = {scope}
        BY <1>4, <2>2 DEF transports_for_domain, scope
      <3> QED BY <2>1, <2>2, <3>1 DEF GatewayScoped, scope
    <2>3. CASE scope = "both"
      BY <1>4, <2>1, <2>3 DEF transports_for_domain, GatewayScoped, scope
    <2>4. CASE scope \notin {"gateway", "plc4j", "both"}
      BY <1>4, <2>4 DEF transports_for_domain, scope
    <2> QED BY <2>2, <2>3, <2>4
  <1> QED BY <1>1, <1>2, <1>3, <1>4

(* The requests of a domain for one direction. *)
LEMMA GatewayExchangeValid ==
    ASSUME NEW m, NEW fsms, Sound(m, fsms), NEW s, SeedOf(s, m),
           NEW d \in Range(m.domains), d.signals # {}, NEW direction,
           "gateway" \in transports_for_domain(d, m),
           DomainRequests(m, d, direction, "gateway") \subseteq s.requests,
           NEW r \in DomainRequests(m, d, direction, "gateway")
    PROVE  RequestValid(r, s)
  <1> DEFINE t == TransportsOf(m, d)[1]
             name == <<d.controller_device_id, d.domain_id, direction,
                       IF Cardinality(transports_for_domain(d, m)) > 1 THEN "gateway" ELSE Blank>>
             field == Request(name, IF direction = "input" THEN "DrtCyclic" ELSE "DrtWrite",
                              d.controller_device_id, "DrrMoquiDeviceGateway", Blank,
                              IF t.protocol = "mqtt" THEN t.broker_uri ELSE Blank,
                              IF t.protocol = "mqtt" THEN Blank ELSE t.connection_name, <<>>)
             wrapper == append_gateway_dispatch_wrapper(m, field, t)
  <1>1. DomainRequests(m, d, direction, "gateway") = {field, wrapper}
    BY DEF DomainRequests
  <1>2. Len(TransportsOf(m, d)) = 1
    BY DEF Sound, Renderable
  <1>3. IsTable(TransportsOf(m, d)) /\ t \in Range(GatewayTransports(m))
    <2>1. IsTable(GatewayTransports(m)) /\ TransportsOf(m, d) # <<>>
      BY <1>2, RowsSelected DEF Sound
    <2> QED BY <2>1, KeptFirst, KeptTable DEF TransportsOf, Select
  <1>4. t \in Range(TransportsOf(m, d))
    BY <1>2, <1>3 DEF IsTable, Range
  <1>5. t \in UsedChannels(m)
    <2>1. GatewayScoped(m, d)
      BY TransportScopes DEF Sound
    <2> HIDE DEF t
    <2> QED BY <1>4, <2>1 DEF UsedChannels
  <1>6. Len(gateway_by_id(m, t.gateway_device_id)) = 1
    BY <1>5, UsedChannelFound
  <1>7. /\ t.protocol \in {"mqtt", "opcua"}
        /\ t.protocol = "mqtt" => t.broker_uri # Blank
        /\ t.protocol = "opcua" =>
             t.connection_name # Blank /\ t.connection_name \in ConnectionNames(s)
    BY <1>3, ChannelReaches DEF Sound
  <1>8. d.controller_device_id \in MembersFor(s, "DgmpProcessPLC")
    <2>1. d.controller_device_id \in ControllerIds(m)
      BY DEF Sound, UpstreamAccepted, DomainsAccepted
    <2> QED BY <2>1, ControllerIsMember DEF Sound
  <1> HIDE DEF t, name
  <1>9. /\ field.service = Blank /\ field.device = d.controller_device_id
        /\ field.broker = IF t.protocol = "mqtt" THEN t.broker_uri ELSE Blank
        /\ field.connection = IF t.protocol = "mqtt" THEN Blank ELSE t.connection_name
    BY DEF Request
  <1> HIDE DEF field
  <1>10. RequestValid(wrapper, s)
    BY <1>1, <1>6, WrapperValid
  <1>11. wrapper.router = "DrrMoquiDeviceGateway"
    BY DEF append_gateway_dispatch_wrapper, Request
  <1>12. GatewayRequestValid(field, s)
    BY <1>7, <1>8, <1>9 DEF GatewayRequestValid, Blank
  <1>13. RequestValid(field, s)
    BY <1>9, <1>10, <1>11, <1>12 DEF RequestValid, Blank
  <1> HIDE DEF wrapper
  <1> QED BY <1>1, <1>10, <1>13

LEMMA DirectExchangeValid ==
    ASSUME NEW m, NEW fsms, Sound(m, fsms), NEW s, SeedOf(s, m),
           NEW d \in Range(m.domains), NEW direction,
           "plc4j" \in transports_for_domain(d, m),
           NEW r \in DomainRequests(m, d, direction, "plc4j")
    PROVE  RequestValid(r, s) /\ r.service = "run#Plc4jRequest"
  <1> DEFINE found == resolve_plc4j_connection_for_domain(d, m)
             scoped == Select(Connections(m), LAMBDA c : d.domain_id \in c.scoped_domain_ids)
             unscoped == Select(Connections(m), LAMBDA c : c.scoped_domain_ids = {})
  <1>1. Len(found) = 1
    BY DEF Sound, Renderable
  <1>2. found \in {scoped, unscoped} /\ found # <<>>
    <2>1. found = IF scoped # <<>> THEN scoped ELSE unscoped
      BY Zenon DEF resolve_plc4j_connection_for_domain
    <2>2. found # <<>>
      <3> HIDE DEF found
      <3> QED BY <1>1
    <2> HIDE DEF found, scoped, unscoped
    <2> QED BY <2>1, <2>2
  <1>3. IsTable(Connections(m))
    BY RowsSelected DEF Sound
  <1>4. scoped # <<>> => scoped[1] \in Range(Connections(m))
    BY <1>3, KeptFirst DEF Select
  <1>5. unscoped # <<>> => unscoped[1] \in Range(Connections(m))
    BY <1>3, KeptFirst DEF Select
  <1> HIDE DEF found, scoped, unscoped
  <1>6. found[1] \in Range(Connections(m))
    BY <1>2, <1>4, <1>5
  <1> DEFINE c == found[1]
  <1>7. c.connection_name # Blank
    BY <1>6 DEF Sound, UpstreamAccepted, ConnectionsAccepted
  <1>8. c.connection_name \in ConnectionNames(s)
    <2> DEFINE row == [name |-> c.connection_name, driver |-> c.driver_enum_id,
                       transport |-> c.transport_enum_id, config |-> c.transport_config]
    <2>1. row \in DeviceConnections(m)
      BY <1>6 DEF DeviceConnections
    <2>2. row.name = c.connection_name
      OBVIOUS
    <2> HIDE DEF row, c
    <2> QED BY <2>1, <2>2 DEF ConnectionNames, SeedOf
  <1> DEFINE name == <<d.controller_device_id, d.domain_id, direction,
                       IF Cardinality(transports_for_domain(d, m)) > 1 THEN "plc4j" ELSE Blank>>
             field == Request(name, IF direction = "input" THEN "DrtCyclic" ELSE "DrtWrite",
                              d.controller_device_id, "DrrDirect",
                              m.transport_architecture.default_run_service_name, Blank,
                              c.connection_name, <<>>)
  <1>9. r = field
    BY DEF DomainRequests, found
  <1>10. m.transport_architecture.default_run_service_name = "run#Plc4jRequest"
    BY TransportScopes DEF Sound, UpstreamAccepted, ArchitectureAccepted
  <1> HIDE DEF name, c
  <1>11. /\ r.router = "DrrDirect" /\ r.service = "run#Plc4jRequest"
         /\ r.connection = c.connection_name
    BY <1>9, <1>10 DEF Request
  <1>12. DirectRequestValid(r, s)
    BY <1>7, <1>8, <1>11 DEF DirectRequestValid
  <1> QED BY <1>11, <1>12 DEF RequestValid

LEMMA ExchangeRequestsValid ==
    ASSUME NEW m, NEW fsms, Sound(m, fsms), NEW s, SeedOf(s, m),
           ExchangeRequests(m) \subseteq s.requests, NEW r \in ExchangeRequests(m)
    PROVE  RequestValid(r, s)
  <1> DEFINE of(d, direction, transport) == DomainRequests(m, d, direction, transport)
  <1>1. PICK d \in Range(m.domains), direction \in {"input", "output"} :
           \E transport \in transports_for_domain(d, m) :
              /\ SignalsOf(m, d, direction) # {} /\ r \in of(d, direction, transport)
              /\ of(d, direction, transport) \subseteq ExchangeRequests(m)
    BY DEF ExchangeRequests
  <1>2. d.signals # {}
    BY <1>1 DEF SignalsOf
  <1>3. PICK transport \in transports_for_domain(d, m) :
           r \in of(d, direction, transport) /\ of(d, direction, transport) \subseteq s.requests
    BY <1>1
  <1>4. transport \in {"gateway", "plc4j"}
    BY TransportScopes DEF Sound
  <1>5. CASE transport = "gateway"
    BY <1>2, <1>3, <1>5, GatewayExchangeValid
  <1>6. CASE transport = "plc4j"
    BY <1>3, <1>6, DirectExchangeValid
  <1> QED BY <1>4, <1>5, <1>6

LEMMA ConnectionsValid ==
    ASSUME NEW m, NEW fsms, Sound(m, fsms), NEW c \in DeviceConnections(m)
    PROVE  /\ c.driver # Blank /\ c.config # Blank
           /\ c.driver # "DcdSimulated" => c.transport # Blank
  <1>1. ASSUME NEW t \in Range(GatewayTransports(m)), t.protocol = "opcua",
               c = [name |-> t.connection_name,
                    driver |-> IF t.driver_enum_id = Blank THEN "DcdOpcUa" ELSE t.driver_enum_id,
                    transport |-> IF t.transport_enum_id = Blank THEN "DctrTcp"
                                  ELSE t.transport_enum_id,
                    config |-> t.transport_config]
        PROVE  c.driver # Blank /\ c.config # Blank /\ c.transport # Blank
    <2>1. t.transport_config # Blank
      BY <1>1 DEF Sound, UpstreamAccepted, GatewayTransportsAccepted
    <2>2. /\ c.driver = IF t.driver_enum_id = Blank THEN "DcdOpcUa" ELSE t.driver_enum_id
          /\ c.transport = IF t.transport_enum_id = Blank THEN "DctrTcp" ELSE t.transport_enum_id
          /\ c.config = t.transport_config
      BY <1>1
    <2> QED BY <2>1, <2>2 DEF Blank
  <1>2. ASSUME NEW x \in Range(Connections(m)),
               c = [name |-> x.connection_name, driver |-> x.driver_enum_id,
                    transport |-> x.transport_enum_id, config |-> x.transport_config]
        PROVE  /\ c.driver # Blank /\ c.config # Blank
               /\ c.driver # "DcdSimulated" => c.transport # Blank
    BY <1>2 DEF Sound, UpstreamAccepted, ConnectionsAccepted
  <1> QED BY <1>1, <1>2 DEF DeviceConnections

(* A domain with signals has a request. *)
LEMMA SomeExchange ==
    ASSUME NEW m, NEW fsms, Sound(m, fsms), Exchanging(m)
    PROVE  \E r \in ExchangeRequests(m) :
              r.router = "DrrMoquiDeviceGateway" \/ r.service = "run#Plc4jRequest"
  <1>1. PICK d \in Range(m.domains) : d.signals # {}
    BY DEF Exchanging
  <1>2. PICK id \in d.signals : id \in Ids(m.signals, "signal_id")
    BY <1>1 DEF Sound, UpstreamAccepted, DomainsAccepted
  <1> DEFINE direction == Latest(m.signals, "signal_id", id).direction
  <1>3. direction \in {"input", "output"}
    BY <1>2, LatestExists DEF Sound, TablesOf, UpstreamAccepted, SignalsAccepted
  <1>4. SignalsOf(m, d, direction) # {}
    BY <1>2 DEF SignalsOf
  <1>5. PICK transport \in transports_for_domain(d, m) : TRUE
    BY DEF Sound, Renderable
  <1> HIDE DEF direction
  <1>6. DomainRequests(m, d, direction, transport) \subseteq ExchangeRequests(m)
    BY <1>3, <1>4 DEF ExchangeRequests
  <1>7. CASE transport = "plc4j"
    <2>1. PICK r \in DomainRequests(m, d, direction, transport) : TRUE
      BY <1>7 DEF DomainRequests
    <2>2. r.service = "run#Plc4jRequest"
      <3> DEFINE s == [members |-> Members(m), connections |-> DeviceConnections(m)]
      <3>1. SeedOf(s, m)
        BY DEF SeedOf
      <3> HIDE DEF s
      <3> QED BY <1>7, <2>1, <3>1, DirectExchangeValid
    <2> QED BY <1>6, <2>1, <2>2
  <1>8. CASE transport # "plc4j"
    <2>1. \E r \in DomainRequests(m, d, direction, transport) : r.router = "DrrMoquiDeviceGateway"
      BY <1>8 DEF DomainRequests, append_gateway_dispatch_wrapper, Request
    <2> QED BY <1>6, <2>1
  <1> QED BY <1>7, <1>8

(* Accepted surveys give a projectable seed. *)
LEMMA Projectable ==
    ASSUME NEW m, NEW fsms, Sound(m, fsms), Exchanging(m)
    PROVE  validate_transport_projection(RenderedSeed(m, fsms))
  <1> DEFINE s == RenderedSeed(m, fsms)
             gateway == {r \in s.requests : r.router = "DrrMoquiDeviceGateway"}
             direct == {r \in s.requests : r.service = "run#Plc4jRequest"}
  <1>1. /\ s.members = Members(m) /\ s.connections = DeviceConnections(m)
        /\ s.requests = ExchangeRequests(m) \cup LogRequests(m) \cup LiveRequests(m, fsms)
    BY DEF RenderedSeed
  <1>2. SeedOf(s, m)
    BY <1>1 DEF SeedOf
  <1> HIDE DEF s
  <1>3. \A r \in s.requests : RequestValid(r, s)
    BY <1>1, <1>2, ExchangeRequestsValid, LogRequestsValid, LiveRequestsValid
  <1>4. /\ \A r \in gateway : GatewayRequestValid(r, s)
        /\ \A r \in direct : DirectRequestValid(r, s)
        /\ gateway # {} => MembersFor(s, "DgmpEdgeGateway") # {}
    BY <1>3 DEF RequestValid
  <1>5. gateway \cup direct # {}
    BY <1>1, SomeExchange
  <1>6. \A c \in s.connections :
          /\ c.driver # Blank /\ c.config # Blank
          /\ c.driver # "DcdSimulated" => c.transport # Blank
    BY <1>1, ConnectionsValid
  <1>7. validate_transport_projection(s)
    BY <1>4, <1>5, <1>6 DEF validate_transport_projection
  <1> QED BY <1>7 DEF s

(* Whatever the surveys are: the seed a session leaves passes the          *)
(* validation of its transports. Every request of a gateway reaches a      *)
(* controller over a broker or a connection of the seed and has a wrapper  *)
(* on a gateway that is a member, every direct one has its connection, and *)
(* there is a request.                                                     *)
THEOREM SeedsProjectable == Spec => []SeedIsProjectable
  <1>1. ASSUME IInv PROVE SeedIsProjectable
    <2> SUFFICES ASSUME seed # NoSeed, StandardPurpose(Model[seed.docs]),
                        Exchanging(Model[seed.docs])
                 PROVE  validate_transport_projection(SeedTable[seed.docs])
      BY DEF SeedIsProjectable
    <2> DEFINE d == seed.docs
    <2>1. d \in Seedable
      BY <1>1 DEF IInv, Types
    <2> HIDE DEF d
    <2>2. d \in Versions /\ UpstreamAccepted(Model[d]) /\ Renderable(Model[d], Fsms[d])
      BY <2>1 DEF Seedable, Reviewable, Accepted, SeedRenders
    <2>3. Sound(Model[d], Fsms[d])
      BY <2>2, ModelTables DEF Sound, d
    <2>4. SeedTable[d] = RenderedSeed(Model[d], Fsms[d])
      BY <2>1 DEF SeedTable
    <2> QED BY <2>3, <2>4, Projectable DEF d
  <1> QED BY <1>1, Invariance, PTL

-----------------------------------------------------------------------------
(* Generated programs. Fields of dev an assignment does not name keep their *)
(* value; two fields the outputs command in opposite ways are never both   *)
(* TRUE, if nothing else assigns them.                                     *)

Opposite(e, d, set) == ~ (e \in set /\ d \in set)
Opposed(rows, e, d) ==
    /\ e \in TargetsOf(rows) <=> d \in TargetsOf(rows)
    /\ Opposite(e, d, TargetsOf({r \in rows : r.expression = "TRUE"}))
(* What a program or a controller does with them in its own text.          *)
OutputsOnly(q, e, d) ==
    /\ {e, d} \cap PredicateNames(q) = {}
    /\ \A status \in DOMAIN q.blocks : {e, d} \cap AppliedIn(q.blocks, status) = {}
    /\ \A status \in DOMAIN q.outputs : Opposed(q.outputs[status], e, d)

(* Assignments to other fields. *)
LEMMA AssignedElsewhere ==
    ASSUME NEW set, NEW rows, NEW field, field \notin TargetsOf(rows)
    PROVE  field \in Plc!Assigned(set, rows) <=> field \in set
  BY DEF Plc!Assigned, TargetsOf

LEMMA ComputedElsewhere ==
    ASSUME NEW set, NEW predicates, NEW true, NEW field,
           field \notin {r.name : r \in predicates}
    PROVE  field \in Plc!Computed(set, predicates, true) <=> field \in set
  BY DEF Plc!Computed

(* Opposed assignments command one way or the other. *)
LEMMA AssignedOpposed ==
    ASSUME NEW set, NEW rows, NEW e, NEW d, Opposed(rows, e, d), Opposite(e, d, set)
    PROVE  Opposite(e, d, Plc!Assigned(set, rows))
  BY DEF Plc!Assigned, TargetsOf, Opposed, Opposite

(* What the branches that are taken apply. *)
LEMMA AppliedTargets ==
    ASSUME NEW blocks, NEW status, NEW field,
           status \in DOMAIN blocks => field \notin AppliedIn(blocks, status),
           NEW taken, taken \subseteq Range(Plc!BranchesOf(blocks, status))
    PROVE  field \notin TargetsOf(UNION {b.apply : b \in taken})
  <1> DEFINE branches == Plc!BranchesOf(blocks, status)
  <1>1. status \notin DOMAIN blocks => Range(branches) = {}
    BY DEF Plc!BranchesOf, Range
  <1>2. status \in DOMAIN blocks => \A b \in Range(branches) : field \notin TargetsOf(b.apply)
    BY DEF AppliedIn
  <1> HIDE DEF branches
  <1>3. \A b \in taken : field \notin TargetsOf(b.apply)
    BY <1>1, <1>2 DEF branches
  <1> QED BY <1>3 DEF TargetsOf

LEMMA OutputsOpposite ==
    ASSUME NEW q, NEW e, NEW d, OutputsOnly(q, e, d), NEW set, Opposite(e, d, set), NEW status
    PROVE  Opposite(e, d, Plc!Assigned(set, Plc!OutputsOf(q.outputs, status)))
  <1>1. CASE status \in DOMAIN q.outputs
    BY <1>1, AssignedOpposed DEF OutputsOnly, Plc!OutputsOf
  <1>2. CASE status \notin DOMAIN q.outputs
    <2>1. Opposed({}, e, d)
      BY DEF Opposed, Opposite, TargetsOf
    <2> QED BY <1>2, <2>1, AssignedOpposed DEF Plc!OutputsOf
  <1> QED BY <1>1, <1>2

(* A subsystem controller ... *)
LEMMA ControlOpposite ==
    ASSUME NEW c, NEW e, NEW d, OutputsOnly(c, e, d), NEW true, NEW dev, Opposite(e, d, dev.flags)
    PROVE  Opposite(e, d, Plc!Control(c, true, dev).flags)
  <1> DEFINE now == dev.subs[c.field]
             computed == Plc!Computed(dev.flags, c.predicates, true)
             outputs == Plc!Assigned(computed, Plc!OutputsOf(c.outputs, now))
             taken == Plc!FirstThat(Plc!BranchesOf(c.blocks, now),
                                    LAMBDA b : Plc!Holds(b.guard, true, outputs))
             applied == UNION {b.apply : b \in taken}
  <1>1. Opposite(e, d, computed)
    BY ComputedElsewhere DEF OutputsOnly, PredicateNames, Opposite
  <1> HIDE DEF computed
  <1>2. Opposite(e, d, outputs)
    BY <1>1, OutputsOpposite
  <1>3. taken \subseteq Range(Plc!BranchesOf(c.blocks, now))
    BY DEF Plc!FirstThat, Range
  <1> HIDE DEF taken, outputs
  <1>4. e \notin TargetsOf(applied) /\ d \notin TargetsOf(applied)
    BY <1>3, AppliedTargets DEF OutputsOnly
  <1> HIDE DEF applied
  <1>5. Opposite(e, d, Plc!Assigned(outputs, applied))
    BY <1>2, <1>4, AssignedElsewhere DEF Opposite
  <1>6. CASE Plc!Holds(c.enable, true, dev.flags)
    <2>1. Plc!Control(c, true, dev).flags = Plc!Assigned(outputs, applied)
      BY <1>6 DEF Plc!Control, outputs, computed, taken, applied
    <2> QED BY <1>5, <2>1
  <1>7. CASE ~ Plc!Holds(c.enable, true, dev.flags)
    <2>1. Plc!Control(c, true, dev) = dev
      BY <1>7 DEF Plc!Control
    <2> QED BY <2>1
  <1> QED BY <1>6, <1>7

(* ... the rest of Main ... *)
LEMMA SuperviseOpposite ==
    ASSUME NEW p, NEW e, NEW d, OutputsOnly(p, e, d), NEW from, NEW true, NEW set, NEW subs,
           Opposite(e, d, set)
    PROVE  Opposite(e, d, Plc!Supervise(p, from, true, set, subs).flags)
  <1> DEFINE now == IF p.fault # Blank /\ Plc!FaultRequest \in set THEN p.fault ELSE from
             outputs == Plc!Assigned(set, Plc!OutputsOf(p.outputs, now))
             taken == Plc!FirstThat(Plc!BranchesOf(p.blocks, now),
                                    LAMBDA b : Plc!Holds(b.guard, true, outputs))
             applied == UNION {b.apply : b \in taken}
  <1>1. Plc!Supervise(p, from, true, set, subs).flags = Plc!Assigned(outputs, applied)
    BY DEF Plc!Supervise, Plc!Blank, Blank
  <1> HIDE DEF now
  <1>2. Opposite(e, d, outputs)
    BY OutputsOpposite
  <1>3. taken \subseteq Range(Plc!BranchesOf(p.blocks, now))
    BY DEF Plc!FirstThat, Range
  <1> HIDE DEF taken, outputs
  <1>4. e \notin TargetsOf(applied) /\ d \notin TargetsOf(applied)
    BY <1>3, AppliedTargets DEF OutputsOnly
  <1> HIDE DEF applied
  <1>5. Opposite(e, d, Plc!Assigned(outputs, applied))
    BY <1>2, <1>4, AssignedElsewhere DEF Opposite
  <1> QED BY <1>1, <1>5

(* ... and the rule engine, which assigns neither field. *)
LEMMA RuleEngineOpposite ==
    ASSUME NEW p, NEW e, NEW d, OutputsOnly(p, e, d), Plc!FaultRequest \notin {e, d},
           \A q \in DOMAIN p.engine : \A b \in Range(p.engine[q]) :
              e \notin TargetsOf(b.sets) /\ d \notin TargetsOf(b.sets),
           NEW from, NEW true, NEW set, Opposite(e, d, set)
    PROVE  Opposite(e, d, Plc!RuleEngine(p, from, true, set))
  <1> DEFINE reset == Plc!Computed(set \ (p.requests \cup {Plc!FaultRequest}), p.predicates, true)
             rule == Plc!FirstThat(Plc!BranchesOf(p.engine, from),
                                   LAMBDA b : Plc!Holds(b.condition, true, reset))
             sets == UNION {b.sets : b \in rule}
  <1>1. Plc!RuleEngine(p, from, true, set)
          = IF Plc!Holds(p.faultCondition, true, reset) THEN reset \cup {Plc!FaultRequest}
            ELSE Plc!Assigned(reset, sets)
    BY DEF Plc!RuleEngine
  <1>2. Opposite(e, d, set \ (p.requests \cup {Plc!FaultRequest}))
    BY DEF Opposite
  <1>3. Opposite(e, d, reset)
    BY <1>2, ComputedElsewhere DEF OutputsOnly, PredicateNames, Opposite
  <1>4. rule \subseteq Range(Plc!BranchesOf(p.engine, from))
    BY DEF Plc!FirstThat, Range
  <1> HIDE DEF rule, reset
  <1>5. \A b \in rule : e \notin TargetsOf(b.sets) /\ d \notin TargetsOf(b.sets)
    BY <1>4 DEF Plc!BranchesOf, Range
  <1>6. e \notin TargetsOf(sets) /\ d \notin TargetsOf(sets)
    BY <1>5 DEF TargetsOf
  <1> HIDE DEF sets
  <1>7. Opposite(e, d, Plc!Assigned(reset, sets))
    BY <1>3, <1>6, AssignedElsewhere DEF Opposite
  <1>8. Opposite(e, d, reset \cup {Plc!FaultRequest})
    BY <1>3 DEF Opposite
  <1> QED BY <1>1, <1>7, <1>8

(* The controllers run one after the other, each after those before it.    *)
LEMMA ControlledSteps ==
    ASSUME NEW p, NEW true, NEW dev, Len(p.subsystems) \in Nat
    PROVE  \E after :
              /\ after[0] = dev
              /\ \A i \in 1..Len(p.subsystems) :
                    after[i] = Plc!Control(p.subsystems[i], true, after[i - 1])
              /\ Plc!Controlled(p, true, dev) = after[Len(p.subsystems)]
  <1> DEFINE n == Len(p.subsystems)
             Then(i, before) == Plc!Control(p.subsystems[i], true, before)
             Upto(k, f) == /\ f = [i \in 0..k |-> f[i]] /\ f[0] = dev
                           /\ \A i \in 1..k : f[i] = Then(i, f[i - 1])
             Missing == {k \in 0..n : ~ \E f : Upto(k, f)}
             Is(g) == g = [i \in 0..n |-> IF i = 0 THEN dev ELSE Then(i, g[i - 1])]
             after == CHOOSE g : Is(g)
  <1>1. Plc!Controlled(p, true, dev) = after[n]
    BY DEF Plc!Controlled
  <1> HIDE DEF n, Then
  <1>2. n \in Nat
    BY DEF n
  <1>3. Missing = {}
    <2>1. SUFFICES ASSUME Missing # {} PROVE FALSE
      OBVIOUS
    <2>2. PICK k \in Missing : \A j \in Missing : k <= j
      <3>1. Missing \subseteq Nat
        BY <1>2
      <3> HIDE DEF Missing
      <3> QED BY <2>1, <3>1, SmallestOf
    <2> HIDE DEF Upto
    <2>3. k # 0
      <3>1. Upto(0, [i \in 0..0 |-> dev])
        BY DEF Upto
      <3> QED BY <3>1
    <2>4. k \in 1..n /\ k - 1 \in 0..n
      BY <1>2, <2>3
    <2>5. PICK f : Upto(k - 1, f)
      <3>1. k - 1 \notin Missing
        <4> HIDE DEF Missing
        <4> QED BY <2>2, <2>4
      <3> QED BY <2>4, <3>1
    <2> DEFINE g == [i \in 0..k |-> IF i = k THEN Then(k, f[k - 1]) ELSE f[i]]
    <2>6. k \in Nat /\ k > 0
      BY <1>2, <2>4
    <2>7. f[0] = dev
      BY <2>5 DEF Upto
    <2>8. \A i \in 1..(k - 1) : f[i] = Then(i, f[i - 1])
      BY <2>5 DEF Upto
    <2>9. g = [i \in 0..k |-> g[i]] /\ g[0] = dev /\ g[k] = Then(k, f[k - 1])
      <3>1. 0 \in 0..k /\ k \in 0..k /\ 0 # k
        BY <2>6
      <3>2. g[0] = dev /\ g[k] = Then(k, f[k - 1])
        BY <2>7, <3>1
      <3>3. g = [i \in 0..k |-> g[i]]
        <4> DEFINE T(i) == IF i = k THEN Then(k, f[k - 1]) ELSE f[i]
        <4> HIDE DEF T
        <4>1. g = [i \in 0..k |-> T(i)]
          BY DEF T
        <4> HIDE DEF g
        <4> QED BY <4>1
      <3> QED BY <3>2, <3>3
    <2>10. \A i \in 0..(k - 1) : g[i] = f[i]
      <3>1. \A i \in 0..(k - 1) : i \in 0..k /\ i # k
        BY <2>6
      <3> QED BY <3>1
    <2> HIDE DEF g
    <2>11. \A i \in 1..k : g[i] = Then(i, g[i - 1])
      <3>1. g[k] = Then(k, f[k - 1])
        BY <2>9
      <3> QED BY <2>6, <2>8, <2>10, <3>1
    <2>12. Upto(k, g)
      BY <2>9, <2>11 DEF Upto
    <2> QED BY <2>2, <2>12
  <1>4. PICK f : Upto(n, f)
    <2>1. n \in 0..n
      BY <1>2
    <2> HIDE DEF Upto
    <2> QED BY <1>3, <2>1
  <1>5. Is(f)
    <2> DEFINE T(i) == IF i = 0 THEN dev ELSE Then(i, f[i - 1])
    <2>1. f = [i \in 0..n |-> f[i]]
      BY <1>4
    <2>2. f[0] = dev /\ \A i \in 1..n : f[i] = Then(i, f[i - 1])
      BY <1>4
    <2>3. \A i \in 0..n : i = 0 \/ i \in 1..n
      BY <1>2
    <2>4. \A i \in 0..n : T(i) = f[i]
      BY <2>2, <2>3
    <2> HIDE DEF T
    <2>5. f = [i \in 0..n |-> T(i)]
      BY <2>1, <2>4
    <2> QED BY <2>5 DEF T
  <1>6. Is(after)
    <2> HIDE DEF Is
    <2> QED BY <1>5
  <1>7. after[0] = dev /\ \A i \in 1..n : after[i] = Then(i, after[i - 1])
    <2> HIDE DEF after
    <2> QED BY <1>2, <1>6
  <1> HIDE DEF after, Is
  <1> QED BY <1>1, <1>7 DEF n, Then

LEMMA ControlledOpposite ==
    ASSUME NEW p, NEW e, NEW d, Len(p.subsystems) \in Nat,
           \A i \in 1..Len(p.subsystems) : OutputsOnly(p.subsystems[i], e, d),
           NEW true, NEW dev, Opposite(e, d, dev.flags)
    PROVE  Opposite(e, d, Plc!Controlled(p, true, dev).flags)
  <1> DEFINE n == Len(p.subsystems)
  <1>1. PICK after :
          /\ after[0] = dev
          /\ \A i \in 1..n : after[i] = Plc!Control(p.subsystems[i], true, after[i - 1])
          /\ Plc!Controlled(p, true, dev) = after[n]
    BY ControlledSteps
  <1> DEFINE Bad == {i \in 0..n : ~ Opposite(e, d, after[i].flags)}
  <1> HIDE DEF n
  <1>2. n \in Nat
    BY DEF n
  <1>3. ASSUME Bad # {} PROVE FALSE
    <2>1. PICK k \in Bad : \A j \in Bad : k <= j
      <3>1. Bad \subseteq Nat
        BY <1>2
      <3> HIDE DEF Bad
      <3> QED BY <1>3, <3>1, SmallestOf
    <2>2. k # 0
      BY <1>1
    <2>3. k \in 1..n /\ k - 1 \in 0..n
      BY <1>2, <2>2
    <2>4. k - 1 \notin Bad
      <3> HIDE DEF Bad
      <3> QED BY <2>1, <2>3
    <2>5. Opposite(e, d, after[k - 1].flags)
      BY <2>3, <2>4
    <2>6. Opposite(e, d, after[k].flags)
      <3>1. OutputsOnly(p.subsystems[k], e, d)
        BY <2>3 DEF n
      <3>2. after[k] = Plc!Control(p.subsystems[k], true, after[k - 1])
        BY <1>1, <2>3
      <3> QED BY <2>5, <3>1, <3>2, ControlOpposite
    <2> QED BY <2>6
  <1>4. n \in 0..n
    BY <1>2
  <1>5. Opposite(e, d, after[n].flags)
    BY <1>3, <1>4
  <1> QED BY <1>1, <1>5

(* A controller leaves alone what it does not assign, and so do all. *)
LEMMA ControlElsewhere ==
    ASSUME NEW c, NEW field, field \notin ControllerTargets(c), NEW true, NEW dev
    PROVE  field \in Plc!Control(c, true, dev).flags <=> field \in dev.flags
  <1> DEFINE now == dev.subs[c.field]
             computed == Plc!Computed(dev.flags, c.predicates, true)
             rows == Plc!OutputsOf(c.outputs, now)
             outputs == Plc!Assigned(computed, rows)
             taken == Plc!FirstThat(Plc!BranchesOf(c.blocks, now),
                                    LAMBDA b : Plc!Holds(b.guard, true, outputs))
             applied == UNION {b.apply : b \in taken}
  <1>1. field \in computed <=> field \in dev.flags
    BY ComputedElsewhere DEF ControllerTargets, PredicateNames
  <1>2. field \notin TargetsOf(rows)
    <2>1. now \in DOMAIN c.outputs => field \notin TargetsOf(c.outputs[now])
      BY DEF ControllerTargets
    <2> HIDE DEF now
    <2> QED BY <2>1 DEF Plc!OutputsOf, TargetsOf
  <1>3. taken \subseteq Range(Plc!BranchesOf(c.blocks, now))
    BY DEF Plc!FirstThat, Range
  <1>4. now \in DOMAIN c.blocks => field \notin AppliedIn(c.blocks, now)
    BY DEF ControllerTargets
  <1>5. CASE ~ Plc!Holds(c.enable, true, dev.flags)
    <2>1. Plc!Control(c, true, dev) = dev
      BY <1>5 DEF Plc!Control
    <2> QED BY <2>1
  <1>6. CASE Plc!Holds(c.enable, true, dev.flags)
    <2>1. Plc!Control(c, true, dev).flags = Plc!Assigned(outputs, applied)
      BY <1>6 DEF Plc!Control
    <2> HIDE DEF computed, rows
    <2>2. field \in outputs <=> field \in computed
      BY <1>2, AssignedElsewhere
    <2> HIDE DEF outputs, taken, now
    <2>3. field \notin TargetsOf(applied)
      BY <1>3, <1>4, AppliedTargets
    <2> HIDE DEF applied
    <2>4. field \in Plc!Assigned(outputs, applied) <=> field \in outputs
      BY <2>3, AssignedElsewhere
    <2> QED BY <1>1, <2>1, <2>2, <2>4
  <1> QED BY <1>5, <1>6

LEMMA ControlledElsewhere ==
    ASSUME NEW p, NEW field, Len(p.subsystems) \in Nat,
           \A i \in 1..Len(p.subsystems) : field \notin ControllerTargets(p.subsystems[i]),
           NEW true, NEW dev
    PROVE  field \in Plc!Controlled(p, true, dev).flags <=> field \in dev.flags
  <1> DEFINE n == Len(p.subsystems)
  <1>1. PICK after :
          /\ after[0] = dev
          /\ \A i \in 1..n : after[i] = Plc!Control(p.subsystems[i], true, after[i - 1])
          /\ Plc!Controlled(p, true, dev) = after[n]
    BY ControlledSteps
  <1> DEFINE Kept_(i) == field \in after[i].flags <=> field \in dev.flags
             Bad == {i \in 0..n : ~ Kept_(i)}
  <1>2. \A i \in 1..n : Kept_(i - 1) => Kept_(i)
    BY <1>1, ControlElsewhere
  <1>3. Kept_(0)
    BY <1>1
  <1>4. n \in Nat
    OBVIOUS
  <1> HIDE DEF n, Kept_
  <1>5. ASSUME Bad # {} PROVE FALSE
    <2>1. PICK k \in Bad : \A j \in Bad : k <= j
      <3>1. Bad \subseteq Nat
        BY <1>4
      <3> HIDE DEF Bad
      <3> QED BY <1>5, <3>1, SmallestOf
    <2>2. k \in 1..n /\ k - 1 \in 0..n
      BY <1>3, <1>4
    <2>3. k - 1 \notin Bad
      <3> HIDE DEF Bad
      <3> QED BY <2>1, <2>2
    <2> QED BY <1>2, <2>2, <2>3
  <1>6. Kept_(n)
    BY <1>4, <1>5
  <1> QED BY <1>1, <1>6 DEF Kept_

-----------------------------------------------------------------------------
(* The outputs of a state. *)

(* Rows for two fields that command one of them with v and the other with w. *)
Directed(rows, e, d, v, w) ==
    /\ e \in TargetsOf(rows) <=> d \in TargetsOf(rows)
    /\ \A r \in rows : (r.target = e => r.expression = v) /\ (r.target = d => r.expression = w)

(* Names that end alike begin alike. *)
LEMMA CutSuffix ==
    ASSUME NEW v, IsTable(v), NEW w, IsTable(w), NEW a, NEW b, NEW c,
           v \o <<a, c>> = w \o <<b, c>>
    PROVE  v = w /\ a = b
  <1> DEFINE S == Range(v) \cup Range(w) \cup {a, b, c}
             s == v \o <<a, c>>
             t == w \o <<b, c>>
  <1>1. v \in Seq(S) /\ w \in Seq(S) /\ Len(v) \in Nat /\ Len(w) \in Nat
    BY DEF IsTable
  <1> HIDE DEF S
  <1>2. Len(s) = Len(v) + 2 /\ Len(t) = Len(w) + 2
    BY <1>1
  <1>3. Len(v) = Len(w)
    BY <1>1, <1>2
  <1>4. s[Len(v) + 1] = a /\ t[Len(w) + 1] = b
    BY <1>1
  <1>5. \A i \in 1..Len(v) : s[i] = v[i]
    BY <1>1
  <1>6. \A i \in 1..Len(w) : t[i] = w[i]
    BY <1>1
  <1>7. a = b
    BY <1>3, <1>4
  <1>8. v = [i \in 1..Len(v) |-> v[i]] /\ w = [i \in 1..Len(w) |-> w[i]]
    BY <1>1
  <1> HIDE DEF s, t
  <1>9. s = t
    BY DEF s, t
  <1>10. \A i \in 1..Len(v) : v[i] = w[i]
    BY <1>3, <1>5, <1>6, <1>9
  <1>11. v = w
    BY <1>3, <1>8, <1>10
  <1> QED BY <1>7, <1>11

(* Names that end in different words differ. *)
LEMMA LastWord ==
    ASSUME NEW v, IsTable(v), NEW w, IsTable(w), NEW a, NEW b, NEW c, NEW d, c # d
    PROVE  /\ v \o <<a, c>> # w \o <<b, d>>
           /\ v \o <<a, c>> # Append(w, d)
  <1> DEFINE S == Range(v) \cup Range(w) \cup {a, b, c, d}
             s == v \o <<a, c>>
             t == w \o <<b, d>>
             u == Append(w, d)
  <1>1. v \in Seq(S) /\ w \in Seq(S) /\ Len(v) \in Nat /\ Len(w) \in Nat
    BY DEF IsTable
  <1> HIDE DEF S
  <1>2. Len(s) = Len(v) + 2 /\ s[Len(v) + 2] = c
    BY <1>1
  <1>3. Len(t) = Len(w) + 2 /\ t[Len(w) + 2] = d
    BY <1>1
  <1>4. Len(u) = Len(w) + 1 /\ u[Len(w) + 1] = d
    BY <1>1
  <1> HIDE DEF s, t, u
  <1>5. s # t
    BY <1>1, <1>2, <1>3
  <1>6. s # u
    BY <1>1, <1>2, <1>4
  <1> QED BY <1>5, <1>6 DEF s, t, u

(* The field of a device is a sequence of words. *)
LEMMA FieldNames ==
    ASSUME NEW row, IsTable(row.physical_device_name)
    PROVE  IsTable(device_field_name(row))
  <1>1. ASSUME NEW x PROVE IsTable(<<x>>)
    <2>1. Range(<<x>>) = {x}
      BY DEF Range
    <2> QED BY <2>1 DEF IsTable
  <1>2. IsTable(to_lower_camel(row.physical_device_name))
    <2> DEFINE name == row.physical_device_name
               words == Kept(name, Range(name) \ Separators)
    <2>1. to_lower_camel(name) = IF words = <<>> THEN <<"value">> ELSE words
      BY DEF to_lower_camel
    <2>2. IsTable(words)
      BY KeptTable
    <2> QED BY <1>1, <2>1, <2>2
  <1> QED BY <1>1, <1>2 DEF device_field_name

LEMMA PairDirected ==
    ASSUME NEW a, NEW b, NEW e, NEW d, NEW v, NEW w, e # d,
           (a = e /\ b = d) \/ {a, b} \cap {e, d} = {}
    PROVE  Directed({Assignment(a, v), Assignment(b, w)}, e, d, v, w)
  <1> DEFINE rows == {Assignment(a, v), Assignment(b, w)}
  <1>1. \A r \in rows : \/ r.target = a /\ r.expression = v
                        \/ r.target = b /\ r.expression = w
    <2>1. \A r \in rows : r = Assignment(a, v) \/ r = Assignment(b, w)
      OBVIOUS
    <2> HIDE DEF rows
    <2> QED BY <2>1 DEF Assignment
  <1>2. Assignment(a, v).target = a /\ Assignment(b, w).target = b
    BY DEF Assignment
  <1>3. TargetsOf(rows) = {a, b}
    BY <1>2 DEF TargetsOf
  <1> HIDE DEF rows
  <1>4. Directed(rows, e, d, v, w)
    BY <1>1, <1>3 DEF Directed
  <1> QED BY <1>4 DEF rows

(* The assignments that switch one device: none of the two commands of the *)
(* actuator called field, or both of them, one way or the other.           *)
LEMMA DeviceDirected ==
    ASSUME NEW field, IsTable(field), NEW x, IsTable(x.physical_device_name), NEW enabled \in BOOLEAN
    PROVE  Directed(device_control_assignments(x, enabled),
                    field \o <<"enable", "request">>, field \o <<"disable", "request">>,
                    IF enabled THEN "TRUE" ELSE "FALSE", IF enabled THEN "FALSE" ELSE "TRUE")
  <1> DEFINE e == field \o <<"enable", "request">>
             d == field \o <<"disable", "request">>
             own == device_field_name(x)
             v == IF enabled THEN "TRUE" ELSE "FALSE"
             w == IF enabled THEN "FALSE" ELSE "TRUE"
             rows == device_control_assignments(x, enabled)
  <1>1. IsTable(own)
    BY FieldNames
  <1> HIDE DEF own
  <1>2. CASE x.logical_model = "Actuator"
    <2>1. rows = {Assignment(own \o <<"enable", "request">>, v),
                  Assignment(own \o <<"disable", "request">>, w)}
      BY <1>2 DEF device_control_assignments, own
    <2>2. own = field \/ {own \o <<"enable", "request">>, own \o <<"disable", "request">>} \cap {e, d} = {}
      BY <1>1, CutSuffix
    <2>3. e # d
      <3>1. e = d => "enable" = "disable"
        BY CutSuffix
      <3> QED BY ONLY <3>1
    <2> HIDE DEF rows, v, w
    <2>4. Directed(rows, e, d, v, w)
      BY <2>1, <2>2, <2>3, PairDirected
    <2> QED BY <2>4 DEF rows, v, w
  <1>3. CASE x.logical_model # "Actuator"
    <2>1. rows \subseteq {Assignment(own \o <<"group", "enable">>, v),
                          Assignment(own \o <<"group", "disable">>, w),
                          Assignment(Append(own, "enable"), v),
                          Assignment(own \o <<"axis", "enable">>, v)}
      BY <1>3 DEF device_control_assignments, own
    <2> DEFINE others == {own \o <<"group", "enable">>, own \o <<"group", "disable">>,
                          Append(own, "enable"), own \o <<"axis", "enable">>}
    <2>2. \A word : /\ own \o <<word, "enable">> \notin {e, d}
                    /\ own \o <<word, "disable">> \notin {e, d}
      <3>1. "enable" # "request" /\ "disable" # "request"
        OBVIOUS
      <3> QED BY <1>1, <3>1, LastWord
    <2>3. Append(own, "enable") \notin {e, d}
      BY <1>1, LastWord
    <2>4. others \cap {e, d} = {}
      BY <2>2, <2>3
    <2> HIDE DEF rows, e, d, v, w
    <2>5. \A r \in rows : r.target \in others
      BY <2>1 DEF Assignment
    <2> HIDE DEF others
    <2>6. TargetsOf(rows) \cap {e, d} = {}
      BY <2>4, <2>5 DEF TargetsOf
    <2>7. Directed(rows, e, d, v, w)
      BY <2>6 DEF Directed, TargetsOf
    <2> QED BY <2>7 DEF rows, e, d, v, w
  <1> QED BY <1>2, <1>3

LEMMA OverlayElsewhere ==
    ASSUME NEW later, NEW earlier, NEW e, NEW d, NEW v, NEW w, {e, d} \cap TargetsOf(later) = {},
           Directed(earlier, e, d, v, w)
    PROVE  Directed(Overlay(later, earlier), e, d, v, w)
  BY DEF Overlay, Directed, TargetsOf

(* Deactivations win over activations, so one way prevails.                *)
LEMMA OverlayOpposed ==
    ASSUME NEW later, NEW earlier, NEW e, NEW d,
           Directed(later, e, d, "FALSE", "TRUE"), Directed(earlier, e, d, "TRUE", "FALSE")
    PROVE  Opposed(Overlay(later, earlier), e, d)
  <1> DEFINE rows == Overlay(later, earlier)
  <1>1. e \in TargetsOf(rows) <=> d \in TargetsOf(rows)
    BY DEF Overlay, Directed, TargetsOf
  <1>2. CASE e \in TargetsOf(later)
    <2>1. \A r \in rows : r.target = e => r.expression = "FALSE"
      BY <1>2 DEF Overlay, Directed, TargetsOf
    <2> HIDE DEF rows
    <2>2. e \notin TargetsOf({r \in rows : r.expression = "TRUE"})
      BY <2>1 DEF TargetsOf
    <2>3. Opposed(rows, e, d)
      BY <1>1, <2>2 DEF Opposed, Opposite
    <2> QED BY <2>3 DEF rows
  <1>3. CASE e \notin TargetsOf(later)
    <2>1. \A r \in rows : r.target = d => r.expression = "FALSE"
      BY <1>3 DEF Overlay, Directed, TargetsOf
    <2> HIDE DEF rows
    <2>2. d \notin TargetsOf({r \in rows : r.expression = "TRUE"})
      BY <2>1 DEF TargetsOf
    <2>3. Opposed(rows, e, d)
      BY <1>1, <2>2 DEF Opposed, Opposite
    <2> QED BY <2>3 DEF rows
  <1> QED BY <1>2, <1>3

LEMMA ElsewhereOpposed ==
    ASSUME NEW later, NEW earlier, NEW e, NEW d, {e, d} \cap TargetsOf(later) = {},
           Opposed(earlier, e, d)
    PROVE  Opposed(Overlay(later, earlier), e, d)
  BY DEF Overlay, Opposed, Opposite, TargetsOf

(* Whatever a state activates and deactivates, its outputs command an      *)
(* actuator one way or the other, if nothing in them does so by name.      *)
LEMMA OutputsOpposed ==
    ASSUME NEW m, \A x \in Range(m.devices) : IsTable(x.physical_device_name),
           NEW field, IsTable(field), NEW state,
           {field \o <<"enable", "request">>, field \o <<"disable", "request">>} \cap ByHand(state) = {}
    PROVE  Opposed(render_output_assignments(state, m),
                   field \o <<"enable", "request">>, field \o <<"disable", "request">>)
  <1> DEFINE e == field \o <<"enable", "request">>
             d == field \o <<"disable", "request">>
             v(enabled) == IF enabled THEN "TRUE" ELSE "FALSE"
             w(enabled) == IF enabled THEN "FALSE" ELSE "TRUE"
             rows(devices, enabled) ==
               UNION {device_control_assignments(x, enabled) : x \in devices}
             flagged(flags_, enabled) == {Assignment(flag, v(enabled)) : flag \in flags_}
             switched(devices, flags_, enabled) ==
               Overlay(flagged(flags_, enabled), rows(devices, enabled))
             on == switched(Activated(state, m), state.activate_flags, TRUE)
             off == switched(Deactivated(state, m), state.deactivate_flags, FALSE)
  <1>1. render_output_assignments(state, m) = Overlay(state.output_assignments, Overlay(off, on))
    BY DEF render_output_assignments
  <1>2. Activated(state, m) \cup Deactivated(state, m) \subseteq Range(m.devices)
    BY DEF Activated, Deactivated, Selected, devices_in_subsystem
  <1>3. ASSUME NEW devices \in SUBSET Range(m.devices), NEW enabled \in BOOLEAN
        PROVE  Directed(rows(devices, enabled), e, d, v(enabled), w(enabled))
    <2>1. \A x \in devices :
             Directed(device_control_assignments(x, enabled), e, d, v(enabled), w(enabled))
      BY <1>3, DeviceDirected
    <2> HIDE DEF e, d, v, w
    <2> QED BY <2>1 DEF Directed, TargetsOf
  <1> HIDE DEF rows
  <1>4. {e, d} \cap TargetsOf(state.output_assignments) = {} /\ {e, d} \cap state.activate_flags = {}
        /\ {e, d} \cap state.deactivate_flags = {}
    BY DEF ByHand
  <1> HIDE DEF e, d
  <1>5. ASSUME NEW flags_, {e, d} \cap flags_ = {}, NEW enabled
        PROVE  {e, d} \cap TargetsOf(flagged(flags_, enabled)) = {}
    BY <1>5 DEF TargetsOf, Assignment
  <1> HIDE DEF flagged
  <1>6. Directed(on, e, d, "TRUE", "FALSE")
    BY <1>2, <1>3, <1>4, <1>5, OverlayElsewhere
  <1>7. Directed(off, e, d, "FALSE", "TRUE")
    BY <1>2, <1>3, <1>4, <1>5, OverlayElsewhere
  <1> HIDE DEF on, off
  <1>8. Opposed(Overlay(off, on), e, d)
    BY <1>6, <1>7, OverlayOpposed
  <1>9. Opposed(render_output_assignments(state, m), e, d)
    BY <1>1, <1>4, <1>8, ElsewhereOpposed
  <1> QED BY <1>9 DEF e, d

-----------------------------------------------------------------------------
(* The program of an application. *)

(* The names of the devices are sequences of words, as their authors write them. *)
LEMMA DevicesNamed ==
    ASSUME NEW v \in Versions
    PROVE  \A x \in Range(Model[v].devices) : IsTable(x.physical_device_name)
  <1> DEFINE doc == Surveys[v]
             t == Table(doc, "devices", DeviceRow)
  <1>1. Model[v].devices = t
    BY DEF Model, LoadUpstream
  <1>2. "devices" \in DOMAIN doc =>
          \A row \in Range(doc.devices) :
             "physical_device_name" \in DOMAIN row => IsTable(row.physical_device_name)
    BY SurveysAssumption DEF Versions, Filled, Listed
  <1> HIDE DEF doc
  <1>3. IsTable(<<>>)
    BY DEF IsTable
  <1>4. CASE "devices" \notin DOMAIN doc
    <2>1. t = <<>>
      BY <1>4 DEF Table
    <2> HIDE DEF t
    <2>2. Range(t) = {}
      BY <2>1 DEF Range
    <2> QED BY <1>1, <2>2
  <1>5. CASE "devices" \in DOMAIN doc
    <2>1. t = [i \in DOMAIN doc.devices |-> Loaded(doc.devices[i], DeviceRow)]
      BY <1>5 DEF Table
    <2> HIDE DEF t
    <2> SUFFICES ASSUME NEW x \in Range(t) PROVE IsTable(x.physical_device_name)
      BY <1>1
    <2>2. PICK i \in DOMAIN doc.devices : x = Loaded(doc.devices[i], DeviceRow)
      BY <2>1 DEF Range
    <2> DEFINE row == doc.devices[i]
    <2>3. row \in Range(doc.devices)
      BY DEF Range
    <2> HIDE DEF row
    <2>4. x.physical_device_name = IF "physical_device_name" \in DOMAIN row
                                   THEN row.physical_device_name ELSE <<>>
      <3>1. "physical_device_name" \in DOMAIN DeviceRow /\ DeviceRow.physical_device_name = <<>>
        BY DEF DeviceRow
      <3> QED BY <2>2, <3>1 DEF Loaded, row
    <2> QED BY <1>2, <1>3, <1>5, <2>3, <2>4
  <1> QED BY <1>4, <1>5

(* A table has finitely many rows; the FSMs are one. *)
LEMMA TableFinite == ASSUME NEW t, IsTable(t) PROVE IsFiniteSet(Range(t))
  <1>1. DOMAIN t = 1..Len(t) /\ Len(t) \in Nat /\ t = [i \in 1..Len(t) |-> t[i]]
    BY DEF IsTable
  <1>2. t \in Surjection(1..Len(t), Range(t))
    BY <1>1 DEF Surjection, Range
  <1>3. IsFiniteSet(1..Len(t))
    BY <1>1, FS_Interval
  <1> QED BY <1>2, <1>3, FS_Surjection

LEMMA FsmsTable == ASSUME NEW v \in Versions PROVE IsTable(Fsms[v])
  <1> DEFINE t == Table(Surveys[v], "fsms", FsmRow)
             f == Fsms[v]
  <1>1. IsTable(t)
    <2>1. "fsms" \in DOMAIN Surveys[v] => IsTable(Surveys[v]["fsms"])
      BY SurveysAssumption DEF Versions, Tables, Listed
    <2> QED BY <2>1, TableLoaded
  <1>2. \E rows : DOMAIN f = DOMAIN Kept(t, rows) /\ f = [i \in DOMAIN f |-> f[i]]
    BY DEF Fsms, LoadFsms, Select
  <1>3. PICK rows : DOMAIN f = DOMAIN Kept(t, rows) /\ f = [i \in DOMAIN f |-> f[i]]
    BY <1>2
  <1> DEFINE n == Len(Kept(t, rows))
  <1>4. DOMAIN f = 1..n /\ n \in Nat
    <2>1. IsTable(Kept(t, rows))
      BY <1>1, KeptTable
    <2> HIDE DEF t, f
    <2> QED BY <1>3, <2>1 DEF IsTable
  <1> HIDE DEF t, f, n
  <1>5. f = [i \in 1..n |-> f[i]]
    BY <1>3, <1>4
  <1>6. f \in Seq(Range(f))
    BY <1>4, <1>5 DEF Range
  <1> QED BY <1>6 DEF f, IsTable

(* A program that can be downloaded is one of the table. *)
LEMMA ProgramParts ==
    ASSUME NEW id \in Complete(Checks)
    PROVE  /\ id[1] \in Versions
           /\ ProgramTable[id] = ProgramOf(SeedTable[id[2]], Model[id[1]], Fsms[id[1]], id[3])
           /\ id # Plc!NoProgram
  <1>1. PICK v \in DOMAIN Checks : \E s, root : id = <<v, s, root>>
    BY DEF Complete
  <1>2. v \in Versions
    BY SeedableVersions DEF Checks
  <1>3. id[1] = v /\ id # <<>>
    BY <1>1
  <1> QED BY <1>2, <1>3 DEF ProgramTable, Compiled, Plc!NoProgram

(* Its parts are those of the reviewed FSMs; its controllers are a sequence. *)
LEMMA ProgramShape ==
    ASSUME NEW id \in Complete(Checks)
    PROVE  LET p == ProgramTable[id]
               s == SeedTable[id[2]]
               m == Model[id[1]]
               main == Supervisor(m, Fsms[id[1]], id[3])
               order == Subsystems(m, Fsms[id[1]], id[3])
               outputs(f) == [status \in {i.status : i \in ItemsOf(s, f.status_flow_id)} |->
                                render_output_assignments(First(f.states, "status_id", status), m)]
           IN /\ p.predicates = Range(main.predicates)
              /\ p.faultCondition = FaultCondition(main)
              /\ p.outputs = outputs(main)
              /\ p.engine = render_state_transition_cases(s, main)
              /\ p.blocks = render_main_fsm_blocks(s, main)
              /\ p.requests = {request_field_name(i) : i \in ItemsOf(s, main.status_flow_id)}
              /\ Len(p.subsystems) \in Nat
              /\ DOMAIN p.subsystems = 1..Len(p.subsystems) /\ DOMAIN order = DOMAIN p.subsystems
              /\ \A n \in DOMAIN order :
                    /\ p.subsystems[n].outputs = outputs(order[n])
                    /\ p.subsystems[n].blocks = render_subsystem_case_blocks(s, order[n])
                    /\ p.subsystems[n].field = subsystem_status_names(order[n]).field
  <1> DEFINE p == ProgramTable[id]
             s == SeedTable[id[2]]
             m == Model[id[1]]
             fsms == Fsms[id[1]]
             root == id[3]
             main == Supervisor(m, fsms, root)
             order == Subsystems(m, fsms, root)
             outputs(f) == [status \in {i.status : i \in ItemsOf(s, f.status_flow_id)} |->
                              render_output_assignments(First(f.states, "status_id", status), m)]
             others == OwnFsms(m, fsms, root) \ Supervisors(m, fsms, root)
             subsystem(f) ==
                [fsm |-> f.fsm_id, field |-> subsystem_status_names(f).field,
                 initial |-> InitialOf(s, f.status_flow_id), enable |-> f.enable_condition,
                 predicates |-> Range(f.predicates),
                 blocks |-> render_subsystem_case_blocks(s, f), outputs |-> outputs(f)]
  <1>1. id[1] \in Versions /\ p = ProgramOf(s, m, fsms, root)
    BY ProgramParts
  <1>2. IsFiniteSet(others)
    <2>1. IsFiniteSet(Range(fsms)) /\ others \subseteq Range(fsms)
      BY <1>1, FsmsTable, TableFinite DEF OwnFsms
    <2> HIDE DEF others
    <2> QED BY <2>1, FS_Subset
  <1>3. Cardinality(others) \in Nat /\ DOMAIN order = 1..Cardinality(others)
    BY <1>2, FS_CardinalityType DEF Subsystems, Ordered
  <1> HIDE DEF p, s, m, fsms, root
  <1>4. /\ p.outputs = outputs(main) /\ p.predicates = Range(main.predicates)
        /\ p.faultCondition = FaultCondition(main)
        /\ p.engine = render_state_transition_cases(s, main)
        /\ p.blocks = render_main_fsm_blocks(s, main)
        /\ p.requests = {request_field_name(i) : i \in ItemsOf(s, main.status_flow_id)}
    BY <1>1 DEF ProgramOf
  <1>5. p.subsystems = [n \in DOMAIN order |-> subsystem(order[n])]
    BY <1>1 DEF ProgramOf
  <1> HIDE DEF outputs, order, others
  <1>6. \A f : /\ subsystem(f).outputs = outputs(f)
               /\ subsystem(f).blocks = render_subsystem_case_blocks(s, f)
               /\ subsystem(f).field = subsystem_status_names(f).field
    OBVIOUS
  <1> HIDE DEF subsystem
  <1>7. p.subsystems \in Seq(Range(p.subsystems)) /\ DOMAIN p.subsystems = DOMAIN order
    BY <1>3, <1>5 DEF Range
  <1>8. \A n \in DOMAIN order :
           /\ p.subsystems[n].outputs = outputs(order[n])
           /\ p.subsystems[n].blocks = render_subsystem_case_blocks(s, order[n])
           /\ p.subsystems[n].field = subsystem_status_names(order[n]).field
    BY <1>5, <1>6
  <1>9. Len(p.subsystems) \in Nat /\ DOMAIN p.subsystems = 1..Len(p.subsystems)
    BY <1>7
  <1> HIDE DEF main
  <1> QED BY <1>4, <1>7, <1>8, <1>9, ZenonT(30) DEF p, s, m, fsms, root, main, order, outputs

(* What an actuator commanded by activation alone is in its program. *)
LEMMA ProgramOpposed ==
    ASSUME NEW id \in Complete(Checks), NEW field \in ActuatorFields[id]
    PROVE  LET p == ProgramTable[id]
               e == field \o <<"enable", "request">>
               d == field \o <<"disable", "request">>
           IN /\ OutputsOnly(p, e, d)
              /\ {e, d} \cap {Plc!FaultRequest, Plc!FaultAck} = {}
              /\ \A q \in DOMAIN p.engine : \A b \in Range(p.engine[q]) :
                    e \notin TargetsOf(b.sets) /\ d \notin TargetsOf(b.sets)
              /\ Len(p.subsystems) \in Nat
              /\ \A n \in 1..Len(p.subsystems) : OutputsOnly(p.subsystems[n], e, d)
  <1> DEFINE p == ProgramTable[id]
             e == field \o <<"enable", "request">>
             d == field \o <<"disable", "request">>
             s == SeedTable[id[2]]
             m == Model[id[1]]
             fsms == Fsms[id[1]]
             root == id[3]
             hand == AssignedByHand(p, s, m, fsms, root)
             main == Supervisor(m, fsms, root)
             order == Subsystems(m, fsms, root)
             statuses(f) == {i.status : i \in ItemsOf(s, f.status_flow_id)}
             state(f, status) == First(f.states, "status_id", status)
             outputs(f) == [status \in statuses(f) |-> render_output_assignments(state(f, status), m)]
  <1>1. id[1] \in Versions
    BY ProgramParts
  <1>2. (\E x \in Range(m.devices) : field = device_field_name(x)) /\ {e, d} \cap hand = {}
    <2>1. DOMAIN ProgramTable = Complete(Checks)
      BY DEF ProgramTable, Compiled
    <2> QED BY <2>1 DEF ActuatorFields, Commanded, CommandsOf
  <1>3. \A x \in Range(m.devices) : IsTable(x.physical_device_name)
    BY <1>1, DevicesNamed
  <1>4. IsTable(field)
    BY <1>2, <1>3, FieldNames
  <1>5. /\ p.outputs = outputs(main)
        /\ Len(p.subsystems) \in Nat
        /\ DOMAIN p.subsystems = 1..Len(p.subsystems) /\ DOMAIN order = DOMAIN p.subsystems
        /\ \A n \in DOMAIN order : p.subsystems[n].outputs = outputs(order[n])
    BY ProgramShape
  <1> HIDE DEF order
  <1>8. /\ {e, d} \cap {Plc!FaultRequest, Plc!FaultAck} = {}
        /\ {e, d} \cap PredicateNames(p) = {}
        /\ \A q \in DOMAIN p.engine : \A b \in Range(p.engine[q]) : {e, d} \cap TargetsOf(b.sets) = {}
        /\ \A q \in DOMAIN p.blocks : {e, d} \cap AppliedIn(p.blocks, q) = {}
        /\ \A c \in Range(p.subsystems) :
              /\ {e, d} \cap PredicateNames(c) = {}
              /\ \A q \in DOMAIN c.blocks : {e, d} \cap AppliedIn(c.blocks, q) = {}
        /\ \A x \in StatesOf(s, main) : {e, d} \cap ByHand(x) = {}
        /\ \A f \in Range(order) : \A x \in StatesOf(s, f) : {e, d} \cap ByHand(x) = {}
    <2> HIDE DEF e, d, p, s, m, fsms, root, main
    <2> QED BY <1>2 DEF AssignedByHand, order, faultRequest, Plc!FaultRequest, main
  <1>9. ASSUME NEW f, \A x \in StatesOf(s, f) : {e, d} \cap ByHand(x) = {}
        PROVE  \A status \in DOMAIN outputs(f) : Opposed(outputs(f)[status], e, d)
    <2> SUFFICES ASSUME NEW status \in statuses(f)
                 PROVE  Opposed(render_output_assignments(state(f, status), m), e, d)
      OBVIOUS
    <2>1. state(f, status) \in StatesOf(s, f)
      BY DEF StatesOf
    <2> HIDE DEF state, m
    <2> QED BY <1>3, <1>4, <1>9, <2>1, OutputsOpposed
  <1> HIDE DEF p, e, d, outputs, main
  <1>10. OutputsOnly(p, e, d)
    BY <1>5, <1>8, <1>9 DEF OutputsOnly
  <1>11. ASSUME NEW n \in 1..Len(p.subsystems) PROVE OutputsOnly(p.subsystems[n], e, d)
    <2>1. n \in DOMAIN order
      BY <1>5
    <2>2. p.subsystems[n] \in Range(p.subsystems) /\ order[n] \in Range(order)
      BY <1>5, <2>1 DEF Range
    <2>3. \A status \in DOMAIN outputs(order[n]) : Opposed(outputs(order[n])[status], e, d)
      BY <1>8, <1>9, <2>2
    <2> QED BY <1>5, <1>8, <2>1, <2>2, <2>3 DEF OutputsOnly
  <1>12. \A q \in DOMAIN p.engine : \A b \in Range(p.engine[q]) :
            e \notin TargetsOf(b.sets) /\ d \notin TargetsOf(b.sets)
    BY <1>8
  <1> QED BY <1>5, <1>8, <1>10, <1>11, <1>12 DEF p, e, d

-----------------------------------------------------------------------------
(* From the session to the scans. *)

(* A manifest is written last, of an application that can be generated     *)
(* completely; the project lists application ids that have a manifest.     *)
Compilable ==
    /\ \A a \in AppIds : manifests[a] # NoPart =>
         <<manifests[a].docs, manifests[a].seed, manifests[a].root>> \in Complete(Checks)
    /\ \A row \in project : row.app \in AppIds

EInv ==
    /\ IInv /\ Compilable
    /\ program # Plc!NoProgram => program \in Complete(Checks)
    /\ program = Plc!NoProgram => scan = "none"
    /\ CommandsAgree

LEMMA CompilableStep == IInv /\ Compilable /\ [Next]_vars => Compilable'
  <1> SUFFICES ASSUME IInv, Compilable, [Next]_vars PROVE Compilable' OBVIOUS
  <1>1. CASE UNCHANGED <<manifests, project>>
    BY <1>1 DEF Compilable
  <1>2. CASE WriteManifest
    <2>1. project' = project
      BY <1>2 DEF WriteManifest
    <2>2. CASE UNCHANGED manifests
      BY <2>1, <2>2 DEF Compilable
    <2>3. CASE manifests' # manifests
      <3>1. /\ Checks[docs][seed.docs][tool.root].manifest
            /\ manifests' = [manifests EXCEPT ![AppId(docs, tool.root)] = CurrentPart]
        BY <1>2, <2>3 DEF WriteManifest
      <3>2. docs \in Reviewable /\ seed.docs \in Seedable /\ tool.root \in AppRoots[docs]
        BY <1>2 DEF WriteManifest, At, IInv, PlcInv, Generating, Types
      <3>3. <<docs, seed.docs, tool.root>> \in Complete(Checks)
        <4>1. docs \in DOMAIN Checks /\ seed.docs \in DOMAIN Checks[docs]
              /\ tool.root \in DOMAIN Checks[docs][seed.docs]
          BY <3>2 DEF Checks, Generations, SeedTable, AppRoots
        <4> QED BY <3>1, <4>1 DEF Complete
      <3>4. manifests \in [AppIds -> Part]
        BY DEF IInv, Types
      <3>5. \A a \in AppIds : manifests'[a] = manifests[a] \/ manifests'[a] = CurrentPart
        BY <3>1, <3>4
      <3> QED BY <2>1, <3>3, <3>5 DEF Compilable, CurrentPart
    <2> QED BY <2>2, <2>3
  <1>3. CASE WriteProject
    <2>1. manifests' = manifests
      BY <1>3 DEF WriteProject
    <2>2. \A r \in tool.done : AppId(docs, r) \in AppIds
      BY <1>3, IdsKnown DEF WriteProject, At, IInv, PlcInv, Generating, DoneInv, Has
    <2>3. \A row \in project' : row \in project \/ \E r \in tool.done : row.app = AppId(docs, r)
      BY <1>3 DEF WriteProject
    <2> QED BY <2>1, <2>2, <2>3 DEF Compilable
  <1>4. CASE UNCHANGED vars
    BY <1>1, <1>4 DEF vars
  <1>5. ASSUME Next, ~ WriteManifest, ~ WriteProject PROVE UNCHANGED <<manifests, project>>
    BY <1>5
       DEF Next, Edit, Start, Crash, WriteSurveys, WriteContext, WriteSession, WriteNotes,
           RecordNotes, Validate, ValidateForSeed, WriteSeed, RecordSeed, ValidateForPlc,
           RenderStatusflow, RecordStatusflow, RenderCatalog, RenderMapper, RenderControllers,
           OnlyBundles
  <1> QED BY <1>1, <1>2, <1>3, <1>4, <1>5

(* What is imported is complete, and starts with all commands off. *)
LEMMA ImportStep == EInv /\ Import => EInv'
  <1> SUFFICES ASSUME EInv, Import PROVE EInv' OBVIOUS
  <1>1. Init'
    BY DEF Import, Init
  <1>2. IInv'
    BY <1>1, InitEstablishes, PTL
  <1>3. Compilable'
    BY <1>1 DEF Init, Compilable, NoProject
  <1>4. PICK row \in project :
          LET b == bundles[<<row.app, row.root>>]
              id == <<b.main.docs, b.main.seed, b.main.root>>
          IN /\ b.main # NoPart /\ manifests[row.app] = b.main
             /\ Plc!Download(id, ProgramTable[id])
    BY DEF Import
  <1>5. row.app \in AppIds
    BY DEF EInv, Compilable
  <1>6. program' \in Complete(Checks) /\ flags' = {} /\ program' # Plc!NoProgram
    BY <1>4, <1>5, ProgramParts DEF EInv, Compilable, Plc!Download, Plc!Load
  <1>7. CommandsAgree'
    BY <1>6 DEF CommandsAgree, CommandsOf
  <1> QED BY <1>2, <1>3, <1>6, <1>7 DEF EInv

(* A scan of Init or of Run, and an acknowledgement. *)
LEMMA ScanStep ==
    EInv /\ (Scan(Program) \/ Plc!Acknowledge) /\ UNCHANGED vars => EInv'
  <1> SUFFICES ASSUME EInv, Scan(Program) \/ Plc!Acknowledge, UNCHANGED vars PROVE EInv'
    OBVIOUS
  <1>1. IInv' /\ Compilable'
    BY NextPreserves, CompilableStep DEF EInv
  <1>2. program' = program /\ program # Plc!NoProgram
    BY DEF Scan, Plc!ScanInit, Plc!ScanRun, Plc!Acknowledge
  <1>3. program \in Complete(Checks)
    BY <1>2 DEF EInv
  <1>4. ASSUME NEW field \in ActuatorFields[program]
        PROVE  ~ (CommandsOf(field) \subseteq flags')
    <2> DEFINE p == ProgramTable[program]
               e == field \o <<"enable", "request">>
               d == field \o <<"disable", "request">>
    <2>1. /\ OutputsOnly(p, e, d)
          /\ {e, d} \cap {Plc!FaultRequest, Plc!FaultAck} = {}
          /\ \A q \in DOMAIN p.engine : \A b \in Range(p.engine[q]) :
                e \notin TargetsOf(b.sets) /\ d \notin TargetsOf(b.sets)
          /\ Len(p.subsystems) \in Nat
          /\ \A n \in 1..Len(p.subsystems) : OutputsOnly(p.subsystems[n], e, d)
      BY <1>3, ProgramOpposed
    <2>2. Opposite(e, d, flags)
      BY <1>2 DEF EInv, CommandsAgree, CommandsOf, Opposite
    <2>3. CommandsOf(field) = {e, d}
      BY DEF CommandsOf
    <2> HIDE DEF p, e, d
    <2>4. CASE Plc!ScanInit(Program)
      <3> DEFINE dev == Plc!Supervise(p, p.initial, facts', flags, Plc!InitialStatuses(p))
      <3>1. Opposite(e, d, dev.flags)
        BY <2>1, <2>2, SuperviseOpposite
      <3>2. flags' = dev.flags
        BY <2>4 DEF Plc!ScanInit, Plc!Scanned, Program, p
      <3> QED BY <2>3, <3>1, <3>2 DEF Opposite
    <2>5. CASE Plc!ScanRun(Program)
      <3> DEFINE set == Plc!RuleEngine(p, mainStatus, facts', flags)
                 dev == Plc!Supervise(p, mainStatus, facts', set, subStatus)
                 after == Plc!Controlled(p, facts', dev)
      <3>1. Opposite(e, d, set)
        BY <2>1, <2>2, RuleEngineOpposite
      <3>2. flags' = after.flags
        BY <2>5 DEF Plc!ScanRun, Plc!Scanned, Program, p
      <3> HIDE DEF set
      <3>3. Opposite(e, d, dev.flags)
        BY <2>1, <3>1, SuperviseOpposite
      <3> HIDE DEF dev
      <3>4. Opposite(e, d, after.flags)
        BY <2>1, <3>3, ControlledOpposite
      <3> QED BY <2>3, <3>2, <3>4 DEF Opposite
    <2>6. CASE Plc!Acknowledge
      <3>1. flags' = flags \cup {Plc!FaultAck}
        BY <2>6 DEF Plc!Acknowledge
      <3> QED BY <2>1, <2>2, <2>3, <3>1 DEF Opposite
    <2> QED BY <2>4, <2>5, <2>6 DEF Scan
  <1>5. CommandsAgree'
    BY <1>2, <1>4 DEF CommandsAgree
  <1> QED BY <1>1, <1>2, <1>3, <1>5 DEF EInv

(* The inductive invariant: what runs was generated completely, nothing    *)
(* runs before it is imported, and the commands of devices agree.          *)
THEOREM EngineeringInvariance == EngineeringSpec => []EInv
  <1>1. EngineeringInit => EInv
    BY InitEstablishes DEF EngineeringInit, Init, Plc!InitMain, EInv, Compilable, NoProject,
       CommandsAgree
  <1>2. EInv /\ [EngineeringNext]_<<vars, plcVars>> => EInv'
    <2> SUFFICES ASSUME EInv, [EngineeringNext]_<<vars, plcVars>> PROVE EInv'
      OBVIOUS
    <2>1. CASE [Next]_vars /\ UNCHANGED plcVars
      <3>1. IInv' /\ Compilable'
        BY <2>1, NextPreserves, CompilableStep DEF EInv
      <3>2. CommandsAgree' /\ program' = program /\ scan' = scan
        BY <2>1 DEF plcVars, EInv, CommandsAgree
      <3> QED BY <3>1, <3>2 DEF EInv
    <2> QED BY <2>1, ImportStep, ScanStep DEF EngineeringNext
  <1> QED BY <1>1, <1>2, PTL DEF EngineeringSpec

(* For any surveys, any session and any plant: an actuator that is         *)
(* commanded by activation alone is never told to start and to stop in one *)
(* scan, whatever states, subsystems and nested controllers list it.       *)
THEOREM ActuatorsAgree == EngineeringSpec => []CommandsAgree
  <1>1. EInv => CommandsAgree
    BY DEF EInv
  <1> QED BY <1>1, EngineeringInvariance, PTL

(* A scan of Run that sees a fault: the rule engine requests it, the        *)
(* outputs are those of the fault state, and nothing after them assigns    *)
(* the field again.                                                        *)
LEMMA FaultScan ==
    EInv /\ Plc!ScanRun(Program) => StopsAtFault(Program, ReviewedFsm(program))
  <1> DEFINE p == Program
             f == ReviewedFsm(program)
             rows == Plc!OutputsOf(p.outputs, p.fault)
  <1> SUFFICES ASSUME EInv, Plc!ScanRun(p), p.fault # Blank, FaultHolds(p, f),
                      NEW r \in rows, r.target \notin LaterTargets(p),
                      \A x \in rows : x.target = r.target => x = r
               PROVE  r.target \in flags' <=> r.expression = "TRUE"
    BY DEF StopsAtFault
  <1>1. program \in Complete(Checks)
    BY DEF EInv, Plc!ScanRun
  <1>2. /\ p.predicates = Range(f.predicates) /\ p.faultCondition = FaultCondition(f)
        /\ Len(p.subsystems) \in Nat /\ DOMAIN p.subsystems = 1..Len(p.subsystems)
    BY <1>1, ProgramShape DEF Program, ReviewedFsm
  <1> DEFINE reset == Plc!Computed(flags \ (p.requests \cup {Plc!FaultRequest}), p.predicates, facts')
             set == Plc!RuleEngine(p, mainStatus, facts', flags)
             dev == Plc!Supervise(p, mainStatus, facts', set, subStatus)
             outputs == Plc!Assigned(set, rows)
             taken == Plc!FirstThat(Plc!BranchesOf(p.blocks, p.fault),
                                    LAMBDA b : Plc!Holds(b.guard, facts', outputs))
             applied == UNION {b.apply : b \in taken}
  <1>3. flags' = Plc!Controlled(p, facts', dev).flags
    BY DEF Plc!ScanRun, Plc!Scanned
  <1> HIDE DEF p, f
  <1>4. Plc!FaultRequest \in set
    <2>1. Plc!Holds(p.faultCondition, facts', reset)
      BY <1>2 DEF FaultHolds, Readable, Plc!FaultRequest, faultRequest
    <2> HIDE DEF reset
    <2>2. set = reset \cup {Plc!FaultRequest}
      BY <2>1 DEF Plc!RuleEngine, reset
    <2> QED BY <2>2
  <1> HIDE DEF set
  <1>5. dev.flags = Plc!Assigned(outputs, applied)
    <2> DEFINE now == IF p.fault # Blank /\ Plc!FaultRequest \in set THEN p.fault ELSE mainStatus
               given == Plc!Assigned(set, Plc!OutputsOf(p.outputs, now))
               open == Plc!FirstThat(Plc!BranchesOf(p.blocks, now),
                                     LAMBDA b : Plc!Holds(b.guard, facts', given))
    <2>1. dev.flags = Plc!Assigned(given, UNION {b.apply : b \in open})
      BY DEF Plc!Supervise, Plc!Blank, Blank
    <2>2. now = p.fault
      BY <1>4
    <2> HIDE DEF now, dev
    <2> QED BY <2>1, <2>2
  <1>6. taken \subseteq Range(Plc!BranchesOf(p.blocks, p.fault))
    BY DEF Plc!FirstThat, Range
  <1>7. r.target \in outputs <=> r.expression = "TRUE"
    BY DEF Plc!Assigned
  <1> HIDE DEF outputs, rows, taken, dev
  <1>8. r.target \notin TargetsOf(applied)
    <2>1. r.target \notin AppliedIn(p.blocks, p.fault)
      BY DEF LaterTargets
    <2> QED BY <1>6, <2>1, AppliedTargets
  <1> HIDE DEF applied
  <1>9. r.target \in dev.flags <=> r.target \in outputs
    BY <1>5, <1>8, AssignedElsewhere
  <1>10. \A i \in 1..Len(p.subsystems) : r.target \notin ControllerTargets(p.subsystems[i])
    BY <1>2 DEF LaterTargets, Range
  <1>11. r.target \in flags' <=> r.target \in dev.flags
    BY <1>2, <1>3, <1>10, ControlledElsewhere
  <1> QED BY <1>7, <1>9, <1>11

(* For any surveys, any session and any plant: the scan that sees a fault  *)
(* already gives the commands of the fault state, as far as nothing after  *)
(* its outputs is written to assign their fields again.                    *)
THEOREM FaultsStopAtOnce == EngineeringSpec => FaultStopsAtOnce
  <1>1. EInv /\ [EngineeringNext]_<<vars, plcVars>>
          => [scan' = "Run" => StopsAtFault(Program, ReviewedFsm(program))]_plcVars
    <2> SUFFICES ASSUME EInv, EngineeringNext, scan' = "Run"
                 PROVE  \/ StopsAtFault(Program, ReviewedFsm(program))
                        \/ UNCHANGED plcVars
      BY DEF plcVars
    <2>1. CASE UNCHANGED plcVars
      BY <2>1
    <2>2. CASE Import
      BY <2>2 DEF EInv, Import, Plc!Download
    <2>3. CASE Scan(Program)
      BY <2>3, FaultScan DEF Scan, Plc!ScanInit
    <2>4. CASE Plc!Acknowledge
      BY <2>4 DEF Plc!Acknowledge
    <2> QED BY <2>1, <2>2, <2>3, <2>4 DEF EngineeringNext
  <1> QED BY <1>1, EngineeringInvariance, PTL DEF EngineeringSpec, FaultStopsAtOnce

-----------------------------------------------------------------------------
(* Rows in order: each is at the place its number gives it. *)
LEMMA OrderedPlaces ==
    ASSUME NEW rows, IsFiniteSet(rows), NEW key, \A x \in rows : x[key] \in Int,
           \A x, y \in rows : x[key] = y[key] => x = y
    PROVE  LET q == Ordered(rows, key)
           IN /\ Len(q) \in Nat /\ DOMAIN q = 1..Len(q)
              /\ Range(q) = rows
              /\ \A i, j \in DOMAIN q : i <= j => q[i][key] <= q[j][key]
              /\ \A i, j \in DOMAIN q : q[i] = q[j] => i = j
  <1> DEFINE n == Cardinality(rows)
             below(x) == {y \in rows : y[key] <= x[key]}
             place(x) == Cardinality(below(x))
             places == [x \in rows |-> place(x)]
             q == Ordered(rows, key)
  <1>1. n \in Nat
    BY FS_CardinalityType
  <1>2. q = [i \in 1..n |-> CHOOSE x \in rows : place(x) = i]
    BY DEF Ordered
  <1>3. \A x \in rows : IsFiniteSet(below(x)) /\ place(x) \in Nat /\ place(x) <= n
    <2> TAKE x \in rows
    <2>1. below(x) \in SUBSET rows
      OBVIOUS
    <2> HIDE DEF below
    <2> QED BY <2>1, FS_Subset, FS_CardinalityType
  <1>4. \A x, y \in rows : x[key] < y[key] => place(x) < place(y)
    <2> SUFFICES ASSUME NEW x \in rows, NEW y \in rows, x[key] < y[key] PROVE place(x) < place(y)
      OBVIOUS
    <2>1. below(x) \in SUBSET (below(y) \ {y})
      OBVIOUS
    <2>2. y \in below(y)
      OBVIOUS
    <2> HIDE DEF below
    <2>3. IsFiniteSet(below(y) \ {y}) /\ Cardinality(below(y) \ {y}) = place(y) - 1
      BY <1>3, <2>2, FS_RemoveElement
    <2>4. place(x) <= place(y) - 1
      BY <2>1, <2>3, FS_Subset
    <2> QED BY <1>3, <2>4
  <1>5. \A x \in rows : place(x) \in 1..n
    <2> TAKE x \in rows
    <2>1. x \in below(x)
      OBVIOUS
    <2> HIDE DEF below
    <2>2. place(x) # 0
      BY <1>3, <2>1, FS_EmptySet
    <2> QED BY <1>1, <1>3, <2>2
  <1> HIDE DEF place, n, q
  <1>6. places \in Injection(rows, 1..n)
    BY <1>4, <1>5 DEF Injection, IsInjective
  <1>7. places \in Surjection(rows, 1..n)
    <2>1. IsFiniteSet(1..n) /\ Cardinality(1..n) = n
      BY <1>1, FS_Interval
    <2>2. Cardinality(rows) = Cardinality(1..n)
      BY <2>1 DEF n
    <2> HIDE DEF places
    <2> QED BY <1>6, <2>1, <2>2, FS_Injection
  <1>8. \A i \in 1..n : q[i] \in rows /\ place(q[i]) = i
    <2> TAKE i \in 1..n
    <2>1. \E x \in rows : place(x) = i
      BY <1>7 DEF Surjection
    <2>2. q[i] = CHOOSE x \in rows : place(x) = i
      BY <1>2
    <2> QED BY <2>1, <2>2
  <1>9. DOMAIN q = 1..n /\ q \in Seq(rows) /\ Len(q) = n
    BY <1>1, <1>2, <1>8
  <1>10. \A x \in rows : q[place(x)] = x
    <2> TAKE x \in rows
    <2>1. place(q[place(x)]) = place(x) /\ q[place(x)] \in rows
      BY <1>5, <1>8
    <2> QED BY <1>4, <1>5, <1>8, <2>1
  <1>11. Range(q) = rows
    BY <1>5, <1>8, <1>9, <1>10 DEF Range
  <1>12. ASSUME NEW i \in 1..n, NEW j \in 1..n, i <= j PROVE q[i][key] <= q[j][key]
    <2>1. ~ (q[j][key] < q[i][key])
      BY <1>4, <1>8, <1>12, <1>1
    <2> QED BY <1>8, <2>1
  <1> QED BY <1>1, <1>8, <1>9, <1>11, <1>12 DEF q

-----------------------------------------------------------------------------
(* A program that mirrors the FSM it was generated from. *)

(* What the rule engine assigns along a transition. *)
Asked(f, t) ==
    IF t.request_assignments # {} THEN t.request_assignments
    ELSE {Assignment(RequestOf(f, t.to_status_id), "TRUE")}
(* The branches of a status are its transitions, in one order in Main and  *)
(* in the rule engine.                                                     *)
Branched(p, f, q, out) ==
    /\ Len(out) \in Nat /\ DOMAIN out = 1..Len(out)
    /\ Range(out) = {t \in Range(f.transitions) : t.from_status_id = q}
    /\ \A i, j \in DOMAIN out : i <= j => out[i].precedence <= out[j].precedence
    /\ DOMAIN p.engine[q] = DOMAIN out /\ DOMAIN p.blocks[q] = DOMAIN out
    /\ \A n \in DOMAIN out :
         /\ p.engine[q][n].condition = out[n].condition
         /\ p.engine[q][n].sets = Asked(f, out[n])
         /\ Own(f, out[n]) =>
              /\ p.blocks[q][n].guard = <<"dev">> \o RequestOf(f, out[n].to_status_id)
              /\ p.blocks[q][n].to = out[n].to_status_id
         /\ ~ Own(f, out[n]) =>
              /\ p.blocks[q][n].to = Blank
              /\ p.blocks[q][n].apply = out[n].apply_assignments
Mirrors(p, f) ==
    LET statuses == Ids(f.states, "status_id")
    IN /\ p.predicates = Range(f.predicates) /\ p.faultCondition = FaultCondition(f)
       /\ Blank \notin statuses
       /\ p.requests = {RequestOf(f, q) : q \in statuses}
       /\ \A q \in statuses : IsTable(RequestOf(f, q))
       /\ \A q, r \in statuses : RequestOf(f, q) = RequestOf(f, r) => q = r
       /\ DOMAIN p.engine = statuses /\ DOMAIN p.blocks = statuses
       /\ \A t \in Range(f.transitions) :
            /\ t.from_status_id \in statuses /\ t.precedence \in Int
            /\ Own(f, t) => t.to_status_id \in statuses
            /\ ~ Own(f, t) => t.request_assignments # {}
       /\ \A t, u \in Range(f.transitions) :
            t.from_status_id = u.from_status_id /\ t.precedence = u.precedence => t = u
       /\ \A q \in statuses : \E out : Branched(p, f, q, out)
(* The requests in a set of fields. *)
RequestsIn(p, set) == set \cap (p.requests \cup {faultRequest})

LEMMA SameNames == Plc!Blank = Blank /\ Plc!FaultRequest = faultRequest
  BY DEF Plc!Blank, Blank, Plc!FaultRequest, faultRequest

LEMMA NoPlaces == ASSUME NEW q, q = <<>> PROVE DOMAIN q = {}
  OBVIOUS

(* The first of the open branches, if one is open. *)
LEMMA FirstTaken ==
    ASSUME NEW branches, DOMAIN branches \subseteq Nat, NEW open, open \subseteq DOMAIN branches
    PROVE  LET taken == {branches[n] : n \in {k \in open : \A j \in open : k <= j}}
           IN /\ open = {} => taken = {}
              /\ open # {} => \E n \in open : (\A j \in open : n <= j) /\ taken = {branches[n]}
  <1>1. CASE open = {}
    BY <1>1
  <1>2. CASE open # {}
    <2>1. PICK n \in open : \A j \in open : n <= j
      BY <1>2, SmallestOf
    <2>2. {k \in open : \A j \in open : k <= j} = {n}
      BY <2>1
    <2>3. {branches[k] : k \in {n}} = {branches[n]}
      OBVIOUS
    <2> QED BY <1>2, <2>1, <2>2, <2>3
  <1> QED BY <1>1, <1>2

(* Requests are given and taken back by transitions only. *)
LEMMA OutputsKeepRequests ==
    ASSUME NEW p, NEW f, Disciplined(p, f), NEW set, NEW q
    PROVE  RequestsIn(p, Plc!Assigned(set, Plc!OutputsOf(p.outputs, q))) = RequestsIn(p, set)
  <1> DEFINE rows == Plc!OutputsOf(p.outputs, q)
             requests == p.requests \cup {faultRequest}
  <1>1. requests \cap TargetsOf(rows) = {}
    <2>1. q \in DOMAIN p.outputs => requests \cap TargetsOf(p.outputs[q]) = {}
      BY DEF Disciplined
    <2> QED BY <2>1 DEF Plc!OutputsOf, TargetsOf
  <1> HIDE DEF rows, requests
  <1>2. \A r \in requests : r \in Plc!Assigned(set, rows) <=> r \in set
    BY <1>1, AssignedElsewhere
  <1> QED BY <1>2 DEF RequestsIn, requests, rows
LEMMA PredicatesKeepRequests ==
    ASSUME NEW p, NEW f, Disciplined(p, f), NEW set, NEW true
    PROVE  RequestsIn(p, Plc!Computed(set, p.predicates, true)) = RequestsIn(p, set)
  <1> DEFINE requests == p.requests \cup {faultRequest}
  <1>1. requests \cap {r.name : r \in p.predicates} = {}
    BY DEF Disciplined, PredicateNames
  <1>2. \A r \in requests : r \in Plc!Computed(set, p.predicates, true) <=> r \in set
    BY <1>1, ComputedElsewhere
  <1> QED BY <1>2 DEF RequestsIn

(* A branch that waits for a request is taken when it is given. *)
LEMMA RequestGuard ==
    ASSUME NEW request, IsTable(request), NEW true, \A e \in true : e[1] # "dev", NEW set
    PROVE  Plc!Holds(<<"dev">> \o request, true, set) <=> request \in set
  <1> DEFINE guard == <<"dev">> \o request
             S == Range(request) \cup {"dev"}
  <1>1. request \in Seq(S) /\ <<"dev">> \in Seq(S) /\ <<"dev">>[1] = "dev" /\ Len(<<"dev">>) = 1
    BY DEF IsTable
  <1>2. guard[1] = "dev" /\ guard \in Seq(S) /\ Len(guard) = 1 + Len(request)
    BY <1>1
  <1>3. Tail(guard) = request
    <2>1. Tail(guard) \in Seq(S) /\ Len(Tail(guard)) = Len(request)
      BY <1>1, <1>2
    <2>2. \A i \in 1..Len(request) : Tail(guard)[i] = request[i]
      BY <1>1, <1>2
    <2> HIDE DEF guard, S
    <2> QED BY <1>1, <2>1, <2>2
  <1> HIDE DEF guard, S
  <1>4. guard # <<"true">>
    <2>1. <<"true">>[1] = "true"
      OBVIOUS
    <2> QED BY <1>2, <2>1
  <1> QED BY <1>2, <1>3, <1>4 DEF Plc!Holds, guard

(* Main moves its supervisor along a transition whose request is given, or *)
(* not at all; and if one request alone is given, along its transition.    *)
LEMMA SuperviseMoves ==
    ASSUME NEW p, NEW f, Mirrors(p, f), Disciplined(p, f), NEW from,
           NEW true, \A e \in true : e[1] # "dev", NEW set, NEW subs
    PROVE  LET now == IF p.fault # Plc!Blank /\ Plc!FaultRequest \in set THEN p.fault ELSE from
               status == Plc!Supervise(p, from, true, set, subs).status
               leaving == {t \in Range(f.transitions) : t.from_status_id = now /\ Own(f, t)}
           IN /\ \/ status = now
                 \/ \E t \in leaving : RequestOf(f, t.to_status_id) \in set /\ status = t.to_status_id
              /\ \A t \in leaving : RequestsIn(p, set) = {RequestOf(f, t.to_status_id)}
                                      => status = t.to_status_id
  <1> DEFINE now == IF p.fault # Plc!Blank /\ Plc!FaultRequest \in set THEN p.fault ELSE from
             outputs == Plc!Assigned(set, Plc!OutputsOf(p.outputs, now))
             branches == Plc!BranchesOf(p.blocks, now)
             open == {n \in DOMAIN branches : Plc!Holds(branches[n].guard, true, outputs)}
             taken == {branches[n] : n \in {k \in open : \A j \in open : k <= j}}
             applied == UNION {b.apply : b \in taken}
             status == Plc!Supervise(p, from, true, set, subs).status
             leaving == {t \in Range(f.transitions) : t.from_status_id = now /\ Own(f, t)}
             statuses == Ids(f.states, "status_id")
  <1>1. status = IF \E b \in taken : b.to # Plc!Blank THEN (CHOOSE b \in taken : TRUE).to
                 ELSE IF \E r \in applied : r.target = <<"status">>
                 THEN (CHOOSE r \in applied : r.target = <<"status">>).expression
                 ELSE now
    BY DEF Plc!Supervise, Plc!FirstThat
  <1> HIDE DEF status, now
  <1>2. RequestsIn(p, outputs) = RequestsIn(p, set)
    BY OutputsKeepRequests
  <1> HIDE DEF outputs
  <1>3. CASE now \notin DOMAIN p.blocks
    <2>1. branches = <<>>
      BY <1>3 DEF Plc!BranchesOf
    <2> HIDE DEF branches
    <2>2. open = {}
      <3>1. DOMAIN branches = {}
        BY <2>1, NoPlaces
      <3> QED BY <3>1
    <2> HIDE DEF open
    <2>3. taken = {} /\ applied = {}
      <3>1. taken = {}
        BY <2>2
      <3> HIDE DEF taken
      <3> QED BY <3>1
    <2> HIDE DEF taken, applied
    <2>4. status = now
      BY <1>1, <2>3
    <2>5. leaving = {}
      BY <1>3 DEF Mirrors
    <2> QED BY <2>4, <2>5 DEF status, now
  <1>4. CASE now \in DOMAIN p.blocks
    <2>1. now \in statuses /\ branches = p.blocks[now]
      BY <1>4 DEF Mirrors, Plc!BranchesOf
    <2>2. PICK out : Branched(p, f, now, out)
      BY <2>1 DEF Mirrors
    <2> HIDE DEF branches
    <2>3. DOMAIN branches = DOMAIN out /\ DOMAIN branches \subseteq Nat
      BY <2>1, <2>2 DEF Branched
    <2>4. \A n \in DOMAIN out : out[n] \in Range(f.transitions) /\ out[n].from_status_id = now
      BY <2>2 DEF Branched, Range
    <2>5. ASSUME NEW n \in DOMAIN out, Own(f, out[n])
          PROVE  n \in open <=> RequestOf(f, out[n].to_status_id) \in set
      <3> DEFINE request == RequestOf(f, out[n].to_status_id)
      <3>1. IsTable(request) /\ request \in p.requests
        BY <2>4, <2>5 DEF Mirrors
      <3>2. branches[n].guard = <<"dev">> \o request
        BY <2>1, <2>2, <2>5 DEF Branched
      <3> HIDE DEF request
      <3>3. n \in open <=> request \in outputs
        BY <2>3, <3>1, <3>2, RequestGuard
      <3>4. request \in outputs <=> request \in set
        BY <1>2, <3>1 DEF RequestsIn
      <3> QED BY <3>3, <3>4 DEF request
    <2>6. \A t \in leaving : \E n \in DOMAIN out : out[n] = t
      BY <2>2 DEF Branched, Range
    <2>7. \A t \in leaving : t.to_status_id \in statuses
      BY DEF Mirrors
    <2>8. open \subseteq DOMAIN branches
      OBVIOUS
    <2> HIDE DEF open
    <2>9. CASE open = {}
      <3>1. taken = {}
        <4>1. {k \in open : \A j \in open : k <= j} = {}
          BY <2>9
        <4> QED BY <4>1
      <3>2. status = now
        BY <1>1, <3>1
      <3>3. \A t \in leaving : RequestOf(f, t.to_status_id) \notin set
        BY <2>5, <2>6, <2>9
      <3>4. \A t \in leaving : RequestsIn(p, set) # {RequestOf(f, t.to_status_id)}
        BY <3>3 DEF RequestsIn
      <3> QED BY <3>2, <3>4 DEF status, now
    <2>10. CASE open # {}
      <3>1. PICK n \in open : (\A j \in open : n <= j) /\ taken = {branches[n]}
        BY <2>3, <2>8, <2>10, FirstTaken
      <3> HIDE DEF taken
      <3>2. n \in DOMAIN out
        BY <2>3, <2>8
      <3>3. CASE Own(f, out[n])
        <4>1. branches[n].to = out[n].to_status_id /\ out[n] \in leaving
          BY <2>1, <2>2, <2>4, <3>2, <3>3 DEF Branched
        <4>2. out[n].to_status_id # Blank
          BY <2>7, <4>1 DEF Mirrors
        <4>3. status = out[n].to_status_id
          BY <1>1, <3>1, <4>1, <4>2, SameNames
        <4>4. RequestOf(f, out[n].to_status_id) \in RequestsIn(p, set)
          BY <2>5, <2>7, <3>2, <3>3, <4>1 DEF Mirrors, RequestsIn
        <4>5. ASSUME NEW t \in leaving, RequestsIn(p, set) = {RequestOf(f, t.to_status_id)}
              PROVE  status = t.to_status_id
          <5>1. RequestOf(f, out[n].to_status_id) = RequestOf(f, t.to_status_id)
            BY <4>4, <4>5
          <5> QED BY <2>7, <4>1, <4>3, <5>1 DEF Mirrors
        <4>6. RequestOf(f, out[n].to_status_id) \in set
          BY <4>4 DEF RequestsIn
        <4> QED BY <4>1, <4>3, <4>5, <4>6 DEF status, now
      <3>4. CASE ~ Own(f, out[n])
        <4>1. branches[n].to = Blank /\ branches[n].apply = out[n].apply_assignments
          BY <2>1, <2>2, <3>2, <3>4 DEF Branched
        <4>2. <<"status">> \notin TargetsOf(out[n].apply_assignments)
          BY <2>4, <3>2, <3>4 DEF Disciplined
        <4>3. status = now
          <5>1. applied = out[n].apply_assignments
            BY <3>1, <4>1
          <5>2. ~ \E r \in applied : r.target = <<"status">>
            BY <4>2, <5>1 DEF TargetsOf
          <5> QED BY <1>1, <3>1, <4>1, <5>2, SameNames
        <4>4. ASSUME NEW t \in leaving, RequestsIn(p, set) = {RequestOf(f, t.to_status_id)}
              PROVE  FALSE
          <5>1. PICK k \in DOMAIN out : out[k] = t
            BY <2>6
          <5>2. k \in open
            BY <2>5, <4>4, <5>1 DEF RequestsIn
          <5>3. out[n].precedence <= t.precedence
            BY <2>2, <3>1, <3>2, <5>1, <5>2 DEF Branched
          <5>4. t.precedence < out[n].precedence
            BY <2>4, <3>2, <3>4 DEF Disciplined
          <5>5. t.precedence \in Int /\ out[n].precedence \in Int
            BY <2>4, <3>2 DEF Mirrors
          <5> QED BY <5>3, <5>4, <5>5
        <4> QED BY <4>3, <4>4 DEF status, now
      <3> QED BY <3>3, <3>4
    <2> QED BY <2>9, <2>10
  <1> QED BY <1>3, <1>4

(* The requests a transition gives: its own, or none to a subsystem. *)
LEMMA GivenRequests ==
    ASSUME NEW p, NEW f, Mirrors(p, f), Disciplined(p, f), NEW t \in Range(f.transitions),
           NEW set, RequestsIn(p, set) = {}
    PROVE  RequestsIn(p, Plc!Assigned(set, Asked(f, t)))
             = IF Own(f, t) THEN {RequestOf(f, t.to_status_id)} ELSE {}
  <1> DEFINE requests == p.requests \cup {faultRequest}
             rows == Asked(f, t)
             request == RequestOf(f, t.to_status_id)
             given == {r \in rows : r.target \in requests}
  <1>1. RequestsIn(p, Plc!Assigned(set, rows)) = {r.target : r \in {x \in given : x.expression = "TRUE"}}
    <2> HIDE DEF rows
    <2> QED BY DEF RequestsIn, Plc!Assigned
  <1>2. CASE Own(f, t)
    <2>1. request \in requests
      BY <1>2 DEF Mirrors
    <2>2. given = {Assignment(request, "TRUE")}
      <3>1. CASE t.request_assignments = {}
        <4>1. rows = {Assignment(request, "TRUE")}
          BY <3>1 DEF Asked
        <4>2. Assignment(request, "TRUE").target = request
          BY DEF Assignment
        <4> HIDE DEF rows, request, requests
        <4> QED BY <2>1, <4>1, <4>2
      <3>2. CASE t.request_assignments # {}
        <4>1. rows = t.request_assignments
          BY <3>2 DEF Asked
        <4>2. {r \in t.request_assignments : r.target \in requests} = {Assignment(request, "TRUE")}
          BY <1>2, <3>2 DEF Disciplined
        <4> HIDE DEF rows
        <4> QED BY <4>1, <4>2
      <3> QED BY <3>1, <3>2
    <2>3. Assignment(request, "TRUE").target = request /\ Assignment(request, "TRUE").expression = "TRUE"
      BY DEF Assignment
    <2> HIDE DEF given, request, rows
    <2>4. {r.target : r \in {x \in given : x.expression = "TRUE"}} = {request}
      BY <2>2, <2>3
    <2> QED BY <1>1, <1>2, <2>4 DEF request, rows
  <1>3. CASE ~ Own(f, t)
    <2>1. rows = t.request_assignments
      BY <1>3 DEF Mirrors, Asked
    <2>2. {r \in t.request_assignments : r.target \in requests} = {}
      BY <1>3 DEF Disciplined
    <2> HIDE DEF rows
    <2>3. given = {}
      BY <2>1, <2>2
    <2> QED BY <1>1, <1>3, <2>3 DEF rows
  <1> QED BY <1>2, <1>3

(* The fields the rule engine reads, and the transitions that are open. *)
Reset(p, f, true, set) ==
    Plc!Computed(set \ (p.requests \cup {faultRequest}), Range(f.predicates), true)
OpenFrom(f, from, true, fields) ==
    {t \in Range(f.transitions) : t.from_status_id = from /\ Plc!Holds(t.condition, true, fields)}

(* The rule engine asks for the fault state when it sees a fault, or else  *)
(* for what the open transition of highest precedence asks for.            *)
LEMMA EngineAsks ==
    ASSUME NEW p, NEW f, Mirrors(p, f), Disciplined(p, f), NEW from, NEW true, NEW set
    PROVE  LET given == RequestsIn(p, Plc!RuleEngine(p, from, true, set))
               fault == Plc!Holds(FaultCondition(f), true, Reset(p, f, true, set))
               open == OpenFrom(f, from, true, Reset(p, f, true, set))
           IN /\ fault => given = {faultRequest}
              /\ ~ fault /\ open = {} => given = {}
              /\ ~ fault /\ open # {} =>
                   \E t \in open :
                      /\ \A u \in open : t.precedence <= u.precedence
                      /\ given = IF Own(f, t) THEN {RequestOf(f, t.to_status_id)} ELSE {}
  <1> DEFINE reset == Reset(p, f, true, set)
             after == Plc!RuleEngine(p, from, true, set)
             given == RequestsIn(p, after)
             fault == Plc!Holds(FaultCondition(f), true, reset)
             open == OpenFrom(f, from, true, reset)
             branches == Plc!BranchesOf(p.engine, from)
             ready == {n \in DOMAIN branches : Plc!Holds(branches[n].condition, true, reset)}
             taken == {branches[n] : n \in {k \in ready : \A j \in ready : k <= j}}
             sets == UNION {b.sets : b \in taken}
  <1>1. RequestsIn(p, reset) = {}
    <2>1. RequestsIn(p, set \ (p.requests \cup {faultRequest})) = {}
      BY DEF RequestsIn
    <2>2. p.predicates = Range(f.predicates)
      BY DEF Mirrors
    <2> QED BY <2>1, <2>2, PredicatesKeepRequests DEF Reset
  <1>2. after = IF fault THEN reset \cup {faultRequest} ELSE Plc!Assigned(reset, sets)
    BY SameNames DEF Plc!RuleEngine, Plc!FirstThat, Mirrors, Reset
  <1> HIDE DEF after, reset
  <1>3. ASSUME fault PROVE given = {faultRequest}
    BY <1>1, <1>2, <1>3 DEF RequestsIn
  <1> HIDE DEF fault
  <1>4. CASE from \notin DOMAIN p.engine
    <2>1. branches = <<>>
      BY <1>4 DEF Plc!BranchesOf
    <2> HIDE DEF branches
    <2>2. DOMAIN branches = {}
      BY <2>1, NoPlaces
    <2>3. ready = {}
      BY <2>2
    <2> HIDE DEF ready
    <2>4. taken = {}
      BY <2>3
    <2> HIDE DEF taken
    <2>5. sets = {}
      BY <2>4
    <2> HIDE DEF sets
    <2>6. ~ fault => after = reset
      BY <1>2, <2>5 DEF Plc!Assigned
    <2>7. open = {}
      BY <1>4 DEF Mirrors, OpenFrom
    <2> QED BY <1>1, <1>3, <2>6, <2>7 DEF after, reset, fault
  <1>5. CASE from \in DOMAIN p.engine
    <2>1. from \in Ids(f.states, "status_id") /\ branches = p.engine[from]
      BY <1>5 DEF Mirrors, Plc!BranchesOf
    <2>2. PICK out : Branched(p, f, from, out)
      BY <2>1 DEF Mirrors
    <2> HIDE DEF branches
    <2>3. DOMAIN branches = DOMAIN out /\ DOMAIN branches \subseteq Nat
      BY <2>1, <2>2 DEF Branched
    <2>4. \A n \in DOMAIN out : out[n] \in Range(f.transitions) /\ out[n].from_status_id = from
      BY <2>2 DEF Branched, Range
    <2>5. \A n \in DOMAIN out : n \in ready <=> out[n] \in open
      BY <2>1, <2>2, <2>3, <2>4 DEF Branched, OpenFrom
    <2>6. \A t \in open : \E n \in DOMAIN out : out[n] = t
      BY <2>2 DEF Branched, Range, OpenFrom
    <2>7. ready \subseteq DOMAIN branches
      OBVIOUS
    <2> HIDE DEF ready, open
    <2>8. CASE ready = {}
      <3>1. taken = {}
        BY <2>3, <2>7, <2>8, FirstTaken
      <3> HIDE DEF taken
      <3>2. sets = {}
        BY <3>1
      <3> HIDE DEF sets
      <3>3. ~ fault => after = reset
        BY <1>2, <3>2 DEF Plc!Assigned
      <3>4. open = {}
        BY <2>5, <2>6, <2>8
      <3> QED BY <1>1, <1>3, <3>3, <3>4 DEF after, reset, fault, open
    <2>9. CASE ready # {}
      <3>1. PICK n \in ready : (\A j \in ready : n <= j) /\ taken = {branches[n]}
        BY <2>3, <2>7, <2>9, FirstTaken
      <3> HIDE DEF taken
      <3>2. n \in DOMAIN out /\ out[n] \in open
        BY <2>3, <2>5, <2>7
      <3>3. sets = Asked(f, out[n])
        BY <2>1, <2>2, <3>1, <3>2 DEF Branched
      <3> HIDE DEF sets
      <3>4. \A u \in open : out[n].precedence <= u.precedence
        BY <2>2, <2>5, <2>6, <3>1, <3>2 DEF Branched
      <3>5. ~ fault => given = IF Own(f, out[n]) THEN {RequestOf(f, out[n].to_status_id)} ELSE {}
        BY <1>1, <1>2, <2>4, <3>2, <3>3, GivenRequests
      <3> QED BY <1>3, <3>2, <3>4, <3>5 DEF after, reset, fault, open
    <2> QED BY <2>8, <2>9
  <1> QED BY <1>4, <1>5

(* Together they take the supervisor where the review sends it.            *)
LEMMA MainFollows ==
    ASSUME NEW p, NEW f, Mirrors(p, f), Disciplined(p, f), \A e \in facts' : e[1] # "dev", NEW subs
    PROVE  Plc!Supervise(p, mainStatus, facts', Plc!RuleEngine(p, mainStatus, facts', flags), subs).status
             = ReviewedStatus(p, f)
  <1> DEFINE set == Plc!RuleEngine(p, mainStatus, facts', flags)
             given == RequestsIn(p, set)
             now == IF p.fault # Plc!Blank /\ Plc!FaultRequest \in set THEN p.fault ELSE mainStatus
             status == Plc!Supervise(p, mainStatus, facts', set, subs).status
             leaving == {t \in Range(f.transitions) : t.from_status_id = now /\ Own(f, t)}
             statuses == Ids(f.states, "status_id")
             fault == FaultHolds(p, f)
             open == OpenTransitions(p, f)
  <1>1. /\ \/ status = now
           \/ \E t \in leaving : RequestOf(f, t.to_status_id) \in set /\ status = t.to_status_id
        /\ \A t \in leaving : given = {RequestOf(f, t.to_status_id)} => status = t.to_status_id
    <2> HIDE DEF set
    <2> QED BY SuperviseMoves
  <1>2. /\ fault => given = {faultRequest}
        /\ ~ fault /\ open = {} => given = {}
        /\ ~ fault /\ open # {} =>
             \E t \in open :
                /\ \A u \in open : t.precedence <= u.precedence
                /\ given = IF Own(f, t) THEN {RequestOf(f, t.to_status_id)} ELSE {}
    <2> DEFINE failed == Plc!Holds(FaultCondition(f), facts', Reset(p, f, facts', flags))
               ready == OpenFrom(f, mainStatus, facts', Reset(p, f, facts', flags))
    <2>1. /\ failed => given = {faultRequest}
          /\ ~ failed /\ ready = {} => given = {}
          /\ ~ failed /\ ready # {} =>
               \E t \in ready :
                  /\ \A u \in ready : t.precedence <= u.precedence
                  /\ given = IF Own(f, t) THEN {RequestOf(f, t.to_status_id)} ELSE {}
      BY EngineAsks
    <2>2. fault = failed /\ open = ready
      BY DEF FaultHolds, OpenTransitions, Readable, Reset, OpenFrom
    <2> HIDE DEF fault, failed, open, ready, given
    <2> QED BY <2>1, <2>2
  <1> HIDE DEF set, status
  <1>3. \A t \in leaving : t.to_status_id \in statuses /\ t.to_status_id # Blank
    BY DEF Mirrors
  <1>4. \A t \in leaving : RequestOf(f, t.to_status_id) \in set
                             => RequestOf(f, t.to_status_id) \in given
    BY <1>3 DEF RequestsIn, Mirrors
  <1>5. faultRequest \in set <=> faultRequest \in given
    BY DEF RequestsIn
  <1>6. \A q \in statuses : RequestOf(f, q) = faultRequest => q = p.fault
    BY DEF Disciplined
  <1>7. now = IF p.fault # Blank /\ faultRequest \in given THEN p.fault ELSE mainStatus
    BY <1>5, SameNames
  <1> HIDE DEF now, given, fault, open
  <1>8. ASSUME given = {faultRequest} PROVE status = IF p.fault = Blank THEN mainStatus ELSE p.fault
    <2>1. now = IF p.fault = Blank THEN mainStatus ELSE p.fault
      BY <1>7, <1>8
    <2>2. ASSUME NEW t \in leaving, RequestOf(f, t.to_status_id) \in set, status = t.to_status_id
          PROVE  status = p.fault /\ p.fault # Blank
      <3>1. RequestOf(f, t.to_status_id) = faultRequest
        BY <1>4, <1>8, <2>2
      <3> QED BY <1>3, <1>6, <2>2, <3>1
    <2> QED BY <1>1, <2>1, <2>2
  <1>9. ASSUME given = {} PROVE status = mainStatus
    <2>1. now = mainStatus
      BY <1>7, <1>9
    <2> QED BY <1>1, <1>4, <1>9, <2>1
  <1>10. CASE fault
    BY <1>2, <1>8, <1>10 DEF ReviewedStatus, fault, status, set
  <1>11. CASE ~ fault /\ open = {}
    <2>1. Along(f, open) = mainStatus
      BY <1>11 DEF Along
    <2> QED BY <1>2, <1>9, <1>11, <2>1 DEF ReviewedStatus, fault, open, status, set
  <1>12. CASE ~ fault /\ open # {}
    <2>1. PICK t \in open : /\ \A u \in open : t.precedence <= u.precedence
                            /\ given = IF Own(f, t) THEN {RequestOf(f, t.to_status_id)} ELSE {}
      BY <1>2, <1>12
    <2> DEFINE taken == CHOOSE x \in open : \A u \in open : x.precedence <= u.precedence
    <2>2. taken \in open /\ \A u \in open : taken.precedence <= u.precedence
      BY <2>1
    <2> HIDE DEF taken
    <2>3. \A u \in open : u \in Range(f.transitions) /\ u.from_status_id = mainStatus
      BY DEF open, OpenTransitions
    <2>4. taken = t
      <3>1. taken.precedence <= t.precedence /\ t.precedence <= taken.precedence
        BY <2>1, <2>2
      <3>2. taken.precedence \in Int /\ t.precedence \in Int
        BY <2>1, <2>2, <2>3 DEF Mirrors
      <3>3. taken.precedence = t.precedence
        BY <3>1, <3>2
      <3> QED BY <2>1, <2>2, <2>3, <3>3 DEF Mirrors
    <2>5. Along(f, open) = IF Own(f, t) THEN t.to_status_id ELSE mainStatus
      <3>1. Along(f, open) = IF open = {} \/ ~ Own(f, taken) THEN mainStatus ELSE taken.to_status_id
        BY DEF Along, taken
      <3> QED BY <1>12, <2>4, <3>1
    <2>6. status = Along(f, open)
      <3>1. CASE ~ Own(f, t)
        BY <1>9, <2>1, <2>5, <3>1
      <3>2. CASE Own(f, t)
        <4>1. t.to_status_id \in statuses /\ t.to_status_id # Blank
          BY <2>3, <3>2 DEF Mirrors
        <4>2. CASE RequestOf(f, t.to_status_id) = faultRequest
          <5>1. t.to_status_id = p.fault
            BY <1>6, <4>1, <4>2
          <5> QED BY <1>8, <2>1, <2>5, <3>2, <4>1, <4>2, <5>1
        <4>3. CASE RequestOf(f, t.to_status_id) # faultRequest
          <5>1. now = mainStatus
            BY <1>7, <2>1, <3>2, <4>3
          <5>2. t \in leaving
            BY <2>1, <2>3, <3>2, <5>1
          <5> QED BY <1>1, <2>1, <2>5, <3>2, <5>2
        <4> QED BY <4>2, <4>3
      <3> QED BY <3>1, <3>2
    <2> QED BY <1>12, <2>6 DEF ReviewedStatus, fault, open, status, set
  <1> QED BY <1>10, <1>11, <1>12

-----------------------------------------------------------------------------
(* What controllers do to statuses. *)

(* A branch of c, from the status it is left with unless controllers       *)
(* assign that to one another, sets the status of the supervisor.          *)
Sends(c, true, targets, dev) ==
    \E q : \E b \in Range(Plc!BranchesOf(c.blocks, q)) :
        /\ \E r \in b.apply : r.target = <<"status">> /\ r.expression = dev.status
        /\ Plc!Holds(b.guard, true, {Tail(b.guard)})
        /\ q = dev.subs[c.field] \/ c.field \in targets
(* A branch moves its own subsystem or assigns something to another. *)
EitherWay(c) ==
    \A q \in DOMAIN c.blocks :
        /\ DOMAIN c.blocks[q] \subseteq Nat
        /\ \A b \in Range(c.blocks[q]) : b.apply # {} => b.to = Blank

LEMMA AssignedStatuses ==
    ASSUME NEW subs, NEW rows
    PROVE  /\ DOMAIN Plc!AssignedStatus(subs, rows) = DOMAIN subs
           /\ \A field \in DOMAIN subs :
                 field \notin TargetsOf(rows) => Plc!AssignedStatus(subs, rows)[field] = subs[field]
  BY DEF Plc!AssignedStatus, TargetsOf

LEMMA ControlSends ==
    ASSUME NEW c, EitherWay(c), NEW true, NEW dev, c.field \in DOMAIN dev.subs,
           NEW targets, ControllerTargets(c) \subseteq targets
    PROVE  LET after == Plc!Control(c, true, dev)
           IN /\ DOMAIN after.subs = DOMAIN dev.subs
              /\ \A field \in DOMAIN dev.subs \ ({c.field} \cup targets) :
                    after.subs[field] = dev.subs[field]
              /\ after.status = dev.status \/ Sends(c, true, targets, after)
  <1> DEFINE after == Plc!Control(c, true, dev)
             now == dev.subs[c.field]
             outputs == Plc!Assigned(Plc!Computed(dev.flags, c.predicates, true),
                                     Plc!OutputsOf(c.outputs, now))
             branches == Plc!BranchesOf(c.blocks, now)
             open == {n \in DOMAIN branches : Plc!Holds(branches[n].guard, true, outputs)}
             taken == {branches[n] : n \in {k \in open : \A j \in open : k <= j}}
             applied == UNION {b.apply : b \in taken}
             moved == IF \E b \in taken : b.to # Plc!Blank
                      THEN [dev.subs EXCEPT ![c.field] = (CHOOSE b \in taken : TRUE).to] ELSE dev.subs
  <1>1. CASE ~ Plc!Holds(c.enable, true, dev.flags)
    <2>1. after = dev
      BY <1>1 DEF Plc!Control
    <2> QED BY <2>1
  <1>2. CASE Plc!Holds(c.enable, true, dev.flags)
    <2>1. /\ after.status = IF \E r \in applied : r.target = <<"status">>
                            THEN (CHOOSE r \in applied : r.target = <<"status">>).expression
                            ELSE dev.status
          /\ after.subs = Plc!AssignedStatus(moved, applied)
      BY <1>2 DEF Plc!Control, Plc!FirstThat
    <2>2. /\ DOMAIN moved = DOMAIN dev.subs
          /\ \A field \in DOMAIN dev.subs \ {c.field} : moved[field] = dev.subs[field]
      OBVIOUS
    <2>3. taken \subseteq Range(branches)
      BY DEF Range
    <2>4. \A b \in taken : Plc!Holds(b.guard, true, outputs)
      OBVIOUS
    <2>5. \A b, d \in taken : b = d
      <3>1. DOMAIN branches \subseteq Nat
        <4>1. now \notin DOMAIN c.blocks => DOMAIN branches = {}
          BY NoPlaces DEF Plc!BranchesOf
        <4>2. now \in DOMAIN c.blocks => DOMAIN branches \subseteq Nat
          BY DEF EitherWay, Plc!BranchesOf
        <4> QED BY <4>1, <4>2
      <3>2. open \subseteq DOMAIN branches
        OBVIOUS
      <3> HIDE DEF branches, open
      <3>3. taken = {} \/ \E n \in open : taken = {branches[n]}
        BY <3>1, <3>2, FirstTaken
      <3> QED BY <3>3
    <2>6. now \in DOMAIN c.blocks => branches = c.blocks[now]
      BY DEF Plc!BranchesOf
    <2>7. now \notin DOMAIN c.blocks => Range(branches) = {}
      BY DEF Plc!BranchesOf, Range
    <2> HIDE DEF taken, open, after, now
    <2>8. TargetsOf(applied) \subseteq targets
      <3> SUFFICES ASSUME NEW field \in TargetsOf(applied), field \notin targets PROVE FALSE
        OBVIOUS
      <3>1. now \in DOMAIN c.blocks => field \notin AppliedIn(c.blocks, now)
        BY DEF ControllerTargets
      <3>2. field \notin TargetsOf(UNION {b.apply : b \in taken})
        BY <2>3, <3>1, AppliedTargets
      <3> QED BY <3>2
    <2> HIDE DEF branches, outputs, moved
    <2>9. /\ DOMAIN after.subs = DOMAIN dev.subs
          /\ \A field \in DOMAIN dev.subs :
                field \notin targets => after.subs[field] = moved[field]
      BY <2>1, <2>2, <2>8, AssignedStatuses
    <2>10. ASSUME after.status # dev.status PROVE Sends(c, true, targets, after)
      <3>1. PICK r \in applied : r.target = <<"status">> /\ r.expression = after.status
        <4>1. \E r \in applied : r.target = <<"status">>
          BY <2>1, <2>10
        <4> DEFINE row == CHOOSE r \in applied : r.target = <<"status">>
        <4>2. row \in applied /\ row.target = <<"status">>
          BY <4>1
        <4>3. after.status = row.expression
          BY <2>1, <4>1
        <4> HIDE DEF row
        <4> QED BY <4>2, <4>3
      <3>2. PICK b \in taken : r \in b.apply
        OBVIOUS
      <3>3. b \in Range(branches)
        BY <2>3
      <3>4. Plc!Holds(b.guard, true, {Tail(b.guard)})
        BY <2>4 DEF Plc!Holds
      <3>5. b.to = Blank
        BY <2>6, <2>7, <3>2, <3>3 DEF EitherWay
      <3>6. moved = dev.subs
        <4>1. ~ \E x \in taken : x.to # Plc!Blank
          BY <2>5, <3>5, SameNames
        <4> QED BY <4>1 DEF moved
      <3>7. c.field \notin targets => now = after.subs[c.field]
        BY <2>9, <3>6 DEF now
      <3> QED BY <3>1, <3>2, <3>3, <3>4, <3>7 DEF Sends, branches
    <2> QED BY <2>2, <2>9, <2>10 DEF after
  <1> QED BY <1>1, <1>2

(* All controllers, each after those before it. *)
LEMMA ControlledSends ==
    ASSUME NEW p, Len(p.subsystems) \in Nat, DOMAIN p.subsystems = 1..Len(p.subsystems),
           \A i \in DOMAIN p.subsystems : EitherWay(p.subsystems[i]),
           \A i, j \in DOMAIN p.subsystems :
              p.subsystems[i].field = p.subsystems[j].field => i = j,
           NEW true, NEW dev, \A i \in DOMAIN p.subsystems : p.subsystems[i].field \in DOMAIN dev.subs
    PROVE  LET after == Plc!Controlled(p, true, dev)
               targets == UNION {ControllerTargets(c) : c \in Range(p.subsystems)}
           IN /\ DOMAIN after.subs = DOMAIN dev.subs
              /\ after.status = dev.status
                   \/ \E i \in DOMAIN p.subsystems : Sends(p.subsystems[i], true, targets, after)
  <1> DEFINE n == Len(p.subsystems)
             c(i) == p.subsystems[i]
             targets == UNION {ControllerTargets(x) : x \in Range(p.subsystems)}
  <1>1. PICK after :
          /\ after[0] = dev
          /\ \A i \in 1..n : after[i] = Plc!Control(c(i), true, after[i - 1])
          /\ Plc!Controlled(p, true, dev) = after[n]
    <2>1. Len(p.subsystems) \in Nat
      OBVIOUS
    <2> QED BY ONLY <2>1, ControlledSteps
  <1>2. \A i \in 1..n : EitherWay(c(i)) /\ ControllerTargets(c(i)) \subseteq targets
    BY DEF Range
  <1>3. /\ n \in Nat /\ \A i, j \in 1..n : c(i).field = c(j).field => i = j
        /\ \A i \in 1..n : c(i).field \in DOMAIN dev.subs
    OBVIOUS
  <1> DEFINE Good(k) ==
                /\ DOMAIN after[k].subs = DOMAIN dev.subs
                /\ after[k].status = dev.status
                     \/ \E i \in 1..k : Sends(c(i), true, targets, after[k])
             Bad == {k \in 0..n : ~ Good(k)}
  <1>4. Good(0)
    BY <1>1
  <1> HIDE DEF n, targets
  <1>5. ASSUME NEW k \in 1..n, Good(k - 1) PROVE Good(k)
    <2> DEFINE x == after[k - 1]
               y == after[k]
    <2>1. /\ DOMAIN y.subs = DOMAIN x.subs
          /\ \A field \in DOMAIN x.subs \ ({c(k).field} \cup targets) : y.subs[field] = x.subs[field]
          /\ y.status = x.status \/ Sends(c(k), true, targets, y)
      <3>1. y = Plc!Control(c(k), true, x)
        BY <1>1
      <3>2. c(k).field \in DOMAIN x.subs
        BY <1>3, <1>5
      <3>3. EitherWay(c(k)) /\ ControllerTargets(c(k)) \subseteq targets
        BY <1>2
      <3> HIDE DEF x, y, c
      <3> QED BY ONLY <3>1, <3>2, <3>3, ControlSends
    <2>2. k \in 1..k /\ \A i \in 1..(k - 1) : i \in 1..k /\ i \in 1..n /\ i # k
      BY <1>3
    <2>3. CASE Sends(c(k), true, targets, y)
      BY <1>5, <2>1, <2>2, <2>3
    <2>4. CASE ~ Sends(c(k), true, targets, y)
      <3>1. y.status = x.status
        BY <2>1, <2>4
      <3>2. ASSUME NEW i \in 1..(k - 1), Sends(c(i), true, targets, x)
            PROVE  Sends(c(i), true, targets, y)
        <4>1. c(i).field \in DOMAIN x.subs /\ c(i).field # c(k).field
          BY <1>3, <1>5, <2>2
        <4>2. c(i).field \in targets \/ y.subs[c(i).field] = x.subs[c(i).field]
          BY <2>1, <4>1
        <4> HIDE DEF x, y, c
        <4> QED BY <3>1, <3>2, <4>2 DEF Sends
      <3> QED BY <1>5, <2>1, <2>2, <3>1, <3>2
    <2> QED BY <2>3, <2>4
  <1> HIDE DEF Good
  <1>6. ASSUME Bad # {} PROVE FALSE
    <2>1. PICK k \in Bad : \A j \in Bad : k <= j
      <3>1. Bad \subseteq Nat
        BY <1>3
      <3> HIDE DEF Bad
      <3> QED BY <1>6, <3>1, SmallestOf
    <2>2. k \in 1..n /\ k - 1 \in 0..n
      BY <1>3, <1>4
    <2>3. k - 1 \notin Bad
      <3> HIDE DEF Bad
      <3> QED BY <2>1, <2>2
    <2> QED BY <1>5, <2>2, <2>3
  <1>7. Good(n)
    BY <1>3, <1>6
  <1> QED BY <1>1, <1>7 DEF Good, n, targets

(* Main itself keeps the fields of the subsystems. *)
LEMMA SuperviseFields ==
    ASSUME NEW p, NEW from, NEW true, NEW set, NEW subs
    PROVE  DOMAIN Plc!Supervise(p, from, true, set, subs).subs = DOMAIN subs
  BY DEF Plc!Supervise, Plc!AssignedStatus

-----------------------------------------------------------------------------
(* The FSMs as the loader reads them. *)

LEMMA LoadedKey ==
    ASSUME NEW row, NEW defaults, NEW key \in DOMAIN defaults
    PROVE  Loaded(row, defaults)[key] = IF key \in DOMAIN row THEN row[key] ELSE defaults[key]
  BY DEF Loaded

LEMMA TableRows ==
    ASSUME NEW doc, NEW key, NEW defaults, NEW x \in Range(Table(doc, key, defaults))
    PROVE  \E row \in Filled(doc, key) : x = Loaded(row, defaults)
  <1>1. CASE key \notin DOMAIN doc
    <2>1. Range(Table(doc, key, defaults)) = {}
      BY <1>1, NoPlaces DEF Table, Range
    <2> QED BY <2>1
  <1>2. CASE key \in DOMAIN doc
    <2>1. Table(doc, key, defaults) = [i \in DOMAIN doc[key] |-> Loaded(doc[key][i], defaults)]
      BY <1>2 DEF Table
    <2>2. PICK i \in DOMAIN doc[key] : x = Loaded(doc[key][i], defaults)
      BY <2>1 DEF Range
    <2> QED BY <1>2, <2>2 DEF Filled, Range
  <1> QED BY <1>1, <1>2

(* The rules of an FSM are one of the rows, or empty. *)
LEMMA RulesFound ==
    ASSUME NEW fsm, NEW rules, IsTable(rules)
    PROVE  RulesOf(fsm, rules) \in Range(rules) \cup {RuleEngineRow}
  <1> DEFINE key(r) == IF r.fsm_id # Blank THEN r.fsm_id ELSE r.status_flow_id
             At_(k) == {i \in DOMAIN rules : key(rules[i]) = k /\ k # Blank}
             Latest_(S) == rules[CHOOSE i \in S : \A j \in S : j <= i]
  <1>1. DOMAIN rules = 1..Len(rules) /\ Len(rules) \in Nat
    BY DEF IsTable
  <1>2. ASSUME NEW S, S \subseteq DOMAIN rules, S # {} PROVE Latest_(S) \in Range(rules)
    <2> DEFINE n == Len(rules)
               T == {n - i : i \in S}
    <2>1. T \subseteq Nat /\ T # {}
      BY <1>1, <1>2
    <2> HIDE DEF T
    <2>2. PICK x \in T : \A y \in T : x <= y
      BY <2>1, SmallestOf
    <2>3. PICK i \in S : x = n - i
      BY DEF T
    <2>4. \A j \in S : j <= i
      <3>1. \A j \in S : n - j \in T
        BY DEF T
      <3> QED BY <1>1, <1>2, <2>2, <2>3, <3>1
    <2> DEFINE last == CHOOSE k \in S : \A j \in S : j <= k
    <2>5. last \in S
      BY <2>4
    <2> HIDE DEF last
    <2>6. rules[last] \in Range(rules)
      BY <1>2, <2>5 DEF Range
    <2> QED BY <2>6 DEF last
  <1>3. \A k : At_(k) \subseteq DOMAIN rules
    OBVIOUS
  <1>4. RulesOf(fsm, rules) =
          CASE At_(fsm.fsm_id) # {} -> Latest_(At_(fsm.fsm_id))
            [] At_(fsm.fsm_id) = {} /\ At_(fsm.status_flow_id) # {} -> Latest_(At_(fsm.status_flow_id))
            [] OTHER -> RuleEngineRow
    BY DEF RulesOf
  <1> HIDE DEF At_, Latest_
  <1>5. CASE At_(fsm.fsm_id) # {}
    BY <1>2, <1>3, <1>4, <1>5
  <1>6. CASE At_(fsm.fsm_id) = {} /\ At_(fsm.status_flow_id) # {}
    BY <1>2, <1>3, <1>4, <1>6
  <1>7. CASE At_(fsm.fsm_id) = {} /\ At_(fsm.status_flow_id) = {}
    BY <1>4, <1>7
  <1> QED BY <1>5, <1>6, <1>7

(* A row without a number gets its position. *)
Numbered(r, key, i) == IF r[key] = 0 THEN [r EXCEPT ![key] = i] ELSE r
Titled(s) == IF s.name = <<>> THEN [s EXCEPT !.name = <<s.status_id>>] ELSE s
StateAt(row, i) ==
    Numbered(Titled(Loaded(row.states[i], [StateRow EXCEPT !.initial = (i = 1)])), "sequence", i)
TransitionAt(rules, i) ==
    Numbered(Loaded(rules.transitions[i], TransitionRow), "precedence", i)

LEMMA FsmLoaded ==
    ASSUME NEW row, DOMAIN row = DOMAIN FsmRow, NEW position, NEW rules
    PROVE  \E fsm : LET f == LoadFsm(row, position, rules)
                        ruleRow == RulesOf(fsm, rules)
           IN /\ f.states = [i \in DOMAIN row.states |-> StateAt(row, i)]
              /\ f.transitions = [i \in DOMAIN ruleRow.transitions |-> TransitionAt(ruleRow, i)]
              /\ f.call_sequence = IF row.call_sequence = 0 THEN position ELSE row.call_sequence
  <1> DEFINE named == IF row.fsm_id # Blank THEN row ELSE [row EXCEPT !.fsm_id = row.status_flow_id]
             ruleRow == RulesOf(named, rules)
             f == LoadFsm(row, position, rules)
             states(g) == [i \in DOMAIN g.states |-> StateAt(g, i)]
             transitions == [i \in DOMAIN ruleRow.transitions |-> TransitionAt(ruleRow, i)]
             predicates == [i \in DOMAIN ruleRow.predicates |-> Loaded(ruleRow.predicates[i], PredicateRow)]
  <1>1. {"states", "transitions", "fsm_id", "call_sequence", "predicates",
         "fault_condition", "reset_condition"} \subseteq DOMAIN row
    BY DEF FsmRow
  <1>2. DOMAIN named = DOMAIN row /\ named.states = row.states /\ named.call_sequence = row.call_sequence
    BY <1>1
  <1>3. f = [named EXCEPT !.status_type_id = IF @ = Blank THEN row.status_flow_id \o "Type" ELSE @,
                          !.states = states(named),
                          !.call_sequence = IF @ = 0 THEN position ELSE @,
                          !.transitions = transitions, !.predicates = predicates,
                          !.fault_condition = ruleRow.fault_condition,
                          !.reset_condition = ruleRow.reset_condition]
    BY DEF LoadFsm, StateAt, TransitionAt, Numbered, Titled
  <1> HIDE DEF named, f, transitions, predicates, ruleRow, states
  <1>4. /\ f.states = states(named) /\ f.transitions = transitions
        /\ f.call_sequence = IF row.call_sequence = 0 THEN position ELSE row.call_sequence
    BY <1>1, <1>2, <1>3
  <1>5. states(named) = [i \in DOMAIN row.states |-> StateAt(row, i)]
    BY <1>2 DEF states, StateAt
  <1> QED BY <1>4, <1>5 DEF transitions, ruleRow, f

(* States are a list of rows with names that are lists, transitions one of *)
(* rows with numbers; and the FSM has a number itself.                     *)
FsmTyped(f) ==
    /\ IsTable(f.states) /\ \A s \in Range(f.states) : IsTable(s.name)
    /\ IsTable(f.transitions) /\ \A t \in Range(f.transitions) : t.precedence \in Int
    /\ f.call_sequence \in Int

LEMMA MappedTable ==
    ASSUME NEW t, IsTable(t), NEW q, DOMAIN q = DOMAIN t, q = [i \in DOMAIN q |-> q[i]]
    PROVE  IsTable(q)
  <1>1. DOMAIN q = 1..Len(t) /\ Len(t) \in Nat
    BY DEF IsTable
  <1>2. q \in Seq(Range(q))
    BY <1>1 DEF Range
  <1> QED BY <1>2 DEF IsTable

LEMMA StateNamed ==
    ASSUME NEW row, NEW i, "name" \in DOMAIN row.states[i] => IsTable(row.states[i].name)
    PROVE  IsTable(StateAt(row, i).name)
  <1> DEFINE defaults == [StateRow EXCEPT !.initial = (i = 1)]
             x == Loaded(row.states[i], defaults)
  <1>1. /\ {"name", "sequence"} \subseteq DOMAIN StateRow /\ StateRow.name = <<>>
        /\ {"name", "sequence"} \subseteq DOMAIN defaults /\ defaults.name = <<>>
    BY DEF StateRow
  <1> HIDE DEF defaults
  <1>2. x.name = IF "name" \in DOMAIN row.states[i] THEN row.states[i].name ELSE <<>>
    BY <1>1, LoadedKey
  <1>3. DOMAIN x = DOMAIN defaults
    BY DEF Loaded
  <1> HIDE DEF x
  <1>4. IsTable(<<>>) /\ IsTable(<<x.status_id>>)
    BY DEF IsTable, Range
  <1>5. DOMAIN Titled(x) = DOMAIN x /\ IsTable(Titled(x).name)
    BY <1>1, <1>2, <1>3, <1>4 DEF Titled
  <1>6. \A y : "name" \in DOMAIN y => Numbered(y, "sequence", i).name = y.name
    BY DEF Numbered
  <1> QED BY <1>1, <1>3, <1>5, <1>6 DEF StateAt, x, defaults

LEMMA TransitionNumbered ==
    ASSUME NEW rules, NEW i \in Nat,
           "precedence" \in DOMAIN rules.transitions[i] => rules.transitions[i].precedence \in Int
    PROVE  TransitionAt(rules, i).precedence \in Int
  <1> DEFINE x == Loaded(rules.transitions[i], TransitionRow)
  <1>1. "precedence" \in DOMAIN TransitionRow /\ TransitionRow.precedence = 0
    BY DEF TransitionRow
  <1>2. x.precedence \in Int
    BY <1>1, LoadedKey
  <1>3. "precedence" \in DOMAIN x
    BY <1>1 DEF Loaded
  <1> HIDE DEF x
  <1> QED BY <1>2, <1>3 DEF TransitionAt, Numbered, x

LEMMA FsmsTyped == ASSUME NEW v \in Versions PROVE \A f \in Range(Fsms[v]) : FsmTyped(f)
  <1> DEFINE doc == Surveys[v]
             table == Table(doc, "fsms", FsmRow)
             rules == Table(doc, "rules", RuleEngineRow)
  <1>1. /\ \A row \in Filled(doc, "fsms") :
              /\ Listed(row, "states") /\ \A s \in Filled(row, "states") : Listed(s, "name")
              /\ "call_sequence" \in DOMAIN row => row.call_sequence \in Int
        /\ \A row \in Filled(doc, "rules") :
              /\ Listed(row, "transitions")
              /\ \A t \in Filled(row, "transitions") : "precedence" \in DOMAIN t => t.precedence \in Int
        /\ Listed(doc, "fsms") /\ Listed(doc, "rules")
    BY SurveysAssumption DEF Versions, Tables
  <1> DEFINE used == Rows(table, LAMBDA r :
                    \/ {r.fsm_id, r.status_flow_id, r.owner_subsystem_id} # {Blank}
                    \/ \E s \in Range(r.states) : "status_id" \in DOMAIN s)
             kept == Kept(table, used)
  <1>2. Fsms[v] = [i \in DOMAIN kept |-> LoadFsm(kept[i], i, rules)]
    <2>1. Fsms[v] = LoadFsms(doc)
      BY DEF Fsms
    <2>2. LoadFsms(doc) = [i \in DOMAIN kept |-> LoadFsm(kept[i], i, rules)]
      BY DEF LoadFsms, Select
    <2> QED BY <2>1, <2>2
  <1> HIDE DEF doc, used
  <1>3. IsTable(table) /\ IsTable(rules)
    BY <1>1, TableLoaded DEF Listed
  <1> SUFFICES ASSUME NEW f \in Range(Fsms[v]) PROVE FsmTyped(f)
    OBVIOUS
  <1> HIDE DEF table, rules
  <1>4. PICK i \in DOMAIN kept : f = LoadFsm(kept[i], i, rules)
    <2> HIDE DEF kept
    <2> QED BY <1>2 DEF Range
  <1> DEFINE row == kept[i]
  <1>5. row \in Range(table)
    <2>1. Range(kept) = Range(table) \cap used
      BY <1>3, KeptRows
    <2> HIDE DEF kept
    <2>2. row \in Range(kept)
      BY <1>4 DEF Range
    <2> QED BY <2>1, <2>2
  <1> HIDE DEF kept
  <1>6. PICK x \in Filled(doc, "fsms") : row = Loaded(x, FsmRow)
    BY <1>5, TableRows DEF table
  <1>7. DOMAIN row = DOMAIN FsmRow /\ IsTable(row.states)
        /\ \A k \in DOMAIN row.states :
              "name" \in DOMAIN row.states[k] => IsTable(row.states[k].name)
    <2>1. "states" \in DOMAIN FsmRow /\ FsmRow.states = <<>>
      BY DEF FsmRow
    <2>2. row.states = IF "states" \in DOMAIN x THEN x.states ELSE <<>>
      BY <1>6, <2>1, LoadedKey
    <2>3. IsTable(<<>>)
      BY DEF IsTable
    <2>4. \A k \in DOMAIN <<>> : FALSE
      BY NoPlaces
    <2>5. "states" \in DOMAIN x => \A k \in DOMAIN x.states : x.states[k] \in Filled(x, "states")
      BY DEF Filled, Range
    <2> QED BY <1>1, <1>6, <2>2, <2>3, <2>4, <2>5 DEF Loaded, Listed
  <1>8. PICK fsm : LET ruleRow == RulesOf(fsm, rules)
                   IN /\ f.states = [k \in DOMAIN row.states |-> StateAt(row, k)]
                      /\ f.transitions = [k \in DOMAIN ruleRow.transitions |-> TransitionAt(ruleRow, k)]
                      /\ f.call_sequence = IF row.call_sequence = 0 THEN i ELSE row.call_sequence
    BY <1>4, <1>7, FsmLoaded
  <1> DEFINE ruleRow == RulesOf(fsm, rules)
  <1>9. IsTable(ruleRow.transitions)
        /\ \A k \in DOMAIN ruleRow.transitions :
              "precedence" \in DOMAIN ruleRow.transitions[k]
                => ruleRow.transitions[k].precedence \in Int
    <2>1. "transitions" \in DOMAIN RuleEngineRow /\ RuleEngineRow.transitions = <<>>
      BY DEF RuleEngineRow
    <2>2. IsTable(<<>>)
      BY DEF IsTable
    <2>3. \A k \in DOMAIN <<>> : FALSE
      BY NoPlaces
    <2>4. CASE ruleRow = RuleEngineRow
      BY <2>1, <2>2, <2>3, <2>4
    <2>5. CASE ruleRow \in Range(rules)
      <3>1. PICK y \in Filled(doc, "rules") : ruleRow = Loaded(y, RuleEngineRow)
        BY <2>5, TableRows DEF rules
      <3> HIDE DEF ruleRow
      <3>2. ruleRow.transitions = IF "transitions" \in DOMAIN y THEN y.transitions ELSE <<>>
        BY <2>1, <3>1, LoadedKey
      <3>3. "transitions" \in DOMAIN y =>
              \A k \in DOMAIN y.transitions : y.transitions[k] \in Filled(y, "transitions")
        BY DEF Filled, Range
      <3> QED BY <1>1, <2>2, <2>3, <3>1, <3>2, <3>3 DEF Listed
    <2> HIDE DEF ruleRow
    <2>6. ruleRow \in Range(rules) \cup {RuleEngineRow}
      BY <1>3, RulesFound DEF ruleRow
    <2> QED BY <2>4, <2>5, <2>6
  <1> HIDE DEF ruleRow, row
  <1>10. IsTable(f.states) /\ \A s \in Range(f.states) : IsTable(s.name)
    <2>1. f.states = [k \in DOMAIN row.states |-> StateAt(row, k)]
      BY <1>8 DEF row
    <2>2. IsTable(f.states)
      BY <1>7, <2>1, MappedTable
    <2>3. \A k \in DOMAIN row.states : IsTable(StateAt(row, k).name)
      BY <1>7, StateNamed
    <2> QED BY <2>1, <2>2, <2>3 DEF Range
  <1>11. IsTable(f.transitions) /\ \A t \in Range(f.transitions) : t.precedence \in Int
    <2>1. f.transitions = [k \in DOMAIN ruleRow.transitions |-> TransitionAt(ruleRow, k)]
      BY <1>8 DEF ruleRow
    <2>2. IsTable(f.transitions)
      BY <1>9, <2>1, MappedTable
    <2>3. \A k \in DOMAIN ruleRow.transitions : k \in Nat
      BY <1>9 DEF IsTable
    <2>4. \A k \in DOMAIN ruleRow.transitions : TransitionAt(ruleRow, k).precedence \in Int
      BY <1>9, <2>3, TransitionNumbered
    <2> QED BY <2>1, <2>2, <2>4 DEF Range
  <1>12. f.call_sequence \in Int
    <2>1. f.call_sequence = IF row.call_sequence = 0 THEN i ELSE row.call_sequence
      BY <1>8 DEF row
    <2>2. "call_sequence" \in DOMAIN FsmRow /\ FsmRow.call_sequence = 0
      BY DEF FsmRow
    <2>3. row.call_sequence \in Int
      BY <1>1, <1>6, <2>2, LoadedKey
    <2>4. i \in Int
      <3>1. IsTable(kept)
        BY <1>3, KeptTable DEF kept
      <3> QED BY <3>1 DEF IsTable
    <2> QED BY <2>1, <2>3, <2>4
  <1> QED BY <1>10, <1>11, <1>12 DEF FsmTyped

-----------------------------------------------------------------------------
(* The seed of the surveys a program is generated from. *)

(* Two rows of a table with distinct keys are one. *)
LEMMA SameRow ==
    ASSUME NEW t, NEW key, Unique(t, key), NEW x \in Range(t), NEW y \in Range(t), x[key] = y[key]
    PROVE  x = y
  BY DEF Unique, Range

LEMMA FirstIs ==
    ASSUME NEW t, IsTable(t), NEW key, Unique(t, key), NEW x \in Range(t)
    PROVE  First(t, key, x[key]) = x
  <1>1. PICK i \in DOMAIN t : t[i] = x
    BY DEF Range
  <1>2. DOMAIN t = 1..Len(t) /\ Len(t) \in Nat
    BY DEF IsTable
  <1>3. \A j \in 1..(i - 1) : t[j][key] # x[key]
    BY <1>1, <1>2 DEF Unique
  <1> DEFINE first == CHOOSE k \in DOMAIN t :
                         t[k][key] = x[key] /\ \A j \in 1..(k - 1) : t[j][key] # x[key]
  <1>4. first \in DOMAIN t /\ t[first][key] = x[key]
    BY <1>1, <1>3
  <1>5. First(t, key, x[key]) = t[first]
    BY DEF First
  <1> HIDE DEF first
  <1>6. first = i
    BY <1>1, <1>4 DEF Unique
  <1> QED BY <1>1, <1>5, <1>6

SeedItem(x) ==
    [status |-> x.status_id, name |-> x.name, initial |-> x.initial]
FlowOf(f, fsms, t) ==
    IF t.to_fsm_id = Blank THEN f.status_flow_id
    ELSE First(fsms, "fsm_id", t.to_fsm_id).status_flow_id
SeedTransition(f, fsms, t) ==
    [from |-> t.from_status_id, to |-> t.to_status_id, toFlow |-> FlowOf(f, fsms, t),
     sequence |-> t.precedence]

LEMMA SeedFlow ==
    ASSUME NEW fsms, Unique(fsms, "status_flow_id"), NEW f \in Range(fsms),
           NEW s, s.flows = StatusFlows(fsms)
    PROVE  /\ ItemsOf(s, f.status_flow_id) = {SeedItem(x) : x \in Range(f.states)}
           /\ TransitionsOf(s, f.status_flow_id)
                = {SeedTransition(f, fsms, t) : t \in Range(f.transitions)}
  <1> DEFINE flow(g) ==
                [flow |-> g.status_flow_id,
                 items |-> {SeedItem(x) : x \in Range(g.states)},
                 parent |-> IF g.parent_fsm_id = Blank THEN Blank
                            ELSE First(fsms, "fsm_id", g.parent_fsm_id).status_flow_id,
                 transitions |-> {SeedTransition(g, fsms, t) : t \in Range(g.transitions)}]
             flows == {x \in s.flows : x.flow = f.status_flow_id}
  <1>1. s.flows = {flow(g) : g \in Range(fsms)}
    BY DEF StatusFlows, SeedItem, SeedTransition, FlowOf
  <1>2. \A g : /\ flow(g).flow = g.status_flow_id
               /\ flow(g).items = {SeedItem(x) : x \in Range(g.states)}
               /\ flow(g).transitions = {SeedTransition(g, fsms, t) : t \in Range(g.transitions)}
    OBVIOUS
  <1> HIDE DEF flow
  <1>3. flows = {flow(f)}
    <2>1. \A g \in Range(fsms) : g.status_flow_id = f.status_flow_id => g = f
      BY SameRow
    <2> QED BY <1>1, <1>2, <2>1
  <1>4. ItemsOf(s, f.status_flow_id) = UNION {x.items : x \in flows}
        /\ TransitionsOf(s, f.status_flow_id) = UNION {x.transitions : x \in flows}
    BY DEF ItemsOf, TransitionsOf
  <1> HIDE DEF flows
  <1>5. UNION {x.items : x \in {flow(f)}} = flow(f).items
        /\ UNION {x.transitions : x \in {flow(f)}} = flow(f).transitions
    OBVIOUS
  <1> QED BY <1>2, <1>3, <1>4, <1>5

(* What a complete generation from one version says of the surveys. *)
LEMMA CompleteParts ==
    ASSUME NEW id \in Complete(Checks), id[1] = id[2]
    PROVE  LET d == id[1]
               main == Supervisor(Model[d], Fsms[d], id[3])
           IN /\ d \in Versions /\ IsTable(Fsms[d])
              /\ FsmsAccepted(Fsms[d], Model[d])
              /\ SeedTable[d].flows = StatusFlows(Fsms[d])
              /\ Supervisors(Model[d], Fsms[d], id[3]) = {main}
              /\ ApplicationAccepted(Model[d], Fsms[d], id[3])
              /\ StatusflowRenders(SeedTable[d], Model[d], main)
              /\ ProgramTable[id] = ProgramOf(SeedTable[d], Model[d], Fsms[d], id[3])
  <1> DEFINE d == id[1]
             root == id[3]
             found == Supervisors(Model[d], Fsms[d], root)
             main == Supervisor(Model[d], Fsms[d], root)
  <1>1. PICK v, e, r :
           /\ v \in DOMAIN Checks /\ e \in DOMAIN Checks[v] /\ r \in DOMAIN Checks[v][e]
           /\ id = <<v, e, r>> /\ Checks[v][e][r].manifest
    BY DEF Complete
  <1>2. v = d /\ e = d /\ r = root
    BY <1>1
  <1>3. d \in Reviewable /\ d \in Seedable
    BY <1>1, <1>2 DEF Checks, Generations, SeedTable
  <1>4. Checks[d][d][root] = Generation(Model[d], Fsms[d], SeedTable[d], root)
    BY <1>1, <1>2, <1>3 DEF Checks, Generations, SeedTable
  <1>5. ApplicationAccepted(Model[d], Fsms[d], root) /\ StatusflowRenders(SeedTable[d], Model[d], main)
    <2> DEFINE a == /\ ApplicationAccepted(Model[d], Fsms[d], root)
                    /\ StatusflowRenders(SeedTable[d], Model[d], main)
    <2>1. \A b, p, c, m : Stages(a, b, p, c, m).manifest => a
      BY Zenon DEF Stages
    <2>2. Checks[d][d][root].manifest
      BY <1>1, <1>2
    <2> HIDE DEF d, root, main
    <2> QED BY <1>4, <2>1, <2>2, Zenon DEF Generation, main
  <1>6. FsmsAccepted(Fsms[d], Model[d]) /\ SeedTable[d].flows = StatusFlows(Fsms[d])
    BY <1>3 DEF Reviewable, SeedTable, RenderedSeed
  <1>7. d \in Versions /\ ProgramTable[id] = ProgramOf(SeedTable[d], Model[d], Fsms[d], root)
    BY <1>2, ProgramParts
  <1>8. IsTable(Fsms[d])
    BY <1>7, FsmsTable
  <1>9. found = {main}
    <2>1. IsFiniteSet(Range(Fsms[d])) /\ found \subseteq Range(Fsms[d])
      BY <1>8, TableFinite DEF Supervisors, OwnFsms
    <2>2. Cardinality(found) = 1
      BY <1>5 DEF ApplicationAccepted
    <2>3. main = CHOOSE f \in found : TRUE
      BY DEF Supervisor
    <2> HIDE DEF found, main
    <2>4. IsFiniteSet(found)
      BY <2>1, FS_Subset
    <2>5. \E x : found = {x}
      BY <2>2, <2>4, FS_Singleton
    <2> QED BY <2>3, <2>5
  <1> QED BY <1>5, <1>6, <1>7, <1>8, <1>9

-----------------------------------------------------------------------------
(* An FSM and what is generated from it. *)

Surveyed(s, m, fsms, f) ==
    /\ IsTable(fsms) /\ f \in Range(fsms) /\ FsmsAccepted(fsms, m) /\ FsmTyped(f)
    /\ s.flows = StatusFlows(fsms) /\ StatusflowRenders(s, m, f)

(* Names become words, and requests. *)
LEMMA CamelTable == ASSUME NEW name, IsTable(name) PROVE IsTable(to_lower_camel(name))
  <1> DEFINE words == Kept(name, Range(name) \ Separators)
  <1>1. to_lower_camel(name) = IF words = <<>> THEN <<"value">> ELSE words
    BY DEF to_lower_camel
  <1>2. IsTable(words)
    BY KeptTable
  <1>3. IsTable(<<"value">>)
    BY DEF IsTable, Range
  <1> HIDE DEF words
  <1> QED BY <1>1, <1>2, <1>3

LEMMA AppendTables ==
    ASSUME NEW v, IsTable(v), NEW w, IsTable(w), NEW e
    PROVE  IsTable(Append(v, e)) /\ (Append(v, e) = Append(w, e) => v = w)
  <1> DEFINE S == Range(v) \cup Range(w) \cup {e}
  <1>1. v \in Seq(S) /\ w \in Seq(S) /\ e \in S
    BY DEF IsTable
  <1> HIDE DEF S
  <1>2. Append(v, e) \in Seq(Range(Append(v, e)))
    <2> DEFINE q == Append(v, e)
    <2>1. q \in Seq(S)
      BY <1>1
    <2> HIDE DEF q
    <2>2. DOMAIN q = 1..Len(q) /\ Len(q) \in Nat /\ q = [i \in 1..Len(q) |-> q[i]]
      BY <2>1
    <2>3. q \in Seq(Range(q))
      BY <2>2 DEF Range
    <2> QED BY <2>3 DEF q
  <1>3. ASSUME Append(v, e) = Append(w, e) PROVE v = w
    <2>1. Len(Append(v, e)) = Len(v) + 1 /\ Len(Append(w, e)) = Len(w) + 1
      BY <1>1
    <2>2. Len(v) = Len(w)
      BY <1>1, <1>3, <2>1
    <2>3. \A i \in 1..Len(v) : v[i] = Append(v, e)[i] /\ w[i] = Append(w, e)[i]
      BY <1>1, <2>2
    <2> QED BY <1>1, <1>3, <2>2, <2>3
  <1> QED BY <1>2, <1>3 DEF IsTable

LEMMA RequestNamed ==
    ASSUME NEW f, FsmTyped(f), Unique(f.states, "status_id"), NEW q \in Ids(f.states, "status_id"),
           NEW s, ItemsOf(s, f.status_flow_id) = {SeedItem(x) : x \in Range(f.states)}
    PROVE  LET x == First(f.states, "status_id", q)
           IN /\ x \in Range(f.states) /\ x.status_id = q
              /\ ItemOfStatus(s, f.status_flow_id, q) = SeedItem(x)
              /\ request_field_name(SeedItem(x)) = RequestOf(f, q)
              /\ IsTable(RequestOf(f, q))
  <1> DEFINE x == First(f.states, "status_id", q)
             items == ItemsOf(s, f.status_flow_id)
  <1>1. PICK y \in Range(f.states) : y.status_id = q
    BY DEF Ids
  <1>2. x = y
    BY <1>1, FirstIs DEF FsmTyped
  <1>3. \A z \in Range(f.states) : SeedItem(z).status = z.status_id /\ SeedItem(z).name = z.name
    BY DEF SeedItem
  <1>4. \A i \in items : i.status = q => i = SeedItem(x)
    BY <1>1, <1>2, <1>3, SameRow
  <1>5. SeedItem(x) \in items /\ SeedItem(x).status = q
    BY <1>1, <1>2, <1>3
  <1>6. ItemOfStatus(s, f.status_flow_id, q) = SeedItem(x)
    BY <1>4, <1>5 DEF ItemOfStatus
  <1>7. request_field_name(SeedItem(x)) = Append(to_lower_camel(x.name), "request")
    BY <1>1, <1>2, <1>3 DEF request_field_name, Enum
  <1>8. IsTable(Append(to_lower_camel(x.name), "request"))
    BY <1>1, <1>2, CamelTable, AppendTables DEF FsmTyped
  <1> QED BY <1>1, <1>2, <1>6, <1>7, <1>8 DEF RequestOf

(* A transition leads into the flow of its own FSM if it names no other.   *)
LEMMA OwnFlow ==
    ASSUME NEW s, NEW m, NEW fsms, NEW f, Surveyed(s, m, fsms, f), NEW t \in Range(f.transitions)
    PROVE  FlowOf(f, fsms, t) = f.status_flow_id <=> Own(f, t)
  <1>1. IsTable(fsms) /\ f \in Range(fsms)
        /\ Unique(fsms, "fsm_id") /\ Unique(fsms, "status_flow_id") /\ TransitionAccepted(t, f, fsms)
    BY DEF Surveyed, FsmsAccepted
  <1>2. CASE t.to_fsm_id = Blank
    BY <1>2 DEF FlowOf, Own
  <1>3. CASE t.to_fsm_id # Blank
    <2>1. t.to_fsm_id \in Ids(fsms, "fsm_id")
      BY <1>1, <1>3 DEF TransitionAccepted
    <2>2. PICK g \in Range(fsms) : g.fsm_id = t.to_fsm_id
      BY <2>1 DEF Ids
    <2>3. First(fsms, "fsm_id", t.to_fsm_id) = g
      BY <1>1, <2>2, FirstIs
    <2>4. FlowOf(f, fsms, t) = g.status_flow_id
      BY <1>3, <2>3 DEF FlowOf
    <2>5. g.status_flow_id = f.status_flow_id => g = f
      BY <1>1, SameRow
    <2>6. g.fsm_id = f.fsm_id => g = f
      BY <1>1, SameRow
    <2>7. Own(f, t) <=> t.to_fsm_id = f.fsm_id
      BY <1>3 DEF Own
    <2> QED BY <2>2, <2>4, <2>5, <2>6, <2>7
  <1> QED BY <1>2, <1>3

(* The row of the surveys a transition of the seed came from. *)
LEMMA SurveyOf ==
    ASSUME NEW f, IsTable(f.transitions), OnePerPair(f), NEW t \in Range(f.transitions),
           NEW x, x.from = t.from_status_id, x.to = t.to_status_id
    PROVE  LET rows == SurveyTransitions(f, x)
           IN rows # <<>> /\ Head(rows) = t /\ Last(rows) = t
  <1> DEFINE rows == SurveyTransitions(f, x)
             S == {r \in Range(f.transitions) : r.from_status_id = x.from /\ r.to_status_id = x.to}
  <1>1. rows = Kept(f.transitions, S)
    BY DEF SurveyTransitions, Select, Rows
  <1>2. S = {t}
    BY DEF OnePerPair
  <1>3. Range(rows) = {t}
    <2>1. Range(rows) = Range(f.transitions) \cap S
      BY <1>1, KeptRows
    <2> QED BY <1>2, <2>1
  <1>4. IsTable(rows)
    BY <1>1, KeptTable
  <1> HIDE DEF rows
  <1>5. rows \in Seq({t})
    BY <1>3, <1>4 DEF IsTable
  <1>6. rows # <<>>
    <2>1. DOMAIN rows # {}
      BY <1>3 DEF Range
    <2> QED BY <2>1, NoPlaces
  <1>7. Head(rows) = t /\ Last(rows) = t
    BY <1>5, <1>6 DEF Last
  <1> QED BY <1>6, <1>7 DEF rows

(* What the rules say of the FSM and of its flow in the seed. *)
LEMMA SurveyedParts ==
    ASSUME NEW s, NEW m, NEW fsms, NEW f, Surveyed(s, m, fsms, f)
    PROVE  LET statuses == Ids(f.states, "status_id")
               flow == f.status_flow_id
           IN /\ Unique(f.states, "status_id") /\ Blank \notin statuses
              /\ ItemsOf(s, flow) = {SeedItem(x) : x \in Range(f.states)}
              /\ {i.status : i \in ItemsOf(s, flow)} = statuses
              /\ TransitionsOf(s, flow) = {SeedTransition(f, fsms, t) : t \in Range(f.transitions)}
              /\ \A t \in Range(f.transitions) :
                    /\ t.from_status_id \in statuses /\ t.precedence \in Int
                    /\ Own(f, t) => t.to_status_id \in statuses
              /\ \A t, u \in Range(f.transitions) :
                    t.from_status_id = u.from_status_id /\ t.precedence = u.precedence => t = u
  <1> DEFINE statuses == Ids(f.states, "status_id")
             flow == f.status_flow_id
  <1>1. /\ IsTable(fsms) /\ f \in Range(fsms) /\ Unique(fsms, "fsm_id")
        /\ Unique(fsms, "status_flow_id") /\ FsmWellFormed(f, m) /\ PrecedencesDistinct(f)
        /\ \A t \in Range(f.transitions) : TransitionAccepted(t, f, fsms)
        /\ FsmTyped(f) /\ s.flows = StatusFlows(fsms)
    BY DEF Surveyed, FsmsAccepted
  <1>2. Unique(f.states, "status_id") /\ Blank \notin statuses
    <2>1. FsmWellFormed(f, m)
      BY <1>1
    <2> QED BY ONLY <2>1, Zenon DEF FsmWellFormed
  <1>3. /\ ItemsOf(s, flow) = {SeedItem(x) : x \in Range(f.states)}
        /\ TransitionsOf(s, flow) = {SeedTransition(f, fsms, t) : t \in Range(f.transitions)}
    BY <1>1, SeedFlow, SMTT(30)
  <1>4. {i.status : i \in ItemsOf(s, flow)} = statuses
    <2>1. \A x : SeedItem(x).status = x.status_id
      BY DEF SeedItem
    <2> QED BY <1>3, <2>1 DEF Ids
  <1>5. ASSUME NEW t \in Range(f.transitions)
        PROVE  /\ t.from_status_id \in statuses /\ t.precedence \in Int
               /\ Own(f, t) => t.to_status_id \in statuses
    <2>1. TransitionAccepted(t, f, fsms)
      BY <1>1
    <2>2. t.from_status_id \in statuses /\ t.precedence \in Int
      BY <1>1, <2>1 DEF TransitionAccepted, FsmTyped
    <2>3. Own(f, t) => t.to_status_id \in statuses
      <3>1. First(fsms, "fsm_id", f.fsm_id) = f
        BY <1>1, FirstIs
      <3> QED BY <2>1, <3>1 DEF TransitionAccepted, Own
    <2> QED BY <2>2, <2>3
  <1>6. ASSUME NEW t \in Range(f.transitions), NEW u \in Range(f.transitions),
               t.from_status_id = u.from_status_id, t.precedence = u.precedence
        PROVE  t = u
    BY <1>1, <1>6 DEF PrecedencesDistinct, Range
  <1> QED BY <1>2, <1>3, <1>4, <1>5, <1>6

(* What is generated of a transition of the seed. *)
EngineBranch(s, f, x) ==
    LET rows == SurveyTransitions(f, x)
        request == Assignment(request_field_name(ItemOfStatus(s, f.status_flow_id, x.to)), "TRUE")
    IN IF rows = <<>> THEN [condition |-> Placeholder, sets |-> {request}]
       ELSE [condition |-> Last(rows).condition,
             sets |-> IF Last(rows).request_assignments # {}
                      THEN Last(rows).request_assignments ELSE {request}]
MainBranch(s, f, x) ==
    IF x.toFlow = f.status_flow_id
    THEN [guard |-> <<"dev">> \o request_field_name(ItemOfStatus(s, f.status_flow_id, x.to)),
          to |-> x.to, apply |-> {}]
    ELSE LET first == Head(SurveyTransitions(f, x))
         IN [guard |-> first.consume_condition, to |-> Blank, apply |-> first.apply_assignments]

LEMMA BranchOf ==
    ASSUME NEW s, NEW m, NEW fsms, NEW f, Surveyed(s, m, fsms, f), OnePerPair(f),
           NEW t \in Range(f.transitions)
    PROVE  LET x == SeedTransition(f, fsms, t)
               engine == EngineBranch(s, f, x)
               main == MainBranch(s, f, x)
           IN /\ engine.condition = t.condition /\ engine.sets = Asked(f, t)
              /\ Own(f, t) => /\ main.guard = <<"dev">> \o RequestOf(f, t.to_status_id)
                              /\ main.to = t.to_status_id
              /\ ~ Own(f, t) => /\ t.request_assignments # {}
                                /\ main.to = Blank /\ main.apply = t.apply_assignments
  <1> DEFINE x == SeedTransition(f, fsms, t)
             flow == f.status_flow_id
             rows == SurveyTransitions(f, x)
             engine == EngineBranch(s, f, x)
             main == MainBranch(s, f, x)
             name == request_field_name(ItemOfStatus(s, flow, x.to))
             statuses == Ids(f.states, "status_id")
  <1>1. /\ x.from = t.from_status_id /\ x.to = t.to_status_id /\ x.toFlow = FlowOf(f, fsms, t)
        /\ x.sequence = t.precedence
    BY DEF SeedTransition
  <1>2. x.toFlow = flow <=> Own(f, t)
    BY <1>1, OwnFlow
  <1>3. x \in TransitionsOf(s, flow)
    BY SurveyedParts
  <1> HIDE DEF x
  <1>4. rows # <<>> /\ Head(rows) = t /\ Last(rows) = t
    <2>1. IsTable(f.transitions)
      BY DEF Surveyed, FsmTyped
    <2> QED BY <1>1, <2>1, SurveyOf
  <1>5. Own(f, t) => name = RequestOf(f, t.to_status_id)
    <2> SUFFICES ASSUME Own(f, t) PROVE name = RequestOf(f, t.to_status_id)
      OBVIOUS
    <2>1. t.to_status_id \in statuses /\ Unique(f.states, "status_id") /\ FsmTyped(f)
          /\ ItemsOf(s, flow) = {SeedItem(y) : y \in Range(f.states)}
      BY SurveyedParts DEF Surveyed
    <2> QED BY <1>1, <2>1, RequestNamed
  <1>6. ~ Own(f, t) => t.request_assignments # {}
    <2>1. CrossFlowComplete(s, f)
      BY DEF Surveyed, StatusflowRenders
    <2> HIDE DEF rows
    <2>2. ~ Own(f, t) => Last(rows).request_assignments # {}
      BY <1>2, <1>3, <2>1 DEF CrossFlowComplete, rows
    <2> QED BY <1>4, <2>2
  <1> HIDE DEF rows, name
  <1>7. engine = [condition |-> t.condition,
                  sets |-> IF t.request_assignments # {} THEN t.request_assignments
                           ELSE {Assignment(name, "TRUE")}]
    BY <1>4 DEF EngineBranch, rows, name
  <1>8. main = IF Own(f, t) THEN [guard |-> <<"dev">> \o name, to |-> x.to, apply |-> {}]
               ELSE [guard |-> t.consume_condition, to |-> Blank, apply |-> t.apply_assignments]
    BY <1>2, <1>4 DEF MainBranch, rows, name
  <1> HIDE DEF engine, main
  <1>9. engine.condition = t.condition /\ engine.sets = Asked(f, t)
    BY <1>5, <1>6, <1>7 DEF Asked
  <1> QED BY <1>1, <1>5, <1>6, <1>8, <1>9 DEF x, engine, main

(* The branches of a status are those of its transitions, in their order.  *)
LEMMA BranchedFrom ==
    ASSUME NEW s, NEW m, NEW fsms, NEW f, Surveyed(s, m, fsms, f), OnePerPair(f),
           NEW q \in Ids(f.states, "status_id"),
           NEW p, p.engine = render_state_transition_cases(s, f), p.blocks = render_main_fsm_blocks(s, f)
    PROVE  /\ DOMAIN p.engine = Ids(f.states, "status_id")
           /\ DOMAIN p.blocks = Ids(f.states, "status_id")
           /\ \E out : Branched(p, f, q, out)
  <1> DEFINE flow == f.status_flow_id
             statuses == Ids(f.states, "status_id")
             seed_(t) == SeedTransition(f, fsms, t)
             leaving == {t \in Range(f.transitions) : t.from_status_id = q}
             rows == {x \in TransitionsOf(s, flow) : x.from = q}
             order == Outgoing(s, flow, q)
             engine == [n \in DOMAIN order |-> EngineBranch(s, f, order[n])]
             blocks == [n \in DOMAIN order |-> MainBranch(s, f, order[n])]
  <1>1. /\ {i.status : i \in ItemsOf(s, flow)} = statuses
        /\ TransitionsOf(s, flow) = {seed_(t) : t \in Range(f.transitions)}
        /\ \A t \in Range(f.transitions) : t.precedence \in Int
        /\ \A t, u \in Range(f.transitions) :
              t.from_status_id = u.from_status_id /\ t.precedence = u.precedence => t = u
    <2>1. Surveyed(s, m, fsms, f)
      OBVIOUS
    <2> QED BY ONLY <2>1, SurveyedParts, SMTT(30)
  <1>2. \A t : seed_(t).from = t.from_status_id /\ seed_(t).sequence = t.precedence
    BY DEF SeedTransition
  <1>3. \A t \in leaving :
           LET x == seed_(t)
           IN /\ EngineBranch(s, f, x).condition = t.condition
              /\ EngineBranch(s, f, x).sets = Asked(f, t)
              /\ Own(f, t) => /\ MainBranch(s, f, x).guard = <<"dev">> \o RequestOf(f, t.to_status_id)
                              /\ MainBranch(s, f, x).to = t.to_status_id
              /\ ~ Own(f, t) => /\ MainBranch(s, f, x).to = Blank
                                /\ MainBranch(s, f, x).apply = t.apply_assignments
    BY BranchOf
  <1>4. DOMAIN p.engine = statuses /\ p.engine[q] = engine
    BY <1>1 DEF render_state_transition_cases, EngineBranch
  <1>5. DOMAIN p.blocks = statuses /\ p.blocks[q] = blocks
    BY <1>1 DEF render_main_fsm_blocks, MainBranch
  <1> HIDE DEF seed_
  <1>6. rows = {seed_(t) : t \in leaving}
    BY <1>1, <1>2
  <1>7. IsFiniteSet(rows)
    <2>1. IsFiniteSet(Range(f.transitions))
      BY TableFinite DEF Surveyed, FsmTyped
    <2>2. IsFiniteSet(leaving)
      BY <2>1, FS_Subset
    <2> HIDE DEF leaving, rows
    <2> DEFINE image == [t \in leaving |-> seed_(t)]
    <2>3. image \in Surjection(leaving, rows)
      BY <1>6 DEF Surjection
    <2> QED BY <2>2, <2>3, FS_Surjection
  <1>8. \A x \in rows : x["sequence"] \in Int
    BY <1>1, <1>2, <1>6
  <1>9. \A x, y \in rows : x["sequence"] = y["sequence"] => x = y
    BY <1>1, <1>2, <1>6
  <1>10. /\ Len(order) \in Nat /\ DOMAIN order = 1..Len(order)
         /\ Range(order) = rows
         /\ \A i, j \in DOMAIN order : i <= j => order[i]["sequence"] <= order[j]["sequence"]
    <2>1. order = Ordered(rows, "sequence")
      BY DEF Outgoing
    <2> HIDE DEF rows, order
    <2> QED BY <1>7, <1>8, <1>9, <2>1, OrderedPlaces
  <1> HIDE DEF rows, order
  <1>11. \A n \in DOMAIN order : \E t \in leaving : seed_(t) = order[n]
    BY <1>6, <1>10 DEF Range
  <1>12. \A t, u \in leaving : seed_(t) = seed_(u) => t = u
    BY <1>1, <1>2
  <1> DEFINE out == [n \in 1..Len(order) |-> CHOOSE t \in leaving : seed_(t) = order[n]]
  <1>13. \A n \in 1..Len(order) : out[n] \in leaving /\ seed_(out[n]) = order[n]
    BY <1>10, <1>11
  <1>14. DOMAIN out = 1..Len(order) /\ Len(out) = Len(order)
    BY <1>10
  <1> HIDE DEF out, engine, blocks
  <1>15. Range(out) = leaving
    <2>1. Range(out) \subseteq leaving
      BY <1>13, <1>14 DEF Range
    <2>2. ASSUME NEW t \in leaving PROVE t \in Range(out)
      <3>1. PICK n \in DOMAIN order : order[n] = seed_(t)
        BY <1>6, <1>10 DEF Range
      <3>2. out[n] = t
        BY <1>10, <1>12, <1>13, <3>1
      <3> QED BY <1>10, <1>14, <3>2 DEF Range
    <2> QED BY <2>1, <2>2
  <1>16. \A i, j \in DOMAIN out : i <= j => out[i].precedence <= out[j].precedence
    BY <1>2, <1>10, <1>13, <1>14
  <1>17. DOMAIN engine = DOMAIN out /\ DOMAIN blocks = DOMAIN out
         /\ \A n \in DOMAIN out : engine[n] = EngineBranch(s, f, seed_(out[n]))
                                  /\ blocks[n] = MainBranch(s, f, seed_(out[n]))
    BY <1>10, <1>13, <1>14 DEF engine, blocks
  <1> HIDE DEF leaving
  <1>18. Branched(p, f, q, out)
    BY <1>3, <1>4, <1>5, <1>10, <1>13, <1>14, <1>15, <1>16, <1>17 DEF Branched, leaving
  <1> QED BY <1>4, <1>5, <1>18

(* So its program mirrors it, but for what only one of two generated texts *)
(* says.                                                                   *)
LEMMA ProgramMirrors ==
    ASSUME NEW s, NEW m, NEW fsms, NEW f, Surveyed(s, m, fsms, f), OnePerPair(f),
           NEW p, p.engine = render_state_transition_cases(s, f), p.blocks = render_main_fsm_blocks(s, f),
           p.predicates = Range(f.predicates), p.faultCondition = FaultCondition(f),
           p.requests = {request_field_name(i) : i \in ItemsOf(s, f.status_flow_id)}
    PROVE  Mirrors(p, f)
  <1> DEFINE statuses == Ids(f.states, "status_id")
             flow == f.status_flow_id
             items == ItemsOf(s, flow)
             state_(q) == First(f.states, "status_id", q)
  <1>1. /\ Unique(f.states, "status_id") /\ Blank \notin statuses
        /\ items = {SeedItem(x) : x \in Range(f.states)}
        /\ \A t \in Range(f.transitions) :
              /\ t.from_status_id \in statuses /\ t.precedence \in Int
              /\ Own(f, t) => t.to_status_id \in statuses
        /\ \A t, u \in Range(f.transitions) :
              t.from_status_id = u.from_status_id /\ t.precedence = u.precedence => t = u
    BY SurveyedParts
  <1>2. FsmTyped(f) /\ IsTable(f.states) /\ parse_statusflow(s, flow)
    BY DEF Surveyed, StatusflowRenders, FsmTyped
  <1>3. \A q \in statuses :
           /\ state_(q) \in Range(f.states) /\ state_(q).status_id = q
           /\ request_field_name(SeedItem(state_(q))) = RequestOf(f, q)
           /\ IsTable(RequestOf(f, q))
    BY <1>1, <1>2, RequestNamed
  <1>4. \A x \in Range(f.states) :
           x.status_id \in statuses /\ state_(x.status_id) = x
    BY <1>1, <1>2, FirstIs DEF Ids
  <1> HIDE DEF state_, items
  <1>5. p.requests = {RequestOf(f, q) : q \in statuses}
    BY <1>1, <1>3, <1>4 DEF items
  <1>6. ASSUME NEW q \in statuses, NEW r \in statuses, RequestOf(f, q) = RequestOf(f, r) PROVE q = r
    <2> DEFINE i == SeedItem(state_(q))
               j == SeedItem(state_(r))
    <2>1. i.status = q /\ j.status = r /\ i.name = state_(q).name /\ j.name = state_(r).name
      BY <1>3 DEF SeedItem
    <2>2. i \in items /\ j \in items
      BY <1>1, <1>3
    <2>3. \A x : RequestOf(f, x) = Append(to_lower_camel(state_(x).name), "request")
      BY DEF RequestOf, state_
    <2>4. IsTable(to_lower_camel(state_(q).name)) /\ IsTable(to_lower_camel(state_(r).name))
      BY <1>2, <1>3, CamelTable DEF FsmTyped
    <2>5. to_lower_camel(state_(q).name) = to_lower_camel(state_(r).name)
      BY <1>6, <2>3, <2>4, AppendTables
    <2> HIDE DEF i, j
    <2>6. Enum(i) = Enum(j)
      BY <2>1, <2>5 DEF Enum
    <2> QED BY <1>2, <2>1, <2>2, <2>6 DEF parse_statusflow, items
  <1>7. ASSUME NEW t \in Range(f.transitions), ~ Own(f, t) PROVE t.request_assignments # {}
    BY <1>7, BranchOf
  <1>8. \A q \in statuses : /\ DOMAIN p.engine = statuses /\ DOMAIN p.blocks = statuses
                            /\ \E out : Branched(p, f, q, out)
    BY BranchedFrom
  <1>9. statuses # {}
    <2>1. FsmWellFormed(f, m)
      BY DEF Surveyed, FsmsAccepted
    <2>2. f.states # <<>>
      BY <2>1 DEF FsmWellFormed
    <2>3. \A S : \A q \in Seq(S) : q # <<>> => 1 \in DOMAIN q
      OBVIOUS
    <2>4. f.states[1] \in Range(f.states)
      BY <1>2, <2>2, <2>3 DEF IsTable, Range
    <2> QED BY <2>4 DEF Ids
  <1> QED BY <1>1, <1>3, <1>5, <1>6, <1>7, <1>8, <1>9 DEF Mirrors

-----------------------------------------------------------------------------
(* The controllers of an application are those of its other FSMs: one for  *)
(* each, with a branch for each transition of its own.                     *)

LEMMA ControllerBranch ==
    ASSUME NEW s, NEW f, FsmTyped(f), PrecedencesDistinct(f), NEW blocks,
           blocks = render_subsystem_case_blocks(s, f), NEW q \in DOMAIN blocks
    PROVE  /\ DOMAIN blocks[q] \subseteq Nat
           /\ \A b \in Range(blocks[q]) :
                /\ b.apply # {} => b.to = Blank
                /\ b.apply # {} => \E t \in Range(f.transitions) :
                      t.from_status_id = q /\ b.guard = t.condition /\ b.apply = t.apply_assignments
  <1> DEFINE branch(t) ==
                IF t.to_fsm_id \in {Blank, f.fsm_id}
                THEN [guard |-> t.condition, to |-> t.to_status_id, apply |-> {}]
                ELSE [guard |-> t.condition, to |-> Blank, apply |-> t.apply_assignments]
             rows == {t \in Range(f.transitions) : t.from_status_id = q}
             out == Ordered(rows, "precedence")
  <1>1. blocks[q] = [n \in DOMAIN out |-> branch(out[n])]
    BY DEF render_subsystem_case_blocks
  <1>2. IsFiniteSet(rows)
    <2>1. IsFiniteSet(Range(f.transitions))
      BY TableFinite DEF FsmTyped
    <2>2. rows \subseteq Range(f.transitions)
      OBVIOUS
    <2> HIDE DEF rows
    <2> QED BY <2>1, <2>2, FS_Subset
  <1>3. \A x \in rows : x["precedence"] \in Int
    BY DEF FsmTyped
  <1>4. \A x, y \in rows : x["precedence"] = y["precedence"] => x = y
    BY DEF PrecedencesDistinct, Range
  <1>5. Len(out) \in Nat /\ DOMAIN out = 1..Len(out) /\ Range(out) = rows
    <2> HIDE DEF rows
    <2> QED BY <1>2, <1>3, <1>4, OrderedPlaces
  <1>6. \A t : /\ branch(t).apply # {} => branch(t).to = Blank
               /\ branch(t).apply # {} => branch(t).apply = t.apply_assignments
               /\ branch(t).guard = t.condition
    OBVIOUS
  <1> HIDE DEF branch, out
  <1>7. ASSUME NEW b \in Range(blocks[q]) PROVE \E t \in rows : b = branch(t)
    <2>1. PICK n \in DOMAIN out : b = branch(out[n])
      BY <1>1, <1>7 DEF Range
    <2> QED BY <1>5, <2>1 DEF Range
  <1>8. DOMAIN blocks[q] = DOMAIN out
    BY <1>1
  <1>9. ASSUME NEW b \in Range(blocks[q]), b.apply # {}
        PROVE  /\ b.to = Blank
               /\ \E t \in Range(f.transitions) :
                     t.from_status_id = q /\ b.guard = t.condition /\ b.apply = t.apply_assignments
    <2>1. PICK t \in rows : b = branch(t)
      BY <1>7, <1>9
    <2> QED BY <1>6, <1>9, <2>1
  <1> QED BY <1>5, <1>8, <1>9

LEMMA ControllersOf ==
    ASSUME NEW id \in Complete(Checks), id[1] = id[2]
    PROVE  LET p == ProgramTable[id]
               m == Model[id[1]]
               fsms == Fsms[id[1]]
               main == Supervisor(m, fsms, id[3])
               order == Subsystems(m, fsms, id[3])
           IN /\ Len(p.subsystems) \in Nat /\ DOMAIN p.subsystems = 1..Len(p.subsystems)
              /\ \A i \in DOMAIN p.subsystems : EitherWay(p.subsystems[i])
              /\ \A i, j \in DOMAIN p.subsystems :
                    p.subsystems[i].field = p.subsystems[j].field => i = j
              /\ \A i \in DOMAIN p.subsystems :
                    /\ order[i] \in OwnFsms(m, fsms, id[3]) \ {main}
                    /\ p.subsystems[i].field = subsystem_status_names(order[i]).field
                    /\ \A q : \A b \in Range(Plc!BranchesOf(p.subsystems[i].blocks, q)) :
                          b.apply # {} => \E t \in Range(order[i].transitions) :
                             t.from_status_id = q /\ b.guard = t.condition /\ b.apply = t.apply_assignments
  <1> DEFINE p == ProgramTable[id]
             s == SeedTable[id[2]]
             m == Model[id[1]]
             fsms == Fsms[id[1]]
             root == id[3]
             main == Supervisor(m, fsms, root)
             order == Subsystems(m, fsms, root)
             others == OwnFsms(m, fsms, root) \ {main}
  <1>1. /\ Len(p.subsystems) \in Nat
        /\ DOMAIN p.subsystems = 1..Len(p.subsystems) /\ DOMAIN order = DOMAIN p.subsystems
        /\ \A n \in DOMAIN order :
              /\ p.subsystems[n].blocks = render_subsystem_case_blocks(s, order[n])
              /\ p.subsystems[n].field = subsystem_status_names(order[n]).field
    BY ProgramShape
  <1>2. /\ id[1] \in Versions /\ IsTable(fsms) /\ FsmsAccepted(fsms, m)
        /\ Supervisors(m, fsms, root) = {main} /\ ApplicationAccepted(m, fsms, root)
    BY CompleteParts
  <1>3. \A f \in Range(fsms) : FsmTyped(f) /\ PrecedencesDistinct(f)
    BY <1>2, FsmsTyped DEF FsmsAccepted
  <1>4. Unique(fsms, "fsm_id")
    BY <1>2 DEF FsmsAccepted
  <1> HIDE DEF p, s, m, fsms, root, main
  <1>5. others \subseteq Range(fsms)
    BY DEF OwnFsms
  <1>6. order = Ordered(others, "call_sequence")
    BY <1>2 DEF Subsystems
  <1>7. IsFiniteSet(others)
    <2>1. IsFiniteSet(Range(fsms))
      BY <1>2, TableFinite
    <2> HIDE DEF others
    <2> QED BY <1>5, <2>1, FS_Subset
  <1>8. \A x \in others : x["call_sequence"] \in Int
    BY <1>3, <1>5 DEF FsmTyped
  <1>9. \A x, y \in others : x["call_sequence"] = y["call_sequence"] => x = y
    BY <1>2 DEF ApplicationAccepted
  <1> HIDE DEF others, order
  <1>10. Range(order) = others /\ \A i, j \in DOMAIN order : order[i] = order[j] => i = j
    BY <1>6, <1>7, <1>8, <1>9, OrderedPlaces
  <1>11. \A i \in DOMAIN order : order[i] \in others
    BY <1>10 DEF Range
  <1>12. ASSUME NEW i \in DOMAIN order, NEW j \in DOMAIN order, p.subsystems[i].field = p.subsystems[j].field
         PROVE  i = j
    <2>1. subsystem_status_names(order[i]).field = subsystem_status_names(order[j]).field
      BY <1>1, <1>12
    <2>2. order[i].fsm_id = order[j].fsm_id
      BY <2>1 DEF subsystem_status_names
    <2>3. order[i] = order[j]
      BY <1>4, <1>5, <1>11, <2>2, SameRow
    <2> QED BY <1>10, <2>3
  <1>13. ASSUME NEW i \in DOMAIN order
         PROVE  /\ EitherWay(p.subsystems[i])
                /\ \A q : \A b \in Range(Plc!BranchesOf(p.subsystems[i].blocks, q)) :
                      b.apply # {} => \E t \in Range(order[i].transitions) :
                         t.from_status_id = q /\ b.guard = t.condition /\ b.apply = t.apply_assignments
    <2> DEFINE blocks == p.subsystems[i].blocks
               f == order[i]
    <2>1. blocks = render_subsystem_case_blocks(s, f) /\ FsmTyped(f) /\ PrecedencesDistinct(f)
      BY <1>1, <1>3, <1>5, <1>11
    <2> HIDE DEF blocks, f
    <2>2. \A q \in DOMAIN blocks :
             /\ DOMAIN blocks[q] \subseteq Nat
             /\ \A b \in Range(blocks[q]) :
                  /\ b.apply # {} => b.to = Blank
                  /\ b.apply # {} => \E t \in Range(f.transitions) :
                        t.from_status_id = q /\ b.guard = t.condition /\ b.apply = t.apply_assignments
      BY <2>1, ControllerBranch
    <2>3. EitherWay(p.subsystems[i])
      BY <2>2 DEF EitherWay, blocks
    <2>4. ASSUME NEW q PROVE Plc!BranchesOf(blocks, q) = IF q \in DOMAIN blocks THEN blocks[q] ELSE <<>>
      BY DEF Plc!BranchesOf
    <2>5. Range(<<>>) = {}
      BY NoPlaces DEF Range
    <2>6. ASSUME NEW q, NEW b \in Range(Plc!BranchesOf(blocks, q)), b.apply # {}
          PROVE  \E t \in Range(f.transitions) :
                    t.from_status_id = q /\ b.guard = t.condition /\ b.apply = t.apply_assignments
      <3>1. q \in DOMAIN blocks
        BY <2>4, <2>5, <2>6
      <3>2. b \in Range(blocks[q])
        BY <2>4, <2>6, <3>1
      <3> QED BY <2>2, <2>6, <3>1, <3>2
    <2> QED BY <2>3, <2>6 DEF blocks, f
  <1>14. \A i \in DOMAIN p.subsystems :
            /\ order[i] \in others
            /\ p.subsystems[i].field = subsystem_status_names(order[i]).field
    BY <1>1, <1>11
  <1>15. /\ \A i \in DOMAIN p.subsystems : EitherWay(p.subsystems[i])
         /\ \A i, j \in DOMAIN p.subsystems :
               p.subsystems[i].field = p.subsystems[j].field => i = j
    BY <1>1, <1>12, <1>13
  <1>16. \A i \in DOMAIN p.subsystems :
            \A q : \A b \in Range(Plc!BranchesOf(p.subsystems[i].blocks, q)) :
               b.apply # {} => \E t \in Range(order[i].transitions) :
                  t.from_status_id = q /\ b.guard = t.condition /\ b.apply = t.apply_assignments
    <2> TAKE i \in DOMAIN p.subsystems
    <2>1. i \in DOMAIN order
      BY <1>1
    <2> QED BY <1>13, <2>1
  <1>17. \A i \in DOMAIN p.subsystems :
            order[i] \in OwnFsms(m, fsms, root) \ {main}
    <2>1. others = OwnFsms(m, fsms, root) \ {main}
      BY DEF others
    <2> QED BY <1>14, <2>1
  <1> QED BY <1>1, <1>14, <1>15, <1>16, <1>17 DEF p, m, fsms, root, main, order

-----------------------------------------------------------------------------
(* The supervisor at work. *)

LEMMA ControlledFields ==
    ASSUME NEW p, Len(p.subsystems) \in Nat, NEW true, NEW dev
    PROVE  DOMAIN Plc!Controlled(p, true, dev).subs = DOMAIN dev.subs
  <1> DEFINE n == Len(p.subsystems)
  <1>1. PICK after :
          /\ after[0] = dev
          /\ \A i \in 1..n : after[i] = Plc!Control(p.subsystems[i], true, after[i - 1])
          /\ Plc!Controlled(p, true, dev) = after[n]
    BY ControlledSteps
  <1> DEFINE Good(k) == DOMAIN after[k].subs = DOMAIN dev.subs
             Bad == {k \in 0..n : ~ Good(k)}
  <1> HIDE DEF n
  <1>2. n \in Nat
    BY DEF n
  <1>3. ASSUME NEW c, NEW x PROVE DOMAIN Plc!Control(c, true, x).subs = DOMAIN x.subs
    BY DEF Plc!Control, Plc!AssignedStatus
  <1>4. Good(0) /\ \A k \in 1..n : Good(k - 1) => Good(k)
    BY <1>1, <1>3
  <1> HIDE DEF Good
  <1>5. ASSUME Bad # {} PROVE FALSE
    <2>1. PICK k \in Bad : \A j \in Bad : k <= j
      <3>1. Bad \subseteq Nat
        BY <1>2
      <3> HIDE DEF Bad
      <3> QED BY <1>5, <3>1, SmallestOf
    <2>2. k \in 1..n /\ k - 1 \in 0..n /\ ~ (k <= k - 1)
      BY <1>2, <1>4
    <2>3. k - 1 \notin Bad
      <3> HIDE DEF Bad
      <3> QED BY <2>1, <2>2
    <2> QED BY <1>4, <2>2, <2>3
  <1>6. Good(n)
    BY <1>2, <1>5
  <1> QED BY <1>1, <1>6 DEF Good

LEMMA InitialFields ==
    ASSUME NEW p
    PROVE  DOMAIN Plc!InitialStatuses(p) = {c.field : c \in Range(p.subsystems)}
  <1>1. Plc!Range(p.subsystems) = Range(p.subsystems)
    BY DEF Plc!Range, Range
  <1> QED BY <1>1 DEF Plc!InitialStatuses

(* There is a status of each controller, and no other. *)
FieldsKept ==
    program # Plc!NoProgram => DOMAIN subStatus = {c.field : c \in Range(Program.subsystems)}

THEOREM FieldsInvariance == EngineeringSpec => []FieldsKept
  <1>1. EngineeringInit => FieldsKept
    BY DEF EngineeringInit, Plc!InitMain, FieldsKept
  <1>2. EInv /\ FieldsKept /\ [EngineeringNext]_<<vars, plcVars>> => FieldsKept'
    <2> SUFFICES ASSUME EInv, FieldsKept, [EngineeringNext]_<<vars, plcVars>> PROVE FieldsKept'
      OBVIOUS
    <2>1. CASE UNCHANGED plcVars
      BY <2>1 DEF plcVars, FieldsKept, Program
    <2>2. CASE Import
      <3>1. subStatus' = Plc!InitialStatuses(ProgramTable[program'])
        BY <2>2 DEF Import, Plc!Download, Plc!Load
      <3>2. DOMAIN subStatus' = {c.field : c \in Range(ProgramTable[program'].subsystems)}
        BY <3>1, InitialFields
      <3> QED BY <3>2 DEF FieldsKept, Program
    <2>3. CASE Plc!ScanInit(Program)
      <3>1. subStatus' = Plc!InitialStatuses(Program) /\ program' = program
        BY <2>3 DEF Plc!ScanInit, Plc!Scanned, Plc!Supervise
      <3>2. DOMAIN subStatus' = {c.field : c \in Range(Program.subsystems)}
        BY <3>1, InitialFields
      <3> QED BY <3>1, <3>2 DEF FieldsKept, Program
    <2>4. CASE Plc!ScanRun(Program)
      <3> DEFINE p == Program
                 dev == Plc!Supervise(p, mainStatus, facts',
                                      Plc!RuleEngine(p, mainStatus, facts', flags), subStatus)
      <3>1. /\ program # Plc!NoProgram /\ program' = program
            /\ subStatus' = Plc!Controlled(p, facts', dev).subs
        BY <2>4 DEF Plc!ScanRun, Plc!Scanned
      <3>2. Len(p.subsystems) \in Nat
        BY <3>1, ProgramShape DEF EInv, Program
      <3>3. DOMAIN dev.subs = DOMAIN subStatus
        BY SuperviseFields
      <3> HIDE DEF p, dev
      <3>4. DOMAIN subStatus' = DOMAIN subStatus
        BY <3>1, <3>2, <3>3, ControlledFields
      <3> QED BY <3>1, <3>4 DEF FieldsKept, Program
    <2>5. CASE Plc!Acknowledge
      BY <2>5 DEF Plc!Acknowledge, FieldsKept, Program
    <2> QED BY <2>1, <2>2, <2>3, <2>4, <2>5 DEF EngineeringNext, Scan
  <1> QED BY <1>1, <1>2, EngineeringInvariance, PTL DEF EngineeringSpec

(* The supervisor of a complete generation is surveyed and mirrored. *)
LEMMA SupervisorMirrored ==
    ASSUME NEW id \in Complete(Checks), id[1] = id[2], OnePerPair(ReviewedFsm(id))
    PROVE  Mirrors(ProgramTable[id], ReviewedFsm(id))
  <1> DEFINE d == id[1]
             s == SeedTable[d]
             m == Model[d]
             fsms == Fsms[d]
             f == ReviewedFsm(id)
             p == ProgramTable[id]
  <1>1. /\ d \in Versions /\ IsTable(fsms) /\ FsmsAccepted(fsms, m)
        /\ s.flows = StatusFlows(fsms) /\ StatusflowRenders(s, m, f)
        /\ Supervisors(m, fsms, id[3]) = {f}
    BY CompleteParts DEF ReviewedFsm
  <1>2. /\ p.predicates = Range(f.predicates) /\ p.faultCondition = FaultCondition(f)
        /\ p.engine = render_state_transition_cases(s, f) /\ p.blocks = render_main_fsm_blocks(s, f)
        /\ p.requests = {request_field_name(i) : i \in ItemsOf(s, f.status_flow_id)}
    BY ProgramShape DEF ReviewedFsm
  <1>3. OnePerPair(f)
    OBVIOUS
  <1> HIDE DEF s, m, fsms, f, p
  <1>4. f \in Range(fsms)
    BY <1>1 DEF Supervisors, OwnFsms
  <1>5. FsmTyped(f)
    BY <1>1, <1>4, FsmsTyped DEF fsms
  <1>6. Surveyed(s, m, fsms, f)
    BY <1>1, <1>4, <1>5 DEF Surveyed
  <1>7. Mirrors(p, f)
    BY ONLY <1>2, <1>3, <1>6, ProgramMirrors
  <1> QED BY <1>7 DEF p, f

(* A transition of a controller that sends the supervisor is one of the    *)
(* surveys, and may be taken from the status the controller is in.         *)
LEMMA SendsMoves ==
    ASSUME program \in Complete(Checks), program[1] = program[2], NEW after,
           mainStatus' = after.status, subStatus' = after.subs,
           NEW i \in DOMAIN Program.subsystems,
           Sends(Program.subsystems[i], facts',
                 UNION {ControllerTargets(c) : c \in Range(Program.subsystems)}, after)
    PROVE  MovedBySubsystem(Program, ReviewedFsm(program))
  <1> DEFINE m == Model[program[1]]
             fsms == Fsms[program[1]]
             p == ProgramTable[program]
             c == p.subsystems[i]
             main == Supervisor(m, fsms, program[3])
             order == Subsystems(m, fsms, program[3])
             g == order[i]
             targets == UNION {ControllerTargets(x) : x \in Range(p.subsystems)}
  <1>1. /\ g \in OwnFsms(m, fsms, program[3]) \ {main}
        /\ c.field = subsystem_status_names(g).field
        /\ \A q : \A b \in Range(Plc!BranchesOf(c.blocks, q)) :
              b.apply # {} => \E t \in Range(g.transitions) :
                 t.from_status_id = q /\ b.guard = t.condition /\ b.apply = t.apply_assignments
    <2>1. i \in DOMAIN p.subsystems
      BY DEF Program
    <2> QED BY ONLY <2>1, program \in Complete(Checks), program[1] = program[2], ControllersOf, ZenonT(30)
  <1>2. Sends(c, facts', targets, after)
    BY DEF Program
  <1> HIDE DEF c, g, targets, order
  <1>3. PICK q : \E b \in Range(Plc!BranchesOf(c.blocks, q)) :
           /\ \E r \in b.apply : r.target = <<"status">> /\ r.expression = after.status
           /\ Plc!Holds(b.guard, facts', {Tail(b.guard)})
           /\ q = after.subs[c.field] \/ c.field \in targets
    BY <1>2 DEF Sends
  <1>4. PICK b \in Range(Plc!BranchesOf(c.blocks, q)) :
           /\ \E r \in b.apply : r.target = <<"status">> /\ r.expression = after.status
           /\ Plc!Holds(b.guard, facts', {Tail(b.guard)})
           /\ q = after.subs[c.field] \/ c.field \in targets
    BY <1>3
  <1>5. PICK t \in Range(g.transitions) :
           t.from_status_id = q /\ b.guard = t.condition /\ b.apply = t.apply_assignments
    <2>1. b.apply # {}
      BY <1>4
    <2> QED BY <1>1, <2>1
  <1>6. /\ \E r \in t.apply_assignments : r.target = <<"status">> /\ r.expression = mainStatus'
        /\ Plc!Holds(t.condition, facts', {Tail(t.condition)})
        /\ \/ t.from_status_id = subStatus'[subsystem_status_names(g).field]
           \/ subsystem_status_names(g).field \in targets
    BY <1>1, <1>4, <1>5
  <1>7. targets = UNION {ControllerTargets(x) : x \in Range(Program.subsystems)}
    BY DEF targets, Program
  <1>8. main = ReviewedFsm(program)
    BY DEF ReviewedFsm
  <1> HIDE DEF m, fsms, p, main
  <1> QED BY <1>1, <1>6, <1>7, <1>8 DEF MovedBySubsystem, m, fsms

LEMMA FollowScan ==
    EInv /\ FieldsKept /\ Plc!ScanRun(Program) /\ program[1] = program[2]
        => FollowsReview(Program, ReviewedFsm(program))
  <1> DEFINE p == Program
             f == ReviewedFsm(program)
             set == Plc!RuleEngine(p, mainStatus, facts', flags)
             dev == Plc!Supervise(p, mainStatus, facts', set, subStatus)
             after == Plc!Controlled(p, facts', dev)
             targets == UNION {ControllerTargets(c) : c \in Range(p.subsystems)}
  <1> SUFFICES ASSUME EInv, FieldsKept, Plc!ScanRun(Program), program[1] = program[2], Disciplined(p, f)
               PROVE  mainStatus' = ReviewedStatus(p, f) \/ MovedBySubsystem(p, f)
    BY DEF FollowsReview
  <1>1. program \in Complete(Checks) /\ program # Plc!NoProgram
    BY DEF EInv, Plc!ScanRun
  <1>2. Mirrors(p, f)
    BY <1>1, SupervisorMirrored DEF Disciplined, Program
  <1>3. \A e \in facts' : e[1] # "dev"
    BY DEF Plc!ScanRun, Plc!Conditions
  <1>4. mainStatus' = after.status /\ subStatus' = after.subs
    BY DEF Plc!ScanRun, Plc!Scanned
  <1>5. dev.status = ReviewedStatus(p, f)
    <2> HIDE DEF p, f
    <2> QED BY ONLY <1>2, <1>3, Disciplined(p, f), MainFollows
  <1>6. DOMAIN dev.subs = {c.field : c \in Range(p.subsystems)}
    BY <1>1, SuperviseFields DEF FieldsKept
  <1>7. /\ Len(p.subsystems) \in Nat /\ DOMAIN p.subsystems = 1..Len(p.subsystems)
        /\ \A i \in DOMAIN p.subsystems : EitherWay(p.subsystems[i])
        /\ \A i, j \in DOMAIN p.subsystems :
              p.subsystems[i].field = p.subsystems[j].field => i = j
    BY <1>1, ControllersOf DEF Program
  <1> HIDE DEF p, f, dev, after
  <1>8. \A i \in DOMAIN p.subsystems : p.subsystems[i].field \in DOMAIN dev.subs
    BY <1>6 DEF Range
  <1>9. after.status = dev.status
          \/ \E i \in DOMAIN p.subsystems : Sends(p.subsystems[i], facts', targets, after)
    BY ONLY <1>7, <1>8, ControlledSends DEF after
  <1>10. ASSUME NEW i \in DOMAIN p.subsystems, Sends(p.subsystems[i], facts', targets, after)
         PROVE  MovedBySubsystem(p, f)
    BY <1>1, <1>4, <1>10, SendsMoves DEF p, f
  <1> QED BY <1>4, <1>5, <1>9, <1>10

(* For any surveys, any session and any plant: in a scan of Run Main and   *)
(* its rule engine do what the reviewed FSM of the supervisor says, if it  *)
(* is disciplined and seed and surveys are of one version, unless a        *)
(* subsystem then moves the supervisor by a transition of its own.         *)
THEOREM ReviewFollowed == EngineeringSpec => MainFollowsReview
  <1>1. EInv /\ FieldsKept /\ [EngineeringNext]_<<vars, plcVars>>
          => [scan' = "Run" /\ program[1] = program[2]
                => FollowsReview(Program, ReviewedFsm(program))]_plcVars
    <2> SUFFICES ASSUME EInv, FieldsKept, EngineeringNext, scan' = "Run", program[1] = program[2]
                 PROVE  \/ FollowsReview(Program, ReviewedFsm(program))
                        \/ UNCHANGED plcVars
      BY DEF plcVars
    <2>1. CASE UNCHANGED plcVars
      BY <2>1
    <2>2. CASE Import
      BY <2>2 DEF EInv, Import, Plc!Download
    <2>3. CASE Scan(Program)
      BY <2>3, FollowScan DEF Scan, Plc!ScanInit
    <2>4. CASE Plc!Acknowledge
      BY <2>4 DEF Plc!Acknowledge
    <2> QED BY <2>1, <2>2, <2>3, <2>4 DEF EngineeringNext
  <1> QED BY <1>1, EngineeringInvariance, FieldsInvariance, PTL DEF EngineeringSpec, MainFollowsReview
=============================================================================
