--------------------------- MODULE DesignSession ---------------------------
(* A saved plant-design session and the tools that work on its directory:  *)
(* init_session.py, render_guided_questions.py, validate_upstream_surveys. *)
(* py, render_seed_from_surveys.py and render_codesys_applications.py with *)
(* the tools it runs. A tool reads and writes files one after the other;   *)
(* it gives up where a rule rejects its input and leaves what it has       *)
(* written, and it can be killed between any two writes. A file is written *)
(* at once. Tools run one at a time, and the surveys are edited between    *)
(* runs, MaxEdits times.                                                   *)
EXTENDS PlcRules

CONSTANTS
    Surveys,    \* the versions the survey files can have, as init_session writes them first
    MaxEdits

(* What an author fills in are lists of rows, names that are lists of      *)
(* words, and numbers.                                                     *)
Filled(row, key) == IF key \in DOMAIN row THEN Range(row[key]) ELSE {}
Listed(row, key) == key \in DOMAIN row => IsTable(row[key])
ASSUME SurveysAssumption ==
    /\ Len(Surveys) \in Nat \ {0} /\ DOMAIN Surveys = 1..Len(Surveys)
    /\ \A i \in DOMAIN Surveys :
         /\ \A key \in Tables : Listed(Surveys[i], key)
         /\ \A row \in Filled(Surveys[i], "devices") : Listed(row, "physical_device_name")
         /\ \A row \in Filled(Surveys[i], "fsms") :
              /\ Listed(row, "states") /\ \A s \in Filled(row, "states") : Listed(s, "name")
              /\ "call_sequence" \in DOMAIN row => row.call_sequence \in Int
         /\ \A row \in Filled(Surveys[i], "rules") :
              /\ Listed(row, "transitions")
              /\ \A t \in Filled(row, "transitions") :
                    "precedence" \in DOMAIN t => t.precedence \in Int
    /\ MaxEdits \in Nat

Versions == DOMAIN Surveys

-----------------------------------------------------------------------------
(* What the tools compute of each version, tabulated. *)

Model == [d \in Versions |-> LoadUpstream(Surveys[d])]
Fsms == [d \in Versions |-> LoadFsms(Surveys[d])]
Accepted == [d \in Versions |-> UpstreamAccepted(Model[d])]
Reviewable == {d \in Versions : Accepted[d] /\ FsmsAccepted(Fsms[d], Model[d])}
Question == [d \in Versions |-> build_guided_questions(Model[d])]

(* What a final seed needs, and a draft does not. *)
Approved(d) ==
    LET a == Model[d].approvals
    IN /\ a.device_model_approved /\ a.device_groups_approved /\ a.seed_generation_approved
       /\ a.signed
SeedRenders(m, fsms) == Renderable(m, fsms) /\ ReferencesValid(m, RenderedSeed(m, fsms))
Seedable == {d \in Reviewable : SeedRenders(Model[d], Fsms[d])}
SeedTable == [d \in Seedable |-> RenderedSeed(Model[d], Fsms[d])]

(* What code generation needs of all FSMs. *)
Generatable(m, fsms) ==
    /\ DOMAIN fsms # {}
    /\ \A f \in Range(fsms) :
         /\ f.code_generation_approved
         /\ \A state \in Range(f.states) : state.outputs_reviewed
         /\ Rooted(m, f.owner_subsystem_id)
AppRoots == [d \in Reviewable |-> Roots(Model[d], Fsms[d])]

(* How far the generation of an application gets, from surveys d and the   *)
(* seed of surveys e: a rule is evaluated if those before it accept.       *)
Stages(statusflow, catalog, mapper, controllers, manifest) ==
    [statusflow |-> statusflow, catalog |-> statusflow /\ catalog,
     mapper |-> statusflow /\ catalog /\ mapper,
     controllers |-> statusflow /\ catalog /\ mapper /\ controllers,
     manifest |-> statusflow /\ catalog /\ mapper /\ controllers /\ manifest]
Generation(m, fsms, s, root) ==
    Stages(/\ ApplicationAccepted(m, fsms, root)
           /\ StatusflowRenders(s, m, Supervisor(m, fsms, root)),
           CatalogRenders(s, ScopeOf(root)),
           MapperRenders(s, ScopeOf(root), m),
           /\ PredicatesUnique(m, fsms, root)
           /\ \A f \in Range(Subsystems(m, fsms, root)) : ControllerRenders(s, m, f),
           validate_orchestration_sources(s, m, fsms, root))
Generations(m, fsms, seeds) ==
    [e \in DOMAIN seeds |-> [root \in Roots(m, fsms) |-> Generation(m, fsms, seeds[e], root)]]
Checks == [d \in Reviewable |-> Generations(Model[d], Fsms[d], SeedTable)]
AppId(d, root) == application_id(Model[d], Fsms[d], root)
AppIds == UNION {{f.application_id : f \in Range(Fsms[d])} : d \in Reviewable}
(* The directory of an application's component, which is named after its   *)
(* supervisor, one for each top-level subsystem.                           *)
Component(d, root) == <<AppId(d, root), root>>
ComponentsOf(m, fsms) ==
    {<<application_id(m, fsms, root), root>> :
        root \in {r \in Roots(m, fsms) : ApplicationAccepted(m, fsms, r)}}
Components == UNION {ComponentsOf(Model[d], Fsms[d]) : d \in Reviewable}

-----------------------------------------------------------------------------
VARIABLES
    docs,      \* the version of the survey files
    edits,
    files,     \* the survey files there are: "none", "some", "all"
    context,   \* the architecture context file exists
    session,   \* session.json, or NoSession
    notes,     \* guided-questions.md exists
    seed,      \* survey-derived-seed.xml, or NoSeed
    bundles,   \* for each component, its generated directory
    manifests, \* for each application id, its manifest
    project,   \* codesys-project-manifest.json, or NoProject
    tool       \* the tool at work and what is left of its work, or Idle

vars == <<docs, edits, files, context, session, notes, seed, bundles, manifests, project, tool>>

NoSession == [stage |-> "none", status |-> "none"]
NewSession ==
    [stage |-> "system_decomposition", status |-> "in_progress", design |-> "pending",
     seed_design |-> "pending", plc_design |-> "pending", artifacts |-> {}]
NoSeed == [docs |-> 0, draft |-> FALSE]
NoProject == {}
(* A part of a bundle carries the versions it was generated from. *)
NoPart == [docs |-> 0, seed |-> 0, root |-> Blank]
NoBundle == [main |-> NoPart, facade |-> NoPart, mapper |-> NoPart, controllers |-> NoPart]
Idle == [name |-> "idle"]

(* The artifacts session.json can name, and which of them exist. *)
SeedArtifact == <<"seed">>
NotesArtifact == <<"notes">>
Exists(artifact) ==
    CASE artifact = SeedArtifact -> seed # NoSeed
      [] artifact = NotesArtifact -> notes
      [] OTHER -> bundles[artifact].main # NoPart

Init ==
    /\ docs = 1 /\ edits = 0 /\ files = "none" /\ context = FALSE
    /\ session = NoSession /\ notes = FALSE /\ seed = NoSeed
    /\ bundles = [c \in Components |-> NoBundle] /\ manifests = [a \in AppIds |-> NoPart]
    /\ project = NoProject /\ tool = Idle

Run(name) == [name |-> name, step |-> "start"]
At(name, step) == tool.name = name /\ tool.step = step
Step(step) == tool' = [tool EXCEPT !.step = step]
End == tool' = Idle

(* An engineer fills in or changes the surveys, or starts a tool. *)
Edit ==
    /\ tool = Idle /\ files = "all" /\ edits < MaxEdits
    /\ docs' \in Versions \ {1, docs}
    /\ edits' = edits + 1
    /\ UNCHANGED <<files, context, session, notes, seed, bundles, manifests, project, tool>>
Start ==
    /\ tool = Idle
    /\ \/ tool' = Run("init") /\ session = NoSession
       \/ /\ session # NoSession
          /\ \/ tool' \in {Run("guided"), Run("validate"), Run("plc")}
             \/ tool' \in [name : {"seed"}, step : {"start"}, draft : BOOLEAN]
    /\ UNCHANGED <<docs, edits, files, context, session, notes, seed, bundles, manifests, project>>
(* The process dies. *)
Crash ==
    /\ tool # Idle /\ End
    /\ UNCHANGED <<docs, edits, files, context, session, notes, seed, bundles, manifests, project>>

-----------------------------------------------------------------------------
(* init_session: surveys that exist are kept; session.json is written last, *)
(* and a session that has it is left alone.                                *)

WriteSurveys ==
    /\ At("init", "start")
    /\ IF files = "none" THEN files' = "some" /\ UNCHANGED tool
       ELSE files' = "all" /\ Step("context")
    /\ UNCHANGED <<docs, edits, context, session, notes, seed, bundles, manifests, project>>
(* Mutant: the session is announced before the context file is written. *)
HastyWriteSession ==
    /\ At("init", "context") /\ session' = NewSession /\ Step("session")
    /\ UNCHANGED <<docs, edits, files, context, notes, seed, bundles, manifests, project>>
WriteContext ==
    /\ At("init", "context") /\ context' = TRUE /\ Step("session")
    /\ UNCHANGED <<docs, edits, files, session, notes, seed, bundles, manifests, project>>
WriteSession ==
    /\ At("init", "session") /\ session' = NewSession /\ End
    /\ UNCHANGED <<docs, edits, files, context, notes, seed, bundles, manifests, project>>

-----------------------------------------------------------------------------
(* render_guided_questions: the notes, then their entry in the session. *)

WriteNotes ==
    /\ At("guided", "start") /\ notes' = TRUE /\ Step("record")
    /\ UNCHANGED <<docs, edits, files, context, session, seed, bundles, manifests, project>>
RecordNotes ==
    /\ At("guided", "record")
    /\ session' = [session EXCEPT !.artifacts = @ \cup {NotesArtifact}, !.stage = Question[docs]]
    /\ End
    /\ UNCHANGED <<docs, edits, files, context, notes, seed, bundles, manifests, project>>

(* validate_upstream_surveys marks the four design steps as reviewed, in   *)
(* its own right and at the start of every tool that depends on them.      *)
Reviewed == [session EXCEPT !.design = "reviewed"]
Validate ==
    /\ At("validate", "start") /\ End
    /\ session' = IF Accepted[docs] THEN Reviewed ELSE session
    /\ UNCHANGED <<docs, edits, files, context, notes, seed, bundles, manifests, project>>

-----------------------------------------------------------------------------
(* render_seed_from_surveys. A draft and a final seed go to one file and   *)
(* are recorded alike.                                                     *)

(* Mutant: the seed is recorded before it is written. *)
RecordingValidateForSeed ==
    /\ At("seed", "start")
    /\ session' = IF Accepted[docs] THEN Reviewed ELSE session
    /\ IF docs \in Seedable /\ (tool.draft \/ Approved(docs)) THEN Step("record") ELSE End
    /\ UNCHANGED <<docs, edits, files, context, notes, seed, bundles, manifests, project>>
ValidateForSeed ==
    /\ At("seed", "start")
    /\ session' = IF Accepted[docs] THEN Reviewed ELSE session
    /\ IF docs \in Seedable /\ (tool.draft \/ Approved(docs)) THEN Step("write") ELSE End
    /\ UNCHANGED <<docs, edits, files, context, notes, seed, bundles, manifests, project>>
WriteSeed ==
    /\ At("seed", "write")
    /\ seed' = [docs |-> docs, draft |-> tool.draft]
    /\ Step("record")
    /\ UNCHANGED <<docs, edits, files, context, session, notes, bundles, manifests, project>>
RecordSeed ==
    /\ At("seed", "record") /\ End
    /\ session' = [session EXCEPT !.artifacts = @ \cup {SeedArtifact}, !.stage = "seed_design",
                                  !.status = "needs_review", !.seed_design = "generated"]
    /\ UNCHANGED <<docs, edits, files, context, notes, seed, bundles, manifests, project>>

-----------------------------------------------------------------------------
(* render_codesys_applications: one bundle for each top-level subsystem.   *)
(* Every run takes the subsystems in one order, that of their ids.         *)
FirstOf(roots) == CHOOSE root \in roots : TRUE
Begin(roots) ==
    [name |-> "plc", step |-> "statusflow", root |-> FirstOf(roots),
     rest |-> roots \ {FirstOf(roots)}, done |-> {}]

ValidateForPlc ==
    /\ At("plc", "start")
    /\ session' = IF Accepted[docs] THEN Reviewed ELSE session
    /\ IF docs \in Reviewable /\ Generatable(Model[docs], Fsms[docs]) /\ seed # NoSeed
       THEN tool' = Begin(AppRoots[docs])
       ELSE End
    /\ UNCHANGED <<docs, edits, files, context, notes, seed, bundles, manifests, project>>

(* The step of an application, if its rule accepts; the run ends if not. *)
CurrentPart == [docs |-> docs, seed |-> seed.docs, root |-> tool.root]
CurrentBundle == bundles[Component(docs, tool.root)]
PlcStep(step, next, bundle) ==
    /\ At("plc", step)
    /\ IF Checks[docs][seed.docs][tool.root][step]
       THEN Step(next) /\ bundles' = [bundles EXCEPT ![Component(docs, tool.root)] = bundle]
       ELSE End /\ UNCHANGED bundles
OnlyBundles == UNCHANGED <<docs, edits, files, context, session, notes, seed, manifests, project>>

(* render_statusflow_templates writes Main and its rule engine, and a      *)
(* facade that is still to be rendered.                                    *)
RenderStatusflow ==
    /\ PlcStep("statusflow", "record",
               [CurrentBundle EXCEPT !.main = CurrentPart, !.facade = NoPart])
    /\ OnlyBundles
RecordStatusflow ==
    /\ At("plc", "record") /\ Step("catalog")
    /\ session' = [session EXCEPT !.artifacts = @ \cup {Component(docs, tool.root)},
                                  !.stage = "plc_design", !.status = "needs_review",
                                  !.plc_design = "generated"]
    /\ UNCHANGED <<docs, edits, files, context, notes, seed, bundles, manifests, project>>
(* render_device_catalog_from_seed; it records the component again.        *)
RenderCatalog ==
    /\ PlcStep("catalog", "mapper", [CurrentBundle EXCEPT !.facade = CurrentPart])
    /\ OnlyBundles
(* render_live_parameter_mapper                                            *)
RenderMapper ==
    /\ PlcStep("mapper", "controllers", [CurrentBundle EXCEPT !.mapper = CurrentPart])
    /\ OnlyBundles
(* The controllers of the subsystems, and their lines in facade and Main.  *)
RenderControllers ==
    /\ PlcStep("controllers", "manifest", [CurrentBundle EXCEPT !.controllers = CurrentPart])
    /\ OnlyBundles
WriteManifest ==
    /\ At("plc", "manifest")
    /\ IF Checks[docs][seed.docs][tool.root].manifest
       THEN /\ manifests' = [manifests EXCEPT ![AppId(docs, tool.root)] = CurrentPart]
            /\ LET done == tool.done \cup {tool.root}
                   root == FirstOf(tool.rest)
               IN tool' = IF tool.rest = {} THEN [tool EXCEPT !.step = "project", !.done = done]
                          ELSE [tool EXCEPT !.step = "statusflow", !.root = root,
                                            !.rest = @ \ {root}, !.done = done]
       ELSE End /\ UNCHANGED manifests
    /\ UNCHANGED <<docs, edits, files, context, session, notes, seed, bundles, project>>
(* Mutant: the application ids are not compared. *)
UncheckedWriteProject ==
    /\ At("plc", "project") /\ End
    /\ project' = {[app |-> AppId(docs, r), root |-> r, docs |-> docs] : r \in tool.done}
    /\ UNCHANGED <<docs, edits, files, context, session, notes, seed, bundles, manifests>>
(* Only now are the application ids compared. *)
WriteProject ==
    /\ At("plc", "project") /\ End
    /\ project' = IF \A r, q \in tool.done : AppId(docs, r) = AppId(docs, q) => r = q
                  THEN {[app |-> AppId(docs, r), root |-> r, docs |-> docs] : r \in tool.done}
                  ELSE project
    /\ UNCHANGED <<docs, edits, files, context, session, notes, seed, bundles, manifests>>

Next ==
    \/ Edit \/ Start \/ Crash
    \/ WriteSurveys \/ WriteContext \/ WriteSession
    \/ WriteNotes \/ RecordNotes \/ Validate
    \/ ValidateForSeed \/ WriteSeed \/ RecordSeed
    \/ ValidateForPlc \/ RenderStatusflow \/ RecordStatusflow \/ RenderCatalog
    \/ RenderMapper \/ RenderControllers \/ WriteManifest \/ WriteProject

Spec == Init /\ [][Next]_vars

-----------------------------------------------------------------------------
(* A session that can be resumed has all its files: init_session leaves a  *)
(* session it finds alone, so a run that dies half-way must not look like  *)
(* one that is finished.                                                   *)
SessionIsComplete == session # NoSession => files = "all" /\ context

(* What session.json names exists, wherever a tool gave up or died: it is  *)
(* recorded after it is written, and nothing is taken away.                *)
RecordedIsWritten == session # NoSession => \A a \in session.artifacts : Exists(a)

(* When the project manifest is written, each bundle it lists is complete, *)
(* all of it of this run, and of the subsystem the manifest names: no part *)
(* of it is left from a run that failed, or from another subsystem.        *)
ManifestDescribesBundles ==
    [][project' # project => \A row \in project' :
         LET b == bundles[<<row.app, row.root>>]
         IN {b.main, b.facade, b.mapper, b.controllers, manifests[row.app]}
              = {[docs |-> docs, seed |-> seed.docs, root |-> row.root]}]_vars

(* A seed passes the validation of its transports, which is a tool of its  *)
(* own that a session need not run. Two kinds of surveys are accepted and  *)
(* give a seed that tool rejects, and are excepted: a gateway that is a    *)
(* member for another purpose than DgmpEdgeGateway, and domains that list  *)
(* devices only, which leave the seed without a request.                   *)
StandardPurpose(m) ==
    \A g \in Range(Gateways(m)) : g.gateway_member_purpose_enum_id \in {Blank, "DgmpEdgeGateway"}
Exchanging(m) == \E d \in Range(m.domains) : d.signals # {}
SeedIsProjectable ==
    seed # NoSeed /\ StandardPurpose(Model[seed.docs]) /\ Exchanging(Model[seed.docs])
        => validate_transport_projection(SeedTable[seed.docs])

(* The broker's write of a live parameter goes to the controller whose     *)
(* application maps the parameter, and to no other, when the project is    *)
(* generated from the surveys of its seed: the seed finds the controller   *)
(* by the supervisor of the device's system, the mapper the parameter by   *)
(* the tree of DeviceGroups.                                               *)
Maps(row, parameter) ==
    LET b == bundles[<<row.app, row.root>>]
        s == SeedTable[b.mapper.seed]
        scope == ScopeOf(row.root)
    IN /\ parameter \in Ids(Model[b.mapper.docs].live_parameters, "parameter_id")
       /\ DeviceOf(Model[b.mapper.seed], parameter).device \in subtree_device_ids(s, scope)
LiveWritesAreMapped ==
    [][project' # project /\ seed.docs = docs => \A item \in LiveItems(Model[docs], Fsms[docs]) :
         {row \in project' : Maps(row, item.parameter)}
           = {row \in project' :
                row.app = First(Model[docs].controllers, "controller_device_id", item.device).application_id}
         ]_vars
=============================================================================
