---------------------------- MODULE Engineering ----------------------------
(* From the surveys to the controller: the tools of a design session, the  *)
(* download of an application they have generated, and its scans.          *)
EXTENDS DesignSession

VARIABLES program, scan, facts, mainStatus, subStatus, flags

(* The programs of the applications that can be generated completely, by   *)
(* the versions of surveys and seed and the top-level subsystem.           *)
Complete(checks) ==
    UNION {UNION {{<<d, e, root>> : root \in {r \in DOMAIN checks[d][e] : checks[d][e][r].manifest}} :
                     e \in DOMAIN checks[d]} : d \in DOMAIN checks}
Compiled(ids, seeds, models, fsms) ==
    [id \in ids |-> ProgramOf(seeds[id[2]], models[id[1]], fsms[id[1]], id[3])]
ProgramTable == Compiled(Complete(Checks), SeedTable, Model, Fsms)
Program == ProgramTable[program]
Plc == INSTANCE GeneratedMain

plcVars == <<program, scan, facts, mainStatus, subStatus, flags>>

(* A developer imports a bundle the project manifest lists and whose parts *)
(* belong together: with a part missing or left over it does not compile.  *)
(* The session stays behind; no scan reads it, and its variables go back   *)
(* to their initial values.                                                *)
Import ==
    /\ tool = Idle
    /\ \E row \in project :
         LET b == bundles[<<row.app, row.root>>]
         IN /\ b.main # NoPart
            /\ {b.facade, b.mapper, b.controllers, manifests[row.app]} = {b.main}
            /\ LET id == <<b.main.docs, b.main.seed, b.main.root>>
               IN Plc!Download(id, ProgramTable[id])
    /\ docs' = 1 /\ edits' = 0 /\ files' = "none" /\ context' = FALSE /\ session' = NoSession
    /\ notes' = FALSE /\ seed' = NoSeed /\ bundles' = [c \in Components |-> NoBundle]
    /\ manifests' = [a \in AppIds |-> NoPart] /\ project' = NoProject /\ tool' = Idle

Scan(p) == Plc!ScanInit(p) \/ Plc!ScanRun(p)

EngineeringInit == Init /\ Plc!InitMain
EngineeringNext ==
    \/ program = Plc!NoProgram /\ Next /\ UNCHANGED plcVars
    \/ Import
    \/ Scan(Program) /\ UNCHANGED vars
    \/ Plc!Acknowledge /\ UNCHANGED vars
EngineeringSpec == EngineeringInit /\ [][EngineeringNext]_<<vars, plcVars>>

-----------------------------------------------------------------------------
(* The fields a program or one of its controllers assigns.                 *)
PredicateNames(q) == {r.name : r \in q.predicates}
AppliedIn(blocks, status) ==
    UNION {TargetsOf(b.apply) : b \in Range(Plc!BranchesOf(blocks, status))}
ControllerTargets(c) ==
    PredicateNames(c) \cup (UNION {TargetsOf(c.outputs[q]) : q \in DOMAIN c.outputs})
        \cup UNION {AppliedIn(c.blocks, q) : q \in DOMAIN c.blocks}

(* What the review of the running application says: the FSM of its         *)
(* supervisor in the surveys, whatever was generated from it.              *)

ReviewedFsm(id) == Supervisor(Model[id[1]], Fsms[id[1]], id[3])
(* The fields a condition can read in a scan: those of the scan before,    *)
(* without the requests, with the predicates computed anew.                *)
Readable(p, f) ==
    Plc!Computed(flags \ (p.requests \cup {faultRequest}), Range(f.predicates), facts')
FaultHolds(p, f) == Plc!Holds(FaultCondition(f), facts', Readable(p, f))
OpenTransitions(p, f) ==
    {t \in Range(f.transitions) :
        t.from_status_id = mainStatus /\ Plc!Holds(t.condition, facts', Readable(p, f))}
Own(f, t) == t.to_fsm_id \in {Blank, f.fsm_id}
(* Where the review sends the supervisor: to the fault state it names; or  *)
(* along the transition of highest precedence that is open; or nowhere, if *)
(* none is open or the transition is a subsystem's business.               *)
Along(f, open) ==
    LET taken == CHOOSE t \in open : \A u \in open : t.precedence <= u.precedence
    IN IF open = {} \/ ~ Own(f, taken) THEN mainStatus ELSE taken.to_status_id
ReviewedStatus(p, f) ==
    IF ~ FaultHolds(p, f) THEN Along(f, OpenTransitions(p, f))
    ELSE IF p.fault = Blank THEN mainStatus ELSE p.fault

(* Two transitions between the same two states are accepted, but only the  *)
(* condition of one is generated.                                          *)
OnePerPair(f) ==
    \A t, u \in Range(f.transitions) :
        t.from_status_id = u.from_status_id /\ t.to_status_id = u.to_status_id => t = u

(* What else no tool asks of a survey: requests are assigned by transitions *)
(* only, each transition of the supervisor requests the state it leads to  *)
(* and those to a subsystem request none; only the fault state is called   *)
(* fault; and transitions to subsystems come after the supervisor's own    *)
(* and leave its status to it.                                             *)
RequestOf(f, status) ==
    Append(to_lower_camel(First(f.states, "status_id", status).name), "request")
Disciplined(p, f) ==
    LET requests == p.requests \cup {faultRequest}
        outputs == UNION {TargetsOf(p.outputs[q]) : q \in DOMAIN p.outputs}
        given(t) == {r \in t.request_assignments : r.target \in requests}
    IN /\ OnePerPair(f)
       /\ requests \cap (PredicateNames(p) \cup outputs) = {}
       /\ \A t \in Range(f.transitions) :
            IF Own(f, t)
            THEN \/ t.request_assignments = {}
                 \/ given(t) = {Assignment(RequestOf(f, t.to_status_id), "TRUE")}
            ELSE given(t) = {} /\ <<"status">> \notin TargetsOf(t.apply_assignments)
       /\ \A q \in Ids(f.states, "status_id") : RequestOf(f, q) = faultRequest => q = p.fault
       /\ \A t, u \in Range(f.transitions) :
            t.from_status_id = u.from_status_id /\ Own(f, t) /\ ~ Own(f, u)
              => t.precedence < u.precedence

(* A subsystem may move its supervisor after the supervisor has moved: by  *)
(* a transition of its own from the status it is in, unless controllers    *)
(* assign that status to one another.                                      *)
MovedBySubsystem(p, supervisor) ==
    \E f \in OwnFsms(Model[program[1]], Fsms[program[1]], program[3]) \ {supervisor} :
        LET field == subsystem_status_names(f).field
        IN \E t \in Range(f.transitions) :
            /\ \E r \in t.apply_assignments :
                  r.target = <<"status">> /\ r.expression = mainStatus'
            /\ Plc!Holds(t.condition, facts', {Tail(t.condition)})
            /\ \/ t.from_status_id = subStatus'[field]
               \/ field \in UNION {ControllerTargets(c) : c \in Range(p.subsystems)}

(* Main and its rule engine together do in a scan of Run what the reviewed *)
(* FSM says, no more and no less, if the seed is one of the same surveys   *)
(* and the FSM is disciplined: requests of the scan before, a fault, and   *)
(* the order of the branches of two texts that are generated apart do not  *)
(* get in each other's way.                                                *)
FollowsReview(p, f) ==
    Disciplined(p, f) => mainStatus' = ReviewedStatus(p, f) \/ MovedBySubsystem(p, f)
MainFollowsReview ==
    [][scan' = "Run" /\ program[1] = program[2]
       => FollowsReview(Program, ReviewedFsm(program))]_plcVars

(* The scan that sees a fault already gives the commands of the fault      *)
(* state, except those of fields that are assigned twice in it, or again   *)
(* after it: by a transition Main takes from there, or by a subsystem.     *)
LaterTargets(p) ==
    AppliedIn(p.blocks, p.fault) \cup UNION {ControllerTargets(c) : c \in Range(p.subsystems)}
StopsAtFault(p, f) ==
    p.fault # Blank /\ FaultHolds(p, f)
        => LET rows == Plc!OutputsOf(p.outputs, p.fault)
           IN \A r \in rows :
                \/ r.target \in LaterTargets(p)
                \/ \E x \in rows : x.target = r.target /\ x # r
                \/ r.target \in flags' <=> r.expression = "TRUE"
FaultStopsAtOnce ==
    [][scan' = "Run" => StopsAtFault(Program, ReviewedFsm(program))]_plcVars

(* What assigns a field of dev in a program, other than activation and     *)
(* deactivation of devices: assignments and request flags of the reviewed  *)
(* states and transitions, predicates, and the generated requests.         *)
ByHand(state) == TargetsOf(state.output_assignments) \cup state.activate_flags \cup state.deactivate_flags
StatesOf(s, f) ==
    {First(f.states, "status_id", status) : status \in {i.status : i \in ItemsOf(s, f.status_flow_id)}}
AssignedByHand(p, s, m, fsms, root) ==
    LET states(f) == UNION {ByHand(state) : state \in StatesOf(s, f)}
        engine == UNION {UNION {TargetsOf(b.sets) : b \in Range(p.engine[q])} : q \in DOMAIN p.engine}
        controller(c) == PredicateNames(c) \cup UNION {AppliedIn(c.blocks, q) : q \in DOMAIN c.blocks}
    IN p.requests \cup {faultRequest, Plc!FaultAck} \cup PredicateNames(p) \cup engine
       \cup (UNION {AppliedIn(p.blocks, q) : q \in DOMAIN p.blocks})
       \cup (UNION {controller(c) : c \in Range(p.subsystems)})
       \cup states(Supervisor(m, fsms, root))
       \cup UNION {states(f) : f \in Range(Subsystems(m, fsms, root))}
CommandsOf(field) == {field \o <<"enable", "request">>, field \o <<"disable", "request">>}
(* The actuators of a program that are commanded by activation alone.      *)
Commanded(programs, seeds, models, fsms) ==
    [id \in DOMAIN programs |->
        {field \in {device_field_name(d) :
                      d \in {x \in Range(models[id[1]].devices) : x.logical_model = "Actuator"}} :
            CommandsOf(field) \cap AssignedByHand(programs[id], seeds[id[2]], models[id[1]],
                                                   fsms[id[1]], id[3]) = {}}]
ActuatorFields == Commanded(ProgramTable, SeedTable, Model, Fsms)

(* No such actuator is ever told to start and to stop in one scan,         *)
(* whatever states list it, alone or as a part of a subsystem.             *)
CommandsAgree ==
    program # Plc!NoProgram =>
        \A field \in ActuatorFields[program] : ~ CommandsOf(field) \subseteq flags
=============================================================================
