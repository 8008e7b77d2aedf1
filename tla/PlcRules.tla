------------------------------ MODULE PlcRules ------------------------------
(* The PLC code of an application, generated from the seed and the FSM     *)
(* surveys (render_statusflow_templates.py, render_device_catalog_from_    *)
(* seed.py, render_live_parameter_mapper.py, render_codesys_applications.  *)
(* py): what the generators require, declare and assign, and the program   *)
(* they write. m, fsms are the surveys; s is a seed; root is the top-level *)
(* subsystem of an application, scope its DeviceGroup in the seed.         *)
(*                                                                         *)
(* Of a generated text the fields of dev it declares and assigns are kept, *)
(* and its branches. IEC types, comments and the arguments of a function   *)
(* block that no other generated line refers to are left out.              *)
EXTENDS SeedRules, SequencesExt

Separators == {"_", "-", " "}
to_lower_camel(name) ==
    LET words == Kept(name, Range(name) \ Separators)
    IN IF words = <<>> THEN <<"value">> ELSE words
(* The field of a device: from its name, or else from its id.              *)
logical_device_name(d) == IF d.name = <<>> THEN <<d.id>> ELSE to_lower_camel(d.name)
device_field_name(row) ==
    IF row.physical_device_name = <<>> THEN <<row.device_id>>
    ELSE to_lower_camel(row.physical_device_name)

(* The devices below scope, itself included. *)
subtree_device_ids(s, scope) ==
    LET reach[n \in 0..Cardinality(s.devices)] ==
            IF n = 0 THEN {scope}
            ELSE LET above == reach[n - 1]
                 IN above \cup {d.id : d \in {x \in s.devices : x.parent \in above}}
    IN reach[Cardinality(s.devices)]
ScopeOf(root) == subsystem_group_device_id(root)

-----------------------------------------------------------------------------
(* Status flows, as the generators read them back from the seed. *)

ItemsOf(s, flow) == UNION {f.items : f \in {x \in s.flows : x.flow = flow}}
TransitionsOf(s, flow) == UNION {f.transitions : f \in {x \in s.flows : x.flow = flow}}
Enum(item) == to_lower_camel(item.name)
request_field_name(item) == Append(Enum(item), "request")
faultRequest == <<"fault", "request">>
(* Rows in the order of a number that no two of them share.                *)
Ordered(rows, key) ==
    LET place(row) == Cardinality({other \in rows : other[key] <= row[key]})
    IN [n \in 1..Cardinality(rows) |-> CHOOSE row \in rows : place(row) = n]
(* The transitions from a status, in the order of their sequence.          *)
Outgoing(s, flow, status) ==
    Ordered({t \in TransitionsOf(s, flow) : t.from = status}, "sequence")
parse_statusflow(s, flow) ==
    LET items == ItemsOf(s, flow)
    IN /\ items # {}
       /\ \A i, j \in items : Enum(i) = Enum(j) => i.status = j.status
       /\ Cardinality({i \in items : i.initial}) = 1
       /\ \A t \in TransitionsOf(s, flow) :
            /\ t.from \in {i.status : i \in items}
            /\ t.to \in {i.status : i \in ItemsOf(s, t.toFlow)}
InitialOf(s, flow) == (CHOOSE i \in ItemsOf(s, flow) : i.initial).status

(* The reviewed fault state, or else one that is named like one.           *)
choose_fault_state(f, items) ==
    LET named(enum) == {i \in items : Enum(i) = enum}
        preferred == SelectSeq(<<<<"fault">>, <<"error", "stop">>, <<"emergency", "stop">>>>,
                               LAMBDA enum : named(enum) # {})
    IN IF f.fault_status_id # Blank THEN f.fault_status_id
       ELSE IF preferred = <<>> THEN Blank
       ELSE (CHOOSE i \in named(preferred[1]) : TRUE).status
FaultCondition(f) ==
    IF f.fault_condition # <<>> THEN f.fault_condition ELSE <<"error", "or", "stop">>

-----------------------------------------------------------------------------
(* Output functions: the assignments of a state. *)

Assignment(target, value) == [target |-> target, expression |-> value]
(* Mutant: only the request of the wanted direction is given. *)
one_sided_control_assignments(row, enabled) ==
    LET field == device_field_name(row)
    IN CASE row.logical_model = "Actuator" ->
              {Assignment(field \o <<IF enabled THEN "enable" ELSE "disable", "request">>, "TRUE")}
         [] row.logical_model = "ProcessPid" ->
              {Assignment(Append(field, "enable"), IF enabled THEN "TRUE" ELSE "FALSE")}
         [] OTHER -> {}
device_control_assignments(row, enabled) ==
    LET field == device_field_name(row)
        value == IF enabled THEN "TRUE" ELSE "FALSE"
        inverse == IF enabled THEN "FALSE" ELSE "TRUE"
    IN CASE row.logical_model = "Actuator" ->
              {Assignment(field \o <<"enable", "request">>, value),
               Assignment(field \o <<"disable", "request">>, inverse)}
         [] row.logical_model = "ActuatorGroup" ->
              {Assignment(field \o <<"group", "enable">>, value),
               Assignment(field \o <<"group", "disable">>, inverse)}
         [] row.logical_model = "ProcessPid" -> {Assignment(Append(field, "enable"), value)}
         [] row.logical_model = "Axis" -> {Assignment(field \o <<"axis", "enable">>, value)}
         [] row.logical_model = "AxisGroup" -> {Assignment(field \o <<"group", "enable">>, value)}
         [] OTHER -> {}

(* A reference to a subsystem stands for the devices of its whole tree.    *)
devices_in_subsystem(m, subsystem) ==
    {d \in Range(m.devices) :
        \E n \in 0..Len(m.system_tree) : Ancestors(m, d.parent_subsystem_id)[n] = subsystem}
Selected(groups, devices, m) ==
    {d \in Range(m.devices) : d.device_id \in devices}
    \cup UNION {IF ref \in Ids(m.system_tree, "subsystem_id") THEN devices_in_subsystem(m, ref)
                ELSE {d \in Range(m.devices) : d.device_id = ref} : ref \in groups}
Activated(state, m) == Selected(state.activate, state.activate_devices, m)
Deactivated(state, m) == Selected(state.deactivate, state.deactivate_devices, m)
(* Later lines win: request flags over devices, deactivations over         *)
(* activations, explicit assignments over all.                             *)
Overlay(later, earlier) ==
    later \cup {r \in earlier : r.target \notin {x.target : x \in later}}
render_output_assignments(state, m) ==
    LET switched(devices, requestFlags, enabled) ==
            Overlay({Assignment(flag, IF enabled THEN "TRUE" ELSE "FALSE") : flag \in requestFlags},
                    UNION {device_control_assignments(d, enabled) : d \in devices})
    IN Overlay(state.output_assignments,
               Overlay(switched(Deactivated(state, m), state.deactivate_flags, FALSE),
                       switched(Activated(state, m), state.activate_flags, TRUE)))
(* There is no generic way to enable a SignalMgmt. *)
OutputsRenderable(f, m) ==
    \A state \in Range(f.states) : \A d \in Activated(state, m) \cup Deactivated(state, m) :
        d.logical_model # "SignalMgmt"

-----------------------------------------------------------------------------
(* The supervisor: Main consumes the requests its rule engine asserts. The *)
(* topology comes from the seed, conditions and assignments from the       *)
(* surveys. For a pair of statuses Main looks at the first transition the  *)
(* surveys have, the rule engine at the last.                              *)

SurveyTransitions(f, t) ==
    Select(f.transitions, LAMBDA r : r.from_status_id = t.from /\ r.to_status_id = t.to)
Placeholder == <<"__COND_">>
ItemOfStatus(s, flow, status) == CHOOSE i \in ItemsOf(s, flow) : i.status = status

render_main_fsm_blocks(s, f) ==
    LET flow == f.status_flow_id
        branch(t) ==
            IF t.toFlow = flow
            THEN [guard |-> <<"dev">> \o request_field_name(ItemOfStatus(s, flow, t.to)),
                  to |-> t.to, apply |-> {}]
            ELSE LET first == Head(SurveyTransitions(f, t))
                 IN [guard |-> first.consume_condition, to |-> Blank,
                     apply |-> first.apply_assignments]
    IN [status \in {i.status : i \in ItemsOf(s, flow)} |->
          LET out == Outgoing(s, flow, status) IN [n \in DOMAIN out |-> branch(out[n])]]
render_state_transition_cases(s, f) ==
    LET flow == f.status_flow_id
        branch(t) ==
            LET rows == SurveyTransitions(f, t)
                request == Assignment(request_field_name(ItemOfStatus(s, flow, t.to)), "TRUE")
            IN IF rows = <<>> THEN [condition |-> Placeholder, sets |-> {request}]
               ELSE [condition |-> Last(rows).condition,
                     sets |-> IF Last(rows).request_assignments # {}
                              THEN Last(rows).request_assignments ELSE {request}]
    IN [status \in {i.status : i \in ItemsOf(s, flow)} |->
          LET out == Outgoing(s, flow, status) IN [n \in DOMAIN out |-> branch(out[n])]]
(* A transition into another flow says what it asserts and what it does.   *)
CrossFlowComplete(s, f) ==
    \A t \in {x \in TransitionsOf(s, f.status_flow_id) : x.toFlow # f.status_flow_id} :
        LET rows == SurveyTransitions(f, t)
        IN /\ rows # <<>>
           /\ Head(rows).consume_condition # <<>> /\ Head(rows).apply_assignments # {}
           /\ Last(rows).request_assignments # {}

(* The states of the seed are looked up in the surveys, and the reviewed   *)
(* fault state in the seed.                                                *)
StatusflowRenders(s, m, f) ==
    LET statuses == {i.status : i \in ItemsOf(s, f.status_flow_id)}
    IN /\ parse_statusflow(s, f.status_flow_id)
       /\ statuses \subseteq Ids(f.states, "status_id")
       /\ f.fault_status_id \in statuses \cup {Blank}
       /\ OutputsRenderable(f, m) /\ CrossFlowComplete(s, f)

-----------------------------------------------------------------------------
(* The device catalog of the subtree of scope. *)

Kind(d) == IF d.type \in LibraryModels THEN d.type ELSE Blank
AtomicDevices(s, scope) ==
    {d \in s.devices : d.id \in subtree_device_ids(s, scope) \ {scope} /\ Kind(d) # Blank}
AtomicFields(d) ==
    LET suffixes ==
            CASE Kind(d) = "Actuator" ->
                   {<<>>, <<"enable", "request">>, <<"disable", "request">>, <<"ref">>,
                    <<"feedback">>, <<"enabled", "sensor">>, <<"disabled", "sensor">>}
              [] Kind(d) = "ActuatorGroup" ->
                   {<<>>, <<"group", "enable">>, <<"group", "disable">>, <<"demand", "setpoint">>}
              [] Kind(d) = "ProcessPid" -> {<<>>, <<"enable">>, <<"reset">>, <<"gain">>}
              [] Kind(d) = "Axis" -> {<<>>, <<"axis", "enable">>, <<"velocity">>, <<"reset">>}
              [] Kind(d) = "AxisGroup" -> {<<>>, <<"group", "enable">>, <<"velocity">>, <<"reset">>}
              [] OTHER -> {<<>>, <<"code">>, <<"reset">>}
        fields == {logical_device_name(d) \o suffix : suffix \in suffixes}
    IN IF Kind(d) = "SignalMgmt" THEN fields \ {<<"signal", "mgmt">>} ELSE fields
render_atomic_device_blocks(s, scope) == UNION {AtomicFields(d) : d \in AtomicDevices(s, scope)}

field_name_for_parameter(s, scope, p) ==
    IF p.device = scope THEN to_lower_camel(p.name)
    ELSE logical_device_name(CHOOSE d \in s.devices : d.id = p.device) \o to_lower_camel(p.name)
(* Fields the atomic blocks declare are not declared a second time.        *)
DeclaredParameters(s, scope) ==
    {p \in s.parameters :
        /\ p.device \in subtree_device_ids(s, scope)
        /\ field_name_for_parameter(s, scope, p) \notin render_atomic_device_blocks(s, scope)}

request_direction(type) ==
    CASE type = "DrtWrite" -> "output"
      [] type \in {"DrtRead", "DrtCyclic", "DrtSubscribe"} -> "input"
      [] OTHER -> Blank
IoItems(s, scope) ==
    {i \in s.items : i.device \in subtree_device_ids(s, scope) /\ request_direction(i.type) # Blank}

validate_seed_graph(s, scope) ==
    /\ scope \in {d.id : d \in s.devices}
    /\ \A d \in s.devices : d.id = scope /\ d.flow # Blank =>
         Cardinality({i \in ItemsOf(s, d.flow) : i.initial}) = 1
    /\ \A p \in s.parameters : p.device \in {d.id : d \in s.devices}
    /\ \A r \in s.requests : r.device \in {d.id : d \in s.devices}
    /\ \A i \in s.items : /\ i.request \in {r.name : r \in s.requests}
                          /\ i.parameter \in {p.id : p \in s.parameters}
(* After normalisation no two devices, no two parameters and no two items  *)
(* of requests have one name. Items that differ in nothing but the request *)
(* that carries them collide too.                                          *)
CatalogRenders(s, scope) ==
    /\ validate_seed_graph(s, scope)
    /\ \A d, e \in AtomicDevices(s, scope) :
         logical_device_name(d) = logical_device_name(e) => d = e
    /\ \A p, q \in DeclaredParameters(s, scope) :
         field_name_for_parameter(s, scope, p) = field_name_for_parameter(s, scope, q) => p = q
    /\ \A i, j \in IoItems(s, scope) : to_lower_camel(i.name) = to_lower_camel(j.name) => i = j

(* Alarms of devices of one kind share a code. *)
render_blocking_device_signal_rules(s, scope) ==
    LET code == [Actuator |-> 100, ProcessPid |-> 110, ActuatorGroup |-> 120, Axis |-> 130,
                 AxisGroup |-> 140, SignalMgmt |-> 150]
    IN {[code |-> code[Kind(d)], device |-> d.id] : d \in AtomicDevices(s, scope)}

(* The approved live parameters of the subtree; the others are skipped,    *)
(* but their keys too must fit into a text of the program. Every type a    *)
(* parameter of the seed can have is supported.                            *)
MapperRenders(s, scope, m) ==
    /\ scope \in {d.id : d \in s.devices}
    /\ \A r \in Rows(m.live_parameters, LAMBDA x : x.parameter_id # Blank) : r.quotable
render_mapper(s, scope, m) ==
    {field_name_for_parameter(s, scope, p) :
        p \in {x \in s.parameters : /\ x.id \in Ids(m.live_parameters, "parameter_id")
                                    /\ x.device \in subtree_device_ids(s, scope)}}

-----------------------------------------------------------------------------
(* The application: the supervisor of root and the controllers of the      *)
(* subsystems below it, called in the order of call_sequence.              *)

top_level_subsystem(m, f) == TopLevel(m, f.owner_subsystem_id)
Roots(m, fsms) == {top_level_subsystem(m, f) : f \in Range(fsms)}
OwnFsms(m, fsms, root) == {f \in Range(fsms) : top_level_subsystem(m, f) = root}
Supervisors(m, fsms, root) == {f \in OwnFsms(m, fsms, root) : f.owner_subsystem_id = root}
Supervisor(m, fsms, root) == CHOOSE f \in Supervisors(m, fsms, root) : TRUE
Subsystems(m, fsms, root) ==
    Ordered(OwnFsms(m, fsms, root) \ Supervisors(m, fsms, root), "call_sequence")
ApplicationAccepted(m, fsms, root) ==
    LET subsystems == OwnFsms(m, fsms, root) \ Supervisors(m, fsms, root)
    IN /\ Cardinality(Supervisors(m, fsms, root)) = 1
       /\ Cardinality({f.application_id : f \in OwnFsms(m, fsms, root)}) = 1
       /\ \A f, g \in subsystems : f.call_sequence = g.call_sequence => f = g
application_id(m, fsms, root) == Supervisor(m, fsms, root).application_id

subsystem_status_names(f) ==
    [field |-> <<f.fsm_id, "status">>, last |-> <<f.fsm_id, "last", "status">>]
render_subsystem_case_blocks(s, f) ==
    LET branch(t) ==
            IF t.to_fsm_id \in {Blank, f.fsm_id}
            THEN [guard |-> t.condition, to |-> t.to_status_id, apply |-> {}]
            ELSE [guard |-> t.condition, to |-> Blank, apply |-> t.apply_assignments]
        out(status) == Ordered({t \in Range(f.transitions) : t.from_status_id = status},
                               "precedence")
    IN [status \in {i.status : i \in ItemsOf(s, f.status_flow_id)} |->
          [n \in DOMAIN out(status) |-> branch(out(status)[n])]]
ControllerRenders(s, m, f) ==
    LET statuses == {i.status : i \in ItemsOf(s, f.status_flow_id)}
    IN /\ parse_statusflow(s, f.status_flow_id)
       /\ statuses \subseteq Ids(f.states, "status_id")
       /\ OutputsRenderable(f, m)
       /\ \A t \in {x \in Range(f.transitions) : x.from_status_id \in statuses} :
            IF t.to_fsm_id \in {Blank, f.fsm_id} THEN t.to_status_id \in statuses
            ELSE t.apply_assignments # {}

(* The fields of the finished DeviceFacade, each with the generator that   *)
(* declares it.                                                            *)
DeviceFacade(s, m, fsms, root) ==
    LET scope == ScopeOf(root)
        flow == (CHOOSE d \in s.devices : d.id = scope).flow
        from(origin, fields) == {[origin |-> origin, field |-> field] : field \in fields}
    IN from("template", {<<"status">>, <<"last", "status">>, <<"signal", "mgmt">>})
       \cup from("request", {request_field_name(i) : i \in ItemsOf(s, flow)}
                              \cup {faultRequest, <<"fault", "ack">>})
       \cup from("atomic", render_atomic_device_blocks(s, scope))
       \cup from("parameter", {field_name_for_parameter(s, scope, p) :
                                 p \in DeclaredParameters(s, scope)})
       \cup (UNION {from(f.fsm_id, {p.name : p \in Range(f.predicates)}) :
                      f \in OwnFsms(m, fsms, root)})
       \cup UNION {from(f.fsm_id, Range(subsystem_status_names(f))) :
                     f \in Range(Subsystems(m, fsms, root))}
DeclaredFields(s, m, fsms, root) == {row.field : row \in DeviceFacade(s, m, fsms, root)}

TargetsOf(rows) == {r.target : r \in rows}
AssignedFields(s, m, fsms, root) ==
    LET main == Supervisor(m, fsms, root)
        engine == render_state_transition_cases(s, main)
        blocks == render_main_fsm_blocks(s, main)
        outputs(f) == UNION {TargetsOf(render_output_assignments(state, m)) :
                               state \in Range(f.states)}
        controller(f) == Range(subsystem_status_names(f)) \cup outputs(f)
            \cup UNION {TargetsOf(t.apply_assignments) : t \in Range(f.transitions)}
    IN {request_field_name(i) : i \in ItemsOf(s, main.status_flow_id)} \cup {faultRequest}
       \cup outputs(main)
       \cup (UNION {{p.name : p \in Range(f.predicates)} : f \in OwnFsms(m, fsms, root)})
       \cup (UNION {UNION {TargetsOf(b.sets) : b \in Range(branches)} : branches \in Range(engine)})
       \cup (UNION {UNION {TargetsOf(b.apply) : b \in Range(branches)} : branches \in Range(blocks)})
       \cup UNION {controller(f) : f \in Range(Subsystems(m, fsms, root))}
validate_orchestration_sources(s, m, fsms, root) ==
    /\ \A branches \in Range(render_state_transition_cases(s, Supervisor(m, fsms, root))) :
         \A b \in Range(branches) : b.condition # Placeholder
    /\ AssignedFields(s, m, fsms, root) \subseteq DeclaredFields(s, m, fsms, root)
(* Names of predicates are global to the application. *)
PredicatesUnique(m, fsms, root) ==
    \A f, g \in OwnFsms(m, fsms, root) : f # g =>
        {p.name : p \in Range(f.predicates)} \cap {p.name : p \in Range(g.predicates)} = {}

-----------------------------------------------------------------------------
(* The program of an application, as the controller runs it. *)
ProgramOf(s, m, fsms, root) ==
    LET main == Supervisor(m, fsms, root)
        outputs(f) == [status \in {i.status : i \in ItemsOf(s, f.status_flow_id)} |->
                         render_output_assignments(First(f.states, "status_id", status), m)]
        subsystem(f) ==
            [fsm |-> f.fsm_id, field |-> subsystem_status_names(f).field,
             initial |-> InitialOf(s, f.status_flow_id), enable |-> f.enable_condition,
             predicates |-> Range(f.predicates),
             blocks |-> render_subsystem_case_blocks(s, f), outputs |-> outputs(f)]
        order == Subsystems(m, fsms, root)
    IN [flow |-> main.status_flow_id, initial |-> InitialOf(s, main.status_flow_id),
        requests |-> {request_field_name(i) : i \in ItemsOf(s, main.status_flow_id)},
        fault |-> choose_fault_state(main, ItemsOf(s, main.status_flow_id)),
        faultCondition |-> FaultCondition(main),
        predicates |-> Range(main.predicates),
        engine |-> render_state_transition_cases(s, main),
        blocks |-> render_main_fsm_blocks(s, main),
        outputs |-> outputs(main),
        subsystems |-> [n \in DOMAIN order |-> subsystem(order[n])]]
=============================================================================
