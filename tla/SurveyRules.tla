---------------------------- MODULE SurveyRules ----------------------------
(* The engineering surveys of a plant and the rules that accept them       *)
(* (survey_validation.py).                                                 *)
(*                                                                         *)
(* A survey file is a record of tables; a table is a sequence of rows; a   *)
(* row has the keys its author filled in, and the loader gives the others  *)
(* their defaults. Blank is the empty text. Texts that are only tested for *)
(* presence share one field (named, described). Letter case is normalised. *)
(* A text that becomes an identifier or an expression of the PLC program   *)
(* is the sequence of its words and separators, an identifier that of its  *)
(* words; an expression that reads a field of dev begins with "dev". A name *)
(* that is namespaced is written as such an expression (dev.<name>).       *)
EXTENDS Integers, Sequences, FiniteSets, Functions, TLC

Blank == ""

IsTable(table) == table \in Seq(Range(table))
(* The keys of a survey that hold a table.                                 *)
Tables ==
    {"controllers", "device_groups", "device_group_members", "device_configs",
     "device_rule_sets", "system_tree", "devices", "signals", "domains", "live_parameters",
     "gateways", "gateway_transports", "plc4j_connections", "fsms", "rules"}

Rows(table, Keep(_)) == {row \in Range(table) : Keep(row)}
(* The rows of a table that are among rows, and those that Keep accepts,   *)
(* in the order of the table.                                              *)
Kept(table, rows) ==
    LET kept[n \in 0..Len(table)] ==
            IF n = 0 THEN <<>>
            ELSE IF table[n] \in rows THEN Append(kept[n - 1], table[n]) ELSE kept[n - 1]
    IN kept[Len(table)]
Select(table, Keep(_)) == Kept(table, Rows(table, Keep))

(* A row as the loader reads it: the keys of the table, with defaults.     *)
Loaded(row, defaults) ==
    [key \in DOMAIN defaults |-> IF key \in DOMAIN row THEN row[key] ELSE defaults[key]]
(* A missing file, key or list reads as empty.                             *)
Table(doc, key, defaults) ==
    IF key \notin DOMAIN doc THEN <<>>
    ELSE [i \in DOMAIN doc[key] |-> Loaded(doc[key][i], defaults)]
Mapping(doc, key, defaults) ==
    IF key \notin DOMAIN doc THEN defaults ELSE Loaded(doc[key], defaults)

(* controller-topology, device-groups, device-config and approval surveys. *)
ControllerRow ==
    [controller_device_id |-> Blank, named |-> FALSE, namespaced |-> FALSE,
     controller_kind |-> Blank, application_id |-> Blank, parent_device_id |-> Blank]
GroupRow == [group_device_id |-> Blank, named |-> FALSE, parent_device_id |-> Blank]
MemberRow ==
    [group_device_id |-> Blank, member_device_id |-> Blank, purpose_enum_id |-> Blank]
ParameterRow ==
    [parameter_id |-> Blank, parameter_def_id |-> Blank, values |-> 0, namespaced |-> FALSE]
ConfigRow ==
    [device_config_id |-> Blank, named |-> FALSE, device_type_enum_id |-> Blank,
     parameters |-> <<>>]
RuleRow ==
    [device_rule_id |-> Blank, named |-> FALSE, device_config_id |-> Blank,
     target_device_id |-> Blank, priority |-> 10, run_device |-> FALSE]
RuleSetRow ==
    [device_rule_set_id |-> Blank, named |-> FALSE, root_device_id |-> Blank,
     rules |-> <<>>]
Approvals ==
    [device_model_approved |-> FALSE, device_groups_approved |-> FALSE,
     seed_generation_approved |-> FALSE, hivemind_project_approved |-> FALSE,
     signed |-> FALSE]

(* system-decomposition, classification, signal and sampling surveys.      *)
ProjectScope == [machine_name |-> Blank, control_objective |-> Blank]
SubsystemRow ==
    [subsystem_id |-> Blank, parent_subsystem_id |-> Blank, described |-> FALSE]
DeviceRow ==
    [device_id |-> Blank, parent_subsystem_id |-> Blank, logical_model |-> Blank,
     physical_device_name |-> <<>>, actuation_feedback_class |-> Blank, actuations |-> 0, feedbacks |-> 0]
SignalRow ==
    [signal_id |-> Blank, device_id |-> Blank, described |-> FALSE,
     signal_name |-> <<>>, direction |-> Blank, iec_type |-> Blank,
     gateway_query |-> Blank, plc4j_query |-> Blank]
DomainRow ==
    [domain_id |-> Blank, described |-> FALSE, controller_device_id |-> Blank,
     transport_projection |-> Blank, devices |-> {}, signals |-> {}]

(* live-parameters, gateway-topology and transport-architecture surveys.   *)
LiveParameterRow ==
    [parameter_id |-> Blank, mqtt_key |-> Blank, quotable |-> TRUE, described |-> FALSE]
GatewayRow ==
    [gateway_device_id |-> Blank, named |-> FALSE, namespaced |-> FALSE,
     gateway_member_purpose_enum_id |-> Blank, rest_base_uri |-> Blank,
     rest_timeout_seconds |-> 30, scoped_subsystem_ids |-> {}, scoped_device_ids |-> {}]
TransportArchitecture ==
    [primary_transport_mode |-> Blank, allows_hybrid_projection |-> FALSE,
     gateway_required |-> FALSE, plc4j_required |-> FALSE,
     default_run_service_name |-> Blank]
GatewayTransportRow ==
    [transport_id |-> Blank, gateway_device_id |-> Blank, protocol |-> Blank,
     broker_uri |-> Blank, connection_name |-> Blank, driver_enum_id |-> Blank,
     transport_enum_id |-> Blank, transport_config |-> Blank, scoped_domain_ids |-> {},
     plc_log_topic |-> Blank, live_parameter_topic |-> Blank,
     supports_plc_logs |-> FALSE, supports_live_parameters |-> FALSE]
ConnectionRow ==
    [connection_name |-> Blank, driver_enum_id |-> Blank, transport_enum_id |-> Blank,
     transport_config |-> Blank, scoped_domain_ids |-> {}]

LoadUpstream(survey) ==
    [machine_device_id |-> Loaded(survey, [machine_device_id |-> Blank]).machine_device_id,
     controllers |-> Table(survey, "controllers", ControllerRow),
     device_groups |-> Table(survey, "device_groups", GroupRow),
     device_group_members |-> Table(survey, "device_group_members", MemberRow),
     device_configs |->
        LET rows == Table(survey, "device_configs", ConfigRow)
        IN [i \in DOMAIN rows |->
              [rows[i] EXCEPT !.parameters = [j \in DOMAIN @ |-> Loaded(@[j], ParameterRow)]]],
     device_rule_sets |->
        LET rows == Table(survey, "device_rule_sets", RuleSetRow)
        IN [i \in DOMAIN rows |->
              [rows[i] EXCEPT !.rules = [j \in DOMAIN @ |-> Loaded(@[j], RuleRow)]]],
     approvals |-> Mapping(survey, "approvals", Approvals),
     project_scope |-> Mapping(survey, "project_scope", ProjectScope),
     system_tree |-> Table(survey, "system_tree", SubsystemRow),
     devices |-> Table(survey, "devices", DeviceRow),
     signals |-> Table(survey, "signals", SignalRow),
     domains |-> Table(survey, "domains", DomainRow),
     live_parameters |-> Table(survey, "live_parameters", LiveParameterRow),
     gateways |-> Table(survey, "gateways", GatewayRow),
     transport_architecture |->
        Mapping(survey, "transport_architecture", TransportArchitecture),
     gateway_transports |-> Table(survey, "gateway_transports", GatewayTransportRow),
     plc4j_connections |-> Table(survey, "plc4j_connections", ConnectionRow)]

(* main-fsm and main-rule-engine surveys.                                  *)
StateRow ==
    [status_id |-> Blank, name |-> <<>>, activate |-> {}, deactivate |-> {},
     activate_devices |-> {}, deactivate_devices |-> {},
     activate_flags |-> {}, deactivate_flags |-> {}, output_assignments |-> {},
     outputs_reviewed |-> FALSE, initial |-> FALSE, sequence |-> 0]
TransitionRow ==
    [from_status_id |-> Blank, to_status_id |-> Blank, to_fsm_id |-> Blank,
     condition |-> <<>>, consume_condition |-> <<>>,
     request_assignments |-> {}, apply_assignments |-> {}, precedence |-> 0]
PredicateRow == [name |-> <<>>, expression |-> <<>>]
FsmRow ==
    [fsm_id |-> Blank, status_flow_id |-> Blank, status_type_id |-> Blank,
     owner_subsystem_id |-> Blank, composition |-> "flat", parent_fsm_id |-> Blank, application_id |-> Blank,
     fault_status_id |-> Blank, call_sequence |-> 0, enable_condition |-> <<"true">>, code_generation_approved |-> FALSE,
     states |-> <<>>, transitions |-> <<>>, predicates |-> <<>>, fault_condition |-> <<>>,
     reset_condition |-> <<>>]
RuleEngineRow ==
    [fsm_id |-> Blank, status_flow_id |-> Blank, transitions |-> <<>>, predicates |-> <<>>,
     fault_condition |-> <<>>, reset_condition |-> <<>>]

(* The rules of an FSM are found by its id, or else by its status flow; of *)
(* several rows with one key the last is taken.                            *)
RulesOf(fsm, rules) ==
    LET key(r) == IF r.fsm_id # Blank THEN r.fsm_id ELSE r.status_flow_id
        At(k) == {i \in DOMAIN rules : key(rules[i]) = k /\ k # Blank}
        Last(S) == rules[CHOOSE i \in S : \A j \in S : j <= i]
    IN CASE At(fsm.fsm_id) # {} -> Last(At(fsm.fsm_id))
         [] At(fsm.fsm_id) = {} /\ At(fsm.status_flow_id) # {} -> Last(At(fsm.status_flow_id))
         [] OTHER -> RuleEngineRow
(* Positions serve as defaults, also for an explicit zero: the first state *)
(* is initial, and rows take effect in the order in which they are written. *)
(* What an FSM does is in its rules, whatever its own row says.            *)
LoadFsm(row, position, rules) ==
    LET numbered(r, key, i) == IF r[key] = 0 THEN [r EXCEPT ![key] = i] ELSE r
        titled(s) == IF s.name = <<>> THEN [s EXCEPT !.name = <<s.status_id>>] ELSE s
        named == IF row.fsm_id # Blank THEN row ELSE [row EXCEPT !.fsm_id = row.status_flow_id]
        ruleRow == RulesOf(named, rules)
    IN [named EXCEPT
          !.status_type_id = IF @ = Blank THEN row.status_flow_id \o "Type" ELSE @,
          !.states = [i \in DOMAIN @ |->
                        numbered(titled(Loaded(@[i], [StateRow EXCEPT !.initial = (i = 1)])),
                                 "sequence", i)],
          !.call_sequence = IF @ = 0 THEN position ELSE @,
          !.transitions = [i \in DOMAIN ruleRow.transitions |->
              numbered(Loaded(ruleRow.transitions[i], TransitionRow), "precedence", i)],
          !.predicates = [i \in DOMAIN ruleRow.predicates |->
              Loaded(ruleRow.predicates[i], PredicateRow)],
          !.fault_condition = ruleRow.fault_condition,
          !.reset_condition = ruleRow.reset_condition]
LoadFsms(survey) ==
    LET rows == Select(Table(survey, "fsms", FsmRow), LAMBDA r :
                    \/ {r.fsm_id, r.status_flow_id, r.owner_subsystem_id} # {Blank}
                    \/ \E s \in Range(r.states) : "status_id" \in DOMAIN s)
        rules == Table(survey, "rules", RuleEngineRow)
    IN [i \in DOMAIN rows |-> LoadFsm(rows[i], i, rules)]

-----------------------------------------------------------------------------
(* Helpers of the rules. *)

Ids(table, key) == {row[key] : row \in Range(table)}
Unique(table, key) == \A i, j \in DOMAIN table : table[i][key] = table[j][key] => i = j
First(table, key, id) ==
    table[CHOOSE i \in DOMAIN table :
            table[i][key] = id /\ \A j \in 1..(i - 1) : table[j][key] # id]

_gateway_row_is_meaningful(row) ==
    row.gateway_device_id # Blank \/ row.named
        \/ row.scoped_subsystem_ids # {} \/ row.scoped_device_ids # {}
_gateway_transport_row_is_meaningful(row) ==
    {row.transport_id, row.gateway_device_id, row.protocol, row.broker_uri,
     row.connection_name, row.transport_config} # {Blank}
_plc4j_connection_row_is_meaningful(row) ==
    \/ {row.connection_name, row.driver_enum_id, row.transport_enum_id,
        row.transport_config} # {Blank}
    \/ row.scoped_domain_ids # {}
_normalize_transport_scope(scope) == IF scope = "hybrid" THEN "both" ELSE scope

Controllers(m) ==
    Select(m.controllers, LAMBDA r : r.controller_device_id # Blank \/ r.named)
Groups(m) == Select(m.device_groups, LAMBDA r : r.group_device_id # Blank \/ r.named)
Members(m) ==
    Rows(m.device_group_members,
         LAMBDA r : r.group_device_id # Blank \/ r.member_device_id # Blank)
Gateways(m) == Select(m.gateways, _gateway_row_is_meaningful)
GatewayTransports(m) == Select(m.gateway_transports, _gateway_transport_row_is_meaningful)
Connections(m) == Select(m.plc4j_connections, _plc4j_connection_row_is_meaningful)
GroupIds(m) == Ids(Groups(m), "group_device_id")
ControllerIds(m) == Ids(Controllers(m), "controller_device_id")
KnownDevices(m) ==
    Ids(m.devices, "device_id") \cup ControllerIds(m) \cup GroupIds(m)
        \cup (Ids(m.gateways, "gateway_device_id") \ {Blank})
(* What a group contains, through the groups it contains.                  *)
GroupScope(m, root) ==
    LET Inside(ids) ==
            {r.member_device_id : r \in {x \in Members(m) : x.group_device_id \in ids}}
        reach[n \in 0..(Len(m.device_groups) + 1)] ==
            IF n = 0 THEN {root}
            ELSE LET outer == reach[n - 1] IN outer \cup Inside(outer \cap GroupIds(m))
    IN reach[Len(m.device_groups) + 1]

-----------------------------------------------------------------------------
(* Rules of validate_upstream_surveys, table by table. The code collects   *)
(* messages and rejects the surveys if there is one; a rule here is what   *)
(* must hold for no message. Device, signal, domain and gateway ids are    *)
(* not required to be unique, parent subsystems not required to exist.     *)

SubsystemsAccepted(m) ==
    /\ m.system_tree # <<>>
    /\ \A s \in Range(m.system_tree) : s.subsystem_id # Blank /\ s.described

ControllersAccepted(m) ==
    LET applications == Select(Controllers(m), LAMBDA r : r.application_id # Blank)
    IN /\ Controllers(m) # <<>>
       /\ \A c \in Range(Controllers(m)) :
            /\ c.controller_device_id # Blank /\ c.named
            /\ c.controller_kind \in {"hardware_cpu", "codesys_application"}
            /\ c.controller_kind = "codesys_application" => c.application_id # Blank
       /\ Unique(Controllers(m), "controller_device_id")
       /\ Unique(applications, "application_id")

DevicesAccepted(m) ==
    /\ m.devices # <<>>
    /\ \A d \in Range(m.devices) :
         /\ d.device_id # Blank
         /\ d.parent_subsystem_id \in Ids(m.system_tree, "subsystem_id")
         /\ d.actuation_feedback_class \in {"DA-DF", "SA-DF", "SA-SAFD", "SA-SDFD", "SA-NO"}
         /\ d.logical_model \in
              {"Actuator", "ActuatorGroup", "ProcessPid", "Axis", "AxisGroup", "SignalMgmt"}
         /\ d.actuations + d.feedbacks > 0

GroupsAccepted(m) ==
    LET roles == {<<r.member_device_id, r.purpose_enum_id>> : r \in Members(m)}
        purpose(g) == IF g.gateway_member_purpose_enum_id = Blank THEN "DgmpEdgeGateway"
                      ELSE g.gateway_member_purpose_enum_id
    IN /\ Groups(m) # <<>>
       /\ \A g \in Range(Groups(m)) :
            /\ g.group_device_id # Blank /\ g.named
            /\ g.parent_device_id \in GroupIds(m) \cup {Blank}
       /\ Unique(Groups(m), "group_device_id")
       /\ m.machine_device_id \in GroupIds(m)
       /\ Ids(Controllers(m), "parent_device_id") \subseteq GroupIds(m)
       /\ \A r \in Members(m) :
            /\ r.group_device_id \in GroupIds(m)
            /\ r.member_device_id \in KnownDevices(m)
            /\ r.purpose_enum_id # Blank
       /\ Ids(m.devices, "device_id") \subseteq {role[1] : role \in roles}
       /\ ControllerIds(m) \X {"DgmpProcessPLC"} \subseteq roles
       /\ \A g \in Rows(m.gateways, LAMBDA x : x.gateway_device_id # Blank) :
            <<g.gateway_device_id, purpose(g)>> \in roles

ConfigsAccepted(m) ==
    LET configs == Select(m.device_configs,
                          LAMBDA r : r.device_config_id # Blank \/ r.named)
        places == UNION {{<<i, j>> : j \in DOMAIN configs[i].parameters} : i \in DOMAIN configs}
        parameter(p) == configs[p[1]].parameters[p[2]]
    IN /\ \A c \in Range(configs) :
            c.device_config_id # Blank /\ c.named /\ c.device_type_enum_id # Blank
       /\ Unique(configs, "device_config_id")
       /\ \A p \in places :
            /\ parameter(p).parameter_id # Blank /\ parameter(p).parameter_def_id # Blank
            /\ parameter(p).values = 1
            /\ \A q \in places :
                 parameter(p).parameter_id = parameter(q).parameter_id => p = q

RuleSetsAccepted(m) ==
    LET ruleSets == Select(m.device_rule_sets,
                           LAMBDA r : r.device_rule_set_id # Blank \/ r.named)
    IN /\ Unique(ruleSets, "device_rule_set_id")
       /\ \A s \in Range(ruleSets) :
            /\ s.device_rule_set_id # Blank /\ s.named
            /\ s.root_device_id \in KnownDevices(m) \ {Blank}
            /\ Unique(s.rules, "priority")
            /\ \A r \in Range(s.rules) :
                 /\ r.device_rule_id # Blank /\ r.named
                 /\ r.device_config_id \in Ids(m.device_configs, "device_config_id") \ {Blank}
                 /\ r.target_device_id \in GroupScope(m, s.root_device_id)

SignalsAccepted(m) ==
    /\ m.signals # <<>>
    /\ \A s \in Range(m.signals) :
         /\ s.signal_id # Blank /\ s.described
         /\ s.device_id \in Ids(m.devices, "device_id")
         /\ s.direction \in {"input", "output"}
         /\ s.iec_type \in {"BOOL", "BYTE", "WORD", "DWORD", "LWORD", "INT", "UINT", "DINT",
                            "UDINT", "REAL", "LREAL", "TIME", "STRING"}

DomainsAccepted(m) ==
    /\ m.domains # <<>>
    /\ \A d \in Range(m.domains) :
         /\ d.domain_id # Blank /\ d.described
         /\ d.controller_device_id \in ControllerIds(m)
         /\ d.devices \cup d.signals # {}
         /\ d.devices \subseteq Ids(m.devices, "device_id")
         /\ d.signals \subseteq Ids(m.signals, "signal_id")

LiveRows(m) ==
    Select(m.live_parameters,
           LAMBDA r : r.parameter_id # Blank \/ r.mqtt_key # Blank \/ r.described)
LiveParametersAccepted(m) ==
    /\ \A r \in Range(LiveRows(m)) : r.parameter_id # Blank /\ r.mqtt_key # Blank
    /\ Unique(LiveRows(m), "parameter_id") /\ Unique(LiveRows(m), "mqtt_key")
    /\ Ids(LiveRows(m), "mqtt_key") \cap
         {"parameterId", "numericValue", "symbolicValue", "parameterEnumId"} = {}

GatewaysAccepted(m) ==
    \A g \in Range(Gateways(m)) :
        /\ g.gateway_device_id # Blank /\ g.named
        /\ g.scoped_subsystem_ids \cup g.scoped_device_ids # {}
        /\ g.scoped_subsystem_ids \subseteq Ids(m.system_tree, "subsystem_id")
        /\ g.scoped_device_ids \subseteq Ids(m.devices, "device_id")

ArchitectureAccepted(m) ==
    LET t == m.transport_architecture
    IN /\ t.primary_transport_mode \in {"gateway", "plc4j", "hybrid"}
       /\ t.gateway_required \/ t.plc4j_required
       /\ t.primary_transport_mode = "gateway" => t.gateway_required
       /\ t.primary_transport_mode = "plc4j" => t.plc4j_required
       /\ t.primary_transport_mode = "hybrid" =>
            t.allows_hybrid_projection /\ t.gateway_required /\ t.plc4j_required
       /\ t.plc4j_required => t.default_run_service_name = "run#Plc4jRequest"
       /\ t.gateway_required => Gateways(m) # <<>>
       /\ \A g \in Range(Gateways(m)) : g.rest_base_uri # Blank /\ g.rest_timeout_seconds > 0

(* Which transports serve a domain. *)
GatewayScoped(m, domain) ==
    \/ m.transport_architecture.primary_transport_mode = "gateway"
    \/ _normalize_transport_scope(domain.transport_projection) \in {"gateway", "both"}
Plc4jScoped(m, domain) ==
    \/ m.transport_architecture.primary_transport_mode = "plc4j"
    \/ _normalize_transport_scope(domain.transport_projection) \in {"plc4j", "both"}
TransportsOf(m, domain) ==
    Select(GatewayTransports(m), LAMBDA t : domain.domain_id \in t.scoped_domain_ids)
ConnectionsOf(m, domain) ==
    {c \in Range(Connections(m)) :
        c.scoped_domain_ids = {} \/ domain.domain_id \in c.scoped_domain_ids}

GatewayTransportsAccepted(m) ==
    LET t == m.transport_architecture
        Supporting(kind) == Select(GatewayTransports(m), LAMBDA r : r[kind])
    IN /\ t.gateway_required => GatewayTransports(m) # <<>>
       /\ \A r \in Range(GatewayTransports(m)) :
            /\ r.transport_id # Blank /\ r.protocol \in {"mqtt", "opcua"}
            /\ r.gateway_device_id \in Ids(Gateways(m), "gateway_device_id") \ {Blank}
            /\ r.scoped_domain_ids # {} \/ r.supports_plc_logs \/ r.supports_live_parameters
            /\ r.protocol = "mqtt" => r.broker_uri # Blank
            /\ r.protocol = "opcua" =>
                 /\ r.connection_name # Blank /\ r.transport_config # Blank
                 /\ r.driver_enum_id \in {Blank, "DcdOpcUa"}
            /\ r.supports_plc_logs => r.protocol = "mqtt" /\ r.plc_log_topic # Blank
            /\ r.supports_live_parameters =>
                 r.protocol = "mqtt" /\ r.live_parameter_topic # Blank
            /\ r.scoped_domain_ids \subseteq Ids(m.domains, "domain_id")
       /\ \A d \in Range(m.domains) :
            t.gateway_required /\ GatewayScoped(m, d) => Len(TransportsOf(m, d)) = 1
       /\ LiveRows(m) # <<>> =>
            Len(Supporting("supports_live_parameters")) = 1 /\ t.gateway_required
       /\ Len(Supporting("supports_plc_logs")) <= 1

ConnectionsAccepted(m) ==
    /\ m.transport_architecture.plc4j_required => Connections(m) # <<>>
    /\ \A c \in Range(Connections(m)) :
         /\ c.connection_name # Blank /\ c.driver_enum_id # Blank /\ c.transport_config # Blank
         /\ c.driver_enum_id # "DcdSimulated" => c.transport_enum_id # Blank
         /\ c.scoped_domain_ids \subseteq Ids(m.domains, "domain_id")

DomainScopesAccepted(m) ==
    LET mode == m.transport_architecture.primary_transport_mode
        Queried(d, query) ==
            \A id \in d.signals \cap Ids(m.signals, "signal_id") :
                First(m.signals, "signal_id", id)[query] # Blank
    IN \A d \in Range(m.domains) :
        LET scope == _normalize_transport_scope(d.transport_projection)
        IN /\ scope \in {Blank, "gateway", "plc4j", "both"}
           /\ mode = "gateway" => scope \notin {"plc4j", "both"}
           /\ mode = "plc4j" => scope \notin {"gateway", "both"}
           /\ mode = "hybrid" => scope # Blank
           /\ GatewayScoped(m, d) => Queried(d, "gateway_query")
           /\ Plc4jScoped(m, d) => ConnectionsOf(m, d) # {} /\ Queried(d, "plc4j_query")

UpstreamAccepted(m) ==
    /\ SubsystemsAccepted(m) /\ ControllersAccepted(m) /\ DevicesAccepted(m)
    /\ GroupsAccepted(m) /\ ConfigsAccepted(m) /\ RuleSetsAccepted(m)
    /\ SignalsAccepted(m) /\ DomainsAccepted(m) /\ LiveParametersAccepted(m)
    /\ GatewaysAccepted(m) /\ ArchitectureAccepted(m) /\ GatewayTransportsAccepted(m)
    /\ ConnectionsAccepted(m) /\ DomainScopesAccepted(m)

-----------------------------------------------------------------------------
(* Rules of validate_fsm_surveys, for the FSMs of a plant with upstream m. *)

AssignmentsComplete(rows) == \A r \in rows : r.target # <<>> /\ r.expression # Blank

(* Identity, owner, states and predicates of one FSM. *)
FsmWellFormed(f, m) ==
    LET devices == Ids(m.devices, "device_id")
        groups == Ids(m.system_tree, "subsystem_id") \cup devices
    IN /\ Blank \notin {f.fsm_id, f.status_flow_id, f.owner_subsystem_id}
       /\ f.owner_subsystem_id \in Ids(m.system_tree, "subsystem_id")
       /\ f.application_id \in Ids(m.controllers, "application_id") \ {Blank}
       /\ f.composition \in {"flat", "nested"}
       /\ f.states # <<>> /\ Blank \notin Ids(f.states, "status_id")
       /\ Unique(f.states, "status_id")
       /\ f.fault_status_id \in Ids(f.states, "status_id") \cup {Blank}
       /\ Cardinality({i \in DOMAIN f.states : f.states[i].initial}) = 1
       /\ \A s \in Range(f.states) :
            /\ s.activate \cup s.deactivate \subseteq groups
            /\ s.activate_devices \cup s.deactivate_devices \subseteq devices
            /\ AssignmentsComplete(s.output_assignments)
       /\ Unique(f.predicates, "name")
       /\ \A p \in Range(f.predicates) : p.name # <<>> /\ p.expression # <<>>

(* The parents of an FSM exist and are not its descendants. *)
ParentsAccepted(f, fsms) ==
    LET parentOf(id) == First(fsms, "fsm_id", id).parent_fsm_id
        ancestor[n \in 0..Len(fsms)] ==
            IF n = 0 THEN f.parent_fsm_id
            ELSE IF ancestor[n - 1] \in Ids(fsms, "fsm_id") THEN parentOf(ancestor[n - 1])
                 ELSE Blank
    IN f.parent_fsm_id # Blank =>
        /\ f.composition = "nested"
        /\ f.parent_fsm_id \in Ids(fsms, "fsm_id")
        /\ ancestor[Len(fsms)] \notin Ids(fsms, "fsm_id")

(* A transition leads from a state of its FSM to a state of the same FSM,  *)
(* or of its parent or child, which must say when it takes the request.    *)
TransitionAccepted(t, f, fsms) ==
    LET targetId == IF t.to_fsm_id = Blank THEN f.fsm_id ELSE t.to_fsm_id
    IN /\ t.from_status_id \in Ids(f.states, "status_id")
       /\ targetId \in Ids(fsms, "fsm_id")
       /\ LET target == First(fsms, "fsm_id", targetId)
          IN /\ t.to_status_id \in Ids(target.states, "status_id")
             /\ targetId # f.fsm_id =>
                  /\ f.fsm_id = target.parent_fsm_id \/ targetId = f.parent_fsm_id
                  /\ t.consume_condition # <<>>
       /\ t.condition # <<>>
       /\ AssignmentsComplete(t.request_assignments \cup t.apply_assignments)

(* Of the transitions from one state no two have the same precedence; two  *)
(* may lead to the same state.                                             *)
PrecedencesDistinct(f) ==
    \A i, j \in DOMAIN f.transitions :
        /\ f.transitions[i].from_status_id = f.transitions[j].from_status_id
        /\ f.transitions[i].precedence = f.transitions[j].precedence
        => i = j

FsmsAccepted(fsms, m) ==
    /\ Unique(fsms, "fsm_id") /\ Unique(fsms, "status_flow_id")
    /\ Unique(fsms, "owner_subsystem_id")
    /\ \A f \in Range(fsms) :
         /\ FsmWellFormed(f, m) /\ ParentsAccepted(f, fsms)
         /\ \A t \in Range(f.transitions) : TransitionAccepted(t, f, fsms)
         /\ PrecedencesDistinct(f)

-----------------------------------------------------------------------------
(* The guided questions (render_guided_questions.py): the stage of the     *)
(* first open question. A device whose class is missing is asked about its *)
(* class only; every question about devices is announced as the stage      *)
(* signal_catalog.                                                         *)

Wiring(class) ==
    CASE class = "DA-DF" -> <<2, 2>>
      [] class = "SA-DF" -> <<1, 2>>
      [] class \in {"SA-SAFD", "SA-SDFD"} -> <<1, 1>>
      [] class = "SA-NO" -> <<1, 0>>
      [] OTHER -> <<0, 0>>
(* The models of the atomic component library.                             *)
LibraryModels == {"Actuator", "ActuatorGroup", "Axis", "AxisGroup", "ProcessPid", "SignalMgmt"}

ScopeOpen(m) == Blank \in {m.project_scope.machine_name, m.project_scope.control_objective}
DeviceOpen(d, m) ==
    LET wiring == Wiring(d.actuation_feedback_class)
    IN /\ d.device_id # Blank
       /\ \/ d.parent_subsystem_id \notin Ids(m.system_tree, "subsystem_id") \ {Blank}
          \/ d.logical_model = Blank \/ d.actuation_feedback_class = Blank
          \/ d.logical_model \in LibraryModels /\ (d.actuations < wiring[1] \/ d.feedbacks < wiring[2])
SignalsOpen(m) ==
    \E d \in Range(m.devices) : d.device_id # Blank /\
        d.device_id \notin {s.device_id : s \in Rows(m.signals, LAMBDA x : x.signal_id # Blank)}
TransportOpen(m) ==
    LET t == m.transport_architecture
    IN \/ t.primary_transport_mode = Blank
       \/ t.gateway_required /\
            \/ Ids(m.gateways, "gateway_device_id") \subseteq {Blank}
            \/ \E g \in Range(m.gateways) : g.gateway_device_id # Blank /\ g.rest_base_uri = Blank
            \/ Ids(m.gateway_transports, "transport_id") \subseteq {Blank}
            \/ Blank \in Ids(m.signals, "gateway_query")
       \/ t.plc4j_required /\ Ids(m.plc4j_connections, "connection_name") \subseteq {Blank}

FirstRowMissing(table, key) == table = <<>> \/ table[1][key] = Blank
build_guided_questions(m) ==
    LET stages ==
            <<<<"system_decomposition", FirstRowMissing(m.system_tree, "subsystem_id")>>,
              <<"device_classification", FirstRowMissing(m.devices, "device_id")>>,
              <<"signal_catalog", ScopeOpen(m) \/ \E d \in Range(m.devices) : DeviceOpen(d, m)>>,
              <<"signal_catalog", FirstRowMissing(m.signals, "signal_id") \/ SignalsOpen(m)>>,
              <<"sampling_design", \/ FirstRowMissing(m.domains, "domain_id")
                                  \/ Blank \in Ids(m.domains, "transport_projection")>>,
              <<"transport_architecture", TransportOpen(m)>>,
              <<"main_fsm", TRUE>>>>
    IN Select(stages, LAMBDA stage : stage[2])[1][1]
=============================================================================
