--------------------------- MODULE MCEngineering ---------------------------
(* The versions of a plant's surveys: what init_session writes, a pump on  *)
(* one controller behind one gateway, and what becomes of it.              *)
EXTENDS Engineering

Template == [machine_device_id |-> Blank]

Controller(id, app, parent) ==
    [controller_device_id |-> id, named |-> TRUE, controller_kind |-> "codesys_application",
     application_id |-> app, parent_device_id |-> parent]
Group(id) == [group_device_id |-> id, named |-> TRUE]
Member(group, device, purpose) ==
    [group_device_id |-> group, member_device_id |-> device, purpose_enum_id |-> purpose]
Device(id, subsystem, model) ==
    [device_id |-> id, parent_subsystem_id |-> subsystem, physical_device_name |-> <<id>>,
     logical_model |-> model, actuation_feedback_class |-> "SA-SAFD", actuations |-> 1,
     feedbacks |-> 1]
Signal(id, device, direction) ==
    [signal_id |-> id, device_id |-> device, described |-> TRUE, signal_name |-> <<id>>,
     direction |-> direction, iec_type |-> "BOOL", gateway_query |-> id, plc4j_query |-> id]
Domain(id, controller, projection, signals) ==
    [domain_id |-> id, described |-> TRUE, controller_device_id |-> controller,
     transport_projection |-> projection, signals |-> signals]
State(id) == [status_id |-> id, outputs_reviewed |-> TRUE]
Transition(from, to, condition) ==
    [from_status_id |-> from, to_status_id |-> to, condition |-> <<condition>>]

(* The supervisor of a subsystem: the pump runs while Busy; a trip is      *)
(* acknowledged by the operator.                                           *)
Supervising(fsm, subsystem, app, tag, pump) ==
    [fsm_id |-> fsm, status_flow_id |-> fsm \o "Flow", owner_subsystem_id |-> subsystem,
     application_id |-> app, code_generation_approved |-> TRUE,
     states |-> <<State("Idle" \o tag)
                    @@ [deactivate_devices |-> {pump}, deactivate_flags |-> {<<"fault", "ack">>}],
                  State("Busy" \o tag) @@ [activate_devices |-> {pump}],
                  State("Fault" \o tag) @@ [name |-> <<"fault">>, deactivate |-> {subsystem}]>>]
SupervisingRules(fsm, tag) ==
    [fsm_id |-> fsm, fault_condition |-> <<"trip">>,
     predicates |-> <<[name |-> <<"dry" \o tag>>, expression |-> <<"low">>]>>,
     transitions |->
        <<Transition("Idle" \o tag, "Busy" \o tag, "start"),
          [Transition("Busy" \o tag, "Idle" \o tag, Blank)
             EXCEPT !.condition = <<"dev", "dry" \o tag>>],
          [from_status_id |-> "Fault" \o tag, to_status_id |-> "Idle" \o tag,
           condition |-> <<"dev", "fault", "ack">>,
           request_assignments |->
              {Assignment(<<"Idle" \o tag, "request">>, "TRUE"),
               Assignment(<<"fault", "ack">>, "FALSE")}]>>]

Pump ==
    [machine_device_id |-> "DG_CELL",
     controllers |-> <<Controller("PLC1", "App1", "DG_CELL")>>,
     device_groups |-> <<Group("DG_CELL")>>,
     device_group_members |->
        <<Member("DG_CELL", "PLC1", "DgmpProcessPLC"), Member("DG_CELL", "pump", "DgmpActuator"),
          Member("DG_CELL", "GW", "DgmpEdgeGateway")>>,
     device_configs |->
        <<[device_config_id |-> "DC", named |-> TRUE, device_type_enum_id |-> "Actuator",
           parameters |-> <<[parameter_id |-> "C1", parameter_def_id |-> "PD_run", values |-> 1]>>]>>,
     device_rule_sets |->
        <<[device_rule_set_id |-> "DRS", named |-> TRUE, root_device_id |-> "DG_CELL",
           rules |-> <<[device_rule_id |-> "DR", named |-> TRUE, device_config_id |-> "DC",
                        target_device_id |-> "pump"]>>]>>,
     approvals |-> [device_model_approved |-> TRUE, device_groups_approved |-> TRUE,
                    seed_generation_approved |-> TRUE, signed |-> TRUE],
     project_scope |-> [machine_name |-> "cell", control_objective |-> "cool"],
     system_tree |-> <<[subsystem_id |-> "CELL", described |-> TRUE]>>,
     devices |-> <<Device("pump", "CELL", "Actuator")>>,
     signals |-> <<Signal("run", "pump", "output"), Signal("on", "pump", "input")>>,
     domains |-> <<Domain("fast", "PLC1", "gateway", {"run", "on"})>>,
     gateways |-> <<[gateway_device_id |-> "GW", named |-> TRUE, rest_base_uri |-> "rest",
                     scoped_subsystem_ids |-> {"CELL"}]>>,
     transport_architecture |-> [primary_transport_mode |-> "gateway", gateway_required |-> TRUE],
     gateway_transports |-> <<[transport_id |-> "broker", gateway_device_id |-> "GW",
                               protocol |-> "mqtt", broker_uri |-> "mqtt",
                               scoped_domain_ids |-> {"fast"}, supports_live_parameters |-> TRUE,
                               live_parameter_topic |-> "live", supports_plc_logs |-> TRUE,
                               plc_log_topic |-> "logs"]>>,
     live_parameters |-> <<[parameter_id |-> "P_run", mqtt_key |-> "rate"]>>,
     fsms |-> <<Supervising("main", "CELL", "App1", "1", "pump")>>,
     rules |-> <<SupervisingRules("main", "1")>>]

(* A draft with one more state and a second transport for the domain,      *)
(* which nobody has approved yet.                                          *)
Cleaning(plant) ==
    [plant EXCEPT
        !.approvals = [seed_generation_approved |-> FALSE],
        !.fsms[1].states = Append(@, State("Clean1")),
        !.rules[1].transitions =
            <<Transition("Idle1", "Clean1", "dirty")>> \o @
              \o <<Transition("Clean1", "Idle1", "stop")>>,
        !.transport_architecture =
            [primary_transport_mode |-> "hybrid", allows_hybrid_projection |-> TRUE,
             gateway_required |-> TRUE, plc4j_required |-> TRUE,
             default_run_service_name |-> "run#Plc4jRequest"],
        !.domains = <<Domain("fast", "PLC1", "both", {"run", "on"})>>]
    @@ [plc4j_connections |->
          <<[connection_name |-> "direct", driver_enum_id |-> "DcdS7",
             transport_enum_id |-> "DctrTcp", transport_config |-> "host"]>>]
(* Two ways from Idle to Busy, and a gateway for another purpose.          *)
Twice(plant) ==
    [plant EXCEPT !.rules[1].transitions = @ \o <<Transition("Idle1", "Busy1", "manual")>>,
                  !.gateways[1] = @ @@ [gateway_member_purpose_enum_id |-> "DgmpOther"],
                  !.device_group_members[3] = Member("DG_CELL", "GW", "DgmpOther")]
(* A pump no signal of which is exchanged, and nothing is logged.          *)
Silent(plant) ==
    [plant EXCEPT !.domains = <<Domain("fast", "PLC1", "gateway", {})
                                  @@ [devices |-> {"pump"}]>>,
                  !.gateway_transports[1].supports_plc_logs = FALSE,
                  !.live_parameters = <<>>]
(* A live parameter whose key does not fit into a text of the program.     *)
Unquotable(plant) == [plant EXCEPT !.live_parameters[1] = @ @@ [quotable |-> FALSE]]
(* A second cell with a controller of its own, a subsystem of its own in   *)
(* it that shares a status with it, and a channel over OPC UA.             *)
TwoCells(plant) ==
    [plant EXCEPT
        !.controllers = @ \o <<Controller("PLC2", "App2", "DG_TANK")>>,
        !.device_groups = @ \o <<Group("DG_TANK"), Group("DG_MIX") @@ [parent_device_id |-> "DG_TANK"]>>,
        !.device_group_members =
            @ \o <<Member("DG_TANK", "PLC2", "DgmpProcessPLC"),
                   Member("DG_TANK", "drain", "DgmpActuator"),
                   Member("DG_MIX", "mixer", "DgmpActuator")>>,
        !.system_tree =
            @ \o <<[subsystem_id |-> "TANK", described |-> TRUE],
                   [subsystem_id |-> "MIX", described |-> TRUE, parent_subsystem_id |-> "TANK"]>>,
        !.devices = @ \o <<Device("drain", "TANK", "Actuator"), Device("mixer", "MIX", "ProcessPid")>>,
        !.signals = @ \o <<Signal("open", "drain", "output"), Signal("call", "mixer", "input")>>,
        !.domains = @ \o <<Domain("slow", "PLC2", "gateway", {"open", "call"})>>,
        !.gateway_transports =
            @ \o <<[transport_id |-> "ua", gateway_device_id |-> "GW", protocol |-> "opcua",
                    connection_name |-> "channel", transport_config |-> "host",
                    scoped_domain_ids |-> {"slow"}]>>,
        !.live_parameters = @ \o <<[parameter_id |-> "P_call", mqtt_key |-> "batchSize"]>>,
        !.fsms =
            @ \o <<Supervising("tank", "TANK", "App2", "2", "drain"),
                   [fsm_id |-> "mix", status_flow_id |-> "mixFlow", owner_subsystem_id |-> "MIX",
                    application_id |-> "App2", parent_fsm_id |-> "tank", composition |-> "nested",
                    status_type_id |-> "tankFlowType", code_generation_approved |-> TRUE,
                    states |-> <<State("Off"), State("On") @@ [activate |-> {"mixer"}],
                                 State("Fault2") @@ [name |-> <<"fault">>]>>]>>,
        !.rules =
            @ \o <<[SupervisingRules("tank", "2") EXCEPT
                      !.transitions = @ \o
                        <<[Transition("Busy2", "On", "batch") EXCEPT
                             !.condition = <<"batch">>]
                          @@ [to_fsm_id |-> "mix",
                              consume_condition |-> <<"dev", "mixer", "call">>,
                              request_assignments |-> {Assignment(<<"mixer", "call">>, "TRUE")},
                              apply_assignments |->
                                {Assignment(<<"mix", "status">>, "On"),
                                 Assignment(<<"mixer", "call">>, "FALSE")}]>>],
                   [fsm_id |-> "mix",
                    transitions |->
                      <<Transition("On", "Off", "mixed"),
                        Transition("On", "Idle2", "jam")
                          @@ [to_fsm_id |-> "tank", consume_condition |-> <<"jam">>,
                              apply_assignments |-> {Assignment(<<"status">>, "Idle2")}]>>]>>]
(* Both cells in one application. *)
OneName(plant) ==
    [plant EXCEPT !.fsms[2].application_id = "App1", !.fsms[3].application_id = "App1"]

(* What becomes of a plant with one cell. *)
FromOneCell(plant) ==
    <<Template, plant, Cleaning(plant), Twice(plant), TwoCells(plant), OneName(TwoCells(plant)),
      Silent(plant), Unquotable(plant)>>
MCSurveys == FromOneCell(Pump)
=============================================================================
