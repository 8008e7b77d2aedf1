----------------------------- MODULE SeedRules -----------------------------
(* The seed derived from accepted surveys (render_seed_from_surveys.py)    *)
(* and the tools that read it (validate_transport_projection.py).          *)
(*                                                                         *)
(* A seed is a record of sets of rows. Names the renderer composes are     *)
(* tuples; a query is the name of a request, <<topic>> or empty.           *)
(* Enumerations of the vendor data, polling times, descriptions and the    *)
(* order of the rows are left out.                                         *)
EXTENDS SurveyRules

(* A dictionary built from a table holds the last row of each key.         *)
Latest(table, key, id) ==
    table[CHOOSE i \in DOMAIN table :
            table[i][key] = id /\ \A j \in (i + 1)..Len(table) : table[j][key] # id]

(* The chain of parents of a subsystem, as long as it leads on. A cycle or *)
(* an unknown parent leaves the chain without a root.                      *)
Ancestors(m, subsystem) ==
    LET parent(id) == IF id \in Ids(m.system_tree, "subsystem_id")
                      THEN Latest(m.system_tree, "subsystem_id", id).parent_subsystem_id
                      ELSE Blank
        up[n \in 0..Len(m.system_tree)] ==
            IF n = 0 THEN subsystem
            ELSE IF parent(up[n - 1]) = Blank THEN up[n - 1] ELSE parent(up[n - 1])
    IN up
TopLevel(m, subsystem) == Ancestors(m, subsystem)[Len(m.system_tree)]
Rooted(m, subsystem) ==
    /\ TopLevel(m, subsystem) \in Ids(m.system_tree, "subsystem_id")
    /\ Latest(m.system_tree, "subsystem_id", TopLevel(m, subsystem)).parent_subsystem_id = Blank

-----------------------------------------------------------------------------
(* Resolution of transports, connections and controllers. *)

transports_for_domain(domain, m) ==
    LET mode == m.transport_architecture.primary_transport_mode
        scope == _normalize_transport_scope(domain.transport_projection)
    IN CASE mode \in {"gateway", "plc4j"} -> {mode}
         [] mode \notin {"gateway", "plc4j"} /\ scope \in {"gateway", "plc4j"} -> {scope}
         [] mode \notin {"gateway", "plc4j"} /\ scope = "both" -> {"gateway", "plc4j"}
         [] OTHER -> {}

(* Connections scoped to the domain go before unscoped ones.               *)
resolve_plc4j_connection_for_domain(domain, m) ==
    LET scoped == Select(Connections(m), LAMBDA c : domain.domain_id \in c.scoped_domain_ids)
        unscoped == Select(Connections(m), LAMBDA c : c.scoped_domain_ids = {})
    IN IF scoped # <<>> THEN scoped ELSE unscoped
gateway_by_id(m, id) == Select(Gateways(m), LAMBDA g : g.gateway_device_id = id)

(* Mutant: the first controller takes every live parameter. *)
first_controller_for_device(m, fsms, device) ==
    {Select(m.controllers, LAMBDA r : r.controller_device_id # Blank)[1].controller_device_id}
(* With several controllers, the one whose application runs the supervisor *)
(* of the device's top-level subsystem.                                    *)
controller_for_device(m, fsms, device) ==
    LET controllers == Rows(m.controllers, LAMBDA r : r.controller_device_id # Blank)
        top == TopLevel(m, First(m.devices, "device_id", device).parent_subsystem_id)
        supervisors == Select(fsms, LAMBDA f : f.owner_subsystem_id = top)
    IN IF Cardinality(controllers) = 1 THEN {c.controller_device_id : c \in controllers}
       ELSE IF device \notin Ids(m.devices, "device_id") \/ supervisors = <<>> THEN {}
       ELSE {c.controller_device_id :
               c \in {x \in controllers : x.application_id = supervisors[1].application_id}}

root_device_id(m) ==
    Select(m.controllers, LAMBDA r : r.controller_device_id # Blank)[1].controller_device_id

-----------------------------------------------------------------------------
(* Rows of the seed. *)

(* append_statusflow_seed: topology only. Statuses are global to a seed.   *)
StatusFlows(fsms) ==
    {[flow |-> f.status_flow_id,
      items |-> {[status |-> s.status_id, name |-> s.name, initial |-> s.initial] :
                   s \in Range(f.states)},
      parent |-> IF f.parent_fsm_id = Blank THEN Blank
                 ELSE First(fsms, "fsm_id", f.parent_fsm_id).status_flow_id,
      transitions |-> {[from |-> t.from_status_id, to |-> t.to_status_id,
                        toFlow |-> IF t.to_fsm_id = Blank THEN f.status_flow_id
                                   ELSE First(fsms, "fsm_id", t.to_fsm_id).status_flow_id,
                        sequence |-> t.precedence] : t \in Range(f.transitions)}] :
      f \in Range(fsms)}
(* Flows may share a status if they give it one type and one name.         *)
StatusesGlobal(fsms) ==
    \A f, g \in Range(fsms) : \A s \in Range(f.states), t \in Range(g.states) :
        s.status_id = t.status_id => f.status_type_id = g.status_type_id /\ s.name = t.name

(* The DeviceGroup of a subsystem carries the flow of the FSM that owns it  *)
(* and is the parent of the subsystem's devices, if the surveys have it.   *)
subsystem_group_device_id(subsystem) == "DG_" \o subsystem
DeviceOfSeed(id, type, name, parent, flow) ==
    [id |-> id, type |-> type, name |-> name, parent |-> parent, flow |-> flow]
Devices(m, fsms) ==
    LET owned(group) == Select(fsms, LAMBDA f :
            /\ f.owner_subsystem_id \in Ids(m.system_tree, "subsystem_id")
            /\ subsystem_group_device_id(f.owner_subsystem_id) = group)
        flowOf(group) == IF owned(group) = <<>> THEN Blank ELSE owned(group)[1].status_flow_id
        parentOf(d) == LET group == subsystem_group_device_id(d.parent_subsystem_id)
                       IN IF group \in Ids(m.device_groups, "group_device_id") THEN group ELSE Blank
    IN {DeviceOfSeed(g.group_device_id, "DgtControl", <<>>, g.parent_device_id,
                     flowOf(g.group_device_id)) :
           g \in Rows(m.device_groups, LAMBDA r : r.group_device_id # Blank)}
       \cup {DeviceOfSeed(c.controller_device_id, "DtPLC", <<>>, c.parent_device_id,
                          "DeviceBasicStatusFlow") :
           c \in Rows(m.controllers, LAMBDA r : r.controller_device_id # Blank)}
       \cup {DeviceOfSeed(d.device_id, d.logical_model, d.physical_device_name, parentOf(d), Blank) :
           d \in Range(m.devices)}
       \cup {DeviceOfSeed(g.gateway_device_id, "DtGateway", <<>>, Blank, Blank) :
           g \in Range(Gateways(m))}

(* The parameters of signals and of atomic components: the components of   *)
(* the library are external, each gives one parameter named for its device. *)
Parameters(m) ==
    {[id |-> "P_" \o s.signal_id, device |-> s.device_id, name |-> s.signal_name] :
        s \in Range(m.signals)}
    \cup {[id |-> "P_" \o d.device_id, device |-> d.device_id, name |-> <<"setting">>] :
        d \in Range(m.devices)}
SeedConfigs(m) ==
    {[id |-> c.device_config_id, type |-> c.device_type_enum_id,
      definitions |-> Ids(c.parameters, "parameter_def_id")] :
        c \in Rows(m.device_configs, LAMBDA r : r.device_config_id # Blank)}
SeedRulesOf(m) ==
    UNION {{[config |-> r.device_config_id, target |-> r.target_device_id] : r \in Range(s.rules)} :
              s \in Rows(m.device_rule_sets, LAMBDA x : x.device_rule_set_id # Blank)}

(* Mutant: only connections of PLC4J become DeviceConnections. *)
Plc4jDeviceConnections(m) ==
    {[name |-> c.connection_name, driver |-> c.driver_enum_id,
      transport |-> c.transport_enum_id, config |-> c.transport_config] :
        c \in Range(Connections(m))}
(* Transports of a domain: OPC UA channels of gateways and connections of  *)
(* PLC4J become DeviceConnections.                                         *)
DeviceConnections(m) ==
    {[name |-> t.connection_name,
      driver |-> IF t.driver_enum_id = Blank THEN "DcdOpcUa" ELSE t.driver_enum_id,
      transport |-> IF t.transport_enum_id = Blank THEN "DctrTcp" ELSE t.transport_enum_id,
      config |-> t.transport_config] :
        t \in {x \in Range(GatewayTransports(m)) : x.protocol = "opcua"}}
    \cup {[name |-> c.connection_name, driver |-> c.driver_enum_id,
           transport |-> c.transport_enum_id, config |-> c.transport_config] :
        c \in Range(Connections(m))}

Request(name, type, device, router, service, broker, connection, query) ==
    [name |-> name, type |-> type, device |-> device, router |-> router, service |-> service,
     broker |-> broker, connection |-> connection, query |-> query]

(* The requests of one domain for one direction over one transport: the    *)
(* field request and, for a gateway, the wrapper that dispatches it.       *)
append_gateway_dispatch_wrapper(m, request, transport) ==
    LET gateway == gateway_by_id(m, transport.gateway_device_id)[1]
    IN Request(Append(request.name, "GatewayDispatch"), request.type, gateway.gateway_device_id,
               "DrrMoquiDeviceGateway", "dispatch#GatewayRequest", gateway.rest_base_uri,
               request.connection, request.name)
DomainRequests(m, domain, direction, transport) ==
    LET several == Cardinality(transports_for_domain(domain, m)) > 1
        name == <<domain.controller_device_id, domain.domain_id, direction,
                  IF several THEN transport ELSE Blank>>
        type == IF direction = "input" THEN "DrtCyclic" ELSE "DrtWrite"
        connection == resolve_plc4j_connection_for_domain(domain, m)[1]
        channel == TransportsOf(m, domain)[1]
        field == Request(name, type, domain.controller_device_id, "DrrMoquiDeviceGateway", Blank,
                         IF channel.protocol = "mqtt" THEN channel.broker_uri ELSE Blank,
                         IF channel.protocol = "mqtt" THEN Blank ELSE channel.connection_name,
                         <<>>)
    IN IF transport = "plc4j"
       THEN {Request(name, type, domain.controller_device_id, "DrrDirect",
                     m.transport_architecture.default_run_service_name, Blank,
                     connection.connection_name, <<>>)}
       ELSE {field, append_gateway_dispatch_wrapper(m, field, channel)}

SignalsOf(m, domain, direction) ==
    {id \in domain.signals \cap Ids(m.signals, "signal_id") :
        Latest(m.signals, "signal_id", id).direction = direction}
ExchangeRequests(m) ==
    UNION {UNION {DomainRequests(m, d, direction, transport) :
                    direction \in {x \in {"input", "output"} : SignalsOf(m, d, x) # {}},
                    transport \in transports_for_domain(d, m)} : d \in Range(m.domains)}

(* The subscription to the log of the controller, and the writes of the    *)
(* approved live parameters, each dispatched by the gateway of its channel. *)
ChannelRequests(m, name, type, device, channel, query) ==
    LET field == Request(name, type, device, "DrrMoquiDeviceGateway", Blank, channel.broker_uri,
                         Blank, query)
    IN {field, append_gateway_dispatch_wrapper(m, field, channel)}
Channels(m, purpose) == Select(m.gateway_transports, LAMBDA t : t[purpose])
LogRequests(m) ==
    LET channels == Channels(m, "supports_plc_logs")
    IN IF m.transport_architecture.gateway_required /\ channels # <<>>
       THEN ChannelRequests(m, <<root_device_id(m), "PlcLogSubscribe">>, "DrtSubscribe",
                            root_device_id(m), channels[1], <<channels[1].plc_log_topic>>)
       ELSE {}
DeviceOf(m, parameter) == CHOOSE p \in Parameters(m) : p.id = parameter
LiveRequests(m, fsms) ==
    LET channel == Channels(m, "supports_live_parameters")[1]
        controllers == UNION {controller_for_device(m, fsms, DeviceOf(m, r.parameter_id).device) :
                                r \in Range(LiveRows(m))}
    IN IF LiveRows(m) # <<>> /\ m.transport_architecture.gateway_required
       THEN UNION {ChannelRequests(m, <<c, "LiveParametersWrite">>, "DrtWrite", c, channel, <<>>) :
                     c \in controllers}
       ELSE {}

(* Requests carry their items themselves: the parameters they exchange and *)
(* the names of these on the wire.                                         *)
ItemOf(request, parameter, name) ==
    [request |-> request.name, type |-> request.type, device |-> request.device,
     parameter |-> parameter, name |-> name]
ExchangeItems(m) ==
    LET carried(d, direction) ==
            {r \in ExchangeRequests(m) :
                /\ r.service # "dispatch#GatewayRequest"
                /\ r.name[1] = d.controller_device_id /\ r.name[2] = d.domain_id
                /\ r.name[3] = direction}
    IN UNION {UNION {{ItemOf(r, "P_" \o id, Latest(m.signals, "signal_id", id).signal_name) :
                        r \in carried(d, direction), id \in SignalsOf(m, d, direction)} :
                       direction \in {"input", "output"}} : d \in Range(m.domains)}
LiveItems(m, fsms) ==
    LET write(c) == [name |-> <<c, "LiveParametersWrite">>, type |-> "DrtWrite", device |-> c]
    IN UNION {{ItemOf(write(c), r.parameter_id, <<r.mqtt_key>>) :
                 c \in controller_for_device(m, fsms, DeviceOf(m, r.parameter_id).device)} :
                r \in IF m.transport_architecture.gateway_required THEN Range(LiveRows(m)) ELSE {}}

(* render_seed *)
RenderedSeed(m, fsms) ==
    [flows |-> StatusFlows(fsms), devices |-> Devices(m, fsms), parameters |-> Parameters(m),
     configs |-> SeedConfigs(m), rules |-> SeedRulesOf(m), members |-> Members(m),
     connections |-> DeviceConnections(m),
     requests |-> ExchangeRequests(m) \cup LogRequests(m) \cup LiveRequests(m, fsms),
     items |-> ExchangeItems(m) \cup LiveItems(m, fsms)]

(* The conditions under which the renderer gives up, beyond those of the   *)
(* validation: types without a request item, ambiguous connections and     *)
(* gateways, live parameters without exactly one controller, a status      *)
(* that two flows mean differently.                                        *)
UsedChannels(m) ==
    (UNION {Range(TransportsOf(m, d)) :
              d \in {x \in Range(m.domains) : x.signals # {} /\ GatewayScoped(m, x)}})
    \cup {Channels(m, purpose)[1] :
            purpose \in {p \in {"supports_plc_logs", "supports_live_parameters"} :
                /\ m.transport_architecture.gateway_required /\ Channels(m, p) # <<>>
                /\ p = "supports_live_parameters" => LiveRows(m) # <<>>}}
Renderable(m, fsms) ==
    /\ StatusesGlobal(fsms)
    /\ \A d \in Range(m.domains) :
         /\ transports_for_domain(d, m) # {}
         /\ \A id \in d.signals \cap Ids(m.signals, "signal_id") :
              Latest(m.signals, "signal_id", id).iec_type \notin {"TIME", "STRING"}
         /\ \A transport \in transports_for_domain(d, m) :
              IF transport = "plc4j" THEN Len(resolve_plc4j_connection_for_domain(d, m)) = 1
              ELSE Len(TransportsOf(m, d)) = 1
    /\ \A t \in UsedChannels(m) : Len(gateway_by_id(m, t.gateway_device_id)) = 1
    /\ \A r \in Range(LiveRows(m)) :
         /\ r.parameter_id \in {p.id : p \in Parameters(m)}
         /\ LET device == DeviceOf(m, r.parameter_id).device
            IN /\ Cardinality(ControllerIds(m)) > 1 =>
                    Rooted(m, First(m.devices, "device_id", device).parent_subsystem_id)
               /\ Cardinality(controller_for_device(m, fsms, device)) = 1

(* validate_generated_model_references: a rule applies a configuration to  *)
(* a device of its type, and no name has the namespace of the facade in    *)
(* it. A device without a name takes its id for one. The names of signals  *)
(* lose their dots before they are checked.                                *)
Namespaced(name) == name = <<"dev">> \/ (name # <<>> /\ Head(name) = "dev.")
NamesPlain(m) ==
    /\ \A d \in Range(m.devices) :
         ~Namespaced(IF d.physical_device_name = <<>> THEN <<d.device_id>> ELSE d.physical_device_name)
    /\ \A r \in Rows(m.controllers, LAMBDA x : x.controller_device_id # Blank) : ~r.namespaced
    /\ \A r \in Range(Gateways(m)) : ~r.namespaced
    /\ \A c \in Rows(m.device_configs, LAMBDA x : x.device_config_id # Blank) :
         \A p \in Range(c.parameters) : ~p.namespaced
ReferencesValid(m, s) ==
    LET definitions == {"PD_" \o x.signal_id : x \in Range(m.signals)}
                         \cup {"PD_" \o d.device_id : d \in Range(m.devices)}
    IN /\ NamesPlain(m)
       /\ \A r \in s.members :
            {r.group_device_id, r.member_device_id} \subseteq {d.id : d \in s.devices}
       /\ \A i \in s.items : i.parameter \in {p.id : p \in s.parameters}
       /\ \A c \in s.configs : c.definitions \subseteq definitions
       /\ \A r \in s.rules :
            \E c \in s.configs, d \in s.devices :
                c.id = r.config /\ d.id = r.target /\ c.type = d.type

-----------------------------------------------------------------------------
(* validate_transport_projection *)

MembersFor(s, purpose) ==
    {r.member_device_id : r \in {x \in s.members : x.purpose_enum_id = purpose}}
ConnectionNames(s) == {c.name : c \in s.connections}
(* A field request reaches a controller over a broker or a connection, its *)
(* wrapper a gateway that knows the request it dispatches.                 *)
GatewayRequestValid(r, s) ==
    IF r.service = "dispatch#GatewayRequest"
    THEN /\ r.device \in MembersFor(s, "DgmpEdgeGateway")
         /\ r.query \in {x.name : x \in s.requests}
         /\ r.broker # Blank
    ELSE /\ r.device \in MembersFor(s, "DgmpProcessPLC")
         /\ r.broker # Blank \/ r.connection # Blank
         /\ r.connection \in ConnectionNames(s) \cup {Blank}
DirectRequestValid(r, s) ==
    r.router = "DrrDirect" /\ r.connection \in ConnectionNames(s) \ {Blank}
validate_transport_projection(s) ==
    LET gateway == {r \in s.requests : r.router = "DrrMoquiDeviceGateway"}
        direct == {r \in s.requests : r.service = "run#Plc4jRequest"}
    IN /\ \A r \in gateway : GatewayRequestValid(r, s)
       /\ \A r \in direct : DirectRequestValid(r, s)
       /\ \A c \in s.connections :
            /\ c.driver # Blank /\ c.config # Blank
            /\ c.driver # "DcdSimulated" => c.transport # Blank
       /\ gateway \cup direct # {}
       /\ gateway # {} => MembersFor(s, "DgmpEdgeGateway") # {}
=============================================================================
