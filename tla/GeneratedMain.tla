--------------------------- MODULE GeneratedMain ---------------------------
(* A generated application at work: Main.template.pou, MainRuleEngine.     *)
(* template.pou and SubsystemController.template.pou, filled in by the     *)
(* generators. A scan of Init sets the status and runs no rules; a scan of *)
(* Run asserts requests and consumes them. Conditions that read no field   *)
(* of dev are true or not as the plant has it. p is the program.           *)
EXTENDS Integers, Sequences, FiniteSets, Functions

VARIABLES
    program,    \* the id of the downloaded program, or NoProgram
    scan,       \* the last step: a scan of "Init" or "Run", "Acknowledge", or "none"
    facts,      \* the conditions of the plant that held in it
    mainStatus, \* the status of the supervisor
    subStatus,  \* and of each subsystem, by its field of dev
    flags       \* the BOOL fields of dev that are TRUE

mainVars == <<program, scan, facts, mainStatus, subStatus, flags>>

Blank == ""
NoProgram == <<>>
NoStatuses == [field \in {} |-> Blank]
FaultRequest == <<"fault", "request">>
FaultAck == <<"fault", "ack">>

-----------------------------------------------------------------------------
(* Expressions and assignments of the generated text. *)

Holds(expression, true, set) ==
    \/ expression = <<"true">>
    \/ expression[1] = "dev" /\ Tail(expression) \in set
    \/ expression \in true
(* The conditions a program reads from the plant. *)
Conditions(p) ==
    LET engine == UNION {{p.engine[q][n].condition : n \in DOMAIN p.engine[q]} : q \in DOMAIN p.engine}
        guards(blocks) == UNION {{blocks[q][n].guard : n \in DOMAIN blocks[q]} : q \in DOMAIN blocks}
        predicates(q) == {r.expression : r \in q.predicates}
    IN {e \in {p.faultCondition} \cup engine \cup guards(p.blocks) \cup predicates(p)
                \cup UNION {guards(c.blocks) \cup predicates(c) \cup {c.enable} :
                              c \in Range(p.subsystems)} :
          e # <<"true">> /\ e[1] # "dev"}
(* The rows assign statuses to status fields and BOOLs to the others.      *)
Assigned(set, rows) ==
    (set \ {r.target : r \in rows}) \cup {r.target : r \in {x \in rows : x.expression = "TRUE"}}
AssignedStatus(statuses, rows) ==
    [field \in DOMAIN statuses |->
        IF \E r \in rows : r.target = field
        THEN (CHOOSE r \in rows : r.target = field).expression ELSE statuses[field]]
(* Computed predicates; they do not read one another.                      *)
Computed(set, predicates, true) ==
    (set \ {r.name : r \in predicates})
        \cup {r.name : r \in {x \in predicates : Holds(x.expression, true, set)}}
(* CASE ... OF without ELSE: in a status it does not list nothing happens.  *)
BranchesOf(blocks, status) == IF status \in DOMAIN blocks THEN blocks[status] ELSE <<>>
OutputsOf(outputs, status) == IF status \in DOMAIN outputs THEN outputs[status] ELSE {}
(* IF ... ELSIF ...: the first branch whose condition holds, if any.       *)
FirstThat(branches, Taken(_)) ==
    LET open == {n \in DOMAIN branches : Taken(branches[n])}
    IN {branches[n] : n \in {k \in open : \A j \in open : k <= j}}

-----------------------------------------------------------------------------
(* Mutant: the requests are not reset. *)
StickyRuleEngine(p, from, true, set) ==
    LET reset == Computed(set, p.predicates, true)
        rule == FirstThat(BranchesOf(p.engine, from), LAMBDA b : Holds(b.condition, true, reset))
    IN IF Holds(p.faultCondition, true, reset) THEN reset \cup {FaultRequest}
       ELSE Assigned(reset, UNION {b.sets : b \in rule})
(* MainRuleEngine: reset, fault gate, rules of the status. *)
RuleEngine(p, from, true, set) ==
    LET reset == Computed(set \ (p.requests \cup {FaultRequest}), p.predicates, true)
        rule == FirstThat(BranchesOf(p.engine, from), LAMBDA b : Holds(b.condition, true, reset))
    IN IF Holds(p.faultCondition, true, reset) THEN reset \cup {FaultRequest}
       ELSE Assigned(reset, UNION {b.sets : b \in rule})

(* Mutant: the outputs are those of the status before the fault override.  *)
LateSupervise(p, from, true, set, subs) ==
    LET now == IF p.fault # Blank /\ FaultRequest \in set THEN p.fault ELSE from
        outputs == Assigned(set, OutputsOf(p.outputs, from))
        taken == FirstThat(BranchesOf(p.blocks, now), LAMBDA b : Holds(b.guard, true, outputs))
        applied == UNION {b.apply : b \in taken}
    IN [status |-> IF \E b \in taken : b.to # Blank THEN (CHOOSE b \in taken : TRUE).to ELSE now,
        flags |-> Assigned(outputs, applied),
        subs |-> AssignedStatus(AssignedStatus(subs, OutputsOf(p.outputs, from)), applied)]
(* The rest of Main: fault override, output function, status update.       *)
Supervise(p, from, true, set, subs) ==
    LET now == IF p.fault # Blank /\ FaultRequest \in set THEN p.fault ELSE from
        outputs == Assigned(set, OutputsOf(p.outputs, now))
        taken == FirstThat(BranchesOf(p.blocks, now), LAMBDA b : Holds(b.guard, true, outputs))
        applied == UNION {b.apply : b \in taken}
    IN [status |-> IF \E b \in taken : b.to # Blank THEN (CHOOSE b \in taken : TRUE).to
                   ELSE IF \E r \in applied : r.target = <<"status">>
                   THEN (CHOOSE r \in applied : r.target = <<"status">>).expression
                   ELSE now,
        flags |-> Assigned(outputs, applied),
        subs |-> AssignedStatus(AssignedStatus(subs, OutputsOf(p.outputs, now)), applied)]

(* A subsystem controller, after the others before it in the call order.   *)
Control(c, true, dev) ==
    LET now == dev.subs[c.field]
        outputs == Assigned(Computed(dev.flags, c.predicates, true), OutputsOf(c.outputs, now))
        taken == FirstThat(BranchesOf(c.blocks, now), LAMBDA b : Holds(b.guard, true, outputs))
        applied == UNION {b.apply : b \in taken}
        moved == IF \E b \in taken : b.to # Blank
                 THEN [dev.subs EXCEPT ![c.field] = (CHOOSE b \in taken : TRUE).to] ELSE dev.subs
    IN IF ~ Holds(c.enable, true, dev.flags) THEN dev
       ELSE [status |-> IF \E r \in applied : r.target = <<"status">>
                        THEN (CHOOSE r \in applied : r.target = <<"status">>).expression
                        ELSE dev.status,
             flags |-> Assigned(outputs, applied), subs |-> AssignedStatus(moved, applied)]
Controlled(p, true, dev) ==
    LET after[n \in 0..Len(p.subsystems)] ==
            IF n = 0 THEN dev ELSE Control(p.subsystems[n], true, after[n - 1])
    IN after[Len(p.subsystems)]

Scanned(dev) ==
    mainStatus' = dev.status /\ flags' = dev.flags /\ subStatus' = dev.subs

-----------------------------------------------------------------------------
InitMain ==
    /\ program = NoProgram /\ scan = "none" /\ facts = {}
    /\ mainStatus = Blank /\ subStatus = NoStatuses /\ flags = {}

InitialStatuses(p) ==
    [field \in {c.field : c \in Range(p.subsystems)} |->
        (CHOOSE c \in Range(p.subsystems) : c.field = field).initial]

Load(p) ==
    mainStatus' = p.initial /\ subStatus' = InitialStatuses(p) /\ flags' = {}
Download(id, p) ==
    /\ program = NoProgram /\ program' = id
    /\ Load(p)
    /\ UNCHANGED <<scan, facts>>

(* The first scan, and any scan after the context was set up again: the    *)
(* statuses are set, the requests are not, and the subsystem controllers   *)
(* do nothing but set theirs.                                              *)
ScanInit(p) ==
    /\ program # NoProgram
    /\ scan' = "Init"
    /\ facts' \in SUBSET Conditions(p)
    /\ LET dev == Supervise(p, p.initial, facts', flags, InitialStatuses(p))
       IN Scanned([dev EXCEPT !.subs = InitialStatuses(p)])
    /\ UNCHANGED program
ScanRun(p) ==
    /\ program # NoProgram /\ scan # "none"
    /\ scan' = "Run"
    /\ facts' \in SUBSET Conditions(p)
    /\ Scanned(Controlled(p, facts',
                          Supervise(p, mainStatus, facts',
                                    RuleEngine(p, mainStatus, facts', flags), subStatus)))
    /\ UNCHANGED program
(* The operator acknowledges a fault, or what was one. *)
Acknowledge ==
    /\ program # NoProgram /\ scan # "none"
    /\ scan' = "Acknowledge"
    /\ flags' = flags \cup {FaultAck}
    /\ UNCHANGED <<program, facts, mainStatus, subStatus>>
=============================================================================
