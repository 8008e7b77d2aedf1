-------------------------- MODULE MCActuatorGroup --------------------------
(* Small groups for TLC. *)
EXTENDS ActuatorGroup

(* Contactors without feedback that need one clock pulse. *)
Contactor == [feedbackType |-> "WithoutFeedback", actuationType |-> "SingleActuation",
              enableTime |-> 1, disableTime |-> 1, enablePreset |-> FALSE,
              diagnosticsEnable |-> TRUE, identified |-> TRUE]

Group(n, min, max, mode) ==
    [actuatorNum |-> n, minRunning |-> min, maxRunning |-> max, autochange |-> mode]

(* Demand k asks for k actuators: start above k, stop below k + 1.         *)
StartAt == [k \in 0..(MaxSize - 1) |-> k]
StopAt == [k \in 0..(MaxSize - 1) |-> k + 1]

Plain(configs, demands, movable, maxHours) ==
    [config: configs, changes: {{}}, demands: {demands}, trippable: {movable},
     lockable: {movable}, maxHours: {maxHours}]

StagedPlants ==
    Plain({Group(3, 1, 2, "None"), Group(3, 0, 3, "AllStopped")}, {0, 1, 3}, {1}, 0)
RotatingPlants ==
    {[p EXCEPT !.trippable = {}] :
        p \in Plain({Group(2, 1, 2, "FixedInterval"), Group(3, 1, 2, "ExternalTrigger")},
                    {1, 3}, {1}, 0)}
WearingPlants ==
    {[p EXCEPT !.lockable = {}] :
        p \in Plain({Group(2, 1, 1, "EvenWear"), Group(2, 0, 2, "EvenWear")},
                    {0, 2}, {1}, 2)}

(* Groups of no, one or two actuators, reconfigured at run time.           *)
Growing(mode) ==
    LET groups == {Group(n, 0, 1, mode) : n \in 0..2}
    IN {[p EXCEPT !.changes = {<<c, d>> \in groups \X groups : c # d}] :
           p \in Plain(groups, {0, 1}, {}, 0)}

SafetyPlants ==
    StagedPlants \cup RotatingPlants \cup WearingPlants
        \cup Growing("AllStopped") \cup Growing("FixedInterval")
LivePlants ==
    {[p EXCEPT !.lockable = {}] :
        p \in Plain({Group(2, 0, 2, "None"), Group(2, 1, 2, "None")}, {0, 1, 2}, {1}, 0)}
        \cup Plain({Group(2, 1, 2, "FixedInterval"), Group(2, 1, 2, "ExternalTrigger")},
                   {0, 1}, {}, 0)
SinglePlants == Plain({Group(2, 1, 1, "None")}, {0}, {1}, 0)
=============================================================================
