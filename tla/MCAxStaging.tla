---------------------------- MODULE MCAxStaging ----------------------------
(* A canonical tree with a file of each kind the policies tell apart.      *)
EXTENDS AxStaging, TLC

MCSources ==
    <<Path("context", "mqtt", "MqttLogAppender"), Path("device", Blank, "FieldbusProtocol"),
      Path("device", Blank, "Actuator"), Path("motion", "motion", "Axis"),
      Path("motion", "motion", "AxisCmd"), Path("util", Blank, "round"),
      Path("device", Blank, "LevelCtrlStatusMgr"),
      Path("device", Blank, "processCyclicOutFieldbusData")>>
MCLowerCase ==
    (Blank :> Blank) @@ ("mqtt" :> "mqtt") @@ ("motion" :> "motion")
    @@ ("MqttLogAppender" :> "mqttlogappender") @@ ("FieldbusProtocol" :> "fieldbusprotocol")
    @@ ("Actuator" :> "actuator") @@ ("Axis" :> "axis") @@ ("AxisCmd" :> "axiscmd")
    @@ ("round" :> "round") @@ ("LevelCtrlStatusMgr" :> "levelctrlstatusmgr")
    @@ ("processCyclicOutFieldbusData" :> "processcyclicoutfieldbusdata")
(* The stems of device/ with that beginning. *)
MCProcess ==
    {"processanaloginput", "processanalogoutput", "processcyclicinfieldbusdata",
     "processcyclicoutfieldbusdata", "processmotorstarterindata", "processpid"}
(* The nested comments of one file are removed from it by an edit.         *)
MCReshaped ==
    {<<Path("device", Blank, "LevelCtrlStatusMgr"), version>> : version \in 1..3}
    \cup {<<Path("device", Blank, "processCyclicOutFieldbusData"), 1>>}
MCManual ==
    [path \in {Path("motion", "motion", "Axis"), Path("device", Blank, "R_TRIG")} |-> ByHand(0)]
MCAssets == {"recipe"}
MCHandmade ==
    {Path("device", Blank, "Actuator"), Path("diagnostics", Blank, "SignalOutputAction"),
     Path("device", Blank, "R_TRIG")}
=============================================================================
