--------------------------- MODULE MCLogDispatch ----------------------------
(* Buffers of three slots, batches of two events.                          *)
EXTENDS LogDispatch

(* One logger whose buffer is also used directly, with duplicates and an   *)
(* overflow count that wraps; the dispatcher is switched off.              *)
BufferPlant ==
    [logAppenderEnable |-> FALSE, sourceListMaxSize |-> 1,
     messages |-> [l \in Loggers |-> IF l = "a" THEN {"x", "y"} ELSE {}],
     windows |-> BOOLEAN, commands |-> {"Peek", "Pop", "Clear"},
     maxOverflow |-> MAX_UDINT + 1, connections |-> {}, outcomes |-> {}]

(* Two loggers and a dispatcher, with a broker that may be away or fail, or *)
(* that works; with room for both loggers in the list of sources, or not.   *)
BrokerPlant ==
    [logAppenderEnable |-> TRUE, sourceListMaxSize |-> 2,
     messages |-> [l \in Loggers |-> {"x"}], windows |-> {FALSE},
     commands |-> {}, maxOverflow |-> 1,
     connections |-> {"up", "down", "error"}, outcomes |-> {"busy", "done", "error"}]
QuietBroker == [BrokerPlant EXCEPT !.connections = {"up", "down"}]
ReliableBroker ==
    [BrokerPlant EXCEPT !.connections = {"up"}, !.outcomes = {"busy", "done"},
                        !.maxOverflow = 2]
CrowdedList == [ReliableBroker EXCEPT !.sourceListMaxSize = 1]

AllPlants == {BufferPlant, BrokerPlant, QuietBroker, ReliableBroker, CrowdedList}
Messages == {"x", "y"}
TwoLoggers == {"a", "b"}
=============================================================================
