SPECIFICATION DevSpec
CONSTANTS
    Setups <- AllSetups
    Travel = 2
    AxisPlants <- AllAxisPlants
INVARIANTS OutputsFollowStatus OnlyCurrentRuns
PROPERTIES
    ScanResolvesContradiction RequestsAcknowledged FalseAlarmOnlyOnReversal RequestsResolved
    CommandsAccounted CommandsEnd
