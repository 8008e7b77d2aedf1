SPECIFICATION FairSpec
CONSTANTS
    MaxSize = 2
    Plants <- LivePlants
    startPoints <- StartAt
    stopPoints <- StopAt
    autochangeLevel = 2
    maxWearImbalance = 0
    ActuatorSettings <- Contactor
PROPERTIES PhasesEnd DemandFollowed
