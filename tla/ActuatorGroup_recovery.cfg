SPECIFICATION FairSpec
CONSTANTS
    MaxSize = 2
    Plants <- SinglePlants
    startPoints <- StartAt
    stopPoints <- StopAt
    autochangeLevel = 2
    maxWearImbalance = 0
    ActuatorSettings <- Contactor
PROPERTIES FaultRecovered
