SPECIFICATION Spec
CONSTANTS
    MaxSize = 3
    Plants <- SafetyPlants
    startPoints <- StartAt
    stopPoints <- StopAt
    autochangeLevel = 2
    maxWearImbalance = 0
    ActuatorSettings <- Contactor
INVARIANTS PriorityOrderIsPermutation MaximumKept DisabledMeansStopped
PROPERTIES CapacityKept
