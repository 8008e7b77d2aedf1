SPECIFICATION FairSpec
CONSTANTS
    Plants <- AllPlants
    retryOnError = TRUE
    minRetryTime = 2
    maxRetryCount = 1
INVARIANTS SafeOutputs StoppedUnlessRunning ThrowsInPosition
PROPERTIES GroupsOverlapOnlyInDrying DuctViolationStops NoInheritedProgress RecipesComplete ErrorIsRetried
