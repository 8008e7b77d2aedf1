SPECIFICATION Spec
CONSTANTS
    Plants <- CoolingPlants
    retryOnError = TRUE
    minRetryTime = 2
    maxRetryCount = 1
INVARIANTS StoppedOutsideRun
