SPECIFICATION FairSpec
CONSTANTS
    Plants <- TrippingPlants
    retryOnError = TRUE
    minRetryTime = 2
    maxRetryCount = 1
PROPERTIES FailsOnlyOnCauses
