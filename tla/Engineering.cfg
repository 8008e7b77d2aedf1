SPECIFICATION EngineeringSpec
CHECK_DEADLOCK FALSE
CONSTANTS
    Surveys <- MCSurveys
    MaxEdits = 2
INVARIANTS
    SessionIsComplete
    RecordedIsWritten
    SeedIsProjectable
    CommandsAgree
PROPERTIES
    ManifestDescribesBundles
    LiveWritesAreMapped
    MainFollowsReview
    FaultStopsAtOnce
