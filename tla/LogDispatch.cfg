SPECIFICATION FairSpec
CONSTANTS
    LOG_MAX_SIZE = 3
    MAX_UDINT = 3
    MaxRepeat = 2
    Message <- Messages
    Loggers <- TwoLoggers
    LOG_APPENDER_BATCH_SIZE = 2
    Plants <- AllPlants
    Blank = Blank
INVARIANTS EventsAreRecorded MarksNeverAhead PayloadIsCommitted
PROPERTIES RefinesBoundedLog BacklogIsServed
