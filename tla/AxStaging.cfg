SPECIFICATION Spec
CHECK_DEADLOCK FALSE
CONSTANTS
    Sources <- MCSources
    Manual <- MCManual
    Assets <- MCAssets
    Handmade <- MCHandmade
    LowerCase <- MCLowerCase
    Process <- MCProcess
    Reshaped <- MCReshaped
    MaxEdits = 2
INVARIANT
    HandworkSurvives
PROPERTY
    FinishedRunIsExact
