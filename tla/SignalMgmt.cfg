SPECIFICATION Spec
CONSTANTS
    SIGNAL_LIST_MAX_SIZE = 2
    SignalLists <- TwoApplications
INVARIANTS OutputsAgreeWithList
PROPERTIES OnePressResetsOnce
