CONSTANTS
    MAX_OPENS = 2
    MAX_REBOOTS = 1
    MAX_LINES = 1
SPECIFICATION FairSpec
PROPERTIES ManagerEnds SilenceIsForwarded
CHECK_DEADLOCK FALSE
