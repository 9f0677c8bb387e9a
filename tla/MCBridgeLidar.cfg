CONSTANTS
    MAX_OPENS = 2
    MAX_REBOOTS = 0
    MAX_LINES = 2
SPECIFICATION Spec
INVARIANTS LidarStopsOnDisconnect
CHECK_DEADLOCK FALSE
