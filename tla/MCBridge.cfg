CONSTANTS
    MAX_OPENS = 2
    MAX_REBOOTS = 2
    MAX_LINES = 3
SPECIFICATION Spec
INVARIANTS TypeOK FreshWhenConnected ShutdownStops
PROPERTIES LineOrder ClosedByOne
CHECK_DEADLOCK FALSE
