CONSTANTS
    Motors = {m1, m2}
    Speeds <- MCSpeeds
    MAX_TARGET_SPEED = 2
    Holds <- MCHolds
    MIN_BRAKE_HOLD = 0
    MAX_BRAKE_HOLD = 2
    DEFAULT_BRAKE_HOLD = 1
    COMMAND_WATCHDOG = 1
    CONTROL_PERIOD = 1
    TELEMETRY_PERIOD = 1
    MAX_LOOP = 1
    HALF_RANGE = 5
SPECIFICATION FairSpec
INVARIANTS EStopHoldsMotors MotionIsSupervised SilenceStopsMotors BrakeEndsOnTime ReportedStateIsTrue
PROPERTIES SilentHostIsReleased WatchdogNotEarly BrakeHeld
