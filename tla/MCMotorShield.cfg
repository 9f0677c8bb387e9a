SPECIFICATION Spec
CONSTANTS
  Motors = {2, 3}
  SPEEDS = {45, 255}
  MAX_RESETS = 1
  MAX_LOST = 2
INVARIANTS
  PinsMatchCommand
  ChipReady
PROPERTY
  NoAccidentalBrake
