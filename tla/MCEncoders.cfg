SPECIFICATION Spec
CONSTANTS
  N = 3
  SETTINGS <- MCSettings
  START = {0, 2}
  MAX_EDGES = 3
INVARIANTS CountKeepsPhase CountFollowsWheel CountsNotTorn
PROPERTY SpeedIsTravel
