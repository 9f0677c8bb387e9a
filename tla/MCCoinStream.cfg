SPECIFICATION StreamSpec
CONSTANTS
  KINDS <- KINDS_MC
  NOISE = {1, 170}
  COIN_NOISE = {85}
  BATCH = 2
  LOCAL_SCAN = 5
  LINE = 10
  MAX_PACKAGES = 4
  MAX_MISHAPS = 1
  SAMPLES = 3
  FIRST_ANGLES = {173, 174}
  SAMPLE_KINDS <- SAMPLE_KINDS_MC
  FULL = 180
  NEAR = 5
  MAX_COINS = 4
INVARIANTS TypeOK PointsInOrder ScanIsOneRevolution ScanTimesFit IndexMeansNoDamage SearchFindsHead RingStartIsPastZero EverySecondArrives
