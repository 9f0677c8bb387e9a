SPECIFICATION FairSpec
CONSTANTS
  LATE_FAILS = 2
  VERSIONS = {"M1CT_Coin_Plus", "M1CT_TOF"}
  SPINNING = {FALSE, TRUE}
  MAX_COMMANDS = 1
PROPERTIES ReaderFollows AbnormalStopsLidar
