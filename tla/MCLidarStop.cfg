SPECIFICATION FairSpec
CONSTANTS
  LATE_FAILS = 2
  VERSIONS = {"M1CT_TOF"}
  SPINNING = {FALSE}
  MAX_COMMANDS = 1
PROPERTY StopIsKept
