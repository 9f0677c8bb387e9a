SPECIFICATION FairSpec
CONSTANTS
  LOCAL_SCAN = 4
  MAX_SCAN_NODES = 3
  BATCH = 2
  MAX_SCANS = 5
INVARIANTS LockReturned ScanNotTorn NoScanOverlooked
PROPERTY ImplementsMailbox
