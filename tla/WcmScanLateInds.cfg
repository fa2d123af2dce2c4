\* The device may send scan indications after its answer to if_scan.
CONSTANTS
  ap1 = ap1
  ap2 = ap2
  ap3 = ap3
  Aps = {ap1, ap2, ap3}
  Ap <- ApAds
  LateInds = TRUE
  MaxScans = 2
  NoSsid = NoSsid
  NetSsids <- Ssids
SPECIFICATION Spec
INVARIANT ScanRecordsAps
\* After the last command the CLI waits at its prompt.
CHECK_DEADLOCK FALSE
