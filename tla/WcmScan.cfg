\* Two scan commands over three access points; the device reports what it
\* heard, then answers.
CONSTANTS
  ap1 = ap1
  ap2 = ap2
  ap3 = ap3
  Aps = {ap1, ap2, ap3}
  Ap <- ApAds
  LateInds = FALSE
  MaxScans = 2
  NoSsid = NoSsid
  NetSsids <- Ssids
SPECIFICATION Spec
INVARIANT TypeOK ScanRecordsAps SecurityShown
PROPERTY ScanCompletes ChannelShown
\* After the last command the CLI waits at its prompt.
CHECK_DEADLOCK FALSE
