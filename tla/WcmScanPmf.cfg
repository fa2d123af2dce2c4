\* One scan over the three access points; ap1 sets the PTKSA replay
\* counter bits of its RSN capabilities, ap3 sets MFPC.
CONSTANTS
  ap1 = ap1
  ap2 = ap2
  ap3 = ap3
  Aps = {ap1, ap2, ap3}
  Ap <- ApAds
  LateInds = FALSE
  MaxScans = 1
  NoSsid = NoSsid
  NetSsids <- Ssids
SPECIFICATION Spec
INVARIANT PmfShown
\* After the last command the CLI waits at its prompt.
CHECK_DEADLOCK FALSE
