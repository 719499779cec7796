CONSTANTS
  http = http
  ipxe = ipxe
  Configs = {http, ipxe}
  Order <- HTTPFirst
  Secrets = {s1}
  NoRef = NoRef
  Data = {d1, d2}
  Absent = Absent
  States = {""}
  MaxRuns = 1
  MaxEdits = 1
  MaxFaults = 1
SPECIFICATION Spec
INVARIANTS
  TypeOK
  OthersUntouched
  OnlyFaultsLeak
  SuccessIsComplete
  OnlySharingFails
CHECK_DEADLOCK FALSE
