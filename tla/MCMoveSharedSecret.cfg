CONSTANTS
  http = http
  ipxe = ipxe
  Configs = {http, ipxe}
  Order <- HTTPFirst
  Secrets = {s1}
  NoRef = NoRef
  Data = {d1}
  Absent = Absent
  States = {""}
  MaxRuns = 1
  MaxEdits = 0
  MaxFaults = 0
SPECIFICATION Spec
INVARIANTS
  MoveIntoEmptySucceeds
CHECK_DEADLOCK FALSE
