CONSTANTS
  workload = workload
  maintenance = maintenance
  orphan = orphan
  lowerIPXE = lowerIPXE
  upperIPXE = upperIPXE
  lowerHTTP = lowerHTTP
  mixedHTTP = mixedHTTP
  single = single
  workloadSBC = workloadSBC
  maintenanceSBC = maintenanceSBC
  otherSBC = otherSBC
  machine = machine
  ignition = ignition
  script = script
  a1 = a1
  a2 = a2
  r1 = r1
  r2 = r2
  Requests = {r1, r2}
  NoRef = NoRef
  Gone = Gone
  Object <- ObjectOf
  Configs = {single}
  SBCs = {}
  ServerOf <- NoServer
  Servers = {}
  Secrets = {ignition}
  Addresses = {a1, a2}
  Paths = {"ipxe", "ignition"}
  DefaultAnswers = {"default"}
  MaxChanges = 0
SPECIFICATION MCSpec
INVARIANTS
  ConditionsKept
CHECK_DEADLOCK FALSE
