CONSTANTS
  workload = workload
  maintenance = maintenance
  orphan = orphan
  lowerIPXE = lowerIPXE
  upperIPXE = upperIPXE
  lowerHTTP = lowerHTTP
  mixedHTTP = mixedHTTP
  single = single
  workloadSBC = workloadSBC
  maintenanceSBC = maintenanceSBC
  otherSBC = otherSBC
  machine = machine
  ignition = ignition
  script = script
  a1 = a1
  a2 = a2
  r1 = r1
  r2 = r2
  Requests = {r1, r2}
  NoRef = NoRef
  Gone = Gone
  Object <- ObjectOf
  Configs = {workload, maintenance, orphan, lowerIPXE, upperIPXE, lowerHTTP, mixedHTTP, single}
  SBCs = {workloadSBC, maintenanceSBC, otherSBC}
  ServerOf <- OneMachine
  Servers = {machine}
  Secrets = {ignition, script}
  Addresses = {a1, a2}
  Paths = {"ipxe", "ignition", "httpboot"}
  DefaultAnswers = {"default", "500"}
  MaxChanges = 2
SPECIFICATION MCSpec
INVARIANTS
  TypeOK
  ServedIsPreferred
  UnknownIsReal
  FetchedWasDelivered
CHECK_DEADLOCK FALSE
