CONSTANTS
  os = os
  debug = debug
  registry = registry
  None = None
  Requests = {r1, r2}
  Keys = {os, debug}
  RegistryOf <- OneRegistry
  Registries = {registry}
  Policies <- MCPolicies
  TTL = 2
  CleanupEvery = 1
  MaxLatency = 1
  MaxChanges = 1
  MaxFaults = 1
SPECIFICATION MCSpec
INVARIANTS
  TypeOK
  CacheIsCleaned
  InfoIsRecent
PROPERTIES
  RefusedForAReason
  Recovers
CHECK_DEADLOCK FALSE
