CONSTANTS
  b1 = b1
  ipxe = ipxe
  http = http
  both = both
  pxeOnly = pxeOnly
  ukiOnly = ukiOnly
  broken = broken
  NoRef = NoRef
  Configs = {http}
  KindOf <- KindOfHTTP
  Secrets = {}
  SBCs = {b1}
  OwnerOf <- AllOwnedByB1
  Images = {both, broken}
  Outcome <- MCOutcome
  Nets = {n1}
  MaxEdits = 2
  MaxFaults = 1
  MaxLag = 2
SPECIFICATION FairSpec
INVARIANTS
  SBCSettledIsCorrect
PROPERTIES
  SBCConverges
  NoOrphans
CHECK_DEADLOCK FALSE
