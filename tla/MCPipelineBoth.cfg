CONSTANTS
  b1 = b1
  ipxe = ipxe
  http = http
  both = both
  pxeOnly = pxeOnly
  ukiOnly = ukiOnly
  broken = broken
  NoRef = NoRef
  Configs = {ipxe, http}
  KindOf <- KindOfBoth
  Secrets = {}
  SBCs = {b1}
  OwnerOf <- AllOwnedByB1
  Images = {both, pxeOnly, broken}
  Outcome <- MCOutcome
  Nets = {n1}
  MaxEdits = 1
  MaxFaults = 0
  MaxLag = 1
SPECIFICATION RepairSpec
INVARIANTS
  SBCSettledIsCorrect
PROPERTIES
  SBCConverges
  SplitImageFlaps
  
  NoOrphans
CHECK_DEADLOCK FALSE
