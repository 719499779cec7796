CONSTANTS
  b1 = b1
  ipxe = ipxe
  http = http
  both = both
  pxeOnly = pxeOnly
  ukiOnly = ukiOnly
  broken = broken
  NoRef = NoRef
  Configs = {ipxe}
  KindOf <- KindOfPXE
  Secrets = {s1}
  SBCs = {b1}
  OwnerOf <- AllOwnedByB1
  Images = {both, broken, ukiOnly}
  Outcome <- MCOutcome
  Nets = {n1}
  MaxEdits = 1
  MaxFaults = 1
  MaxLag = 2
SPECIFICATION FairSpec
INVARIANTS
  TypeOK
  SBCSettledIsCorrect
PROPERTIES
  SBCConverges
  NoOrphans
CHECK_DEADLOCK FALSE
