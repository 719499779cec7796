CONSTANTS
  b1 = b1
  ipxe = ipxe
  http = http
  both = both
  pxeOnly = pxeOnly
  ukiOnly = ukiOnly
  broken = broken
  NoRef = NoRef
  Configs = {ipxe}
  KindOf <- KindOfPXE
  Secrets = {}
  SBCs = {b1}
  OwnerOf <- AllOwnedByB1
  Images = {both}
  Outcome <- MCOutcome
  Nets = {n1}
  MaxEdits = 0
  MaxFaults = 1
  MaxLag = 2
SPECIFICATION Spec
INVARIANTS
  ReadyHasNoImageValidation
CHECK_DEADLOCK FALSE
