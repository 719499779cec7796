CONSTANTS
  h1 = h1
  i1 = i1
  NoRef = NoRef
  Configs = {h1, i1}
  KindOf <- KindOfBoth
  Secrets = {s1}
  Payloads = {p1}
  MaxEdits = 2
  MaxFaults = 1
SPECIFICATION MCSpec
INVARIANTS
  TypeOK
  SettledIsCorrect
  WorkIsFresh
PROPERTIES
  Converges
  ComesToRest
  ImplementsStatus
CHECK_DEADLOCK FALSE
