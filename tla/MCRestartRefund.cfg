SPECIFICATION Spec
CONSTANTS
  s1 = s1
  Sessions = {s1}
  NoPack = NoPack
  PackSize <- MCPackSize
  NoToken = NoToken
  NoJob = NoJob
  Tokens = {t1}
  Jobs = {j1}
  Workers = {w1}
  MaxConcurrent = 1
  TTL = 2
  Retention = 0
  FreeTTL = 1
  PremiumTTL = 2
  MaxTime = 3
  MaxOutages = 1
  Faults = {"restart"}
INVARIANTS
  UndeliveredIsRefunded
CHECK_DEADLOCK FALSE
