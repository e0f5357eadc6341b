SPECIFICATION Spec
CONSTANTS
  s1 = s1
  Sessions = {s1}
  NoPack = NoPack
  PackSize <- MCPackSize
  NoToken = NoToken
  NoJob = NoJob
  Tokens = {t1}
  Jobs = {j1, j2}
  Workers = {w1, w2}
  MaxConcurrent = 1
  TTL = 1
  Retention = 0
  FreeTTL = 1
  PremiumTTL = 2
  MaxTime = 2
  MaxOutages = 1
  Faults = {"setup", "create", "pipeline", "db", "restart"}
INVARIANTS
  CreditNotLost
  DirsFollowJobs
  ChargesMatchStore
  OneDeliveryPerCredit
PROPERTIES
  StoreContract
SYMMETRY JobSymmetry
CHECK_DEADLOCK FALSE
