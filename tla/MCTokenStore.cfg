SPECIFICATION Spec
CONSTANTS
  s1 = s1
  s2 = s2
  Sessions = {s1, s2}
  Tokens = {t1, t2, t3, t4}
  NoPack = NoPack
  PackSize <- MCPackSize
  TTL = 2
  Retention = 1
  MaxTime = 5
  MaxSpends = 2
INVARIANTS
  SpendsAccounted
  PackUniform
  LedgeredOnlyIsLost
PROPERTIES
  PurgeOnlyVoid
  ImplementsCreditLedger
SYMMETRY HashSymmetry
CHECK_DEADLOCK FALSE
