SPECIFICATION FairSpec
CONSTANTS
  s1 = s1
  Sessions = {s1}
  NoPack = NoPack
  packSize = 1
  PackSize <- MCPackSize
  NoSession = NoSession
  Tokens = {t1, t2}
  Visitors = {v1}
  TTL = 1
  Retention = 0
  MaxTime = 2
  MaxOutages = 2
  Faults = {"db", "stripe", "lost answer", "restart"}
INVARIANTS
  NoCreditBeforeFunds
  AnsweredDisputeRevokes
  PagesAgree
PROPERTIES
  PaidIsMinted
  
CHECK_DEADLOCK FALSE
