SPECIFICATION FairSpec
CONSTANTS
  Thread = {t1, t2}
  Req = {r1, r2, r3, r4}
  NoReq = NoReq
  MaxQ = 2
  Preemptive = FALSE
CHECK_DEADLOCK FALSE
INVARIANT ExchangeSafe
INVARIANT WorkConserving
PROPERTY EveryRequestEnds
