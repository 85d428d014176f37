CONSTANTS
  Focus = {"eth", "bmt"}
  RingSize = 4
  Thresh = 2
  Needs = {1, 2}
  RxSize = 0
  Budget = 1
  TotalBlks = 5
  PoolLba = 2
  BlkPages = 2
  BbMax = 1
  MaxRetry = 1
  MaxFaults = 2
  Addrs = {a1}
  BadAddr = bad
  Ids = {i1}
  MaxLimit = 1
  MaxAddrs = 1
SPECIFICATION Spec
INVARIANTS FeTypeOK RingOrder QueueBalance NoStuckQueue DoorbellRung AwakeRing QuietWhenOff NoHangWhileUp
  BmtTypeOK NoAlias TableApart Intact
PROPERTIES KeepsItsPromise
CHECK_DEADLOCK FALSE
