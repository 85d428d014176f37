CONSTANTS
  Focus = {"eth", "bmt", "dns"}
  RingSize = 2
  Thresh = 1
  Needs = {1}
  RxSize = 1
  Budget = 1
  TotalBlks = 4
  PoolLba = 1
  BlkPages = 1
  BbMax = 1
  MaxRetry = 0
  MaxFaults = 3
  Addrs = {a1, a2}
  BadAddr = bad
  Ids = {i1, i2}
  MaxLimit = 2
  MaxAddrs = 3
SPECIFICATION FairSpec
INVARIANTS Intact DnsTypeOK Window Complete Unmixed
PROPERTIES KeepsItsPromise Wakes Replied
CHECK_DEADLOCK FALSE
