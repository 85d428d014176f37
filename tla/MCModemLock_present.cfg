CONSTANTS
  uroot = uroot udfota = udfota ping1 = ping1 ping2 = ping2 per1 = per1
  Nobody = Nobody
  Updaters = {uroot, udfota}
  Pings = {ping1, ping2}
  Periodics = {per1}
  User <- UserOf
  Root = "root"
  EmptyRuns = {udfota}
  MayReboot = {}
  FilePresent = TRUE
  MaxModems = 1
  MaxRuns = 5
  MaxFaults = 0
SPECIFICATION FairSpec
INVARIANTS RestartExcludesUpdate LockLeftFree
PROPERTY RunEnds
\* The bound on runs stops the system.
CHECK_DEADLOCK FALSE
