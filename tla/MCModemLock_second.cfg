CONSTANTS
  uroot = uroot udfota = udfota ping1 = ping1 ping2 = ping2 per1 = per1
  Nobody = Nobody
  Updaters = {uroot, udfota}
  Pings = {ping1}
  Periodics = {per1}
  User <- UserOf
  Root = "root"
  EmptyRuns = {udfota}
  MayReboot = {}
  FilePresent = TRUE
  MaxModems = 2
  MaxRuns = 2
  MaxFaults = 0
SPECIFICATION FairSpec
PROPERTY RunEnds
\* The bound on runs stops the system.
CHECK_DEADLOCK FALSE
