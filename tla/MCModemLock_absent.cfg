CONSTANTS
  uroot = uroot udfota = udfota ping1 = ping1 ping2 = ping2 per1 = per1
  Nobody = Nobody
  Updaters = {uroot, udfota}
  Pings = {ping1}
  Periodics = {per1}
  User <- UserOf
  Root = "root"
  EmptyRuns = {udfota}
  MayReboot = {}
  FilePresent = FALSE
  MaxModems = 1
  MaxRuns = 3
  MaxFaults = 0
SPECIFICATION Spec
INVARIANT RestartExcludesUpdate
\* The bound on runs stops the system.
CHECK_DEADLOCK FALSE
