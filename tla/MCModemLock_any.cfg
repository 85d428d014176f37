CONSTANTS
  uroot = uroot udfota = udfota ping1 = ping1 ping2 = ping2 per1 = per1
  Nobody = Nobody
  Updaters = {uroot, udfota}
  Pings = {ping1, ping2}
  Periodics = {per1}
  User <- UserOf
  Root = "root"
  EmptyRuns = {uroot, udfota}
  MayReboot = {ping1}
  FilePresent = FALSE
  MaxModems = 2
  MaxRuns = 4
  MaxFaults = 2
SPECIFICATION Spec
INVARIANTS TypeOK OneUpdater HoldsWhileUpdating
\* The bound on runs stops the system.
CHECK_DEADLOCK FALSE
