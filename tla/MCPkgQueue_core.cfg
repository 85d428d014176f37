CONSTANTS
  appA = appA appB = appB c1 = c1 c2 = c2 w1 = w1 w2 = w2 w3 = w3 s1 = s1 n1 = n1
  NoProc = NoProc
  Apps = {appA}
  Available = {appA}
  Callers = {c1, c2}
  Workers = {w1, w2}
  Singles = {}
  Restarters = {}
  Asked = {"install", "remove"}
  SingleAsked = {}
  Requests <- JustA
  MaxJobs = 3
  MaxSingles = 0
  MaxFaults = 0
SPECIFICATION Spec
INVARIANTS TypeOK OneExecutor HeadIsExecuting InOrder NoLostWakeup
PROPERTY ReliableWork
\* The bounds on jobs, calls and faults stop the system.
CHECK_DEADLOCK FALSE
SYMMETRY Alike
