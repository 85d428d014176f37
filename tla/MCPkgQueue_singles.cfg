CONSTANTS
  appA = appA appB = appB c1 = c1 c2 = c2 w1 = w1 w2 = w2 w3 = w3 s1 = s1 n1 = n1
  NoProc = NoProc
  Apps = {appA, appB}
  Available = {appA}
  Callers = {c1}
  Workers = {w1}
  Singles = {s1}
  Restarters = {n1}
  Asked = {"install", "remove", "upgrade"}
  SingleAsked = {"install", "remove", "upgrade", "offline", "upload"}
  Requests <- JustA
  MaxJobs = 1
  MaxSingles = 1
  MaxFaults = 0
SPECIFICATION Spec
INVARIANTS OneExecutor StatusSettles
\* The bounds on jobs, calls and faults stop the system.
CHECK_DEADLOCK FALSE
SYMMETRY Alike
