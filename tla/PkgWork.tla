------------------------------ MODULE PkgWork -------------------------------
(***************************************************************************)
(* What the package queue promises its callers: a first-in first-out list  *)
(* of accepted jobs, executed one at a time.  A job stays first in the     *)
(* list while it is executed and leaves it when that has ended.            *)
(***************************************************************************)
EXTENDS Naturals, Sequences

CONSTANTS Jobs, NoJob

VARIABLES jobs, running

work == <<jobs, running>>

WorkInit == jobs = <<>> /\ running = NoJob

\* A call adds its jobs, whatever is being executed.
Accept ==
  /\ \E n \in 1..Len(jobs') :
       Len(jobs') = Len(jobs) + n /\ SubSeq(jobs', 1, Len(jobs)) = jobs
  /\ UNCHANGED running

Begin == running = NoJob /\ jobs # <<>> /\ running' = Head(jobs) /\ UNCHANGED jobs

Finish == running # NoJob /\ jobs' = Tail(jobs) /\ running' = NoJob

\* The execution is broken off: the job is still first in the list.
Abort == running # NoJob /\ running' = NoJob /\ UNCHANGED jobs

\* The list is lost while it is rewritten.
Lose == running # NoJob /\ running' = NoJob /\ jobs' = <<>>

ReliableNext == Accept \/ Begin \/ Finish
FaultyNext == ReliableNext \/ Abort \/ Lose

ReliableSpec == WorkInit /\ [][ReliableNext]_work
FaultySpec == WorkInit /\ [][FaultyNext]_work
=============================================================================
