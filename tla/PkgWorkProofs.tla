--------------------------- MODULE PkgWorkProofs ---------------------------
(***************************************************************************)
(* The package queue implements PkgWork, for any number of processes,      *)
(* packages, calls and faults: the queue file read from its last line is   *)
(* the list of accepted jobs, and what the worker inside the multi lock    *)
(* does to its last line is what PkgWork allows.                           *)
(***************************************************************************)
EXTENDS PkgQueueProofs

-----------------------------------------------------------------------------
(* The queue read from its last line.                                      *)

Reversed(q) == [i \in 1..Len(q) |-> q[Len(q) + 1 - i]]

\* Reversing keeps the lines and their number.
LEMMA ReversedFacts ==
  ASSUME NEW T, NEW q \in Seq(T)
  PROVE  /\ Reversed(q) \in Seq(T)
         /\ Len(Reversed(q)) = Len(q)
         /\ \A i \in 1..Len(q) : Reversed(q)[i] = q[Len(q) + 1 - i]
<1>1. Len(q) \in Nat
  BY LenProperties
<1>2. \A i \in 1..Len(q) : Len(q) + 1 - i \in 1..Len(q)
  BY <1>1
<1>3. \A i \in 1..Len(q) : q[Len(q) + 1 - i] \in T
  BY <1>2, ElementOfSeq
<1>4. Reversed(q) \in [1..Len(q) -> T]
  BY <1>3 DEF Reversed
<1>5. Reversed(q) \in Seq(T)
  BY <1>1, <1>4, SeqDef
<1>6. Len(Reversed(q)) \in Nat /\ DOMAIN Reversed(q) = 1..Len(Reversed(q))
  BY <1>5, LenProperties
<1>7. DOMAIN Reversed(q) = 1..Len(q)
  BY DEF Reversed
<1>8. Len(Reversed(q)) = Len(q)
  BY <1>1, <1>6, <1>7
<1>9. QED
  BY <1>5, <1>8 DEF Reversed

\* The last line comes first, and the others are what follows it.
LEMMA ReversedFront ==
  ASSUME NEW T, NEW q \in Seq(T), q # <<>>
  PROVE  /\ Reversed(q) # <<>>
         /\ Head(Reversed(q)) = Last(q)
         /\ Tail(Reversed(q)) = Reversed(Front(q))
<1> DEFINE r == Reversed(q)
           f == Front(q)
<1>1. PICK n \in Nat \ {0} : n = Len(q)
  BY EmptySeq
<1>2. /\ f \in Seq(T) /\ Len(f) = n - 1 /\ Last(q) = q[n]
      /\ \A i \in 1..(n - 1) : f[i] = q[i]
  BY <1>1, FrontFacts
<1>3. r \in Seq(T) /\ Len(r) = n /\ \A i \in 1..n : r[i] = q[n + 1 - i]
  BY <1>1, ReversedFacts
<1>4. /\ Reversed(f) \in Seq(T) /\ Len(Reversed(f)) = n - 1
      /\ \A i \in 1..(n - 1) : Reversed(f)[i] = f[n - i]
  <2> HIDE DEF f
  <2>1. /\ Reversed(f) \in Seq(T) /\ Len(Reversed(f)) = Len(f)
        /\ \A i \in 1..Len(f) : Reversed(f)[i] = f[Len(f) + 1 - i]
    BY <1>2, ReversedFacts
  <2>2. \A i \in 1..(n - 1) : Len(f) + 1 - i = n - i
    BY <1>1, <1>2
  <2>3. QED
    BY <1>2, <2>1, <2>2
<1> HIDE DEF r, f
<1>5. r # <<>>
  BY <1>1, <1>3, EmptySeq
<1>6. Tail(r) \in Seq(T) /\ Len(Tail(r)) = n - 1 /\ \A i \in 1..(n - 1) : Tail(r)[i] = r[i + 1]
  BY <1>1, <1>3, <1>5, HeadTailProperties
<1>7. \A i \in 1..(n - 1) : Tail(r)[i] = Reversed(f)[i]
  <2>1. SUFFICES ASSUME NEW i \in 1..(n - 1) PROVE Tail(r)[i] = Reversed(f)[i]
    OBVIOUS
  <2>2. i + 1 \in 1..n /\ n + 1 - (i + 1) = n - i /\ n - i \in 1..(n - 1)
    BY <1>1
  <2>3. Tail(r)[i] = q[n - i]
    BY <1>3, <1>6, <2>2
  <2>4. QED
    BY <1>2, <1>4, <2>2, <2>3
<1>8. Tail(r) = Reversed(f)
  BY <1>4, <1>6, <1>7, SeqEqual
<1>9. Head(r) = r[1] /\ r[1] = q[n]
  BY <1>1, <1>3
<1>10. QED
  BY <1>2, <1>5, <1>8, <1>9 DEF r, f

\* Lines put before the others come after them in the reversed queue.
LEMMA ReversedConcat ==
  ASSUME NEW T, NEW s \in Seq(T), NEW q \in Seq(T)
  PROVE  /\ Len(Reversed(s \o q)) = Len(Reversed(q)) + Len(s)
         /\ SubSeq(Reversed(s \o q), 1, Len(Reversed(q))) = Reversed(q)
<1> DEFINE c == s \o q
<1>1. PICK n \in Nat, m \in Nat : n = Len(q) /\ m = Len(s)
  BY LenProperties
<1>2. /\ c \in Seq(T) /\ Len(c) = m + n
      /\ \A i \in 1..(m + n) : c[i] = IF i <= m THEN s[i] ELSE q[i - m]
  BY <1>1, ConcatProperties
<1>3. Reversed(q) \in Seq(T) /\ Len(Reversed(q)) = n /\ \A i \in 1..n : Reversed(q)[i] = q[n + 1 - i]
  BY <1>1, ReversedFacts
<1> HIDE DEF c
<1>4. /\ Reversed(c) \in Seq(T) /\ Len(Reversed(c)) = m + n
      /\ \A i \in 1..(m + n) : Reversed(c)[i] = c[m + n + 1 - i]
  <2>1. /\ Reversed(c) \in Seq(T) /\ Len(Reversed(c)) = Len(c)
        /\ \A i \in 1..Len(c) : Reversed(c)[i] = c[Len(c) + 1 - i]
    BY <1>2, ReversedFacts
  <2>2. QED
    BY <1>2, <2>1
<1> DEFINE b == SubSeq(Reversed(c), 1, n)
<1>5. b \in Seq(T) /\ Len(b) = n /\ \A i \in 1..n : b[i] = Reversed(c)[i]
  <2>1. \A i \in 1..n : Reversed(c)[i] \in T
    <3>1. \A i \in 1..n : i \in 1..Len(Reversed(c))
      BY <1>1, <1>4
    <3>2. QED
      BY <1>4, <3>1, ElementOfSeq
  <2>2. /\ b \in Seq(T) /\ Len(b) = IF 1 <= n THEN n - 1 + 1 ELSE 0
        /\ \A i \in 1..(n - 1 + 1) : b[i] = Reversed(c)[1 + i - 1]
    BY <2>1, SubSeqProperties
  <2>3. n - 1 + 1 = n /\ \A i \in 1..n : 1 + i - 1 = i
    BY <1>1
  <2>4. Len(b) = n
    BY <2>2
  <2>5. QED
    BY <2>2, <2>3, <2>4
<1> HIDE DEF b
<1>6. \A i \in 1..n : b[i] = Reversed(q)[i]
  <2>1. SUFFICES ASSUME NEW i \in 1..n PROVE b[i] = Reversed(q)[i]
    OBVIOUS
  <2>2. /\ i \in 1..(m + n) /\ m + n + 1 - i \in 1..(m + n)
        /\ ~(m + n + 1 - i <= m) /\ (m + n + 1 - i) - m = n + 1 - i
    BY <1>1
  <2>3. b[i] = c[m + n + 1 - i]
    BY <1>4, <1>5, <2>2
  <2>4. c[m + n + 1 - i] = q[n + 1 - i]
    BY <1>2, <2>2
  <2>5. QED
    BY <1>3, <2>3, <2>4
<1>7. b = Reversed(q)
  BY <1>3, <1>5, <1>6, SeqEqual
<1>8. QED
  BY <1>1, <1>3, <1>4, <1>7 DEF b, c

-----------------------------------------------------------------------------
(* The job in execution.                                                   *)

\* The worker has begun a job and not yet dropped it.
InJob(w) == Executes(w) \/ pc[w] = "commit"
Busy == \E w \in Workers : InJob(w)

\* The job in execution is the last line of the queue, and a job.
RunsTheLast ==
  /\ RunningJob = IF Busy THEN Last(queue) ELSE NoJob
  /\ Busy => queue # <<>> /\ RunningJob # NoJob

LEMMA RunningIsLast == IInv => RunsTheLast
<1> SUFFICES ASSUME IInv PROVE RunsTheLast
  OBVIOUS
<1>1. \A w \in Workers : Executes(w) => queue # <<>> /\ Job(w) = Last(queue)
  BY JobType DEF Executes
<1>2. \A w \in Workers : pc[w] = "commit" => queue # <<>>
  BY DEF IInv, QueueOwner
<1>3. Busy => queue # <<>>
  BY <1>1, <1>2 DEF Busy, InJob
<1>4. RunningJob = IF Busy THEN Last(queue) ELSE NoJob
  BY <1>1 DEF RunningJob, Busy, InJob
<1>5. NoJob \notin Jobs
  BY DEF NoJob, Jobs, Actions
<1>6. queue # <<>> => Last(queue) \in Jobs
  BY FrontFacts DEF IInv, TypeOK
<1>7. QED
  BY <1>3, <1>4, <1>5, <1>6 DEF RunsTheLast

\* One worker at most is in a job: the one inside the multi lock.
LEMMA OnlyInside ==
  ASSUME IInv, NEW w \in Workers, pc[w] \in Locked
  PROVE  Busy <=> InJob(w)
BY DEF IInv, MultiOwner, InsideMulti, Locked, Running, Busy, InJob, Executes, Procs

\* A caller that is about to queue jobs has some.
AsksForJobs == \A c \in Callers : pc[c] = "enqueue" => req[c].pkgs # <<>>

LEMMA AsksStep == TypeOK /\ AsksForJobs /\ [Next]_vars => AsksForJobs'
<1> SUFFICES ASSUME TypeOK, AsksForJobs, [Next]_vars PROVE AsksForJobs'
  OBVIOUS
<1>1. /\ pc \in [Procs -> CallerLabels \cup WorkerLabels \cup SingleLabels]
      /\ req \in [Callers \cup Singles -> [action : SingleActions, pkgs : Seq(Apps)]]
  BY DEF TypeOK
<1>2. /\ Callers \subseteq Procs /\ Callers \cap (Workers \cup Singles) = {}
      /\ Workers \subseteq Procs /\ Singles \subseteq Procs
  BY ProcsAssumption DEF Procs
<1>3. ASSUME \A c \in Callers : pc'[c] = "enqueue" => pc[c] = "enqueue" /\ req'[c] = req[c]
      PROVE  AsksForJobs'
  BY <1>3 DEF AsksForJobs
<1>4. ASSUME NEW p \in Procs, UpdateStep(p) PROVE AsksForJobs'
  BY <1>3, <1>4 DEF UpdateStep, StatusLoad, StatusTruncate, StatusStore
<1>5. ASSUME NEW c \in Callers, CallerStep(c) PROVE AsksForJobs'
  <2>1. CASE Enqueue(c)
    BY <1>1, <1>2, <1>3, <2>1 DEF Enqueue
  <2>2. CASE \E w \in Workers : Fork(c, w)
    BY <1>1, <1>2, <1>3, <2>2 DEF Fork
  <2>3. QED
    BY <1>5, <2>1, <2>2 DEF CallerStep
<1>6. ASSUME NEW c \in Callers, NEW action \in Asked, NEW pkgs \in Requests, Call(c, action, pkgs)
      PROVE  AsksForJobs'
  BY <1>1, <1>2, <1>6, AppsAssumption DEF Call, AsksForJobs
<1>7. ASSUME NEW w \in Workers, WorkerStep(w) \/ WError(w) PROVE AsksForJobs'
  <2>1. UNCHANGED req /\ \E l \in WorkerLabels : pc' = [pc EXCEPT ![w] = l]
    BY <1>7 DEF WorkerStep, WAcquire, WStart, WStartEmpty, WExec, WUpgradeRefused, WUpgradeRemove,
                WUpgradeInstall, WEvent, WDrop, WCommit, WExit, WError, Iterate,
                WorkerLabels, Locked, Running
  <2>2. QED
    BY <1>1, <1>2, <1>3, <2>1
<1>8. ASSUME NEW s \in Singles, SingleStep(s) \/ \E action \in SingleAsked, a \in Apps : STry(s, action, a)
      PROVE  AsksForJobs'
  <2>1. /\ \E l \in SingleLabels : pc' = [pc EXCEPT ![s] = l]
        /\ req' = req \/ \E r : req' = [req EXCEPT ![s] = r]
    BY <1>8 DEF SingleStep, SRefused, SInstall, SRemovePending, SRemove, SUpgradeRemove,
                SUpgradeInstall, SExit, STry, SFinish, SingleLabels
  <2>2. QED
    BY <1>1, <1>2, <1>3, <2>1
<1>9. ASSUME NEW n \in Restarters, NEW keep \in SUBSET Apps, ClearMessages(n, keep) PROVE AsksForJobs'
  BY <1>3, <1>9 DEF ClearMessages
<1>10. ASSUME NEW p \in Procs, Crash(p) PROVE AsksForJobs'
  BY <1>1, <1>2, <1>3, <1>10 DEF Crash, Start
<1>11. CASE UNCHANGED vars
  BY <1>3, <1>11 DEF vars
<1>12. QED
  BY <1>4, <1>5, <1>6, <1>7, <1>8, <1>9, <1>10, <1>11 DEF Next

-----------------------------------------------------------------------------
(* What a step of the program does to the queue and to the job in          *)
(* execution.                                                              *)

Stands   == queue' = queue /\ (Busy' <=> Busy)
Accepts  == /\ \E new \in Seq(Jobs) : new # <<>> /\ queue' = new \o queue
            /\ Busy' <=> Busy
Begins   == queue' = queue /\ ~Busy /\ Busy'
Finishes == queue' = Front(queue) /\ Busy /\ ~Busy'
BreaksOff == queue' \in {queue, <<>>} /\ Busy /\ ~Busy' /\ faults' = faults + 1

\* A step that leaves the queue and takes no worker into or out of a job.
LEMMA StandsStep ==
  ASSUME queue' = queue, \A w \in Workers : InJob(w)' <=> InJob(w)
  PROVE  Stands
BY DEF Stands, Busy

\* The status of the job has been written: the worker goes on to execute it.
LEMMA UpdateKind ==
  ASSUME IInv, NEW p \in Procs, UpdateStep(p)
  PROVE  Stands \/ Begins
<1>1. queue' = queue /\ pc' = pc
  BY DEF UpdateStep, StatusLoad, StatusTruncate, StatusStore, files
<1>2. /\ io \in [Procs -> {"out", "entered", "loaded", "truncated"}]
      /\ Workers \subseteq Procs
  BY DEF IInv, TypeOK, Procs
<1>3. io[p] # "out" /\ \A q \in Procs \ {p} : io'[q] = io[q]
  BY <1>2 DEF UpdateStep, StatusLoad, StatusTruncate, StatusStore
<1>4. \A w \in Workers \ {p} : InJob(w)' <=> InJob(w)
  BY <1>1, <1>2, <1>3 DEF InJob, Executes
<1>5. CASE p \in Workers /\ pc[p] \in Running
  <2>1. ~InJob(p)
    BY <1>3, <1>5 DEF InJob, Executes, Running
  <2>2. ~Busy
    BY <1>5, <2>1, OnlyInside DEF Locked
  <2>3. CASE InJob(p)'
    BY <1>1, <1>5, <2>2, <2>3 DEF Begins, Busy
  <2>4. CASE ~InJob(p)'
    BY <1>1, <1>4, <2>1, <2>4, StandsStep
  <2>5. QED
    BY <2>3, <2>4
<1>6. CASE ~(p \in Workers /\ pc[p] \in Running)
  <2>1. p \in Workers => (InJob(p)' <=> InJob(p))
    BY <1>1, <1>6 DEF InJob, Executes
  <2>2. QED
    BY <1>1, <1>4, <2>1, StandsStep
<1>7. QED
  BY <1>5, <1>6

\* A caller puts its jobs above the queue; the job in execution stays the last.
LEMMA EnqueueKind ==
  ASSUME IInv, AsksForJobs, NEW c \in Callers, Enqueue(c)
  PROVE  Accepts
<1> DEFINE new == NewLines(req[c].action, req[c].pkgs)
<1>1. /\ req[c].pkgs \in Seq(Apps) /\ req[c].action \in Actions /\ issued \in Nat
      /\ pc \in [Procs -> CallerLabels \cup WorkerLabels \cup SingleLabels]
      /\ c \notin Workers
  BY ProcsAssumption DEF IInv, TypeOK, Procs
<1>2. new \in Seq(Jobs) /\ Len(new) = Len(req[c].pkgs)
  BY <1>1, NewLinesFacts
<1>3. new # <<>>
  <2>1. req[c].pkgs # <<>>
    BY DEF AsksForJobs, Enqueue, At
  <2>2. Len(req[c].pkgs) # 0
    BY <1>1, <2>1, EmptySeq
  <2>3. QED
    BY <1>2, <2>2, EmptySeq
<1>4. queue' = new \o queue
  BY DEF Enqueue, Above
<1>5. \A w \in Workers : InJob(w)' <=> InJob(w)
  BY <1>1 DEF Enqueue, InJob, Executes, Procs
<1>6. QED
  BY <1>2, <1>3, <1>4, <1>5 DEF Accepts, Busy

\* The other steps of callers, and those of singles and restarters.
LEMMA OtherKind ==
  ASSUME IInv, NEW p \in Procs \ Workers, NEW l,
         queue' = queue,
         pc' = pc \/ pc' = [pc EXCEPT ![p] = l],
         io' = io \/ io' = [io EXCEPT ![p] = "entered"]
  PROVE  Stands
<1>1. \A w \in Workers : pc'[w] = pc[w] /\ io'[w] = io[w]
  BY DEF IInv, TypeOK, Procs
<1>2. \A w \in Workers : InJob(w)' <=> InJob(w)
  BY <1>1 DEF InJob, Executes
<1>3. QED
  BY <1>2, StandsStep

LEMMA ForkKind ==
  ASSUME IInv, NEW c \in Callers, NEW w \in Workers, Fork(c, w)
  PROVE  Stands
<1>1. /\ pc \in [Procs -> CallerLabels \cup WorkerLabels \cup SingleLabels]
      /\ Workers \subseteq Procs /\ c \notin Workers
  BY ProcsAssumption DEF IInv, TypeOK, Procs
<1>2. \A v \in Workers \ {w} : pc'[v] = pc[v]
  BY <1>1 DEF Fork
<1>3. pc[w] = "off" /\ pc'[w] = "wait"
  BY <1>1 DEF Fork
<1>4. queue' = queue /\ io' = io
  BY DEF Fork, files, update
<1>5. \A v \in Workers : InJob(v)' <=> InJob(v)
  BY <1>2, <1>3, <1>4 DEF InJob, Executes, Running
<1>6. QED
  BY <1>4, <1>5, StandsStep

\* A worker executes the job, drops it from its copy of the queue and begins no
\* other before it has written the queue.
LEMMA WorkerKind ==
  ASSUME IInv, NEW w \in Workers, WorkerStep(w)
  PROVE  Stands \/ Finishes
<1>1. /\ pc \in [Procs -> CallerLabels \cup WorkerLabels \cup SingleLabels]
      /\ io \in [Procs -> {"out", "entered", "loaded", "truncated"}]
      /\ w \in Procs /\ Workers \subseteq Procs
  BY DEF IInv, TypeOK, Procs
<1>2. ASSUME NEW l, queue' = queue, pc' = [pc EXCEPT ![w] = l],
             io' = io \/ io' = [io EXCEPT ![w] = "entered"],
             InJob(w)' <=> InJob(w)
      PROVE  Stands
  <2>1. \A v \in Workers \ {w} : InJob(v)' <=> InJob(v)
    BY <1>1, <1>2 DEF InJob, Executes
  <2>2. QED
    BY <1>2, <2>1, StandsStep
<1>3. CASE WAcquire(w)
  BY <1>1, <1>2, <1>3 DEF WAcquire, At, InJob, Executes, Running, files, update
<1>4. CASE WStartEmpty(w)
  BY <1>1, <1>2, <1>4 DEF WStartEmpty, At, InJob, Executes, Running, files, update
<1>5. CASE WStart(w)
  BY <1>1, <1>2, <1>5 DEF WStart, Iterate, EnterUpdate, At, InJob, Executes, Running, files
<1>6. CASE WExec(w) \/ WUpgradeRefused(w) \/ WUpgradeRemove(w) \/ WUpgradeInstall(w) \/ WEvent(w)
  <2>1. /\ queue' = queue /\ io' = io
        /\ \E l \in Running : pc' = [pc EXCEPT ![w] = l]
    BY <1>6 DEF WExec, WUpgradeRefused, WUpgradeRemove, WUpgradeInstall, WEvent, Running,
                files, update
  <2>2. pc[w] \in Running /\ io[w] = "out"
    BY <1>6 DEF WExec, WUpgradeRefused, WUpgradeRemove, WUpgradeInstall, WEvent, Running, At
  <2>3. QED
    BY <1>1, <1>2, <2>1, <2>2 DEF InJob, Executes
<1>7. CASE WDrop(w)
  BY <1>1, <1>2, <1>7 DEF WDrop, EnterUpdate, At, InJob, Executes, Running, files
<1>8. CASE WCommit(w)
  <2>1. pc[w] = "commit" /\ lines[w] = Front(queue) /\ queue' = lines[w]
    BY <1>8 DEF WCommit, At, IInv, QueueOwner
  <2>2. Busy
    BY <2>1 DEF Busy, InJob
  <2>3. ~InJob(w)'
    BY <1>1, <1>8 DEF WCommit, Iterate, EnterUpdate, InJob, Executes, Running
  <2>4. \A v \in Workers \ {w} : ~InJob(v)
    BY <2>1 DEF IInv, MultiOwner, InsideMulti, Locked, InJob, Executes, Procs
  <2>5. \A v \in Workers \ {w} : InJob(v)' <=> InJob(v)
    BY <1>1, <1>8 DEF WCommit, Iterate, EnterUpdate, InJob, Executes
  <2>6. ~Busy'
    BY <2>3, <2>4, <2>5 DEF Busy
  <2>7. QED
    BY <2>1, <2>2, <2>6 DEF Finishes
<1>9. CASE WExit(w)
  BY <1>1, <1>2, <1>9 DEF WExit, At, InJob, Executes, Running, files, update
<1>10. QED
  BY <1>3, <1>4, <1>5, <1>6, <1>7, <1>8, <1>9 DEF WorkerStep

\* An error leaves the job, the last line, to the next worker.
LEMMA WErrorKind ==
  ASSUME IInv, NEW w \in Workers, WError(w)
  PROVE  BreaksOff
<1>1. /\ pc \in [Procs -> CallerLabels \cup WorkerLabels \cup SingleLabels]
      /\ Workers \subseteq Procs
  BY DEF IInv, TypeOK, Procs
<1>2. InJob(w) /\ pc[w] \in Running
  BY DEF WError, At, InJob, Executes, Running
<1>3. \A v \in Workers \ {w} : ~InJob(v) /\ pc'[v] = pc[v]
  <2>1. \A v \in Workers \ {w} : ~InJob(v)
    BY <1>2 DEF IInv, MultiOwner, InsideMulti, Locked, InJob, Executes, Procs
  <2>2. QED
    BY <1>1, <2>1 DEF WError
<1>4. ~InJob(w)'
  BY <1>1 DEF WError, InJob, Executes, Running
<1>5. queue' = queue /\ io' = io /\ faults' = faults + 1
  BY DEF WError, files, update
<1>6. ~Busy'
  BY <1>3, <1>4, <1>5 DEF Busy, InJob, Executes
<1>7. QED
  BY <1>2, <1>5, <1>6 DEF BreaksOff, Busy

\* A worker that dies in a job breaks it off, and may lose the queue; the death
\* of another process changes nothing here.
LEMMA CrashKind ==
  ASSUME IInv, NEW p \in Procs, Crash(p)
  PROVE  Stands \/ BreaksOff
<1>1. /\ pc \in [Procs -> CallerLabels \cup WorkerLabels \cup SingleLabels]
      /\ io \in [Procs -> {"out", "entered", "loaded", "truncated"}]
      /\ Workers \subseteq Procs
      /\ pc[p] = "commit" => p \in Workers
  <2>1. \A q \in Callers \cup Singles \cup Restarters : pc[q] # "commit"
    BY DEF IInv, TypeOK, CallerLabels, SingleLabels
  <2>2. QED
    BY <2>1 DEF IInv, TypeOK, Procs
<1>2. \A v \in Workers \ {p} : InJob(v)' <=> InJob(v)
  BY <1>1 DEF Crash, InJob, Executes
<1>3. p \in Workers => ~InJob(p)'
  BY <1>1 DEF Crash, Start, InJob, Executes, Running
<1>4. CASE p \in Workers /\ InJob(p)
  <2>1. \A v \in Workers \ {p} : ~InJob(v)
    BY <1>4 DEF IInv, MultiOwner, InsideMulti, Locked, InJob, Executes, Procs
  <2>2. queue' \in {queue, <<>>} /\ faults' = faults + 1
    BY DEF Crash
  <2>3. QED
    BY <1>2, <1>3, <1>4, <2>1, <2>2 DEF BreaksOff, Busy
<1>5. CASE ~(p \in Workers /\ InJob(p))
  <2>1. queue' = queue
    BY <1>1, <1>5 DEF Crash, At, InJob
  <2>2. QED
    BY <1>2, <1>3, <1>5, <2>1, StandsStep
<1>6. QED
  BY <1>4, <1>5

\* Every step is of one of these kinds.
LEMMA Kinds ==
  ASSUME IInv, AsksForJobs, [Next]_vars
  PROVE  Stands \/ Accepts \/ Begins \/ Finishes \/ BreaksOff
<1>1. /\ Callers \cap Workers = {} /\ Singles \cap Workers = {} /\ Restarters \cap Workers = {}
      /\ Callers \subseteq Procs /\ Singles \subseteq Procs /\ Restarters \subseteq Procs
  BY ProcsAssumption DEF Procs
<1>2. CASE \E p \in Procs : UpdateStep(p)
  BY <1>2, UpdateKind
<1>3. CASE \E c \in Callers : CallerStep(c)
  BY <1>3, EnqueueKind, ForkKind DEF CallerStep
<1>4. ASSUME NEW c \in Callers, NEW action \in Asked, NEW pkgs \in Requests, Call(c, action, pkgs)
      PROVE  Stands
  BY <1>1, <1>4, OtherKind DEF Call, EnterUpdate, files
<1>5. CASE \E w \in Workers : WorkerStep(w)
  BY <1>5, WorkerKind
<1>6. ASSUME NEW s \in Singles, SingleStep(s) \/ \E action \in SingleAsked, a \in Apps : STry(s, action, a)
      PROVE  Stands
  <2>1. /\ queue' = queue /\ \E l : pc' = [pc EXCEPT ![s] = l]
        /\ io' = io \/ io' = [io EXCEPT ![s] = "entered"]
    BY <1>6 DEF SingleStep, SRefused, SInstall, SRemovePending, SRemove, SUpgradeRemove,
                SUpgradeInstall, SExit, STry, SFinish, EnterUpdate, files, update
  <2>2. QED
    BY <1>1, <2>1, OtherKind
<1>7. ASSUME NEW n \in Restarters, NEW keep \in SUBSET Apps, ClearMessages(n, keep) PROVE Stands
  BY <1>1, <1>7, OtherKind DEF ClearMessages, EnterUpdate, files
<1>8. CASE \E w \in Workers : WError(w)
  BY <1>8, WErrorKind
<1>9. CASE \E p \in Procs : Crash(p)
  BY <1>9, CrashKind
<1>10. CASE UNCHANGED vars
  BY <1>10, StandsStep DEF vars, InJob, Executes
<1>11. QED
  BY <1>2, <1>3, <1>4, <1>5, <1>6, <1>7, <1>8, <1>9, <1>10 DEF Next

-----------------------------------------------------------------------------
(* The refinement.                                                         *)

\* Initially no job is accepted and none is in execution.
LEMMA WorkInit == Init => Work!WorkInit
<1> SUFFICES ASSUME Init PROVE Work!WorkInit
  OBVIOUS
<1>1. queue = <<>> /\ Len(queue) = 0
  BY EmptySeq DEF Init
<1>2. [i \in 1..Len(queue) |-> queue[Len(queue) + 1 - i]] = <<>>
  BY <1>1
<1>3. \A w \in Workers : pc[w] = "off"
  BY DEF Init, Start, Procs
<1>4. RunningJob = NoJob
  BY <1>3 DEF RunningJob, Executes, Running
<1>5. QED
  BY <1>2, <1>4 DEF Work!WorkInit

\* Each kind of step is a step of PkgWork or leaves it alone; only a fault breaks
\* an execution off.
LEMMA WorkStep ==
  ASSUME IInv, IInv', AsksForJobs, RunsTheLast, RunsTheLast', [Next]_vars
  PROVE  /\ [Work!FaultyNext]_(Work!work)
         /\ faults' = 0 => [Work!ReliableNext]_(Work!work)
<1> DEFINE jobs == Reversed(queue)
           jobsP == Reversed(queue')
<1>1. queue \in Seq(Jobs) /\ queue' \in Seq(Jobs) /\ faults \in Nat
  BY DEF IInv, TypeOK
<1>2. /\ [i \in 1..Len(queue) |-> queue[Len(queue) + 1 - i]] = jobs
      /\ [i \in 1..Len(queue') |-> queue'[Len(queue') + 1 - i]] = jobsP
  BY DEF Reversed
<1>3. CASE Stands
  <2>1. queue' = queue /\ RunningJob' = RunningJob
    BY <1>3 DEF Stands, RunsTheLast
  <2>2. UNCHANGED Work!work
    BY <2>1 DEF Work!work
  <2>3. QED
    BY <2>2
<1>4. CASE Accepts
  <2>1. PICK new \in Seq(Jobs) : new # <<>> /\ queue' = new \o queue
    BY <1>4 DEF Accepts
  <2>2. Len(new) \in Nat \ {0} /\ Len(jobs) \in Nat
    BY <1>1, <2>1, EmptySeq, ReversedFacts, LenProperties
  <2>3. Len(jobsP) = Len(jobs) + Len(new) /\ SubSeq(jobsP, 1, Len(jobs)) = jobs
    BY <1>1, <2>1, ReversedConcat
  <2>4. RunningJob' = RunningJob
    <3>1. CASE Busy
      <4>1. queue # <<>>
        BY <3>1 DEF RunsTheLast
      <4>2. Last(queue') = Last(queue)
        BY <1>1, <2>1, <4>1, PrependFacts
      <4>3. QED
        BY <1>4, <3>1, <4>2 DEF Accepts, RunsTheLast
    <3>2. CASE ~Busy
      BY <1>4, <3>2 DEF Accepts, RunsTheLast
    <3>3. QED
      BY <3>1, <3>2
  <2>5. Len(new) \in 1..Len(jobsP)
    BY <2>2, <2>3
  <2> HIDE DEF jobs, jobsP
  <2>6. Work!Accept
    BY <1>2, <2>3, <2>4, <2>5 DEF Work!Accept
  <2>7. QED
    BY <2>6 DEF Work!FaultyNext, Work!ReliableNext
<1>5. CASE Begins
  <2>1. RunningJob = NoJob /\ RunningJob' = Last(queue) /\ queue # <<>> /\ queue' = queue
    BY <1>5 DEF Begins, RunsTheLast
  <2>2. jobs # <<>> /\ Head(jobs) = Last(queue)
    BY <1>1, <2>1, ReversedFront
  <2>3. jobsP = jobs
    BY <2>1
  <2> HIDE DEF jobs, jobsP
  <2>4. Work!Begin
    BY <1>2, <2>1, <2>2, <2>3 DEF Work!Begin
  <2>5. QED
    BY <2>4 DEF Work!FaultyNext, Work!ReliableNext
<1>6. CASE Finishes
  <2>1. RunningJob # NoJob /\ RunningJob' = NoJob /\ queue # <<>> /\ queue' = Front(queue)
    BY <1>6 DEF Finishes, RunsTheLast
  <2>2. jobsP = Tail(jobs)
    BY <1>1, <2>1, ReversedFront
  <2> HIDE DEF jobs, jobsP
  <2>3. Work!Finish
    BY <1>2, <2>1, <2>2 DEF Work!Finish
  <2>4. QED
    BY <2>3 DEF Work!FaultyNext, Work!ReliableNext
<1>7. CASE BreaksOff
  <2>1. RunningJob # NoJob /\ RunningJob' = NoJob
    BY <1>7 DEF BreaksOff, RunsTheLast
  <2>2. faults' # 0
    BY <1>1, <1>7 DEF BreaksOff
  <2>3. CASE queue' = queue
    <3>1. jobsP = jobs
      BY <2>3
    <3> HIDE DEF jobs, jobsP
    <3>2. Work!Abort
      BY <1>2, <2>1, <3>1 DEF Work!Abort
    <3>3. QED
      BY <2>2, <3>2 DEF Work!FaultyNext
  <2>4. CASE queue' = <<>>
    <3>1. jobsP = <<>>
      BY <2>4, EmptySeq DEF Reversed
    <3> HIDE DEF jobs, jobsP
    <3>2. Work!Lose
      BY <1>2, <2>1, <3>1 DEF Work!Lose
    <3>3. QED
      BY <2>2, <3>2 DEF Work!FaultyNext
  <2>5. QED
    BY <1>7, <2>3, <2>4 DEF BreaksOff
<1>8. QED
  BY <1>3, <1>4, <1>5, <1>6, <1>7, Kinds

\* What the proof needs of a state holds in every one of them.
LEMMA WorkInvariance == Spec => [](IInv /\ AsksForJobs /\ RunsTheLast)
<1>1. Init => AsksForJobs
  BY DEF Init, AsksForJobs, Start, Procs
<1>2. IInv => TypeOK
  BY DEF IInv
<1>3. QED
  BY <1>1, <1>2, AsksStep, RunningIsLast, Invariance, PTL DEF Spec

\* The queue as a whole: whoever calls, fails or dies, what the device does with
\* the queue file is a first-in first-out list of jobs executed one at a time, of
\* which a fault may break the execution off or, while the file is rewritten,
\* lose the list.
THEOREM ImplementsFaultyWork == Spec => FaultyWork
<1> DEFINE J == IInv /\ AsksForJobs /\ RunsTheLast
<1>1. J /\ J' /\ [Next]_vars => [Work!FaultyNext]_(Work!work)
  BY WorkStep
<1> HIDE DEF J
<1>2. Spec => []J
  BY WorkInvariance DEF J
<1>3. QED
  BY <1>1, <1>2, WorkInit, PTL DEF Spec, FaultyWork, Work!FaultySpec

\* While no process has failed, no execution is broken off and no job is lost.
THEOREM ImplementsReliableWork == Spec /\ [](faults = 0) => ReliableWork
<1> DEFINE J == IInv /\ AsksForJobs /\ RunsTheLast
<1>1. J /\ J' /\ (faults = 0)' /\ [Next]_vars => [Work!ReliableNext]_(Work!work)
  BY WorkStep
<1> HIDE DEF J
<1>2. Spec => []J
  BY WorkInvariance DEF J
<1>3. QED
  BY <1>1, <1>2, WorkInit, PTL DEF Spec, ReliableWork, Work!ReliableSpec
=============================================================================
