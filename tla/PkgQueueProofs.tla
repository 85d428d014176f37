--------------------------- MODULE PkgQueueProofs ---------------------------
(***************************************************************************)
(* What holds of the package queue for any number of processes, packages   *)
(* and calls: one process executes at a time, what it executes is the last *)
(* line of the queue, and the queue keeps the order of the calls.          *)
(***************************************************************************)
EXTENDS PkgQueue, SequenceTheorems, WellFoundedInduction, TLAPS

\* A function from applications to statuses can be passed to the update of the
\* status file.
LEMMA UpdateType ==
  ASSUME NEW S \in SUBSET Apps, NEW f \in [S -> Statuses]
  PROVE  f \in Updates
  BY DEF Updates

\* PkgType gives the status of an action in progress.
LEMMA PkgTypeType ==
  ASSUME NEW action \in Actions
  PROVE  PkgType(action) \in InProgress /\ PkgType(action) \in Statuses
  BY DEF Actions, PkgType, InProgress, Statuses

\* The merged file has an entry of the right type for every application.
LEMMA MergeType ==
  ASSUME NEW old \in [Apps -> Statuses], NEW new \in Updates
  PROVE  Merge(old, new) \in [Apps -> Statuses]
<1>1. PICK S \in SUBSET Apps : new \in [S -> Statuses]
  BY DEF Updates
<1>2. QED
  BY <1>1 DEF Merge

\* Dropping the last line of a queue leaves its other lines in place.
LEMMA FrontFacts ==
  ASSUME NEW T, NEW q \in Seq(T), q # <<>>
  PROVE  /\ Front(q) \in Seq(T)
         /\ Len(Front(q)) = Len(q) - 1
         /\ \A i \in 1..(Len(q) - 1) : Front(q)[i] = q[i]
         /\ Last(q) = q[Len(q)] /\ Last(q) \in T
<1>1. PICK n \in Nat : n = Len(q) /\ n >= 1
  BY EmptySeq
<1>2. \A i \in 1..n : q[i] \in T
  BY <1>1, ElementOfSeq
<1>3. Front(q) = SubSeq(q, 1, n - 1)
  BY <1>1 DEF Front
<1>4. \A i \in 1..(n - 1) : q[i] \in T
  BY <1>2
<1>5. /\ SubSeq(q, 1, n - 1) \in Seq(T)
      /\ Len(SubSeq(q, 1, n - 1)) = IF 1 <= n - 1 THEN (n - 1) - 1 + 1 ELSE 0
      /\ \A i \in 1..((n - 1) - 1 + 1) : SubSeq(q, 1, n - 1)[i] = q[1 + i - 1]
  <2>1. 1 \in Int /\ n - 1 \in Int
    OBVIOUS
  <2>2. QED
    BY <2>1, <1>4, SubSeqProperties
<1>6. Len(Front(q)) = n - 1
  BY <1>1, <1>3, <1>5
<1>7. \A i \in 1..(n - 1) : Front(q)[i] = q[i]
  BY <1>1, <1>3, <1>5
<1>8. Last(q) = q[n] /\ Last(q) \in T
  BY <1>1, <1>2 DEF Last
<1>9. QED
  BY <1>1, <1>3, <1>5, <1>6, <1>7, <1>8

\* Putting lines before the others keeps the last line.
LEMMA PrependFacts ==
  ASSUME NEW T, NEW s \in Seq(T), NEW q \in Seq(T), q # <<>>
  PROVE  s \o q # <<>> /\ Last(s \o q) = Last(q)
<1>1. Len(s) \in Nat /\ Len(q) \in Nat \ {0}
  BY EmptySeq, LenProperties
<1>2. /\ s \o q \in Seq(T)
      /\ Len(s \o q) = Len(s) + Len(q)
      /\ \A i \in 1..(Len(s) + Len(q)) :
           (s \o q)[i] = IF i <= Len(s) THEN s[i] ELSE q[i - Len(s)]
  BY ConcatProperties
<1>3. s \o q # <<>>
  <2>1. Len(s \o q) # 0
    BY <1>1, <1>2
  <2>2. QED
    BY <2>1
<1>4. (s \o q)[Len(s) + Len(q)] = q[Len(q)]
  BY <1>1, <1>2
<1>5. Last(s \o q) = (s \o q)[Len(s) + Len(q)] /\ Last(q) = q[Len(q)]
  BY <1>2 DEF Last
<1>6. QED
  BY <1>3, <1>4, <1>5

\* The lines of a request have the right type and number, and the tickets
\* after those issued so far, the first package's last.
LEMMA NewLinesFacts ==
  ASSUME NEW action \in Actions, NEW pkgs \in Seq(Apps), issued \in Nat
  PROVE  /\ NewLines(action, pkgs) \in Seq(Jobs)
         /\ Len(NewLines(action, pkgs)) = Len(pkgs)
         /\ \A i \in 1..Len(pkgs) :
              NewLines(action, pkgs)[i].ticket = issued + Len(pkgs) + 1 - i
<1> DEFINE new == NewLines(action, pkgs)
<1>1. Len(pkgs) \in Nat
  BY LenProperties
<1>2. \A i \in 1..Len(pkgs) : pkgs[i] \in Apps
  BY ElementOfSeq
<1>3. \A i \in 1..Len(pkgs) : Len(pkgs) + 1 - i \in 1..Len(pkgs)
  BY <1>1
<1>4. \A i \in 1..Len(pkgs) : issued + Len(pkgs) + 1 - i \in Nat
  BY <1>1
<1>5. \A i \in 1..Len(pkgs) : new[i] \in Jobs
  BY <1>2, <1>3, <1>4 DEF NewLines, Jobs
<1>6. new \in [1..Len(pkgs) -> Jobs]
  BY <1>5 DEF NewLines
<1>7. new \in Seq(Jobs)
  BY <1>1, <1>6, SeqDef
<1>8. Len(new) = Len(pkgs)
  <2>1. DOMAIN new = 1..Len(pkgs)
    BY <1>6
  <2>2. Len(new) \in Nat /\ DOMAIN new = 1..Len(new)
    BY <1>7, LenProperties
  <2>3. QED
    BY <1>1, <2>1, <2>2
<1>9. \A i \in 1..Len(pkgs) : new[i].ticket = issued + Len(pkgs) + 1 - i
  BY DEF NewLines
<1>10. QED
  BY <1>7, <1>8, <1>9

-----------------------------------------------------------------------------
(* The inductive invariant.                                                *)

\* The invariant holds initially.
LEMMA InitInv == Init => IInv
<1> SUFFICES ASSUME Init PROVE IInv
  OBVIOUS
<1>1. queue = <<>> /\ Len(queue) = 0
  BY EmptySeq DEF Init
<1>2. TypeOK
  <2>1. NoReq \in [action : SingleActions, pkgs : Seq(Apps)]
    BY EmptySeq DEF NoReq, SingleActions, Actions
  <2>2. NoStatuses \in [Apps -> Statuses]
    BY DEF NoStatuses, Statuses, Settled
  <2>3. NoUpdate \in Updates
    BY DEF NoUpdate, Updates
  <2>4. /\ queue \in Seq(Jobs)
        /\ lines \in [Workers -> Seq(Jobs)]
    BY EmptySeq DEF Init
  <2>5. /\ pc \in [Procs -> CallerLabels \cup WorkerLabels \cup SingleLabels]
        /\ \A c \in Callers : pc[c] \in CallerLabels
        /\ \A w \in Workers : pc[w] \in WorkerLabels
        /\ \A s \in Singles : pc[s] \in SingleLabels
        /\ \A n \in Restarters : pc[n] = "idle"
    BY ProcsAssumption
       DEF Init, Start, Procs, CallerLabels, WorkerLabels, SingleLabels
  <2>6. event \in [app : Apps \cup {"none"}, type : {"none", "nil", "outcome"}]
    BY DEF Init, NoEvent
  <2>7. result \in [Workers -> Settled]
    BY DEF Init, Settled
  <2>8. QED
    <3>1. \A s \in Singles : pc[s] \notin {"sexec", "sreinstall"}
      BY ProcsAssumption DEF Init, Start, Procs
    <3>2. \A x \in Callers : req[x].action \in Actions
      BY DEF Init, NoReq, Actions
    <3>3. QED
      BY <2>1, <2>2, <2>3, <2>4, <2>5, <2>6, <2>7, <3>1, <3>2 DEF Init, TypeOK
<1>3. \A p \in Procs : pc[p] \in {"off", "idle"}
  BY DEF Init, Start
<1>4. MultiOwner /\ QueueOwner /\ HeadIsExecuting
  BY <1>3 DEF MultiOwner, QueueOwner, HeadIsExecuting, InsideMulti, Locked, Running, Procs
<1>5. InOrder
  BY <1>1 DEF InOrder
<1>6. QED
  BY <1>2, <1>4, <1>5 DEF IInv

\* A step that leaves the queue, the locks and the workers' lines alone, and
\* takes nobody into a section it was not in.
LEMMA Quiet ==
  ASSUME IInv, UNCHANGED <<queue, locks, lines, issued>>,
         \A p \in Procs :
           \/ pc'[p] = pc[p]
           \/ /\ pc'[p] # "commit"
              /\ pc'[p] \in Running => pc[p] \in Running
              /\ InsideMulti(p)' => InsideMulti(p)
  PROVE  MultiOwner' /\ QueueOwner' /\ HeadIsExecuting' /\ InOrder'
<1>1. MultiOwner'
  BY DEF IInv, MultiOwner, InsideMulti, locks
<1>2. QueueOwner'
  BY DEF IInv, QueueOwner, locks, Procs
<1>3. HeadIsExecuting'
  BY DEF IInv, HeadIsExecuting, Procs
<1>4. InOrder'
  BY DEF IInv, InOrder
<1>5. QED
  BY <1>1, <1>2, <1>3, <1>4

\* A step of update_pkg_status_file keeps the invariant.
LEMMA UpdateStepInv ==
  ASSUME IInv, NEW p \in Procs, UpdateStep(p)
  PROVE  IInv'
<1>1. UNCHANGED <<queue, locks, lines, issued, pc>>
  BY DEF UpdateStep, StatusLoad, StatusTruncate, StatusStore, files, bounds
<1>2. TypeOK'
  <2>1. NoStatuses \in [Apps -> Statuses] /\ NoUpdate \in Updates
    BY DEF NoStatuses, Statuses, Settled, NoUpdate, Updates
  <2>2. CASE StatusLoad(p)
    BY <2>2 DEF IInv, TypeOK, SApp, StatusLoad, files, locks, bounds
  <2>3. CASE StatusTruncate(p)
    BY <2>1, <2>3 DEF IInv, TypeOK, SApp, StatusTruncate, locks, bounds
  <2>4. CASE StatusStore(p)
    <3>1. Merge(seen[p], upd[p]) \in [Apps -> Statuses]
      BY MergeType DEF IInv, TypeOK
    <3>2. QED
      BY <2>1, <2>4, <3>1 DEF IInv, TypeOK, SApp, StatusStore, locks, bounds
  <2>5. QED
    BY <2>2, <2>3, <2>4 DEF UpdateStep
<1>3. QED
  BY <1>1, <1>2, Quiet DEF IInv

\* So does the call of a caller.
LEMMA CallInv ==
  ASSUME IInv, NEW c \in Callers, NEW action \in Asked, NEW pkgs \in Requests,
         Call(c, action, pkgs)
  PROVE  IInv'
<1>1. /\ action \in Actions /\ Actions \subseteq SingleActions
      /\ pkgs \in Seq(Apps)
      /\ c \in Procs /\ c \notin Workers /\ c \notin Singles /\ c \notin Restarters
  BY ActionsAssumption, AppsAssumption, ProcsAssumption DEF Actions, SingleActions, Procs
<1>2. UNCHANGED <<queue, locks, lines, issued>>
  BY DEF Call, files, bounds
<1>3. TypeOK'
  <2> DEFINE S == {a \in ToSet(pkgs) : status[a] \notin InProgress}
  <2>1. S \in SUBSET Apps
    BY <1>1, ElementOfSeq, LenProperties DEF ToSet
  <2>2. [a \in S |-> PkgType(action)] \in Updates
    <3>1. [a \in S |-> PkgType(action)] \in [S -> Statuses]
      BY <1>1, PkgTypeType
    <3>2. QED
      BY <2>1, <3>1, UpdateType
  <2>3. upd' \in [Procs -> Updates]
    BY <1>1, <2>2 DEF IInv, TypeOK, Call, EnterUpdate
  <2>4. /\ req' \in [Callers \cup Singles -> [action : SingleActions, pkgs : Seq(Apps)]]
        /\ \A x \in Callers : req'[x].action \in Actions
        /\ \A s \in Singles : pc'[s] \in {"sexec", "sreinstall"} => SApp(s)' \in Apps
        /\ io' \in [Procs -> {"out", "entered", "loaded", "truncated"}]
    BY <1>1 DEF IInv, TypeOK, Call, EnterUpdate, SApp
  <2>5. /\ pc' \in [Procs -> CallerLabels \cup WorkerLabels \cup SingleLabels]
        /\ \A x \in Callers : pc'[x] \in CallerLabels
        /\ \A w \in Workers : pc'[w] \in WorkerLabels
        /\ \A s \in Singles : pc'[s] \in SingleLabels
        /\ \A n \in Restarters : pc'[n] = "idle"
    BY <1>1 DEF IInv, TypeOK, Call, CallerLabels, Procs
  <2>6. QED
    BY <2>3, <2>4, <2>5 DEF IInv, TypeOK, Call, files, locks, bounds
<1>4. \A p \in Procs : pc'[p] = pc[p] \/ pc'[p] = "enqueue"
  BY DEF Call, IInv, TypeOK
<1>5. QED
  BY <1>2, <1>3, <1>4, Quiet DEF IInv, InsideMulti, Locked, Running

\* Enqueue leaves the last line where it is, and gives the new lines the
\* tickets that follow.
LEMMA EnqueueInv ==
  ASSUME IInv, NEW c \in Callers, Enqueue(c)
  PROVE  IInv'
<1> DEFINE new == NewLines(req[c].action, req[c].pkgs)
<1>1. /\ req[c].pkgs \in Seq(Apps) /\ req[c].action \in Actions
      /\ c \in Procs /\ c \notin Workers /\ c \notin Singles /\ c \notin Restarters
      /\ queue \in Seq(Jobs) /\ issued \in Nat
      /\ Len(req[c].pkgs) \in Nat /\ Len(queue) \in Nat
  BY ProcsAssumption, LenProperties DEF IInv, TypeOK, Procs
<1>2. /\ new \in Seq(Jobs) /\ Len(new) = Len(req[c].pkgs)
      /\ \A i \in 1..Len(new) : new[i].ticket = issued + Len(new) + 1 - i
  BY <1>1, NewLinesFacts
<1>3. PICK n \in Nat, m \in Nat : n = Len(new) /\ m = Len(queue)
  BY <1>1, <1>2
<1>4. /\ queue' = new \o queue /\ queue' \in Seq(Jobs)
      /\ Len(queue') = n + m /\ issued' = issued + n
      /\ \A i \in 1..(n + m) : queue'[i] = IF i <= n THEN new[i] ELSE queue[i - n]
  <2>1. queue' = new \o queue /\ issued' = issued + n
    BY <1>2, <1>3 DEF Enqueue, Above
  <2>2. /\ new \o queue \in Seq(Jobs)
        /\ Len(new \o queue) = Len(new) + Len(queue)
        /\ \A i \in 1..(Len(new) + Len(queue)) :
             (new \o queue)[i] = IF i <= Len(new) THEN new[i] ELSE queue[i - Len(new)]
    <3> HIDE DEF new
    <3>1. new \in Seq(Jobs) /\ queue \in Seq(Jobs)
      BY <1>1, <1>2
    <3>2. QED
      BY <3>1, ConcatProperties, Zenon
  <2>3. QED
    BY <1>3, <2>1, <2>2
<1>5. /\ pc'[c] \in {"idle", "fork"}
      /\ \A p \in Procs \ {c} : pc'[p] = pc[p]
  BY <1>1 DEF IInv, TypeOK, Enqueue
<1>6. TypeOK'
  <2>1. /\ pc' \in [Procs -> CallerLabels \cup WorkerLabels \cup SingleLabels]
        /\ \A x \in Callers : pc'[x] \in CallerLabels
        /\ \A w \in Workers : pc'[w] \in WorkerLabels
        /\ \A s \in Singles : pc'[s] \in SingleLabels
        /\ \A x \in Restarters : pc'[x] = "idle"
    BY <1>1 DEF IInv, TypeOK, Enqueue, CallerLabels, Procs
  <2>2. NoReq \in [action : SingleActions, pkgs : Seq(Apps)] /\ NoReq.action \in Actions
    BY EmptySeq DEF NoReq, SingleActions, Actions
  <2>3. /\ req' \in [Callers \cup Singles -> [action : SingleActions, pkgs : Seq(Apps)]]
        /\ \A x \in Callers : req'[x].action \in Actions
        /\ \A s \in Singles : pc'[s] \in {"sexec", "sreinstall"} => SApp(s)' \in Apps
    BY <1>1, <2>2 DEF IInv, TypeOK, Enqueue, SApp
  <2>4. issued' \in Nat
    BY <1>1, <1>4
  <2>5. QED
    BY <1>4, <2>1, <2>3, <2>4 DEF IInv, TypeOK, Enqueue, locks
<1>7. MultiOwner'
  BY <1>5 DEF IInv, MultiOwner, InsideMulti, Locked, Running, Enqueue, locks
<1>8. QueueOwner'
  <2>1. \A w \in Workers : pc[w] # "commit"
    BY ProcsAssumption DEF IInv, QueueOwner, Enqueue, Procs
  <2>2. QED
    BY <1>5, <2>1 DEF QueueOwner, Procs
<1>9. HeadIsExecuting'
  <2>1. queue # <<>> => queue' # <<>> /\ Last(queue') = Last(queue)
    BY <1>1, <1>2, <1>4, PrependFacts
  <2>2. QED
    BY <1>5, <2>1 DEF IInv, HeadIsExecuting, Running, Procs, Enqueue
<1>10. InOrder'
  <2>1. DOMAIN queue = 1..m /\ \A i \in 1..m : queue[i].ticket = issued + 1 - i
    BY <1>1, <1>3, LenProperties DEF IInv, InOrder
  <2>2. DOMAIN queue' = 1..(n + m)
    BY <1>4, LenProperties
  <2>3. \A i \in 1..(n + m) : queue'[i].ticket = issued + n + 1 - i
    <3>1. TAKE i \in 1..(n + m)
    <3>2. CASE i <= n
      BY <1>2, <1>3, <1>4, <3>2
    <3>3. CASE i > n
      <4>1. queue'[i] = queue[i - n] /\ i - n \in 1..m
        BY <1>4, <3>3
      <4>2. queue[i - n].ticket = issued + 1 - (i - n)
        BY <2>1, <4>1
      <4>3. QED
        BY <1>1, <4>1, <4>2
    <3>4. QED
      BY <3>2, <3>3
  <2>4. QED
    BY <1>4, <2>2, <2>3 DEF InOrder
<1>11. QED
  BY <1>6, <1>7, <1>8, <1>9, <1>10 DEF IInv

\* So does its fork.
LEMMA ForkInv ==
  ASSUME IInv, NEW c \in Callers, NEW w \in Workers, Fork(c, w)
  PROVE  IInv'
<1>1. /\ c \in Procs /\ w \in Procs
      /\ c \notin Workers /\ c \notin Singles /\ c \notin Restarters
      /\ w \notin Callers /\ w \notin Singles /\ w \notin Restarters
  BY ProcsAssumption DEF Procs
<1>2. TypeOK'
  <2>1. /\ pc' \in [Procs -> CallerLabels \cup WorkerLabels \cup SingleLabels]
        /\ \A x \in Callers : pc'[x] \in CallerLabels
        /\ \A x \in Workers : pc'[x] \in WorkerLabels
        /\ \A s \in Singles : pc'[s] \in SingleLabels
        /\ \A x \in Restarters : pc'[x] = "idle"
    BY <1>1 DEF IInv, TypeOK, Fork, CallerLabels, WorkerLabels, Procs
  <2>2. \A s \in Singles : pc'[s] \in {"sexec", "sreinstall"} => SApp(s)' \in Apps
    BY <1>1 DEF IInv, TypeOK, Fork, SApp, Procs
  <2>3. QED
    BY <2>1, <2>2 DEF IInv, TypeOK, Fork, files, locks, update, bounds
<1>3. \A p \in Procs : pc'[p] = pc[p] \/ pc'[p] \in {"idle", "wait"}
  BY DEF Fork, IInv, TypeOK
<1>4. QED
  BY <1>2, <1>3, Quiet
     DEF IInv, InsideMulti, Locked, Running, Fork, files, bounds

\* The conjuncts of TypeOK on pc and the requests.
PcOK ==
  /\ pc \in [Procs -> CallerLabels \cup WorkerLabels \cup SingleLabels]
  /\ \A c \in Callers : pc[c] \in CallerLabels
  /\ \A w \in Workers : pc[w] \in WorkerLabels
  /\ \A s \in Singles : pc[s] \in SingleLabels
  /\ \A n \in Restarters : pc[n] = "idle"
  /\ req \in [Callers \cup Singles -> [action : SingleActions, pkgs : Seq(Apps)]]
  /\ \A c \in Callers : req[c].action \in Actions
  /\ \A s \in Singles : pc[s] \in {"sexec", "sreinstall"} => SApp(s) \in Apps

\* A worker's step to one of its labels.
LEMMA WorkerMove ==
  ASSUME TypeOK, NEW w \in Workers, NEW label \in WorkerLabels,
         pc' = [pc EXCEPT ![w] = label], UNCHANGED req
  PROVE  /\ PcOK'
         /\ pc'[w] = label
         /\ \A p \in Procs \ {w} : pc'[p] = pc[p]
<1>1. /\ w \in Procs
      /\ w \notin Callers /\ w \notin Singles /\ w \notin Restarters
  BY ProcsAssumption DEF Procs
<1>2. QED
  BY <1>1 DEF TypeOK, PcOK, SApp, Procs

\* The job a worker executes is a job.
LEMMA JobType ==
  ASSUME IInv, NEW w \in Workers, pc[w] \in Running
  PROVE  /\ Job(w) \in Jobs /\ Job(w).app \in Apps /\ Job(w).action \in Actions
         /\ queue # <<>> /\ Last(queue) = Job(w)
<1>1. lines[w] \in Seq(Jobs) /\ lines[w] # <<>> /\ queue # <<>> /\ Last(queue) = Last(lines[w])
  BY DEF IInv, TypeOK, HeadIsExecuting
<1>2. Last(lines[w]) \in Jobs
  BY <1>1, FrontFacts
<1>3. QED
  BY <1>1, <1>2 DEF Job, Jobs

\* A worker takes the multi lock: nobody else had it.
LEMMA WAcquireInv ==
  ASSUME IInv, NEW w \in Workers, WAcquire(w)
  PROVE  IInv'
<1>1. PcOK' /\ pc'[w] = "start" /\ \A p \in Procs \ {w} : pc'[p] = pc[p]
  BY WorkerMove DEF IInv, WAcquire, WorkerLabels, Locked
<1>2. TypeOK'
  BY <1>1 DEF IInv, TypeOK, PcOK, WAcquire, files, update, bounds
<1>3. MultiOwner'
  <2>1. \A p \in Procs : ~InsideMulti(p)
    BY ProcsAssumption DEF IInv, MultiOwner, WAcquire, Unlocked
  <2>2. QED
    BY <1>1, <2>1 DEF MultiOwner, InsideMulti, WAcquire
<1>4. QueueOwner' /\ HeadIsExecuting' /\ InOrder'
  BY <1>1 DEF IInv, QueueOwner, HeadIsExecuting, InOrder, Running, Procs, WAcquire,
              files, bounds
<1>5. QED
  BY <1>2, <1>3, <1>4 DEF IInv

\* It finds the queue empty.
LEMMA WStartEmptyInv ==
  ASSUME IInv, NEW w \in Workers, WStartEmpty(w)
  PROVE  IInv'
<1>1. PcOK' /\ pc'[w] = "exit" /\ \A p \in Procs \ {w} : pc'[p] = pc[p]
  BY WorkerMove DEF IInv, WStartEmpty, WorkerLabels, Locked
<1>2. TypeOK'
  BY <1>1 DEF IInv, TypeOK, PcOK, WStartEmpty, files, locks, update, bounds
<1>3. QED
  BY <1>1, <1>2, Quiet
     DEF IInv, WStartEmpty, At, InsideMulti, Locked, Running, files, bounds

\* The entry the loop's iteration writes has the right type.
LEMMA IterateType ==
  ASSUME IInv, NEW w \in Workers, NEW left \in Seq(Jobs), Iterate(w, left), UNCHANGED req
  PROVE  /\ PcOK'
         /\ pc'[w] = IF left = <<>> THEN "exit" ELSE "exec"
         /\ \A p \in Procs \ {w} : pc'[p] = pc[p]
         /\ io' \in [Procs -> {"out", "entered", "loaded", "truncated"}]
         /\ upd' \in [Procs -> Updates]
<1>1. CASE left = <<>>
  <2>1. pc' = [pc EXCEPT ![w] = "exit"] /\ io' = io /\ upd' = upd
    BY <1>1 DEF Iterate
  <2>2. PcOK' /\ pc'[w] = "exit" /\ \A p \in Procs \ {w} : pc'[p] = pc[p]
    BY <2>1, WorkerMove DEF IInv, WorkerLabels, Locked
  <2>3. QED
    BY <1>1, <2>1, <2>2 DEF IInv, TypeOK
<1>2. CASE left # <<>>
  <2>1. pc' = [pc EXCEPT ![w] = "exec"]
    BY <1>2 DEF Iterate
  <2>2. Last(left) \in Jobs
    BY <1>2, FrontFacts
  <2> DEFINE entry == [a \in {Last(left).app} |-> PkgType(Last(left).action)]
  <2>3. entry \in Updates
    <3>1. /\ {Last(left).app} \in SUBSET Apps
          /\ PkgType(Last(left).action) \in Statuses
      BY <2>2, PkgTypeType DEF Jobs
    <3>2. entry \in [{Last(left).app} -> Statuses]
      BY <3>1
    <3>3. QED
      BY <3>1, <3>2, UpdateType
  <2>4. /\ io' \in [Procs -> {"out", "entered", "loaded", "truncated"}]
        /\ upd' \in [Procs -> Updates]
    <3>1. io' = [io EXCEPT ![w] = "entered"] /\ upd' = [upd EXCEPT ![w] = entry]
      BY <1>2 DEF Iterate, EnterUpdate
    <3> HIDE DEF entry
    <3>2. QED
      BY <2>3, <3>1 DEF IInv, TypeOK
  <2>5. PcOK' /\ pc'[w] = "exec" /\ \A p \in Procs \ {w} : pc'[p] = pc[p]
    BY <2>1, WorkerMove DEF IInv, WorkerLabels, Locked, Running
  <2>6. QED
    BY <1>2, <2>4, <2>5
<1>3. QED
  BY <1>1, <1>2

\* It reads the queue: its copy ends with the last line.
LEMMA WStartInv ==
  ASSUME IInv, NEW w \in Workers, WStart(w)
  PROVE  IInv'
<1>1. queue \in Seq(Jobs) /\ queue # <<>> /\ lines'[w] = queue
      /\ \A x \in Workers \ {w} : lines'[x] = lines[x]
  BY DEF IInv, TypeOK, WStart
<1>2. /\ PcOK' /\ pc'[w] = "exec"
      /\ \A p \in Procs \ {w} : pc'[p] = pc[p]
      /\ io' \in [Procs -> {"out", "entered", "loaded", "truncated"}]
      /\ upd' \in [Procs -> Updates]
  BY <1>1, IterateType DEF WStart
<1>3. TypeOK'
  BY <1>1, <1>2 DEF IInv, TypeOK, PcOK, WStart, files, locks, bounds
<1>4. MultiOwner'
  BY <1>2 DEF IInv, MultiOwner, InsideMulti, Locked, Running, WStart, At, locks
<1>5. QueueOwner'
  BY <1>1, <1>2 DEF IInv, QueueOwner, WStart, files, locks, Procs
<1>6. HeadIsExecuting'
  BY <1>1, <1>2 DEF IInv, HeadIsExecuting, WStart, files, Procs
<1>7. InOrder'
  BY DEF IInv, InOrder, WStart, files, bounds
<1>8. QED
  BY <1>3, <1>4, <1>5, <1>6, <1>7 DEF IInv

\* What the outcomes of an action set have the right types.
LEMMA OutcomeTypes ==
  ASSUME TypeOK, NEW a \in Apps,
         NEW r \in InstallOutcomes(a) \cup RemoveOutcomes(a)
  PROVE  r.installed \in SUBSET Apps /\ r.pending \in SUBSET Apps /\ r.status \in Settled
<1>1. installed \in SUBSET Apps /\ pending \in SUBSET Apps
  BY DEF TypeOK
<1>2. CASE r \in InstallOutcomes(a)
  BY <1>1, <1>2 DEF InstallOutcomes, Outcome, Entry, Settled
<1>3. CASE r \in RemoveOutcomes(a)
  BY <1>1, <1>3 DEF RemoveOutcomes, Outcome, Entry, Settled
<1>4. QED
  BY <1>2, <1>3

\* The steps of an execution: from one label of Running to another.
LEMMA ExecutionInv ==
  ASSUME IInv, NEW w \in Workers,
         WExec(w) \/ WUpgradeRefused(w) \/ WUpgradeRemove(w) \/ WUpgradeInstall(w) \/ WEvent(w)
  PROVE  IInv'
<1>1. pc[w] \in Running
  BY DEF WExec, WUpgradeRefused, WUpgradeRemove, WUpgradeInstall, WEvent, At, Running
<1>2. PICK label \in Running : pc' = [pc EXCEPT ![w] = label]
  BY DEF WExec, WUpgradeRefused, WUpgradeRemove, WUpgradeInstall, WEvent, Running
<1>3. UNCHANGED <<queue, locks, lines, issued, req>>
  BY DEF WExec, WUpgradeRefused, WUpgradeRemove, WUpgradeInstall, WEvent, files, bounds
<1>4. PcOK' /\ pc'[w] = label /\ \A p \in Procs \ {w} : pc'[p] = pc[p]
  BY <1>2, <1>3, WorkerMove DEF IInv, WorkerLabels, Locked
<1>5. Job(w) \in Jobs /\ Job(w).app \in Apps
  BY <1>1, JobType
<1>6. TypeOK'
  <2>1. CASE WExec(w)
    <3>1. PICK r \in InstallOutcomes(Job(w).app) \cup RemoveOutcomes(Job(w).app) :
            /\ installed' = r.installed
            /\ pending' = r.pending
            /\ result' = [result EXCEPT ![w] = r.status]
      BY <2>1 DEF WExec
    <3>2. r.installed \in SUBSET Apps /\ r.pending \in SUBSET Apps /\ r.status \in Settled
      BY <1>5, OutcomeTypes DEF IInv
    <3>3. /\ installed' \in SUBSET Apps /\ pending' \in SUBSET Apps
          /\ result' \in [Workers -> Settled]
      BY <3>1, <3>2 DEF IInv, TypeOK
    <3>4. QED
      BY <1>4, <2>1, <3>3 DEF IInv, TypeOK, PcOK, WExec, locks, update, bounds
  <2>2. CASE WUpgradeRefused(w)
    <3>1. result' \in [Workers -> Settled]
      BY <2>2 DEF IInv, TypeOK, WUpgradeRefused, Settled
    <3>2. QED
      BY <1>4, <2>2, <3>1 DEF IInv, TypeOK, PcOK, WUpgradeRefused, files, locks, bounds
  <2>3. CASE WUpgradeRemove(w)
    BY <1>4, <2>3 DEF IInv, TypeOK, PcOK, WUpgradeRemove, locks, update, bounds
  <2>4. CASE WUpgradeInstall(w)
    <3>1. result' \in [Workers -> Settled]
      BY <2>4 DEF IInv, TypeOK, WUpgradeInstall, Settled, Entry
    <3>2. installed' \in SUBSET Apps
      BY <1>5, <2>4 DEF IInv, TypeOK, WUpgradeInstall
    <3>3. QED
      BY <1>4, <2>4, <3>1, <3>2 DEF IInv, TypeOK, PcOK, WUpgradeInstall, locks, update, bounds
  <2>5. CASE WEvent(w)
    <3>1. event' \in [app : Apps \cup {"none"}, type : {"none", "nil", "outcome"}]
      BY <1>5, <2>5 DEF WEvent, EventType
    <3>2. QED
      BY <1>4, <2>5, <3>1 DEF IInv, TypeOK, PcOK, WEvent, files, locks, update, bounds
  <2>6. QED
    BY <2>1, <2>2, <2>3, <2>4, <2>5
<1>7. QED
  BY <1>1, <1>3, <1>4, <1>6, Quiet DEF IInv, InsideMulti, Locked, Running

\* An error ends its loop.
LEMMA WErrorInv ==
  ASSUME IInv, NEW w \in Workers, WError(w)
  PROVE  IInv'
<1>1. PcOK' /\ pc'[w] = "exit" /\ \A p \in Procs \ {w} : pc'[p] = pc[p]
  BY WorkerMove DEF IInv, WError, WorkerLabels, Locked
<1>2. TypeOK'
  BY <1>1 DEF IInv, TypeOK, PcOK, WError, files, locks, update
<1>3. InsideMulti(w)
  BY DEF WError, At, InsideMulti, Locked, Running
<1>4. QED
  BY <1>1, <1>2, <1>3, Quiet DEF IInv, WError, Running, files

\* A set of indices of a sequence has a greatest element.
LEMMA GreatestIndex ==
  ASSUME NEW n \in Nat, NEW L \in SUBSET (1..n), L # {}
  PROVE  \E i \in L : \A j \in L : j <= i
<1> DEFINE T == {n - i : i \in L}
<1>1. T \subseteq Nat /\ T # {}
  <2>1. \A i \in L : n - i \in Nat
    OBVIOUS
  <2>2. T # {}
    OBVIOUS
  <2>3. QED
    BY <2>1, <2>2
<1>2. PICK x \in T : \A y \in T : ~ (<<y, x>> \in OpToRel(<, Nat))
  BY <1>1, NatLessThanWellFounded, WFMin, Zenon
<1>3. PICK i \in L : x = n - i
  OBVIOUS
<1>4. \A j \in L : j <= i
  <2>1. TAKE j \in L
  <2>2. n - j \in T /\ n - j \in Nat /\ n - i \in Nat
    OBVIOUS
  <2>3. ~ (<<n - j, n - i>> \in OpToRel(<, Nat))
    BY <1>2, <1>3, <2>2, Zenon
  <2>4. ~ (n - j < n - i)
    BY <2>2, <2>3 DEF OpToRel
  <2>5. QED
    BY <2>4
<1>5. QED
  BY <1>4

\* The last line on an application has an action.
LEMMA NextActionType ==
  ASSUME NEW q \in Seq(Jobs), NEW a \in Apps, LinesOf(q, a) # {}
  PROVE  NextAction(q, a) \in Actions
<1>1. PICK n \in Nat : n = Len(q) /\ DOMAIN q = 1..n /\ \A i \in 1..n : q[i] \in Jobs
  BY LenProperties, ElementOfSeq
<1> DEFINE L == LinesOf(q, a)
<1>2. L \in SUBSET (1..n) /\ L # {}
  BY <1>1 DEF LinesOf
<1>3. \E i \in L : \A j \in L : j <= i
  <2> HIDE DEF L
  <2>1. QED
    BY <1>2, GreatestIndex
<1>4. (CHOOSE i \in L : \A j \in L : j <= i) \in L
  BY <1>3, Zenon
<1>5. NextAction(q, a) = q[CHOOSE i \in L : \A j \in L : j <= i].action
  BY DEF NextAction
<1>6. QED
  BY <1>1, <1>2, <1>4, <1>5 DEF Jobs

\* A worker that drops the last line takes the lock of the queue file and
\* keeps the lines before it.
LEMMA WDropInv ==
  ASSUME IInv, NEW w \in Workers, WDrop(w)
  PROVE  IInv'
<1> DEFINE a == Job(w).app
           left == Front(queue)
           entry == [x \in {a} |-> IF LinesOf(left, a) # {}
                                   THEN PkgType(NextAction(left, a)) ELSE result[w]]
<1>1. /\ pc[w] = "drop" /\ queue # <<>> /\ queue' = queue /\ multi' = multi
      /\ qlock' = w /\ lines' = [lines EXCEPT ![w] = left]
      /\ io' = [io EXCEPT ![w] = "entered"] /\ upd' = [upd EXCEPT ![w] = entry]
      /\ UNCHANGED <<issued, req>>
  BY DEF WDrop, At, EnterUpdate, files, bounds
<1>2. a \in Apps /\ left \in Seq(Jobs)
  <2>1. a \in Apps
    BY <1>1, JobType DEF Running
  <2>2. left \in Seq(Jobs)
    BY <1>1, FrontFacts DEF IInv, TypeOK
  <2>3. QED
    BY <2>1, <2>2
<1>3. entry \in Updates
  <2>1. LinesOf(left, a) # {} => PkgType(NextAction(left, a)) \in Statuses
    BY <1>2, NextActionType, PkgTypeType
  <2>2. result[w] \in Statuses
    BY DEF IInv, TypeOK, Statuses
  <2>3. entry \in [{a} -> Statuses]
    BY <2>1, <2>2
  <2>4. QED
    BY <1>2, <2>3, UpdateType
<1>4. PcOK' /\ pc'[w] = "commit" /\ \A p \in Procs \ {w} : pc'[p] = pc[p]
  BY WorkerMove DEF IInv, WDrop, WorkerLabels, Locked
<1> HIDE DEF a, left, entry
<1>5. TypeOK'
  <2>1. upd' \in [Procs -> Updates] /\ io' \in [Procs -> {"out", "entered", "loaded", "truncated"}]
    BY <1>1, <1>3 DEF IInv, TypeOK
  <2>2. lines' \in [Workers -> Seq(Jobs)]
    BY <1>1, <1>2 DEF IInv, TypeOK
  <2>3. QED
    BY <1>1, <1>4, <2>1, <2>2 DEF IInv, TypeOK, PcOK, WDrop, files, bounds
<1>6. MultiOwner'
  BY <1>1, <1>4 DEF IInv, MultiOwner, InsideMulti, Locked, Running
<1>7. QueueOwner'
  <2>1. \A x \in Workers : pc[x] # "commit"
    BY ProcsAssumption DEF IInv, QueueOwner, WDrop, Procs
  <2>2. lines'[w] = Front(queue')
    BY <1>1 DEF IInv, TypeOK, left
  <2>3. \A x \in Workers : pc'[x] = "commit" => x = w
    BY <1>4, <2>1 DEF Procs
  <2>4. QED
    BY <1>1, <2>2, <2>3 DEF QueueOwner
<1>8. HeadIsExecuting'
  BY <1>1, <1>4 DEF IInv, TypeOK, HeadIsExecuting, Running, Procs
<1>9. InOrder'
  BY <1>1 DEF IInv, InOrder
<1>10. QED
  BY <1>5, <1>6, <1>7, <1>8, <1>9 DEF IInv

\* A queue without its last line is still in order.
LEMMA FrontInOrder ==
  ASSUME queue \in Seq(Jobs), queue # <<>>, InOrder
  PROVE  \A i \in DOMAIN Front(queue) : Front(queue)[i].ticket = issued + 1 - i
<1>1. PICK n \in Nat : n = Len(queue) /\ n >= 1 /\ DOMAIN queue = 1..n
  BY LenProperties, EmptySeq
<1>2. /\ Front(queue) \in Seq(Jobs) /\ Len(Front(queue)) = n - 1
      /\ \A i \in 1..(n - 1) : Front(queue)[i] = queue[i]
  BY <1>1, FrontFacts
<1>3. DOMAIN Front(queue) = 1..(n - 1)
  BY <1>2, LenProperties
<1>4. QED
  BY <1>1, <1>2, <1>3 DEF InOrder

\* It writes the queue without the last line.
LEMMA WCommitInv ==
  ASSUME IInv, NEW w \in Workers, WCommit(w)
  PROVE  IInv'
<1>1. /\ pc[w] = "commit" /\ qlock = w /\ queue \in Seq(Jobs) /\ queue # <<>>
      /\ lines[w] = Front(queue) /\ lines[w] \in Seq(Jobs) /\ w \in Procs
      /\ queue' = lines[w] /\ qlock' = NoProc
      /\ UNCHANGED <<multi, lines, issued, req>>
  BY DEF IInv, TypeOK, QueueOwner, WCommit, At, bounds, Procs
<1>2. /\ PcOK'
      /\ pc'[w] = IF lines[w] = <<>> THEN "exit" ELSE "exec"
      /\ \A p \in Procs \ {w} : pc'[p] = pc[p]
      /\ io' \in [Procs -> {"out", "entered", "loaded", "truncated"}]
      /\ upd' \in [Procs -> Updates]
  BY <1>1, IterateType DEF WCommit
<1>3. multi = w /\ \A p \in Procs : InsideMulti(p) => p = w
  BY <1>1 DEF IInv, MultiOwner, InsideMulti, Locked
<1>4. TypeOK'
  <2>1. result' \in [Workers -> Settled]
    BY DEF IInv, TypeOK, WCommit, Settled
  <2>2. event' \in [app : Apps \cup {"none"}, type : {"none", "nil", "outcome"}]
    BY DEF WCommit, NoEvent
  <2>3. QED
    BY <1>1, <1>2, <2>1, <2>2 DEF IInv, TypeOK, PcOK, WCommit, bounds
<1>5. MultiOwner'
  BY <1>1, <1>2, <1>3 DEF IInv, MultiOwner, InsideMulti
<1>6. QueueOwner'
  BY <1>2, <1>3 DEF QueueOwner, InsideMulti, Locked, Procs
<1>7. HeadIsExecuting'
  BY <1>1, <1>2, <1>3 DEF HeadIsExecuting, InsideMulti, Locked, Running, Procs
<1>8. InOrder'
  <2>1. \A i \in DOMAIN Front(queue) : Front(queue)[i].ticket = issued + 1 - i
    BY <1>1, FrontInOrder DEF IInv
  <2>2. QED
    BY <1>1, <2>1 DEF InOrder
<1>9. QED
  BY <1>4, <1>5, <1>6, <1>7, <1>8 DEF IInv

\* It gives the lock back.
LEMMA WExitInv ==
  ASSUME IInv, NEW w \in Workers, WExit(w)
  PROVE  IInv'
<1>1. /\ pc[w] = "exit" /\ w \in Procs /\ multi' = NoProc
      /\ UNCHANGED <<queue, qlock, issued, req>>
      /\ \A x \in Workers \ {w} : lines'[x] = lines[x]
  BY DEF IInv, TypeOK, WExit, At, files, bounds, Procs
<1>2. PcOK' /\ pc'[w] = "off" /\ \A p \in Procs \ {w} : pc'[p] = pc[p]
  BY WorkerMove DEF IInv, WExit, WorkerLabels
<1>3. \A p \in Procs : InsideMulti(p) => p = w
  BY <1>1 DEF IInv, MultiOwner, InsideMulti, Locked
<1>4. TypeOK'
  <2>1. result' \in [Workers -> Settled] /\ lines' \in [Workers -> Seq(Jobs)]
    BY EmptySeq DEF IInv, TypeOK, WExit, Settled
  <2>2. event' \in [app : Apps \cup {"none"}, type : {"none", "nil", "outcome"}]
    BY DEF WExit, NoEvent
  <2>3. QED
    BY <1>2, <2>1, <2>2 DEF IInv, TypeOK, PcOK, WExit, files, update, bounds
<1>5. MultiOwner'
  BY <1>2, <1>3 DEF MultiOwner, InsideMulti, Locked, Running
<1>6. QueueOwner' /\ HeadIsExecuting'
  BY <1>2, <1>3 DEF QueueOwner, HeadIsExecuting, InsideMulti, Locked, Running, Procs
<1>7. InOrder'
  BY <1>1 DEF IInv, InOrder
<1>8. QED
  BY <1>4, <1>5, <1>6, <1>7 DEF IInv

\* A single's step to one of its labels other than the start of its execution.
LEMMA SingleMove ==
  ASSUME TypeOK, NEW s \in Singles, NEW label \in SingleLabels,
         label \in {"sexec", "sreinstall"} => SApp(s) \in Apps,
         pc' = [pc EXCEPT ![s] = label], UNCHANGED req
  PROVE  /\ PcOK'
         /\ pc'[s] = label
         /\ \A p \in Procs \ {s} : pc'[p] = pc[p]
<1>1. /\ s \in Procs
      /\ s \notin Callers /\ s \notin Workers /\ s \notin Restarters
  BY ProcsAssumption DEF Procs
<1>2. QED
  BY <1>1 DEF TypeOK, PcOK, SApp, Procs

\* SFinish passes entries of the right type to the status file.
LEMMA SFinishType ==
  ASSUME IInv, NEW s \in Singles, NEW entries \in Updates, SFinish(s, entries), UNCHANGED req
  PROVE  /\ PcOK'
         /\ pc'[s] = "sexit"
         /\ \A p \in Procs \ {s} : pc'[p] = pc[p]
         /\ io' \in [Procs -> {"out", "entered", "loaded", "truncated"}]
         /\ upd' \in [Procs -> Updates]
<1>1. PcOK' /\ pc'[s] = "sexit" /\ \A p \in Procs \ {s} : pc'[p] = pc[p]
  BY SingleMove DEF IInv, SFinish, SingleLabels
<1>2. CASE entries = NoUpdate
  BY <1>1, <1>2 DEF IInv, TypeOK, SFinish
<1>3. CASE entries # NoUpdate
  BY <1>1, <1>3 DEF IInv, TypeOK, SFinish, EnterUpdate
<1>4. QED
  BY <1>2, <1>3

\* The steps of a single under the lock.
LEMMA SingleExecInv ==
  ASSUME IInv, NEW s \in Singles,
         \/ SRefused(s) \/ SInstall(s) \/ SRemovePending(s) \/ SRemove(s)
         \/ SUpgradeRemove(s) \/ SUpgradeInstall(s)
  PROVE  IInv'
<1>1. /\ pc[s] \in {"sexec", "sreinstall"} /\ SApp(s) \in Apps
      /\ UNCHANGED <<queue, locks, lines, issued, req>>
  BY DEF IInv, TypeOK, SRefused, SInstall, SRemovePending, SRemove, SUpgradeRemove,
         SUpgradeInstall, At, files, bounds
<1>2. /\ NoUpdate \in Updates
      /\ \A info \in BOOLEAN : InstalledEntry(SApp(s), info) \in Updates
      /\ [x \in {SApp(s)} |-> "NoEntry"] \in Updates
  <2>1. NoUpdate \in Updates
    BY DEF NoUpdate, Updates
  <2>2. ASSUME NEW info \in BOOLEAN
        PROVE  InstalledEntry(SApp(s), info) \in Updates
    <3>1. InstalledEntry(SApp(s), info) \in [{SApp(s)} -> Statuses]
      BY DEF InstalledEntry, Entry, Statuses, Settled
    <3>2. QED
      BY <1>1, <3>1, UpdateType
  <2>3. [x \in {SApp(s)} |-> "NoEntry"] \in Updates
    <3>1. [x \in {SApp(s)} |-> "NoEntry"] \in [{SApp(s)} -> Statuses]
      BY DEF Statuses, Settled
    <3>2. QED
      BY <1>1, <3>1, UpdateType
  <2>4. QED
    BY <2>1, <2>2, <2>3
<1>3. CASE SUpgradeRemove(s)
  <2>1. PcOK' /\ pc'[s] = "sreinstall" /\ \A p \in Procs \ {s} : pc'[p] = pc[p]
    BY <1>1, <1>3, SingleMove DEF IInv, SUpgradeRemove, SingleLabels
  <2>2. TypeOK'
    BY <1>3, <2>1 DEF IInv, TypeOK, PcOK, SUpgradeRemove, locks, update, bounds
  <2>3. QED
    BY <1>1, <2>1, <2>2, Quiet DEF IInv, InsideMulti, Running
<1>4. CASE ~SUpgradeRemove(s)
  <2>1. PICK entries \in Updates : SFinish(s, entries)
    BY <1>2, <1>4 DEF SRefused, SInstall, SRemovePending, SRemove, SUpgradeInstall
  <2>2. /\ PcOK'
        /\ pc'[s] = "sexit"
        /\ \A p \in Procs \ {s} : pc'[p] = pc[p]
        /\ io' \in [Procs -> {"out", "entered", "loaded", "truncated"}]
        /\ upd' \in [Procs -> Updates]
    BY <1>1, <2>1, SFinishType
  <2>3. installed' \in SUBSET Apps /\ pending' \in SUBSET Apps
    BY <1>1, <1>4 DEF IInv, TypeOK, SRefused, SInstall, SRemovePending, SRemove,
                      SUpgradeInstall, files
  <2>4. /\ UNCHANGED <<status, seen, overlap, singles, faults, result, event>>
    BY <1>4 DEF SRefused, SInstall, SRemovePending, SRemove, SUpgradeInstall, files, bounds
  <2>5. TypeOK'
    BY <1>1, <2>2, <2>3, <2>4 DEF IInv, TypeOK, PcOK, locks
  <2>6. QED
    BY <1>1, <2>2, <2>5, Quiet DEF IInv, InsideMulti, Running
<1>5. QED
  BY <1>3, <1>4

\* A single takes the lock: nobody else had it.
LEMMA STryInv ==
  ASSUME IInv, NEW s \in Singles, NEW action \in SingleAsked, NEW a \in Apps,
         STry(s, action, a)
  PROVE  IInv'
<1>1. /\ s \in Procs /\ s \notin Callers /\ s \notin Workers /\ s \notin Restarters
      /\ action \in SingleActions
      /\ <<a>> \in Seq(Apps) /\ <<a>>[1] = a
  BY ProcsAssumption, ActionsAssumption DEF Procs, SingleActions, Actions
<1>2. /\ pc' = [pc EXCEPT ![s] = "sexec"] /\ multi = NoProc /\ multi' = s
      /\ req' = [req EXCEPT ![s] = [action |-> action, pkgs |-> <<a>>]]
      /\ UNCHANGED <<queue, qlock, lines, issued>>
  BY DEF STry, Unlocked, files
<1>3. pc'[s] = "sexec" /\ \A p \in Procs \ {s} : pc'[p] = pc[p]
  BY <1>1, <1>2 DEF IInv, TypeOK
<1>4. PcOK'
  <2>1. /\ pc' \in [Procs -> CallerLabels \cup WorkerLabels \cup SingleLabels]
        /\ \A x \in Callers : pc'[x] \in CallerLabels
        /\ \A w \in Workers : pc'[w] \in WorkerLabels
        /\ \A x \in Singles : pc'[x] \in SingleLabels
        /\ \A n \in Restarters : pc'[n] = "idle"
    BY <1>1, <1>2 DEF IInv, TypeOK, SingleLabels, Procs
  <2>2. /\ req' \in [Callers \cup Singles -> [action : SingleActions, pkgs : Seq(Apps)]]
        /\ \A c \in Callers : req'[c] = req[c]
        /\ req'[s].pkgs = <<a>> /\ \A x \in Singles \ {s} : req'[x] = req[x]
    BY <1>1, <1>2 DEF IInv, TypeOK
  <2>3. \A x \in Singles : pc'[x] \in {"sexec", "sreinstall"} => SApp(x)' \in Apps
    <3>1. TAKE x \in Singles
    <3>2. CASE x = s
      <4>1. SApp(s)' = a
        BY <1>1, <2>2, Zenon DEF SApp
      <4>2. QED
        BY <3>2, <4>1
    <3>3. CASE x # s
      <4>1. pc'[x] = pc[x] /\ SApp(x)' = SApp(x)
        BY <1>3, <2>2, <3>3 DEF SApp, Procs
      <4>2. QED
        BY <4>1 DEF IInv, TypeOK
    <3>4. QED
      BY <3>2, <3>3
  <2>4. QED
    BY <2>1, <2>2, <2>3 DEF IInv, TypeOK, PcOK
<1>5. TypeOK'
  BY <1>2, <1>4 DEF IInv, TypeOK, PcOK, STry, files, update
<1>6. MultiOwner'
  <2>1. \A p \in Procs : ~InsideMulti(p)
    BY <1>2, ProcsAssumption DEF IInv, MultiOwner
  <2>2. QED
    BY <1>2, <1>3, <2>1 DEF MultiOwner, InsideMulti
<1>7. QueueOwner' /\ HeadIsExecuting' /\ InOrder'
  BY <1>1, <1>2, <1>3 DEF IInv, QueueOwner, HeadIsExecuting, InOrder, Procs
<1>8. QED
  BY <1>5, <1>6, <1>7 DEF IInv

\* A single gives the lock back.
LEMMA SExitInv ==
  ASSUME IInv, NEW s \in Singles, SExit(s)
  PROVE  IInv'
<1>1. /\ s \in Procs /\ s \notin Callers /\ s \notin Workers /\ s \notin Restarters
      /\ pc[s] = "sexit" /\ pc' = [pc EXCEPT ![s] = "idle"] /\ multi' = NoProc
      /\ req' = [req EXCEPT ![s] = NoReq]
      /\ UNCHANGED <<queue, qlock, lines, issued>>
  BY ProcsAssumption DEF SExit, At, files, bounds, Procs
<1>2. pc'[s] = "idle" /\ \A p \in Procs \ {s} : pc'[p] = pc[p]
  BY <1>1 DEF IInv, TypeOK
<1>3. PcOK'
  <2>1. NoReq \in [action : SingleActions, pkgs : Seq(Apps)]
    BY EmptySeq DEF NoReq, SingleActions, Actions
  <2>2. QED
    BY <1>1, <1>2, <2>1 DEF IInv, TypeOK, PcOK, SApp, SingleLabels, Procs
<1>4. TypeOK'
  BY <1>1, <1>3 DEF IInv, TypeOK, PcOK, SExit, files, update, bounds
<1>5. \A p \in Procs : InsideMulti(p) => p = s
  BY <1>1 DEF IInv, MultiOwner, InsideMulti
<1>6. MultiOwner'
  BY <1>2, <1>5 DEF MultiOwner, InsideMulti, Locked, Running
<1>7. QueueOwner' /\ HeadIsExecuting' /\ InOrder'
  BY <1>1, <1>2 DEF IInv, QueueOwner, HeadIsExecuting, InOrder, Procs
<1>8. QED
  BY <1>4, <1>6, <1>7 DEF IInv

\* Clearing the messages keeps the invariant.
LEMMA ClearMessagesInv ==
  ASSUME IInv, NEW n \in Restarters, NEW keep \in SUBSET Apps, ClearMessages(n, keep)
  PROVE  IInv'
<1> DEFINE S == {a \in Apps : status[a] # "NoEntry"}
           entries == [a \in S |-> IF status[a] = "INSTALLED"
                                   THEN Entry("INSTALLED", a \in keep) ELSE status[a]]
<1>1. entries \in Updates
  <2>1. \A a \in S : entries[a] \in Statuses
    BY DEF IInv, TypeOK, Entry, Statuses, Settled
  <2>2. S \in SUBSET Apps /\ entries \in [S -> Statuses]
    BY <2>1
  <2>3. QED
    BY <2>2, UpdateType
<1>2. /\ io' = [io EXCEPT ![n] = "entered"] /\ upd' = [upd EXCEPT ![n] = entries]
  BY DEF ClearMessages, EnterUpdate
<1> HIDE DEF entries
<1>3. /\ upd' \in [Procs -> Updates]
      /\ io' \in [Procs -> {"out", "entered", "loaded", "truncated"}]
  BY <1>1, <1>2 DEF IInv, TypeOK
<1>4. TypeOK'
  BY <1>3 DEF IInv, TypeOK, SApp, ClearMessages, files, locks, bounds
<1>5. QED
  BY <1>4, Quiet DEF IInv, ClearMessages, files, bounds

\* The death of a process gives back its locks and empties the queue file only
\* when nobody executes a line of it.
LEMMA CrashInv ==
  ASSUME IInv, NEW p \in Procs, Crash(p)
  PROVE  IInv'
<1>1. /\ multi' = (IF multi = p THEN NoProc ELSE multi)
      /\ qlock' = (IF qlock = p THEN NoProc ELSE qlock)
      /\ queue' \in (IF At(p, "commit") THEN {queue, <<>>} ELSE {queue})
      /\ pc' = [pc EXCEPT ![p] = Start(p)]
      /\ issued' = issued
  BY DEF Crash
<1>2. pc'[p] = Start(p) /\ \A q \in Procs \ {p} : pc'[q] = pc[q]
  BY <1>1 DEF IInv, TypeOK
<1>3. Start(p) \in {"idle", "off"}
  BY DEF Start
<1>4. \A w \in Workers \ {p} : lines'[w] = lines[w]
  BY DEF IInv, TypeOK, Crash
<1>5. PcOK'
  <2>1. NoReq \in [action : SingleActions, pkgs : Seq(Apps)] /\ NoReq.action \in Actions
    BY EmptySeq DEF NoReq, SingleActions, Actions
  <2>2. /\ pc' \in [Procs -> CallerLabels \cup WorkerLabels \cup SingleLabels]
        /\ \A x \in Callers : pc'[x] \in CallerLabels
        /\ \A w \in Workers : pc'[w] \in WorkerLabels
        /\ \A s \in Singles : pc'[s] \in SingleLabels
        /\ \A n \in Restarters : pc'[n] = "idle"
    BY <1>1, <1>2, ProcsAssumption
       DEF IInv, TypeOK, Start, CallerLabels, WorkerLabels, SingleLabels, Procs
  <2>3. /\ req' \in [Callers \cup Singles -> [action : SingleActions, pkgs : Seq(Apps)]]
        /\ \A x \in Callers : req'[x].action \in Actions
        /\ \A x \in (Callers \cup Singles) \ {p} : req'[x] = req[x]
    BY <2>1 DEF IInv, TypeOK, Crash
  <2>4. \A s \in Singles : pc'[s] \in {"sexec", "sreinstall"} => SApp(s)' \in Apps
    BY <1>2, <1>3, <2>3 DEF IInv, TypeOK, SApp, Procs
  <2>5. QED
    BY <2>2, <2>3, <2>4 DEF PcOK
<1>6. TypeOK'
  <2>1. queue' \in Seq(Jobs)
    BY <1>1, EmptySeq DEF IInv, TypeOK
  <2>2. /\ multi' \in Workers \cup Singles \cup {NoProc}
        /\ qlock' \in Workers \cup {NoProc}
    BY <1>1 DEF IInv, TypeOK
  <2>3. /\ lines' \in [Workers -> Seq(Jobs)]
        /\ result' \in [Workers -> Settled]
    BY EmptySeq DEF IInv, TypeOK, Crash, Settled
  <2>4. /\ io' \in [Procs -> {"out", "entered", "loaded", "truncated"}]
        /\ seen' \in [Procs -> [Apps -> Statuses]]
        /\ upd' \in [Procs -> Updates]
    <3>1. NoStatuses \in [Apps -> Statuses] /\ NoUpdate \in Updates
      BY DEF NoStatuses, Statuses, Settled, NoUpdate, Updates
    <3>2. QED
      BY <3>1 DEF IInv, TypeOK, Crash
  <2>5. event' \in [app : Apps \cup {"none"}, type : {"none", "nil", "outcome"}]
    BY DEF IInv, TypeOK, Crash, NoEvent
  <2>6. /\ faults' \in Nat
        /\ UNCHANGED <<status, installed, pending, issued, singles, overlap>>
    BY DEF IInv, TypeOK, Crash
  <2>7. QED
    BY <1>5, <2>1, <2>2, <2>3, <2>4, <2>5, <2>6 DEF IInv, TypeOK, PcOK
<1>7. MultiOwner'
  <2>1. ASSUME NEW q \in Procs, InsideMulti(q)'
        PROVE  multi' = q
    <3>1. q # p
      BY <1>2, <1>3, <2>1 DEF InsideMulti, Locked, Running
    <3>2. InsideMulti(q)
      BY <1>2, <2>1, <3>1 DEF InsideMulti
    <3>3. QED
      BY <1>1, <3>1, <3>2 DEF IInv, MultiOwner
  <2>2. QED
    BY <2>1 DEF MultiOwner
<1>8. CASE queue' = queue
  <2>1. QueueOwner'
    <3>1. ASSUME NEW w \in Workers, pc'[w] = "commit"
          PROVE  qlock' = w /\ queue' # <<>> /\ lines'[w] = Front(queue')
      <4>1. w # p /\ pc[w] = "commit"
        BY <1>2, <1>3, <3>1 DEF Procs
      <4>2. QED
        BY <1>1, <1>4, <1>8, <4>1 DEF IInv, QueueOwner
    <3>2. QED
      BY <3>1 DEF QueueOwner
  <2>2. HeadIsExecuting'
    <3>1. ASSUME NEW w \in Workers, pc'[w] \in Running
          PROVE  queue' # <<>> /\ lines'[w] # <<>> /\ Last(queue') = Last(lines'[w])
      <4>1. w # p /\ pc[w] \in Running
        BY <1>2, <1>3, <3>1 DEF Procs, Running
      <4>2. QED
        BY <1>4, <1>8, <4>1 DEF IInv, HeadIsExecuting
    <3>2. QED
      BY <3>1 DEF HeadIsExecuting
  <2>3. InOrder'
    BY <1>1, <1>8 DEF IInv, InOrder
  <2>4. QED
    BY <1>6, <1>7, <2>1, <2>2, <2>3 DEF IInv
<1>9. CASE queue' # queue
  <2>1. pc[p] = "commit" /\ queue' = <<>>
    BY <1>1, <1>9 DEF At
  <2>2. \A q \in Procs : InsideMulti(q) => q = p
    BY <2>1 DEF IInv, MultiOwner, InsideMulti, Locked
  <2>3. \A w \in Workers : pc'[w] \notin Locked
    BY <1>2, <1>3, <2>2 DEF InsideMulti, Locked, Running, Procs
  <2>4. QueueOwner' /\ HeadIsExecuting'
    BY <2>3 DEF QueueOwner, HeadIsExecuting, Locked
  <2>5. InOrder'
    BY <2>1, EmptySeq, LenProperties DEF InOrder
  <2>6. QED
    BY <1>6, <1>7, <2>4, <2>5 DEF IInv
<1>10. QED
  BY <1>8, <1>9

\* So does a step in which nothing changes.
LEMMA StutterInv ==
  ASSUME IInv, UNCHANGED vars
  PROVE  IInv'
BY DEF IInv, TypeOK, MultiOwner, QueueOwner, HeadIsExecuting, InOrder, InsideMulti,
       SApp, vars

\* The invariant is inductive.
LEMMA NextInv == IInv /\ [Next]_vars => IInv'
<1> SUFFICES ASSUME IInv, [Next]_vars PROVE IInv'
  OBVIOUS
<1>1. CASE \E p \in Procs : UpdateStep(p)
  BY <1>1, UpdateStepInv
<1>2. CASE \E c \in Callers : CallerStep(c)
  BY <1>2, EnqueueInv, ForkInv DEF CallerStep
<1>3. CASE \E c \in Callers, action \in Asked, pkgs \in Requests : Call(c, action, pkgs)
  BY <1>3, CallInv
<1>4. CASE \E w \in Workers : WorkerStep(w)
  BY <1>4, WAcquireInv, WStartInv, WStartEmptyInv, ExecutionInv, WDropInv, WCommitInv,
     WExitInv DEF WorkerStep
<1>5. CASE \E s \in Singles : SingleStep(s)
  BY <1>5, SingleExecInv, SExitInv DEF SingleStep
<1>6. CASE \E s \in Singles, action \in SingleAsked, a \in Apps : STry(s, action, a)
  BY <1>6, STryInv
<1>7. CASE \E n \in Restarters, keep \in SUBSET Apps : ClearMessages(n, keep)
  BY <1>7, ClearMessagesInv
<1>8. CASE \E w \in Workers : WError(w)
  BY <1>8, WErrorInv
<1>9. CASE \E p \in Procs : Crash(p)
  BY <1>9, CrashInv
<1>10. CASE UNCHANGED vars
  BY <1>10, StutterInv
<1>11. QED
  BY <1>1, <1>2, <1>3, <1>4, <1>5, <1>6, <1>7, <1>8, <1>9, <1>10 DEF Next

\* The inductive invariant: who is inside holds the multi lock, who commits holds the
\* queue's lock and has its lines without the last, and the queue is in order.
THEOREM Invariance == Spec => []IInv
BY InitInv, NextInv, PTL DEF Spec

-----------------------------------------------------------------------------
(* The theorems.                                                           *)

\* The variables have their types.
THEOREM TypeCorrect == Spec => []TypeOK
<1>1. IInv => TypeOK
  BY DEF IInv
<1>2. QED
  BY <1>1, Invariance, PTL

\* acquire_lock and test_lock: two processes are never both between taking and
\* giving back the multi lock.
THEOREM MutualExclusion == Spec => []OneExecutor
<1>1. IInv => OneExecutor
  BY DEF IInv, MultiOwner, OneExecutor
<1>2. QED
  BY <1>1, Invariance, PTL

\* The line a worker will drop is the one it has executed, however many calls
\* add lines meanwhile and whoever crashes.
THEOREM DropsWhatItExecuted == Spec => []HeadIsExecuting
<1>1. IInv => HeadIsExecuting
  BY DEF IInv
<1>2. QED
  BY <1>1, Invariance, PTL

\* The queue file keeps the jobs in the order of the calls, without a gap.
THEOREM KeepsOrder == Spec => []InOrder
<1>1. IInv => InOrder
  BY DEF IInv
<1>2. QED
  BY <1>1, Invariance, PTL

\* A step that makes the queue shorter is the commit of the worker that holds
\* both locks, which drops the last line, or a crash that empties the file.
ShortensRightly ==
  Len(queue') < Len(queue) =>
    \/ queue' = Front(queue) /\ multi \in Workers /\ qlock = multi
    \/ faults' > faults /\ queue' = <<>>

\* Every step is of that kind.
LEMMA ShortensStep == IInv /\ [Next]_vars => ShortensRightly
<1> SUFFICES ASSUME IInv, [Next]_vars PROVE ShortensRightly
  OBVIOUS
<1>1. queue \in Seq(Jobs) /\ Len(queue) \in Nat
  BY LenProperties DEF IInv, TypeOK
<1>2. CASE queue' = queue
  BY <1>1, <1>2 DEF ShortensRightly
<1>3. CASE \E c \in Callers : Enqueue(c)
  <2>1. PICK c \in Callers : Enqueue(c)
    BY <1>3
  <2> DEFINE new == NewLines(req[c].action, req[c].pkgs)
  <2>2. new \in Seq(Jobs)
    <3>1. req[c].action \in Actions /\ req[c].pkgs \in Seq(Apps) /\ issued \in Nat
      BY DEF IInv, TypeOK
    <3>2. QED
      BY <3>1, NewLinesFacts
  <2>3. queue' = new \o queue
    BY <2>1 DEF Enqueue, Above
  <2> HIDE DEF new
  <2>4. Len(queue') = Len(new) + Len(queue) /\ Len(new) \in Nat
    BY <1>1, <2>2, <2>3, ConcatProperties, LenProperties, Zenon
  <2>5. ~ (Len(queue') < Len(queue))
    BY <1>1, <2>4
  <2>6. QED
    BY <2>5 DEF ShortensRightly
<1>4. CASE \E w \in Workers : WCommit(w)
  <2>1. PICK w \in Workers : WCommit(w)
    BY <1>4
  <2>2. InsideMulti(w) /\ w \in Procs
    BY <2>1 DEF WCommit, At, InsideMulti, Locked, Procs
  <2>3. queue' = Front(queue) /\ multi = w /\ qlock = w
    BY <2>1, <2>2 DEF IInv, MultiOwner, QueueOwner, WCommit, At
  <2>4. QED
    BY <2>3 DEF ShortensRightly
<1>5. CASE \E p \in Procs : Crash(p)
  <2>1. faults' = faults + 1 /\ queue' \in {queue, <<>>} /\ faults \in Nat
    BY <1>5 DEF Crash, IInv, TypeOK
  <2>2. faults' > faults
    BY <2>1
  <2>3. CASE queue' = <<>>
    BY <2>2, <2>3 DEF ShortensRightly
  <2>4. QED
    BY <1>2, <2>1, <2>3
<1>6. \/ queue' = queue
      \/ \E c \in Callers : Enqueue(c)
      \/ \E w \in Workers : WCommit(w)
      \/ \E p \in Procs : Crash(p)
  <2>1. CASE \E p \in Procs : UpdateStep(p)
    BY <2>1 DEF UpdateStep, StatusLoad, StatusTruncate, StatusStore, files
  <2>2. CASE \E c \in Callers : CallerStep(c)
    BY <2>2 DEF CallerStep, Fork, files
  <2>3. CASE \E c \in Callers, action \in Asked, pkgs \in Requests : Call(c, action, pkgs)
    BY <2>3 DEF Call, files
  <2>4. CASE \E w \in Workers : WorkerStep(w)
    BY <2>4 DEF WorkerStep, WAcquire, WStart, WStartEmpty, WExec, WUpgradeRefused,
                WUpgradeRemove, WUpgradeInstall, WEvent, WDrop, WExit, files
  <2>5. CASE \E s \in Singles : SingleStep(s)
    BY <2>5 DEF SingleStep, SRefused, SInstall, SRemovePending, SRemove,
                SUpgradeRemove, SUpgradeInstall, SExit, files
  <2>6. CASE \E s \in Singles, action \in SingleAsked, a \in Apps : STry(s, action, a)
    BY <2>6 DEF STry, files
  <2>7. CASE \E n \in Restarters, keep \in SUBSET Apps : ClearMessages(n, keep)
    BY <2>7 DEF ClearMessages, files
  <2>8. CASE \E w \in Workers : WError(w)
    BY <2>8 DEF WError, files
  <2>9. CASE UNCHANGED vars
    BY <2>9 DEF vars
  <2>10. QED
    BY <2>1, <2>2, <2>3, <2>4, <2>5, <2>6, <2>7, <2>8, <2>9 DEF Next
<1>7. QED
  BY <1>2, <1>3, <1>4, <1>5, <1>6

\* A job leaves the queue only by the hand of the worker that executed it.
THEOREM LeavesFromTheEnd == Spec => JobsLeaveFromTheEnd
<1>1. IInv /\ [Next]_vars => [Len(queue') < Len(queue) =>
       \/ queue' = Front(queue) /\ multi \in Workers /\ qlock = multi
       \/ faults' > faults /\ queue' = <<>>]_vars
  BY ShortensStep DEF ShortensRightly
<1>2. QED
  BY <1>1, Invariance, PTL DEF Spec, JobsLeaveFromTheEnd

\* Somebody will see to a queue that holds jobs.
Attended ==
  queue # <<>> => (\E c \in Callers : pc[c] = "fork") \/ \E w \in Workers : WillRead(w)

\* Without faults every step leaves the queue attended: a caller that adds to an
\* empty queue forks, and a worker leaves only a queue it has seen empty under
\* the lock of the queue file.
LEMMA AttendedStep == TypeOK /\ Attended /\ [Next]_vars /\ faults' = 0 => Attended'
<1> SUFFICES ASSUME TypeOK, Attended, [Next]_vars, faults' = 0 PROVE Attended'
  OBVIOUS
<1>1. pc \in [Procs -> CallerLabels \cup WorkerLabels \cup SingleLabels] /\ faults \in Nat
  BY DEF TypeOK
<1>2. /\ Callers \subseteq Procs /\ Workers \subseteq Procs /\ Singles \subseteq Procs
      /\ Callers \cap Workers = {} /\ Singles \cap (Callers \cup Workers) = {}
  BY ProcsAssumption DEF Procs
\* A step that neither adds to the queue nor takes p out of those who attend.
<1>3. ASSUME NEW p \in Procs, NEW l, pc' = [pc EXCEPT ![p] = l],
             queue' # <<>> => queue # <<>>,
             p \in Callers => pc[p] # "fork",
             p \in Workers => l \in {"wait", "start", "commit"} \cup Running \/ ~WillRead(p)
      PROVE  Attended'
  BY <1>1, <1>2, <1>3 DEF Attended, WillRead
<1>4. ASSUME UNCHANGED <<queue, pc>> PROVE Attended'
  BY <1>4 DEF Attended, WillRead
<1>5. ASSUME NEW c \in Callers, CallerStep(c) PROVE Attended'
  <2>1. CASE Enqueue(c)
    <3>1. CASE ActionRunning
      BY <1>2, <1>3, <2>1, <3>1 DEF Enqueue, ActionRunning, At
    <3>2. CASE ~ActionRunning
      BY <1>1, <1>2, <2>1, <3>2 DEF Enqueue, Attended
    <3>3. QED
      BY <3>1, <3>2
  <2>2. CASE \E w \in Workers : Fork(c, w)
    <3>1. PICK w \in Workers : Fork(c, w)
      BY <2>2
    <3>2. pc'[w] = "wait"
      BY <1>1, <1>2, <3>1 DEF Fork
    <3>3. QED
      BY <3>2 DEF Attended, WillRead
  <2>3. QED
    BY <1>5, <2>1, <2>2 DEF CallerStep
<1>6. ASSUME NEW c \in Callers, NEW action \in Asked, NEW pkgs \in Requests, Call(c, action, pkgs)
      PROVE  Attended'
  BY <1>2, <1>3, <1>6 DEF Call, At, files
<1>7. ASSUME NEW w \in Workers, WorkerStep(w) PROVE Attended'
  <2>1. CASE WAcquire(w) \/ WExec(w) \/ WUpgradeRefused(w) \/ WUpgradeRemove(w)
               \/ WUpgradeInstall(w) \/ WEvent(w) \/ WDrop(w)
    <3>1. /\ queue' = queue
          /\ \E l \in {"start", "commit"} \cup Running : pc' = [pc EXCEPT ![w] = l]
      BY <2>1 DEF WAcquire, WExec, WUpgradeRefused, WUpgradeRemove, WUpgradeInstall, WEvent, WDrop,
                  Running, files
    <3>2. QED
      BY <1>2, <1>3, <3>1
  <2>2. CASE WStartEmpty(w)
    BY <2>2 DEF WStartEmpty, Attended, files
  <2>3. CASE WStart(w)
    <3>1. queue' = queue /\ pc' = [pc EXCEPT ![w] = "exec"]
      BY <2>3 DEF WStart, Iterate, files
    <3>2. QED
      BY <1>2, <1>3, <3>1 DEF Running
  <2>4. CASE WCommit(w)
    <3>1. CASE lines[w] = <<>>
      BY <2>4, <3>1 DEF WCommit, Attended
    <3>2. CASE lines[w] # <<>>
      <4>1. pc' = [pc EXCEPT ![w] = "exec"]
        BY <2>4, <3>2 DEF WCommit, Iterate
      <4>2. pc'[w] = "exec"
        BY <1>1, <1>2, <4>1
      <4>3. QED
        BY <4>2 DEF Attended, WillRead, Running
    <3>3. QED
      BY <3>1, <3>2
  <2>5. CASE WExit(w)
    <3>1. ~WillRead(w) /\ queue' = queue /\ pc' = [pc EXCEPT ![w] = "off"]
      BY <2>5 DEF WExit, At, WillRead, Running, files
    <3>2. QED
      BY <1>2, <1>3, <3>1
  <2>6. QED
    BY <1>7, <2>1, <2>2, <2>3, <2>4, <2>5 DEF WorkerStep
<1>8. ASSUME NEW s \in Singles, SingleStep(s) \/ \E action \in SingleAsked, a \in Apps : STry(s, action, a)
      PROVE  Attended'
  <2>1. queue' = queue /\ \E l \in SingleLabels : pc' = [pc EXCEPT ![s] = l]
    BY <1>8 DEF SingleStep, SRefused, SInstall, SRemovePending, SRemove, SUpgradeRemove,
                SUpgradeInstall, SExit, STry, SFinish, SingleLabels, files
  <2>2. QED
    BY <1>2, <1>3, <2>1
<1>9. ASSUME NEW p \in Procs, UpdateStep(p) PROVE Attended'
  BY <1>4, <1>9 DEF UpdateStep, StatusLoad, StatusTruncate, StatusStore, files
<1>10. ASSUME NEW n \in Restarters, NEW keep \in SUBSET Apps, ClearMessages(n, keep) PROVE Attended'
  BY <1>4, <1>10 DEF ClearMessages, files
<1>11. /\ \A w \in Workers : ~WError(w)
       /\ \A p \in Procs : ~Crash(p)
  <2>1. faults' # faults + 1
    BY <1>1
  <2>2. QED
    BY <2>1 DEF WError, Crash
<1>12. CASE UNCHANGED vars
  BY <1>4, <1>12 DEF vars
<1>13. QED
  BY <1>5, <1>6, <1>7, <1>8, <1>9, <1>10, <1>11, <1>12 DEF Next

\* Faults are counted and not forgotten.
LEMMA FaultsGrow == TypeOK /\ [Next]_vars /\ faults' = 0 => faults = 0
<1> SUFFICES ASSUME TypeOK, [Next]_vars, faults' = 0 PROVE faults = 0
  OBVIOUS
<1>1. faults \in Nat
  BY DEF TypeOK
<1>2. faults' = faults \/ faults' = faults + 1
  <2>1. CASE \E p \in Procs : UpdateStep(p)
    BY <2>1 DEF UpdateStep, StatusLoad, StatusTruncate, StatusStore, bounds
  <2>2. CASE \E c \in Callers : CallerStep(c)
    BY <2>2 DEF CallerStep, Fork, Enqueue, bounds
  <2>3. CASE \E c \in Callers, action \in Asked, pkgs \in Requests : Call(c, action, pkgs)
    BY <2>3 DEF Call, bounds
  <2>4. CASE \E w \in Workers : WorkerStep(w)
    BY <2>4 DEF WorkerStep, WAcquire, WStart, WStartEmpty, WExec, WUpgradeRefused,
                WUpgradeRemove, WUpgradeInstall, WEvent, WDrop, WCommit, WExit, bounds
  <2>5. CASE \E s \in Singles : SingleStep(s)
    BY <2>5 DEF SingleStep, SRefused, SInstall, SRemovePending, SRemove,
                SUpgradeRemove, SUpgradeInstall, SExit, bounds
  <2>6. CASE \E s \in Singles, action \in SingleAsked, a \in Apps : STry(s, action, a)
    BY <2>6 DEF STry
  <2>7. CASE \E n \in Restarters, keep \in SUBSET Apps : ClearMessages(n, keep)
    BY <2>7 DEF ClearMessages, bounds
  <2>8. CASE (\E w \in Workers : WError(w)) \/ (\E p \in Procs : Crash(p))
    BY <2>8 DEF WError, Crash
  <2>9. CASE UNCHANGED vars
    BY <2>9 DEF vars
  <2>10. QED
    BY <2>1, <2>2, <2>3, <2>4, <2>5, <2>6, <2>7, <2>8, <2>9 DEF Next
<1>3. QED
  BY <1>1, <1>2

\* No wakeup is lost: a caller that finds an action running may leave its jobs
\* to the worker that executes it, which has not read the queue for the last time.
THEOREM NothingForgotten == Spec => []NoLostWakeup
<1> DEFINE J == TypeOK /\ (faults = 0 => Attended)
<1>1. Init => (faults = 0 => Attended)
  BY DEF Init, Attended
<1>2. J /\ TypeOK' /\ [Next]_vars => J'
  <2>1. SUFFICES ASSUME J, TypeOK', [Next]_vars, faults' = 0 PROVE Attended'
    OBVIOUS
  <2>2. QED
    BY <2>1, FaultsGrow, AttendedStep
<1>3. J => NoLostWakeup
  BY DEF Attended, NoLostWakeup
<1>4. Init => TypeOK
  BY InitInv DEF IInv
<1> HIDE DEF J
<1>5. Init => J
  BY <1>1, <1>4 DEF J
<1>6. QED
  BY <1>2, <1>3, <1>5, TypeCorrect, PTL DEF Spec
=============================================================================
