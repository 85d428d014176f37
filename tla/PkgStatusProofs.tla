-------------------------- MODULE PkgStatusProofs --------------------------
(***************************************************************************)
(* What the status file says of a package when everything has ended, for   *)
(* any number of processes, packages and calls.  The status file has no    *)
(* lock; the argument is about the runs in which no process fails and no   *)
(* two processes overwrite the file with what they read before the other   *)
(* wrote.  In those, an application shown as being installed, removed or   *)
(* updated is one somebody still has to see to.                            *)
(***************************************************************************)
EXTENDS PkgQueueProofs

\* A worker has written the status of the job it is dropping: the job is still
\* the last line of the file, and is no longer owed.
Dropping  == \E w \in Workers : At(w, "commit")
Remaining == IF Dropping THEN Len(queue) - 1 ELSE Len(queue)

\* A job on the application is in the queue, or a caller is about to put it there.
Asking(a) == \E c \in Callers : pc[c] = "enqueue" /\ a \in ToSet(req[c].pkgs)
Owed(a)   == Asking(a) \/ \E i \in 1..Remaining : queue[i].app = a

\* The application has a status of an action in progress: in the file, in a copy
\* that will be written back, or among the entries a process is about to write.
Shown(a)  == status[a] \in InProgress
Kept(a)   == \E p \in Procs : io[p] \in {"loaded", "truncated"} /\ seen[p][a] \in InProgress
Coming(a) == \E p \in Procs : io[p] # "out" /\ a \in DOMAIN upd[p] /\ upd[p][a] \in InProgress
Marked(a) == Shown(a) \/ Kept(a) \/ Coming(a)

\* At most one process will overwrite the file with what it has read.
OneWriter == \A p, q \in Procs : Holds(p) /\ Holds(q) => p = q

\* Whose update it is says what it may write: a caller's the packages it is about
\* to queue, a single's the outcome, a worker's the package of the last line, in
\* progress after the execution only if a line above has the same package.
CallerUpdates ==
  \A c \in Callers : io[c] # "out" =>
    pc[c] = "enqueue" /\ DOMAIN upd[c] \subseteq ToSet(req[c].pkgs)
SingleUpdates ==
  \A s \in Singles : io[s] # "out" => \A a \in DOMAIN upd[s] : upd[s][a] \notin InProgress
WorkerUpdates ==
  \A w \in Workers : io[w] # "out" =>
    /\ pc[w] \in {"exec", "commit"} /\ queue # <<>>
    /\ DOMAIN upd[w] = {Last(queue).app}
    /\ pc[w] = "commit" /\ upd[w][Last(queue).app] \in InProgress =>
         \E i \in 1..(Len(queue) - 1) : queue[i].app = Last(queue).app
UpdatesFit == CallerUpdates /\ SingleUpdates /\ WorkerUpdates

MarkedAreOwed == ~overlap /\ OneWriter => \A a \in Apps : Marked(a) => Owed(a)

\* The inductive invariant: it speaks of runs without faults.
SInv == faults = 0 => UpdatesFit /\ MarkedAreOwed

-----------------------------------------------------------------------------
(* The steps, by what they do to the statuses.                             *)

\* No status, update or line changes, nobody begins or ends to ask, nobody moves
\* while it updates and no worker comes to commit.
Plain ==
  /\ UNCHANGED <<queue, status, seen, overlap, io, upd>>
  /\ \A p \in Procs : io[p] # "out" => pc'[p] = pc[p]
  /\ \A w \in Workers : pc'[w] = "commit" => pc[w] = "commit"
  /\ \A c \in Callers : /\ pc'[c] = "enqueue" <=> pc[c] = "enqueue"
                        /\ pc[c] = "enqueue" => req'[c] = req[c]

\* p enters an update of the status file with entries f.
Enters(p, f) ==
  /\ io[p] = "out" /\ EnterUpdate(p, f)
  /\ UNCHANGED <<status, seen, overlap>>

\* A single or a restarter does: nothing but its own place changes.
EntersAlone(p, f) ==
  /\ Enters(p, f) /\ p \notin Callers \cup Workers
  /\ UNCHANGED queue
  /\ \A q \in Callers \cup Workers : pc'[q] = pc[q]
  /\ \A c \in Callers : req'[c] = req[c]

\* A single writes outcomes; a restarter writes back what it has read.
SingleEnters(s) ==
  \E f : EntersAlone(s, f) /\ \A a \in DOMAIN f : f[a] \notin InProgress
RestarterEnters(n) ==
  \E f : EntersAlone(n, f)
         /\ \A a \in DOMAIN f \cap Apps : f[a] \in InProgress => status[a] \in InProgress

\* Of whom the processes are.
LEMMA ProcsFacts ==
  /\ Callers \subseteq Procs /\ Workers \subseteq Procs
  /\ Singles \subseteq Procs /\ Restarters \subseteq Procs
  /\ Callers \cap Workers = {} /\ Callers \cap Singles = {} /\ Callers \cap Restarters = {}
  /\ Workers \cap Singles = {} /\ Workers \cap Restarters = {} /\ Singles \cap Restarters = {}
  /\ NoProc \notin Workers
BY ProcsAssumption DEF Procs

\* The types the proofs below use.
LEMMA TypeFacts ==
  ASSUME TypeOK
  PROVE  /\ pc \in [Procs -> CallerLabels \cup WorkerLabels \cup SingleLabels]
         /\ io \in [Procs -> {"out", "entered", "loaded", "truncated"}]
         /\ upd \in [Procs -> Updates] /\ seen \in [Procs -> [Apps -> Statuses]]
         /\ status \in [Apps -> Statuses]
         /\ queue \in Seq(Jobs) /\ Len(queue) \in Nat
         /\ req \in [Callers \cup Singles -> [action : SingleActions, pkgs : Seq(Apps)]]
         /\ faults \in Nat /\ overlap \in BOOLEAN
BY LenProperties DEF TypeOK

\* The outcome of a single-package call is not a status in progress.
LEMMA EntrySettled ==
  ASSUME NEW info
  PROVE  Entry("INSTALLED", info) \notin InProgress /\ "NoEntry" \notin InProgress
BY DEF Entry, InProgress

LEMMA SingleKind ==
  ASSUME IInv, NEW s \in Singles,
         SingleStep(s) \/ \E action \in SingleAsked, a \in Apps : STry(s, action, a)
  PROVE  Plain \/ SingleEnters(s)
<1>1. /\ s \in Procs /\ s \notin Callers /\ s \notin Workers
      /\ Callers \subseteq Procs /\ Workers \subseteq Procs
  BY ProcsFacts
<1>2. /\ pc \in [Procs -> CallerLabels \cup WorkerLabels \cup SingleLabels]
      /\ req \in [Callers \cup Singles -> [action : SingleActions, pkgs : Seq(Apps)]]
  BY TypeFacts DEF IInv
<1>3. /\ UNCHANGED <<queue, status, seen, overlap>> /\ io[s] = "out"
      /\ \E l : pc' = [pc EXCEPT ![s] = l]
      /\ req' = req \/ \E r : req' = [req EXCEPT ![s] = r]
  BY DEF SingleStep, SRefused, SInstall, SRemovePending, SRemove, SUpgradeRemove,
         SUpgradeInstall, SExit, STry, SFinish, At, files, update
<1>4. /\ \A p \in Procs \ {s} : pc'[p] = pc[p]
      /\ \A c \in Callers : req'[c] = req[c]
  BY <1>1, <1>2, <1>3
<1>5. ASSUME UNCHANGED <<io, upd>> PROVE Plain
  BY <1>1, <1>3, <1>4, <1>5 DEF Plain
<1>6. ASSUME NEW f, EnterUpdate(s, f), \A a \in DOMAIN f : f[a] \notin InProgress
      PROVE  SingleEnters(s)
  <2>1. EntersAlone(s, f)
    BY <1>1, <1>3, <1>4, <1>6 DEF EntersAlone, Enters
  <2>2. QED
    BY <1>6, <2>1 DEF SingleEnters
<1>7. ASSUME NEW info \in BOOLEAN, SFinish(s, InstalledEntry(SApp(s), info)) PROVE Plain \/ SingleEnters(s)
  BY <1>5, <1>6, <1>7, EntrySettled DEF SFinish, InstalledEntry
<1>8. ASSUME SFinish(s, NoUpdate) PROVE Plain
  BY <1>5, <1>8 DEF SFinish
<1>9. CASE SInstall(s) \/ SUpgradeInstall(s)
  BY <1>7, <1>8, <1>9 DEF SInstall, SUpgradeInstall
<1>10. CASE SRemove(s)
  <2>1. SFinish(s, [x \in {SApp(s)} |-> "NoEntry"])
    BY <1>10 DEF SRemove
  <2>2. QED
    BY <1>5, <1>6, <2>1, EntrySettled DEF SFinish
<1>11. CASE SRefused(s) \/ SRemovePending(s)
  BY <1>8, <1>11 DEF SRefused, SRemovePending
<1>12. CASE SUpgradeRemove(s) \/ SExit(s) \/ \E action \in SingleAsked, a \in Apps : STry(s, action, a)
  BY <1>5, <1>12 DEF SUpgradeRemove, SExit, STry, update
<1>13. QED
  BY <1>9, <1>10, <1>11, <1>12 DEF SingleStep

LEMMA RestarterKind ==
  ASSUME IInv, NEW n \in Restarters, NEW keep \in SUBSET Apps, ClearMessages(n, keep)
  PROVE  RestarterEnters(n)
<1> DEFINE f == [a \in {a \in Apps : status[a] # "NoEntry"} |->
                  IF status[a] = "INSTALLED" THEN Entry("INSTALLED", a \in keep) ELSE status[a]]
<1>1. n \in Procs /\ n \notin Callers /\ n \notin Workers
  BY ProcsFacts
<1>2. EntersAlone(n, f)
  BY <1>1 DEF ClearMessages, EntersAlone, Enters, At, files
<1>3. \A a \in DOMAIN f : f[a] \in InProgress => status[a] \in InProgress
  BY EntrySettled
<1> HIDE DEF f
<1>4. QED
  BY <1>2, <1>3 DEF RestarterEnters

\* The steps of a worker that touch neither the queue nor a status.
LEMMA WorkerPlain ==
  ASSUME IInv, NEW w \in Workers,
         \/ WAcquire(w) \/ WStartEmpty(w) \/ WExec(w) \/ WUpgradeRefused(w)
         \/ WUpgradeRemove(w) \/ WUpgradeInstall(w) \/ WEvent(w) \/ WExit(w)
  PROVE  Plain
<1>1. /\ w \in Procs /\ w \notin Callers /\ Callers \subseteq Procs /\ Workers \subseteq Procs
      /\ pc \in [Procs -> CallerLabels \cup WorkerLabels \cup SingleLabels]
  BY ProcsFacts, TypeFacts DEF IInv
<1>2. /\ UNCHANGED <<queue, status, seen, overlap, io, upd, req>> /\ io[w] = "out"
      /\ \E l \in {"start", "exit", "event", "reinstall", "drop", "off"} : pc' = [pc EXCEPT ![w] = l]
  BY DEF WAcquire, WStartEmpty, WExec, WUpgradeRefused, WUpgradeRemove, WUpgradeInstall,
         WEvent, WExit, At, files, update
<1>3. PICK l \in {"start", "exit", "event", "reinstall", "drop", "off"} : pc' = [pc EXCEPT ![w] = l]
  BY <1>2
<1>4. /\ l # "commit" /\ pc'[w] = l
      /\ \A p \in Procs \ {w} : pc'[p] = pc[p]
  BY <1>1, <1>3
<1>5. QED
  BY <1>1, <1>2, <1>4 DEF Plain

LEMMA ForkPlain ==
  ASSUME IInv, NEW c \in Callers, NEW w \in Workers, Fork(c, w), SInv, faults = 0
  PROVE  Plain
<1>1. /\ c \in Procs /\ w \in Procs /\ w \notin Callers /\ c \notin Workers
      /\ Callers \subseteq Procs /\ Workers \subseteq Procs
      /\ pc \in [Procs -> CallerLabels \cup WorkerLabels \cup SingleLabels]
  BY ProcsFacts, TypeFacts DEF IInv
<1>2. UNCHANGED <<queue, status, seen, overlap, io, upd, req>>
  BY DEF Fork, files, update
<1>3. /\ io[c] = "out" /\ pc[c] = "fork" /\ pc'[c] = "idle"
      /\ pc[w] = "off" /\ pc'[w] = "wait"
      /\ \A p \in Procs \ {c, w} : pc'[p] = pc[p]
  BY <1>1 DEF Fork, At
<1>4. io[w] = "out"
  BY <1>3 DEF SInv, UpdatesFit, WorkerUpdates
<1>5. QED
  BY <1>1, <1>2, <1>3, <1>4 DEF Plain

\* Without a fault, every step is of one of these kinds.
StatusKind ==
  \/ Plain
  \/ \E p \in Procs : UpdateStep(p)
  \/ \E s \in Singles : SingleEnters(s)
  \/ \E n \in Restarters : RestarterEnters(n)
  \/ \E c \in Callers, action \in Asked, pkgs \in Requests : Call(c, action, pkgs)
  \/ \E c \in Callers : Enqueue(c)
  \/ \E w \in Workers : WStart(w) \/ WDrop(w) \/ WCommit(w)

LEMMA Kinds ==
  ASSUME IInv, SInv, [Next]_vars, faults = 0, faults' = 0
  PROVE  StatusKind
<1>1. CASE \E p \in Procs : UpdateStep(p)
  BY <1>1 DEF StatusKind
<1>2. CASE \E c \in Callers : CallerStep(c)
  BY <1>2, ForkPlain DEF CallerStep, StatusKind
<1>3. CASE \E c \in Callers, action \in Asked, pkgs \in Requests : Call(c, action, pkgs)
  BY <1>3 DEF StatusKind
<1>4. CASE \E w \in Workers : WorkerStep(w)
  BY <1>4, WorkerPlain DEF WorkerStep, StatusKind
<1>5. CASE \E s \in Singles : SingleStep(s)
  BY <1>5, SingleKind DEF StatusKind
<1>6. CASE \E s \in Singles, action \in SingleAsked, a \in Apps : STry(s, action, a)
  BY <1>6, SingleKind DEF StatusKind
<1>7. CASE \E n \in Restarters, keep \in SUBSET Apps : ClearMessages(n, keep)
  BY <1>7, RestarterKind DEF StatusKind
<1>8. (\A w \in Workers : ~WError(w)) /\ (\A p \in Procs : ~Crash(p))
  BY DEF WError, Crash
<1>9. CASE UNCHANGED vars
  BY <1>9, ProcsFacts DEF vars, Plain, StatusKind
<1>10. QED
  BY <1>1, <1>2, <1>3, <1>4, <1>5, <1>6, <1>7, <1>8, <1>9 DEF Next

-----------------------------------------------------------------------------
(* One writer at a time.                                                   *)

\* Two processes that hold what they have read go on holding it until the first
\* of them writes, which counts as an overlap: one writer now and no overlap so
\* far means one writer before.
LEMMA OneWriterBefore ==
  ASSUME IInv, SInv, StatusKind, OneWriter', ~overlap'
  PROVE  OneWriter /\ ~overlap
<1>1. io \in [Procs -> {"out", "entered", "loaded", "truncated"}] /\ overlap \in BOOLEAN
  BY TypeFacts DEF IInv
<1>2. ASSUME overlap' = overlap, \A p \in Procs : io'[p] = io[p] \/ io[p] = "out"
      PROVE  OneWriter /\ ~overlap
  BY <1>2 DEF OneWriter, Holds
<1>3. ASSUME NEW p \in Procs, NEW f, Enters(p, f) PROVE OneWriter /\ ~overlap
  BY <1>1, <1>2, <1>3 DEF Enters, EnterUpdate
<1>4. CASE Plain
  BY <1>2, <1>4 DEF Plain
<1>5. CASE \E s \in Singles : SingleEnters(s)
  BY <1>3, <1>5, ProcsFacts DEF SingleEnters, EntersAlone
<1>6. CASE \E n \in Restarters : RestarterEnters(n)
  BY <1>3, <1>6, ProcsFacts DEF RestarterEnters, EntersAlone
<1>7. ASSUME NEW c \in Callers, NEW action \in Asked, NEW pkgs \in Requests, Call(c, action, pkgs)
      PROVE  OneWriter /\ ~overlap
  BY <1>1, <1>2, <1>7, ProcsFacts DEF Call, At, EnterUpdate
<1>8. CASE \E c \in Callers : Enqueue(c)
  BY <1>2, <1>8 DEF Enqueue
<1>9. ASSUME NEW w \in Workers, WStart(w) \/ WDrop(w) \/ WCommit(w) PROVE OneWriter /\ ~overlap
  <2>1. /\ overlap' = overlap /\ io[w] = "out"
        /\ io' = io \/ io' = [io EXCEPT ![w] = "entered"]
    BY <1>9 DEF WStart, WDrop, WCommit, Iterate, EnterUpdate, At
  <2>2. QED
    BY <1>1, <1>2, <2>1, ProcsFacts
<1>10. ASSUME NEW p \in Procs, UpdateStep(p) PROVE OneWriter /\ ~overlap
  <2>1. CASE StatusLoad(p)
    <3>1. overlap' = overlap /\ \A q \in Procs : Holds(q) => Holds(q)'
      BY <1>1, <2>1 DEF StatusLoad, Holds
    <3>2. QED
      BY <3>1 DEF OneWriter
  <2>2. CASE StatusTruncate(p) \/ StatusStore(p)
    <3>1. overlap' = (overlap \/ \E q \in Procs \ {p} : Holds(q))
      BY <2>2 DEF StatusTruncate, StatusStore
    <3>2. QED
      BY <1>1, <3>1 DEF OneWriter
  <2>3. QED
    BY <1>10, <2>1, <2>2 DEF UpdateStep
<1>11. QED
  BY <1>4, <1>5, <1>6, <1>7, <1>8, <1>9, <1>10 DEF StatusKind

-----------------------------------------------------------------------------
(* What the updates may write.                                             *)

\* Callers have no line of the queue to look at: their updates fit as long as
\* they ask for the same.
LEMMA CallerUpdatesStep ==
  ASSUME IInv, CallerUpdates, StatusKind
  PROVE  CallerUpdates'
<1>1. /\ io \in [Procs -> {"out", "entered", "loaded", "truncated"}]
      /\ upd \in [Procs -> Updates]
      /\ pc \in [Procs -> CallerLabels \cup WorkerLabels \cup SingleLabels]
      /\ req \in [Callers \cup Singles -> [action : SingleActions, pkgs : Seq(Apps)]]
  BY TypeFacts DEF IInv
<1>2. ASSUME \A c \in Callers : \/ io'[c] = "out"
                                \/ /\ io[c] # "out" /\ upd'[c] = upd[c]
                                   /\ pc'[c] = pc[c] /\ req'[c] = req[c]
      PROVE  CallerUpdates'
  BY <1>2 DEF CallerUpdates
<1>3. CASE Plain
  BY <1>2, <1>3, ProcsFacts DEF Plain, CallerUpdates
<1>4. ASSUME NEW p \in Procs, NEW f, EntersAlone(p, f) PROVE CallerUpdates'
  BY <1>1, <1>2, <1>4, ProcsFacts DEF EntersAlone, Enters, EnterUpdate
<1>5. CASE \E s \in Singles : SingleEnters(s)
  BY <1>4, <1>5, ProcsFacts DEF SingleEnters
<1>6. CASE \E n \in Restarters : RestarterEnters(n)
  BY <1>4, <1>6, ProcsFacts DEF RestarterEnters
<1>7. ASSUME NEW c \in Callers, NEW action \in Asked, NEW pkgs \in Requests, Call(c, action, pkgs)
      PROVE  CallerUpdates'
  <2>1. /\ pc'[c] = "enqueue" /\ req'[c].pkgs = pkgs
        /\ upd'[c] = [a \in {a \in ToSet(pkgs) : status[a] \notin InProgress} |-> PkgType(action)]
    BY <1>1, <1>7, ProcsFacts DEF Call, EnterUpdate
  <2>2. DOMAIN upd'[c] \subseteq ToSet(req'[c].pkgs)
    BY <2>1
  <2>3. \A d \in Callers \ {c} : io'[d] = io[d] /\ upd'[d] = upd[d] /\ pc'[d] = pc[d] /\ req'[d] = req[d]
    BY <1>1, <1>7, ProcsFacts DEF Call, EnterUpdate
  <2>4. QED
    BY <2>1, <2>2, <2>3 DEF CallerUpdates
<1>8. ASSUME NEW c \in Callers, Enqueue(c) PROVE CallerUpdates'
  BY <1>1, <1>2, <1>8, ProcsFacts DEF Enqueue, At
<1>9. ASSUME NEW w \in Workers, WStart(w) \/ WDrop(w) \/ WCommit(w) PROVE CallerUpdates'
  <2>1. /\ io' = io \/ io' = [io EXCEPT ![w] = "entered"]
        /\ upd' = upd \/ \E f : upd' = [upd EXCEPT ![w] = f]
        /\ (\E l : pc' = [pc EXCEPT ![w] = l]) /\ req' = req
    BY <1>9 DEF WStart, WDrop, WCommit, Iterate, EnterUpdate
  <2>2. QED
    BY <1>1, <1>2, <2>1, ProcsFacts
<1>10. ASSUME NEW p \in Procs, UpdateStep(p) PROVE CallerUpdates'
  BY <1>1, <1>2, <1>10, ProcsFacts DEF UpdateStep, StatusLoad, StatusTruncate, StatusStore
<1>11. QED
  BY <1>3, <1>5, <1>6, <1>7, <1>8, <1>9, <1>10 DEF StatusKind

LEMMA SingleUpdatesStep ==
  ASSUME IInv, SingleUpdates, StatusKind
  PROVE  SingleUpdates'
<1>1. /\ io \in [Procs -> {"out", "entered", "loaded", "truncated"}]
      /\ upd \in [Procs -> Updates]
  BY TypeFacts DEF IInv
<1>2. ASSUME \A s \in Singles : io'[s] = "out" \/ (io[s] # "out" /\ upd'[s] = upd[s])
      PROVE  SingleUpdates'
  BY <1>2 DEF SingleUpdates
<1>3. CASE Plain
  BY <1>2, <1>3 DEF Plain
<1>4. ASSUME NEW p \in Procs \ Singles, io' = io \/ io' = [io EXCEPT ![p] = "entered"],
             upd' = upd \/ \E f : upd' = [upd EXCEPT ![p] = f]
      PROVE  SingleUpdates'
  BY <1>1, <1>2, <1>4, ProcsFacts
<1>5. ASSUME NEW s \in Singles, SingleEnters(s) PROVE SingleUpdates'
  <2>1. PICK f : EntersAlone(s, f) /\ \A a \in DOMAIN f : f[a] \notin InProgress
    BY <1>5 DEF SingleEnters
  <2>2. upd'[s] = f /\ \A t \in Singles \ {s} : io'[t] = io[t] /\ upd'[t] = upd[t]
    BY <1>1, <2>1, ProcsFacts DEF EntersAlone, Enters, EnterUpdate
  <2>3. QED
    BY <2>1, <2>2 DEF SingleUpdates
<1>6. CASE \E n \in Restarters : RestarterEnters(n)
  BY <1>4, <1>6, ProcsFacts DEF RestarterEnters, EntersAlone, Enters, EnterUpdate
<1>7. ASSUME NEW c \in Callers, NEW action \in Asked, NEW pkgs \in Requests, Call(c, action, pkgs)
      PROVE  SingleUpdates'
  BY <1>4, <1>7, ProcsFacts DEF Call, EnterUpdate
<1>8. CASE \E c \in Callers : Enqueue(c)
  BY <1>2, <1>8 DEF Enqueue
<1>9. ASSUME NEW w \in Workers, WStart(w) \/ WDrop(w) \/ WCommit(w) PROVE SingleUpdates'
  BY <1>4, <1>9, ProcsFacts DEF WStart, WDrop, WCommit, Iterate, EnterUpdate
<1>10. ASSUME NEW p \in Procs, UpdateStep(p) PROVE SingleUpdates'
  BY <1>1, <1>2, <1>10, ProcsFacts DEF UpdateStep, StatusLoad, StatusTruncate, StatusStore
<1>11. QED
  BY <1>3, <1>5, <1>6, <1>7, <1>8, <1>9, <1>10 DEF StatusKind

\* The worker inside the multi lock is the only one that updates or commits.
LEMMA OnlyWorker ==
  ASSUME IInv, NEW w \in Workers, InsideMulti(w)
  PROVE  \A v \in Workers \ {w} : pc[v] \notin Locked
BY ProcsFacts DEF IInv, MultiOwner, InsideMulti

LEMMA WorkerUpdatesStep ==
  ASSUME IInv, IInv', WorkerUpdates, StatusKind
  PROVE  WorkerUpdates'
<1>1. /\ io \in [Procs -> {"out", "entered", "loaded", "truncated"}]
      /\ upd \in [Procs -> Updates]
      /\ pc \in [Procs -> CallerLabels \cup WorkerLabels \cup SingleLabels]
      /\ queue \in Seq(Jobs)
  BY TypeFacts DEF IInv
<1>2. ASSUME queue' = queue,
             \A w \in Workers : \/ io'[w] = "out"
                                \/ io[w] # "out" /\ upd'[w] = upd[w] /\ pc'[w] = pc[w]
      PROVE  WorkerUpdates'
  BY <1>2 DEF WorkerUpdates
<1>3. CASE Plain
  BY <1>2, <1>3, ProcsFacts DEF Plain
<1>4. ASSUME NEW p \in Procs, NEW f, EntersAlone(p, f) PROVE WorkerUpdates'
  <2>1. queue' = queue /\ \A w \in Workers : io'[w] = io[w] /\ upd'[w] = upd[w] /\ pc'[w] = pc[w]
    BY <1>1, <1>4, ProcsFacts DEF EntersAlone, Enters, EnterUpdate
  <2>2. QED
    BY <1>2, <2>1
<1>5. CASE \E s \in Singles : SingleEnters(s)
  BY <1>4, <1>5, ProcsFacts DEF SingleEnters
<1>6. CASE \E n \in Restarters : RestarterEnters(n)
  BY <1>4, <1>6, ProcsFacts DEF RestarterEnters
<1>7. ASSUME NEW c \in Callers, NEW action \in Asked, NEW pkgs \in Requests, Call(c, action, pkgs)
      PROVE  WorkerUpdates'
  <2>1. queue' = queue /\ \A w \in Workers : io'[w] = io[w] /\ upd'[w] = upd[w] /\ pc'[w] = pc[w]
    BY <1>1, <1>7, ProcsFacts DEF Call, EnterUpdate, files
  <2>2. QED
    BY <1>2, <2>1
\* New lines above the queue leave its last line; no worker is at the commit.
<1>8. ASSUME NEW c \in Callers, Enqueue(c) PROVE WorkerUpdates'
  <2> DEFINE new == NewLines(req[c].action, req[c].pkgs)
  <2>1. /\ io' = io /\ upd' = upd /\ \A w \in Workers : pc'[w] = pc[w]
        /\ queue' = new \o queue
    BY <1>1, <1>8, ProcsFacts DEF Enqueue, Above
  <2>2. new \in Seq(Jobs)
    BY NewLinesFacts, ProcsFacts DEF IInv, TypeOK
  <2>3. \A w \in Workers : pc[w] # "commit"
    BY <1>8, ProcsFacts DEF IInv, QueueOwner, Enqueue
  <2> HIDE DEF new
  <2>4. queue # <<>> => queue' # <<>> /\ Last(queue') = Last(queue)
    BY <1>1, <2>1, <2>2, PrependFacts
  <2>5. QED
    BY <2>1, <2>3, <2>4 DEF WorkerUpdates
<1>9. ASSUME NEW w \in Workers, WStart(w) \/ WDrop(w) \/ WCommit(w) PROVE WorkerUpdates'
  <2>1. /\ pc[w] \in Locked /\ w \in Procs
        /\ \A v \in Workers \ {w} : io'[v] = io[v] /\ pc'[v] = pc[v] /\ upd'[v] = upd[v]
    BY <1>1, <1>9, ProcsFacts DEF WStart, WDrop, WCommit, At, Iterate, EnterUpdate, Locked, Running
  <2>2. \A v \in Workers \ {w} : io'[v] = "out"
    BY <2>1, OnlyWorker DEF InsideMulti, Locked, Running, WorkerUpdates
  <2>3. ASSUME io'[w] # "out" =>
                 /\ pc'[w] \in {"exec", "commit"} /\ queue' # <<>>
                 /\ DOMAIN upd'[w] = {Last(queue').app}
                 /\ pc'[w] = "commit" /\ upd'[w][Last(queue').app] \in InProgress =>
                      \E i \in 1..(Len(queue') - 1) : queue'[i].app = Last(queue').app
        PROVE  WorkerUpdates'
    BY <2>2, <2>3 DEF WorkerUpdates
  <2>4. ASSUME NEW q, Iterate(w, q), queue' = q, io[w] = "out" PROVE WorkerUpdates'
    <3>1. CASE q = <<>>
      BY <2>3, <2>4, <3>1 DEF Iterate
    <3>2. CASE q # <<>>
      <4>1. pc'[w] = "exec" /\ DOMAIN upd'[w] = {Last(q).app}
        BY <1>1, <2>1, <2>4, <3>2 DEF Iterate, EnterUpdate
      <4>2. QED
        BY <2>3, <2>4, <3>2, <4>1
    <3>3. QED
      BY <3>1, <3>2
  <2>5. CASE WStart(w)
    BY <2>4, <2>5 DEF WStart, At, files
  <2>6. CASE WCommit(w)
    BY <2>4, <2>6 DEF WCommit, At
  <2>7. CASE WDrop(w)
    <3> DEFINE a == Job(w).app
               left == Front(queue)
    <3>1. /\ queue # <<>> /\ Last(queue) = Job(w) /\ queue' = queue
      BY <2>7, JobType DEF WDrop, At, Running, files
    <3>2. /\ left \in Seq(Jobs) /\ Len(left) = Len(queue) - 1
          /\ \A i \in 1..(Len(queue) - 1) : left[i] = queue[i]
      BY <1>1, <3>1, FrontFacts
    <3>3. DOMAIN left = 1..(Len(queue) - 1)
      BY <3>2, LenProperties
    <3>4. upd'[w] = [x \in {a} |-> IF LinesOf(left, a) # {}
                                   THEN PkgType(NextAction(left, a)) ELSE result[w]]
      BY <1>1, <2>1, <2>7 DEF WDrop, EnterUpdate
    <3>5. result[w] \notin InProgress
      BY DEF IInv, TypeOK, Settled, InProgress
    <3>6. upd'[w][a] \in InProgress => LinesOf(left, a) # {}
      BY <3>4, <3>5
    <3>7. DOMAIN upd'[w] = {a}
      BY <3>4
    <3>8. LinesOf(left, a) # {} => \E i \in 1..(Len(queue) - 1) : queue[i].app = a
      BY <3>2, <3>3 DEF LinesOf
    <3>9. pc'[w] = "commit"
      BY <1>1, <2>1, <2>7 DEF WDrop
    <3>10. QED
      BY <2>3, <3>1, <3>6, <3>7, <3>8, <3>9
  <2>8. QED
    BY <1>9, <2>5, <2>6, <2>7
<1>10. ASSUME NEW p \in Procs, UpdateStep(p) PROVE WorkerUpdates'
  <2>1. queue' = queue /\ pc' = pc
    BY <1>10 DEF UpdateStep, StatusLoad, StatusTruncate, StatusStore, files
  <2>2. \A w \in Workers : io'[w] = "out" \/ (io[w] # "out" /\ upd'[w] = upd[w])
    BY <1>1, <1>10, ProcsFacts DEF UpdateStep, StatusLoad, StatusTruncate, StatusStore
  <2>3. QED
    BY <1>2, <2>1, <2>2
<1>11. QED
  BY <1>3, <1>5, <1>6, <1>7, <1>8, <1>9, <1>10 DEF StatusKind

-----------------------------------------------------------------------------
(* Who is marked is owed.                                                  *)

\* What is owed stays so when the queue stays, no worker comes to have its job
\* done and no caller stops asking.
LEMMA OwedStays ==
  ASSUME IInv, queue' = queue, Dropping' => Dropping,
         \A c \in Callers : pc[c] = "enqueue" => pc'[c] = "enqueue" /\ req'[c] = req[c],
         NEW a, Owed(a)
  PROVE  Owed(a)'
<1>1. Len(queue) \in Nat
  BY TypeFacts DEF IInv
<1>2. Asking(a) => Asking(a)'
  BY DEF Asking
<1>3. Remaining \in Int /\ Remaining' \in Int /\ Remaining <= Remaining'
  BY <1>1 DEF Remaining
<1>4. \A i \in 1..Remaining : i \in 1..Remaining'
  BY <1>3
<1>5. QED
  BY <1>2, <1>4 DEF Owed

\* Entering an update marks the entries it will write, and no others.
LEMMA EnterMarks ==
  ASSUME IInv, NEW p \in Procs, NEW f, Enters(p, f), NEW a, Marked(a)'
  PROVE  Marked(a) \/ (a \in DOMAIN f /\ f[a] \in InProgress)
<1>1. /\ io \in [Procs -> {"out", "entered", "loaded", "truncated"}]
      /\ upd \in [Procs -> Updates]
  BY TypeFacts DEF IInv
<1>2. /\ status' = status /\ seen' = seen
      /\ io'[p] = "entered" /\ upd'[p] = f
      /\ \A q \in Procs \ {p} : io'[q] = io[q] /\ upd'[q] = upd[q]
  BY <1>1 DEF Enters, EnterUpdate
<1>3. Shown(a)' => Shown(a)
  BY <1>2 DEF Shown
<1>4. Kept(a)' => Kept(a)
  BY <1>2 DEF Kept
<1>5. Coming(a)' => Coming(a) \/ (a \in DOMAIN f /\ f[a] \in InProgress)
  BY <1>2 DEF Coming
<1>6. QED
  BY <1>3, <1>4, <1>5 DEF Marked

\* Every line is owed once no worker has its job done.
LEMMA LinesAreOwed ==
  ASSUME IInv, ~Dropping, NEW i \in 1..Len(queue)
  PROVE  Owed(queue[i].app)
BY DEF Owed, Remaining

\* While the worker inside the multi lock is not at the end of the commit, no job
\* is done and still in the file.
LEMMA NotDropping ==
  ASSUME IInv, NEW w \in Workers, pc[w] \in Locked, ~At(w, "commit")
  PROVE  ~Dropping
<1>1. \A v \in Workers \ {w} : pc[v] \notin Locked
  BY OnlyWorker DEF InsideMulti
<1>2. QED
  BY <1>1 DEF Dropping, At, Locked

\* A load copies the file; the truncation leaves the copy, and the write puts the
\* copy and the entries in the file.  When it is the worker's that drops a job,
\* the job's application is marked afterwards only if a line above it or a caller
\* is left to see to it.
LEMMA UpdateOwes ==
  ASSUME IInv, UpdatesFit, OneWriter, NEW p \in Procs, UpdateStep(p),
         NEW a \in Apps, Marked(a) => Owed(a), Marked(a)'
  PROVE  Owed(a)'
<1>1. /\ io \in [Procs -> {"out", "entered", "loaded", "truncated"}]
      /\ upd \in [Procs -> Updates] /\ seen \in [Procs -> [Apps -> Statuses]]
      /\ status \in [Apps -> Statuses]
      /\ pc \in [Procs -> CallerLabels \cup WorkerLabels \cup SingleLabels]
      /\ Len(queue) \in Nat
  BY TypeFacts DEF IInv
<1>2. UNCHANGED <<queue, pc, req>> /\ \A q \in Procs \ {p} : io'[q] = io[q]
  BY <1>1 DEF UpdateStep, StatusLoad, StatusTruncate, StatusStore, files
<1>3. ASSUME Owed(a), io'[p] # "out" \/ p \notin Workers \/ pc[p] # "commit" PROVE Owed(a)'
  <2>1. Dropping' => Dropping
    BY <1>2, <1>3, ProcsFacts DEF Dropping, At
  <2>2. QED
    BY <1>2, <1>3, <2>1, OwedStays
<1>4. CASE StatusLoad(p)
  <2>1. /\ status' = status /\ upd' = upd /\ io[p] # "out" /\ io'[p] = "loaded"
        /\ seen'[p] = status /\ \A q \in Procs \ {p} : seen'[q] = seen[q]
    BY <1>1, <1>4 DEF StatusLoad, files
  <2>2. (Shown(a)' => Shown(a)) /\ (Coming(a)' => Coming(a))
    BY <1>2, <2>1 DEF Shown, Coming
  <2>3. Kept(a)' => Kept(a) \/ Shown(a)
    BY <1>2, <2>1 DEF Kept, Shown
  <2>4. QED
    BY <1>3, <2>1, <2>2, <2>3 DEF Marked
<1>5. CASE StatusTruncate(p)
  <2>1. /\ seen' = seen /\ upd' = upd /\ io[p] = "loaded" /\ io'[p] = "truncated"
        /\ status' = NoStatuses
    BY <1>1, <1>5 DEF StatusTruncate
  <2>2. (Kept(a)' => Kept(a)) /\ (Coming(a)' => Coming(a))
    BY <1>2, <2>1 DEF Kept, Coming
  <2>3. ~Shown(a)'
    BY <2>1 DEF Shown, NoStatuses, InProgress
  <2>4. QED
    BY <1>3, <2>1, <2>2, <2>3 DEF Marked
<1>6. CASE StatusStore(p)
  <2>1. /\ io[p] = "truncated" /\ io'[p] = "out"
        /\ status'[a] = IF a \in DOMAIN upd[p] THEN upd[p][a] ELSE seen[p][a]
        /\ \A q \in Procs \ {p} : upd'[q] = upd[q]
    BY <1>1, <1>6 DEF StatusStore, Merge
  <2>2. \A q \in Procs \ {p} : ~Holds(q)
    BY <2>1 DEF OneWriter, Holds
  <2>3. ~Kept(a)'
    BY <1>2, <2>1, <2>2 DEF Kept, Holds
  <2>4. Coming(a)' => \E q \in Procs \ {p} : /\ io[q] # "out" /\ a \in DOMAIN upd[q]
                                             /\ upd[q][a] \in InProgress
    BY <1>2, <2>1 DEF Coming
  <2>5. Marked(a)
    BY <2>1, <2>3, <2>4 DEF Marked, Shown, Kept, Coming
  <2>6. CASE ~(p \in Workers /\ pc[p] = "commit")
    BY <1>3, <2>5, <2>6
  <2>7. CASE p \in Workers /\ pc[p] = "commit"
    <3>1. \A v \in Workers \ {p} : pc[v] \notin Locked
      BY <2>7, OnlyWorker DEF InsideMulti, Locked
    <3>2. ~Dropping
      BY <2>1, <2>7, NotDropping DEF Locked, At
    <3>3. PICK n \in Nat : n = Len(queue)
      BY <1>1
    <3>4. Remaining = n /\ (Remaining' = n \/ Remaining' = n - 1)
      BY <1>2, <3>2, <3>3 DEF Remaining
    <3>5. ASSUME NEW i \in 1..(n - 1), queue[i].app = a PROVE Owed(a)'
      <4>1. i \in 1..Remaining'
        BY <3>3, <3>4
      <4>2. QED
        BY <1>2, <3>5, <4>1 DEF Owed
    <3>6. ASSUME Asking(a) PROVE Owed(a)'
      BY <1>2, <3>6 DEF Owed, Asking
    <3>7. /\ queue # <<>> /\ DOMAIN upd[p] = {Last(queue).app}
          /\ upd[p][Last(queue).app] \in InProgress =>
               \E i \in 1..(n - 1) : queue[i].app = Last(queue).app
      BY <2>1, <2>7, <3>3 DEF UpdatesFit, WorkerUpdates
    <3>8. CASE a # Last(queue).app
      <4>1. queue[n] = Last(queue)
        BY <3>3 DEF Last
      <4>2. Asking(a) \/ \E i \in 1..n : queue[i].app = a
        BY <2>5, <3>4 DEF Owed
      <4>3. ASSUME NEW i \in 1..n, queue[i].app = a PROVE i \in 1..(n - 1)
        BY <3>8, <4>1, <4>3
      <4>4. QED
        BY <3>5, <3>6, <4>2, <4>3
    <3>9. CASE a = Last(queue).app
      <4>1. CASE Shown(a)'
        BY <2>1, <3>5, <3>7, <3>9, <4>1 DEF Shown
      <4>2. CASE Coming(a)'
        <5>1. PICK q \in Procs \ {p} : io[q] # "out" /\ a \in DOMAIN upd[q] /\ upd[q][a] \in InProgress
          BY <2>4, <4>2
        <5>2. q \notin Restarters
          BY <1>1, <2>2, <5>1 DEF Holds
        <5>3. q \notin Singles
          BY <5>1 DEF UpdatesFit, SingleUpdates
        <5>4. q \notin Workers
          BY <3>1, <5>1 DEF UpdatesFit, WorkerUpdates, Locked, Running
        <5>5. q \in Callers
          BY <5>1, <5>2, <5>3, <5>4 DEF Procs
        <5>6. Asking(a)
          BY <5>1, <5>5 DEF UpdatesFit, CallerUpdates, Asking
        <5>7. QED
          BY <3>6, <5>6
      <4>3. QED
        BY <2>3, <4>1, <4>2 DEF Marked
    <3>10. QED
      BY <3>8, <3>9
  <2>8. QED
    BY <2>6, <2>7
<1>7. QED
  BY <1>4, <1>5, <1>6 DEF UpdateStep

\* A call marks the packages it will queue.
LEMMA CallOwes ==
  ASSUME IInv, NEW c \in Callers, NEW action \in Asked, NEW pkgs \in Requests,
         Call(c, action, pkgs), NEW a \in Apps, Marked(a) => Owed(a), Marked(a)'
  PROVE  Owed(a)'
<1> DEFINE f == [x \in {x \in ToSet(pkgs) : status[x] \notin InProgress} |-> PkgType(action)]
<1>1. /\ pc \in [Procs -> CallerLabels \cup WorkerLabels \cup SingleLabels]
      /\ io \in [Procs -> {"out", "entered", "loaded", "truncated"}]
      /\ req \in [Callers \cup Singles -> [action : SingleActions, pkgs : Seq(Apps)]]
      /\ c \in Procs /\ c \notin Workers
  BY TypeFacts, ProcsFacts DEF IInv
<1>2. Enters(c, f)
  BY DEF Call, Enters, At, files
<1>3. /\ pc[c] = "idle" /\ pc'[c] = "enqueue" /\ req'[c].pkgs = pkgs
      /\ \A p \in Procs \ {c} : pc'[p] = pc[p] /\ io'[p] = io[p]
      /\ \A d \in Callers \ {c} : req'[d] = req[d]
  BY <1>1 DEF Call, At, EnterUpdate
<1>4. a \in DOMAIN f => Owed(a)'
  BY <1>3 DEF Owed, Asking
<1> HIDE DEF f
<1>5. Marked(a) \/ a \in DOMAIN f
  BY <1>1, <1>2, EnterMarks
<1>6. Dropping' => Dropping
  BY <1>1, <1>3, ProcsFacts DEF Dropping, At
<1>7. Owed(a) => Owed(a)'
  <2>1. queue' = queue
    BY DEF Call, files
  <2>2. \A d \in Callers : pc[d] = "enqueue" => pc'[d] = "enqueue" /\ req'[d] = req[d]
    BY <1>3, ProcsFacts
  <2>3. QED
    BY <1>6, <2>1, <2>2, OwedStays
<1>8. QED
  BY <1>4, <1>5, <1>7

\* What the caller asked for is in the queue when it stops asking, and no worker
\* has its job done: that one holds the lock of the queue file.
LEMMA EnqueueOwes ==
  ASSUME IInv, NEW c \in Callers, Enqueue(c),
         NEW a \in Apps, Marked(a) => Owed(a), Marked(a)'
  PROVE  Owed(a)'
<1> DEFINE pkgs == req[c].pkgs
           new == NewLines(req[c].action, pkgs)
<1>1. /\ pc \in [Procs -> CallerLabels \cup WorkerLabels \cup SingleLabels]
      /\ req \in [Callers \cup Singles -> [action : SingleActions, pkgs : Seq(Apps)]]
      /\ queue \in Seq(Jobs) /\ c \in Procs /\ c \notin Workers
      /\ pkgs \in Seq(Apps) /\ issued \in Nat
  BY TypeFacts, ProcsFacts DEF IInv, TypeOK
<1>2. PICK n \in Nat, m \in Nat : n = Len(pkgs) /\ m = Len(queue)
  BY <1>1, LenProperties
<1>3. /\ new \in Seq(Jobs) /\ Len(new) = n
      /\ \A i \in 1..n : new[i].app = pkgs[n + 1 - i]
  <2>1. req[c].action \in Actions
    BY DEF IInv, TypeOK
  <2>2. new \in Seq(Jobs) /\ Len(new) = n
    BY <1>1, <1>2, <2>1, NewLinesFacts
  <2>3. \A i \in 1..n : new[i].app = pkgs[n + 1 - i]
    BY <1>2 DEF NewLines
  <2>4. QED
    BY <2>2, <2>3
<1>4. /\ queue' = new \o queue /\ UNCHANGED <<status, io, seen, upd>>
      /\ \A p \in Procs \ {c} : pc'[p] = pc[p]
      /\ \A d \in Callers \ {c} : req'[d] = req[d]
  BY <1>1 DEF Enqueue, Above
<1>5. DOMAIN pkgs = 1..n
  BY <1>1, <1>2, LenProperties
<1> HIDE DEF new, pkgs
<1>6. /\ Len(queue') = n + m
      /\ \A i \in 1..n : queue'[i] = new[i]
      /\ \A i \in 1..m : queue'[n + i] = queue[i]
  <2>1. /\ Len(new \o queue) = n + m
        /\ \A i \in 1..(n + m) : (new \o queue)[i] = IF i <= n THEN new[i] ELSE queue[i - n]
    <3>1. /\ Len(new \o queue) = Len(new) + Len(queue)
          /\ \A i \in 1..(Len(new) + Len(queue)) :
               (new \o queue)[i] = IF i <= Len(new) THEN new[i] ELSE queue[i - Len(new)]
      BY <1>1, <1>3, ConcatProperties, Zenon
    <3>2. QED
      BY <1>2, <1>3, <3>1
  <2>2. /\ \A i \in 1..n : i \in 1..(n + m) /\ i <= n
        /\ \A i \in 1..m : n + i \in 1..(n + m) /\ ~(n + i <= n) /\ (n + i) - n = i
    OBVIOUS
  <2>3. QED
    BY <1>4, <2>1, <2>2
<1>7. ~Dropping /\ ~Dropping'
  <2>1. \A w \in Workers : pc[w] # "commit" /\ pc'[w] = pc[w]
    BY <1>1, <1>4, ProcsFacts DEF IInv, QueueOwner, Enqueue
  <2>2. QED
    BY <2>1 DEF Dropping, At
<1>8. Remaining = m /\ Remaining' = n + m
  BY <1>2, <1>6, <1>7 DEF Remaining
<1>9. Marked(a)
  BY <1>4 DEF Marked, Shown, Kept, Coming
<1>10. CASE \E i \in 1..Remaining : queue[i].app = a
  <2>1. PICK i \in 1..m : queue[i].app = a
    BY <1>8, <1>10
  <2>2. n + i \in 1..(n + m) /\ queue'[n + i].app = a
    BY <1>6, <2>1
  <2>3. QED
    BY <1>8, <2>2 DEF Owed
<1>11. CASE \E d \in Callers \ {c} : pc[d] = "enqueue" /\ a \in ToSet(req[d].pkgs)
  BY <1>4, <1>11, ProcsFacts DEF Owed, Asking
<1>12. CASE a \in ToSet(pkgs)
  <2>1. PICK j \in 1..n : pkgs[j] = a
    BY <1>5, <1>12 DEF ToSet
  <2>2. n + 1 - j \in 1..n /\ n + 1 - (n + 1 - j) = j /\ n + 1 - j \in 1..(n + m)
    BY <2>1
  <2>3. queue'[n + 1 - j].app = a
    BY <1>3, <1>6, <2>1, <2>2
  <2>4. QED
    BY <1>8, <2>2, <2>3 DEF Owed
<1>13. QED
  BY <1>9, <1>10, <1>11, <1>12 DEF Owed, Asking, pkgs

\* A worker that begins a job marks the package of the last line.
LEMMA IterateOwes ==
  ASSUME IInv, IInv', NEW w \in Workers, pc[w] \in Locked,
         io[w] = "out", UNCHANGED <<status, seen, overlap, req>>,
         \A p \in Procs \ {w} : pc'[p] = pc[p],
         Iterate(w, queue'), Len(queue') = Remaining,
         \A i \in 1..Remaining : queue'[i] = queue[i],
         NEW a \in Apps, Marked(a) => Owed(a), Marked(a)'
  PROVE  Owed(a)'
<1>1. /\ pc \in [Procs -> CallerLabels \cup WorkerLabels \cup SingleLabels]
      /\ w \in Procs /\ Callers \subseteq Procs /\ w \notin Callers
      /\ queue' \in Seq(Jobs)
  BY TypeFacts, ProcsFacts DEF IInv, TypeOK
<1>2. pc'[w] \in {"exit", "exec"}
  BY <1>1 DEF Iterate
<1>3. ~Dropping'
  <2>1. \A v \in Workers \ {w} : pc[v] # "commit"
    BY OnlyWorker DEF InsideMulti, Locked
  <2>2. QED
    BY <1>2, <2>1, ProcsFacts DEF Dropping, At
<1>4. Remaining' = Remaining
  BY <1>3 DEF Remaining
<1>5. Owed(a) => Owed(a)'
  BY <1>1, <1>4 DEF Owed, Asking
<1>6. CASE queue' = <<>>
  <2>1. UNCHANGED <<io, upd>>
    BY <1>6 DEF Iterate
  <2>2. Marked(a)
    BY <2>1 DEF Marked, Shown, Kept, Coming
  <2>3. QED
    BY <1>5, <2>2
<1>7. CASE queue' # <<>>
  <2> DEFINE f == [x \in {Last(queue').app} |-> PkgType(Last(queue').action)]
  <2>1. Enters(w, f)
    BY <1>7 DEF Iterate, Enters
  <2>2. PICK n \in Nat \ {0} : n = Len(queue')
    BY <1>1, <1>7, EmptySeq
  <2>3. Last(queue') = queue'[n] /\ n \in 1..Remaining'
    BY <1>4, <2>2 DEF Last
  <2>4. a \in DOMAIN f => Owed(a)'
    BY <2>3 DEF Owed
  <2> HIDE DEF f
  <2>5. QED
    BY <1>1, <1>5, <2>1, <2>4, EnterMarks
<1>8. QED
  BY <1>6, <1>7

LEMMA WStartOwes ==
  ASSUME IInv, IInv', NEW w \in Workers, WStart(w),
         NEW a \in Apps, Marked(a) => Owed(a), Marked(a)'
  PROVE  Owed(a)'
<1>1. /\ pc \in [Procs -> CallerLabels \cup WorkerLabels \cup SingleLabels]
      /\ w \in Procs
  BY TypeFacts, ProcsFacts DEF IInv
<1>2. /\ pc[w] \in Locked /\ ~At(w, "commit") /\ io[w] = "out"
      /\ queue' = queue /\ UNCHANGED <<status, seen, overlap, req>>
      /\ Iterate(w, queue')
  BY DEF WStart, At, Locked, files
<1>3. \A p \in Procs \ {w} : pc'[p] = pc[p]
  BY <1>1 DEF WStart, Iterate
<1>4. Remaining = Len(queue)
  BY <1>2, NotDropping DEF Remaining
<1>5. QED
  BY <1>2, <1>3, <1>4, IterateOwes

\* The line the worker removes was no longer owed, as its status was written.
LEMMA WCommitOwes ==
  ASSUME IInv, IInv', NEW w \in Workers, WCommit(w),
         NEW a \in Apps, Marked(a) => Owed(a), Marked(a)'
  PROVE  Owed(a)'
<1>1. /\ pc \in [Procs -> CallerLabels \cup WorkerLabels \cup SingleLabels]
      /\ queue \in Seq(Jobs) /\ w \in Procs
  BY TypeFacts, ProcsFacts DEF IInv
<1>2. /\ At(w, "commit") /\ io[w] = "out" /\ pc[w] \in Locked
      /\ queue' = lines[w] /\ UNCHANGED <<status, seen, overlap, req>>
      /\ Iterate(w, queue')
  BY DEF WCommit, At, Locked
<1>3. \A p \in Procs \ {w} : pc'[p] = pc[p]
  BY <1>1 DEF WCommit, Iterate
<1>4. queue # <<>> /\ queue' = Front(queue)
  BY <1>2 DEF IInv, QueueOwner, At
<1>5. Remaining = Len(queue) - 1
  BY <1>2 DEF Remaining, Dropping
<1>6. Len(queue') = Remaining /\ \A i \in 1..Remaining : queue'[i] = queue[i]
  BY <1>1, <1>4, <1>5, FrontFacts
<1>7. QED
  BY <1>2, <1>3, <1>6, IterateOwes

\* A worker that drops a job marks at most its package, which is still owed until
\* the status is written.
LEMMA WDropOwes ==
  ASSUME IInv, NEW w \in Workers, WDrop(w),
         NEW a \in Apps, Marked(a) => Owed(a), Marked(a)'
  PROVE  Owed(a)'
<1>1. /\ pc \in [Procs -> CallerLabels \cup WorkerLabels \cup SingleLabels]
      /\ io \in [Procs -> {"out", "entered", "loaded", "truncated"}]
      /\ queue \in Seq(Jobs) /\ w \in Procs /\ w \notin Callers /\ Callers \subseteq Procs
  BY TypeFacts, ProcsFacts DEF IInv
<1>2. /\ pc[w] \in Locked /\ ~At(w, "commit") /\ queue' = queue /\ req' = req
      /\ queue # <<>> /\ Last(queue) = Job(w)
      /\ \A p \in Procs \ {w} : pc'[p] = pc[p] /\ io'[p] = io[p]
      /\ io'[w] = "entered"
  BY <1>1, JobType DEF WDrop, At, Locked, Running, EnterUpdate, files
<1>3. ~Dropping
  BY <1>2, NotDropping
<1>4. ~Dropping'
  BY <1>2, <1>3, ProcsFacts DEF Dropping, At
<1>5. PICK f : Enters(w, f) /\ DOMAIN f = {Job(w).app}
  <2> DEFINE left == Front(queue)
             b == Job(w).app
             f == [x \in {b} |-> IF LinesOf(left, b) # {}
                                 THEN PkgType(NextAction(left, b)) ELSE result[w]]
  <2>1. Enters(w, f)
    BY DEF WDrop, At, Enters, files
  <2>2. DOMAIN f = {b}
    OBVIOUS
  <2> HIDE DEF f
  <2>3. QED
    BY <2>1, <2>2
<1>6. Owed(a) => Owed(a)'
  BY <1>1, <1>2, <1>4, OwedStays
<1>7. a = Job(w).app => Owed(a)
  <2>1. Len(queue) \in 1..Len(queue) /\ Last(queue) = queue[Len(queue)]
    <3>1. Len(queue) \in Nat \ {0}
      BY <1>1, <1>2, EmptySeq
    <3>2. QED
      BY <3>1 DEF Last
  <2>2. QED
    BY <1>2, <1>3, <2>1, LinesAreOwed
<1>8. QED
  BY <1>1, <1>5, <1>6, <1>7, EnterMarks

\* The other steps.
LEMMA PlainOwes ==
  ASSUME IInv, Plain, NEW a \in Apps, Marked(a) => Owed(a), Marked(a)'
  PROVE  Owed(a)'
<1>1. Marked(a)
  BY DEF Plain, Marked, Shown, Kept, Coming
<1>2. Dropping' => Dropping
  BY DEF Plain, Dropping, At
<1>3. queue' = queue /\ \A c \in Callers : pc[c] = "enqueue" => pc'[c] = "enqueue" /\ req'[c] = req[c]
  BY DEF Plain
<1>4. QED
  BY <1>1, <1>2, <1>3, OwedStays

LEMMA AloneOwes ==
  ASSUME IInv, NEW p \in Procs, NEW f, EntersAlone(p, f),
         NEW a \in Apps, Marked(a) => Owed(a), Marked(a)',
         a \in DOMAIN f /\ f[a] \in InProgress => Marked(a)
  PROVE  Owed(a)'
<1>1. Marked(a)
  BY EnterMarks DEF EntersAlone
<1>2. \A q \in Procs \ {p} : io'[q] = io[q]
  BY TypeFacts DEF IInv, EntersAlone, Enters, EnterUpdate
<1>3. Dropping' => Dropping
  BY <1>2, ProcsFacts DEF EntersAlone, Dropping, At
<1>4. queue' = queue /\ \A c \in Callers : pc[c] = "enqueue" => pc'[c] = "enqueue" /\ req'[c] = req[c]
  BY DEF EntersAlone
<1>5. QED
  BY <1>1, <1>3, <1>4, OwedStays

\* Each kind of step.
LEMMA MarkedAreOwedStep ==
  ASSUME IInv, IInv', UpdatesFit, OneWriter, StatusKind,
         NEW a \in Apps, Marked(a) => Owed(a), Marked(a)'
  PROVE  Owed(a)'
<1>1. CASE Plain
  BY <1>1, PlainOwes
<1>2. CASE \E p \in Procs : UpdateStep(p)
  BY <1>2, UpdateOwes
<1>3. CASE \E s \in Singles : SingleEnters(s)
  BY <1>3, AloneOwes, ProcsFacts DEF SingleEnters
<1>4. CASE \E n \in Restarters : RestarterEnters(n)
  BY <1>4, AloneOwes, ProcsFacts DEF RestarterEnters, Marked, Shown
<1>5. CASE \E c \in Callers, action \in Asked, pkgs \in Requests : Call(c, action, pkgs)
  BY <1>5, CallOwes
<1>6. CASE \E c \in Callers : Enqueue(c)
  BY <1>6, EnqueueOwes
<1>7. CASE \E w \in Workers : WStart(w) \/ WDrop(w) \/ WCommit(w)
  BY <1>7, WStartOwes, WDropOwes, WCommitOwes
<1>8. QED
  BY <1>1, <1>2, <1>3, <1>4, <1>5, <1>6, <1>7 DEF StatusKind

-----------------------------------------------------------------------------
(* The theorem.                                                            *)

LEMMA InitSInv == Init => SInv
<1> SUFFICES ASSUME Init PROVE SInv
  OBVIOUS
<1>1. /\ \A p \in Procs : io[p] = "out"
      /\ \A a \in Apps : status[a] \notin InProgress
  BY DEF Init, NoStatuses, InProgress
<1>2. UpdatesFit
  BY <1>1, ProcsFacts DEF UpdatesFit, CallerUpdates, SingleUpdates, WorkerUpdates
<1>3. MarkedAreOwed
  BY <1>1 DEF MarkedAreOwed, Marked, Shown, Kept, Coming
<1>4. QED
  BY <1>2, <1>3 DEF SInv

\* The invariant is inductive.
LEMMA SInvStep == IInv /\ IInv' /\ SInv /\ [Next]_vars => SInv'
<1> SUFFICES ASSUME IInv, IInv', SInv, [Next]_vars, faults' = 0
             PROVE  UpdatesFit' /\ MarkedAreOwed'
  BY DEF SInv
<1>1. faults = 0
  BY FaultsGrow DEF IInv
<1>2. StatusKind /\ UpdatesFit /\ MarkedAreOwed
  BY <1>1, Kinds DEF SInv
<1>3. UpdatesFit'
  BY <1>2, CallerUpdatesStep, SingleUpdatesStep, WorkerUpdatesStep DEF UpdatesFit
<1>4. MarkedAreOwed'
  <2>1. SUFFICES ASSUME ~overlap', OneWriter', NEW a \in Apps, Marked(a)' PROVE Owed(a)'
    BY DEF MarkedAreOwed
  <2>2. OneWriter /\ ~overlap
    BY <1>2, <2>1, OneWriterBefore
  <2>3. Marked(a) => Owed(a)
    BY <1>2, <2>2 DEF MarkedAreOwed
  <2>4. QED
    BY <1>2, <2>1, <2>2, <2>3, MarkedAreOwedStep
<1>5. QED
  BY <1>3, <1>4

\* Once every call has ended and the queue is empty, no package is shown as being
\* installed, removed or updated, unless a process has failed or two processes
\* have written the status file over each other.
THEOREM StatusesSettle == Spec => []StatusSettles
<1>1. IInv /\ SInv => StatusSettles
  <2>1. SUFFICES ASSUME IInv, SInv, Quiescent, faults = 0, ~overlap, NEW a \in Apps
                 PROVE  status[a] \in Settled
    BY DEF StatusSettles
  <2>2. queue = <<>> /\ \A p \in Procs : io[p] = "out" /\ pc[p] = Start(p)
    BY <2>1 DEF Quiescent, At
  <2>3. OneWriter
    BY <2>2, ProcsFacts DEF OneWriter, Holds
  <2>4. ~Owed(a)
    <3>1. Len(queue) = 0 /\ ~Dropping
      BY <2>2, EmptySeq, ProcsFacts DEF Dropping, At, Start
    <3>2. ~Asking(a)
      BY <2>2, ProcsFacts DEF Asking, Start
    <3>3. QED
      BY <3>1, <3>2 DEF Owed, Remaining
  <2>5. ~Shown(a)
    BY <2>1, <2>3, <2>4 DEF SInv, MarkedAreOwed, Marked
  <2>6. QED
    BY <2>1, <2>5 DEF Shown, IInv, TypeOK, Statuses
<1>2. QED
  BY <1>1, InitSInv, SInvStep, Invariance, PTL DEF Spec
=============================================================================
