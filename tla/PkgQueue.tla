------------------------------ MODULE PkgQueue ------------------------------
(***************************************************************************)
(* The package manager's action queue (vuci/opkg_multi.lua) and everything *)
(* it shares state with:                                                   *)
(*                                                                         *)
(*  - a CALLER is an API request that runs start_multi_install, _remove or *)
(*    _upgrade: it writes package statuses, prepends its lines to the      *)
(*    queue file and, unless it sees an action running, forks a worker;    *)
(*  - a WORKER is the forked child: it takes the multi lock and executes   *)
(*    the queue from its LAST line until the file is empty;                *)
(*  - a SINGLE is an API request that installs, upgrades or removes one    *)
(*    package itself (vuci/opkg.lua), or uploads one, under the same lock; *)
(*  - a RESTARTER is a request that clears the "network restart required"  *)
(*    messages.                                                            *)
(*                                                                         *)
(* The queue file is only touched under its own lock.  The status file has *)
(* no lock: update_pkg_status_file is a read, a truncation and a write.    *)
(***************************************************************************)
EXTENDS Integers, FiniteSets, SequencesExt

CONSTANTS
  Apps,       \* applications (packages are named by their application)
  Available,  \* the applications listed by the reachable feeds
  Callers, Workers, Singles, Restarters,
  NoProc,     \* owner of a lock nobody holds
  Requests,   \* package lists a caller may pass
  Asked,      \* actions callers ask for
  SingleAsked,\* actions singles ask for
  MaxJobs,    \* bound: jobs ever queued
  MaxSingles, \* bound: calls of the single-package API
  MaxFaults   \* bound: errors, crashes and failed forks

Procs == Callers \cup Workers \cup Singles \cup Restarters

ASSUME AppsAssumption ==
  /\ Available \subseteq Apps
  /\ Requests \subseteq Seq(Apps) \ {<<>>}

ASSUME ActionsAssumption ==
  /\ Asked \subseteq {"install", "remove", "upgrade"}
  /\ SingleAsked \subseteq {"install", "remove", "upgrade", "offline", "upload"}

ASSUME ProcsAssumption ==
  /\ NoProc \notin Procs
  /\ Callers \cap (Workers \cup Singles \cup Restarters) = {}
  /\ Workers \cap (Singles \cup Restarters) = {}
  /\ Singles \cap Restarters = {}

ASSUME BoundsAssumption == MaxJobs \in Nat /\ MaxSingles \in Nat /\ MaxFaults \in Nat

Actions == {"install", "remove", "upgrade"}

\* Entry of an application in the status file; NoEntry: the file has none.
InProgress == {"INSTALLING", "REMOVING", "UPDATING"}
Settled    == {"NoEntry", "INSTALLED", "ERRORED"}
Statuses   == InProgress \cup Settled

\* Mutant of PkgType: the table is indexed with the action as a string.
PkgTypeOfString(action) == "nil"

\* ACTION_TO_PKG_TYPE
PkgType(action) == CASE action = "install" -> "INSTALLING"
                     [] action = "remove"  -> "REMOVING"
                     [] action = "upgrade" -> "UPDATING"

\* A line of the queue file.  The ticket is a history variable: the number
\* of the job in the order the jobs were accepted.
Jobs == [action : Actions, app : Apps, ticket : Nat]

VARIABLES
  queue,      \* lines of the queue file, top to bottom
  status,     \* the status file
  installed,  \* applications installed on the device
  pending,    \* applications waiting in /etc/package_restore.txt
  multi,      \* holder of /var/lock/pkg_man_multi.lock
  qlock,      \* holder of the lock on the queue file
  pc,         \* where a process is
  req,        \* the action and packages of a caller or a single
  io,         \* progress of a process inside update_pkg_status_file
  seen,       \* the status file as the process read it there
  upd,        \* the entries the process passes to it
  lines,      \* a worker's file_lines
  result,     \* a worker's status for the application it has handled
  event,      \* the package_event last sent
  issued,     \* jobs accepted so far
  singles,    \* single-package calls so far
  faults,     \* errors and crashes so far
  overlap     \* history: some status update overlapped another one

files == <<queue, status, installed, pending>>
locks == <<multi, qlock>>
update == <<io, seen, upd, status, overlap>>
bounds == <<issued, singles, faults>>
vars == <<queue, status, installed, pending, multi, qlock, pc, req, io, seen,
          upd, lines, result, event, issued, singles, faults, overlap>>

NoStatuses == [a \in Apps |-> "NoEntry"]
NoUpdate   == [a \in {} |-> "NoEntry"]
NoReq      == [action |-> "install", pkgs |-> <<>>]
NoEvent    == [app |-> "none", type |-> "none"]

Start(p) == IF p \in Workers THEN "off" ELSE "idle"

Init ==
  /\ queue = <<>> /\ status = NoStatuses
  /\ installed \in SUBSET Apps /\ pending \in SUBSET (Apps \ installed)
  /\ multi = NoProc /\ qlock = NoProc
  /\ pc = [p \in Procs |-> Start(p)]
  /\ req = [c \in Callers \cup Singles |-> NoReq]
  /\ io = [p \in Procs |-> "out"]
  /\ seen = [p \in Procs |-> NoStatuses]
  /\ upd = [p \in Procs |-> NoUpdate]
  /\ lines = [w \in Workers |-> <<>>]
  /\ result = [w \in Workers |-> "NoEntry"]
  /\ event = NoEvent
  /\ issued = 0 /\ singles = 0 /\ faults = 0 /\ overlap = FALSE

-----------------------------------------------------------------------------
(* update_pkg_status_file: read the file, merge, truncate, write.          *)

\* Mutant of Unlocked: the outcome of the lock call is ignored.
Ignored == TRUE

\* Nobody holds the multi lock.
Unlocked == multi = NoProc

\* At p, the process runs its own code: it is not inside a status update.
At(p, label) == pc[p] = label /\ io[p] = "out"

\* p enters update_pkg_status_file with the given entries.
EnterUpdate(p, entries) ==
  /\ io' = [io EXCEPT ![p] = "entered"]
  /\ upd' = [upd EXCEPT ![p] = entries]

\* q will overwrite the file with entries it read before.
Holds(q) == io[q] \in {"loaded", "truncated"} \/ (q \in Restarters /\ io[q] = "entered")

\* A package installed successfully that has no messages and no source has
\* its entry removed.
Entry(type, info) == IF type = "INSTALLED" /\ ~info THEN "NoEntry" ELSE type

\* Mutant of Merge: an entry in the file is not replaced.
MergeMissing(old, new) ==
  [a \in Apps |-> IF a \in DOMAIN new /\ old[a] = "NoEntry" THEN new[a] ELSE old[a]]

Merge(old, new) == [a \in Apps |-> IF a \in DOMAIN new THEN new[a] ELSE old[a]]

StatusLoad(p) ==
  /\ io[p] = "entered"
  /\ io' = [io EXCEPT ![p] = "loaded"]
  /\ seen' = [seen EXCEPT ![p] = status]
  /\ UNCHANGED <<files, locks, bounds, pc, req, upd, lines, result, event, overlap>>

\* fs.writefile opens the file with "w": it is empty until the data is written.
StatusTruncate(p) ==
  /\ io[p] = "loaded"
  /\ io' = [io EXCEPT ![p] = "truncated"]
  /\ status' = NoStatuses
  /\ overlap' = (overlap \/ \E q \in Procs \ {p} : Holds(q))
  /\ UNCHANGED <<queue, installed, pending, locks, bounds, pc, req, seen, upd,
                 lines, result, event>>

StatusStore(p) ==
  /\ io[p] = "truncated"
  /\ io' = [io EXCEPT ![p] = "out"]
  /\ status' = Merge(seen[p], upd[p])
  /\ seen' = [seen EXCEPT ![p] = NoStatuses]
  /\ upd' = [upd EXCEPT ![p] = NoUpdate]
  /\ overlap' = (overlap \/ \E q \in Procs \ {p} : Holds(q))
  /\ UNCHANGED <<queue, installed, pending, locks, bounds, pc, req, lines,
                 result, event>>

-----------------------------------------------------------------------------
(* Callers: _start_multi_action.                                           *)

Known(a) == a \in Available \cup installed \cup pending

\* Mutant of NewLines: the array is not reversed.
NewLinesForward(action, pkgs) ==
  [i \in 1..Len(pkgs) |-> [action |-> action, app |-> pkgs[i], ticket |-> issued + i]]

\* The lines written for a request: the array is reversed, so that the first
\* package ends up last.
NewLines(action, pkgs) ==
  [i \in 1..Len(pkgs) |-> [action |-> action,
                          app |-> pkgs[Len(pkgs) + 1 - i],
                          ticket |-> issued + Len(pkgs) + 1 - i]]

\* Mutant of Above: the new lines are appended to the old ones.
Below(new, old) == old \o new

\* The new lines go above the old ones.
Above(new, old) == new \o old

\* Validation, the read of the statuses and the entries for the packages no
\* action is in progress for.  A refused call changes nothing.
Call(c, action, pkgs) ==
  /\ At(c, "idle")
  /\ issued + Len(pkgs) <= MaxJobs
  /\ action \in {"install", "upgrade"} => Available # {}
  /\ \A i \in DOMAIN pkgs : Known(pkgs[i])
  /\ req' = [req EXCEPT ![c] = [action |-> action, pkgs |-> pkgs]]
  /\ EnterUpdate(c, [a \in {a \in ToSet(pkgs) : status[a] \notin InProgress} |->
                     PkgType(action)])
  /\ pc' = [pc EXCEPT ![c] = "enqueue"]
  /\ UNCHANGED <<files, locks, bounds, seen, lines, result, event, overlap>>

\* Mutant of ActionRunning: only the lock is tested.
LockTaken == ~Unlocked

\* Everything done under the lock of the queue file: read it, test the multi
\* lock, write the new lines before the old ones.  Without an action running
\* the caller goes on to fork a worker.
ActionRunning == queue # <<>> /\ ~Unlocked

Enqueue(c) ==
  /\ At(c, "enqueue")
  /\ qlock = NoProc
  /\ queue' = Above(NewLines(req[c].action, req[c].pkgs), queue)
  /\ issued' = issued + Len(req[c].pkgs)
  /\ pc' = [pc EXCEPT ![c] = IF ActionRunning THEN "idle" ELSE "fork"]
  /\ req' = [req EXCEPT ![c] = NoReq]
  /\ UNCHANGED <<status, installed, pending, locks, singles, faults, io, seen,
                 upd, lines, result, event, overlap>>

Fork(c, w) ==
  /\ At(c, "fork")
  /\ pc[w] = "off"
  /\ pc' = [pc EXCEPT ![c] = "idle", ![w] = "wait"]
  /\ UNCHANGED <<files, locks, update, bounds, req, lines, result, event>>

-----------------------------------------------------------------------------
(* Workers: the forked child.                                              *)

\* Mutant of Job: the first line is taken.
TopJob(w) == Head(lines[w])

\* The line the worker has taken from its copy of the queue.
Job(w) == Last(lines[w])

WAcquire(w) ==
  /\ At(w, "wait")
  /\ Unlocked
  /\ multi' = w
  /\ pc' = [pc EXCEPT ![w] = "start"]
  /\ UNCHANGED <<files, qlock, update, bounds, req, lines, result, event>>

\* error("unexpected empty queue file")
WStartEmpty(w) ==
  /\ At(w, "start")
  /\ qlock = NoProc
  /\ queue = <<>>
  /\ pc' = [pc EXCEPT ![w] = "exit"]
  /\ UNCHANGED <<files, locks, update, bounds, req, lines, result, event>>

\* while #file_lines > 0: an iteration starts by giving the last line's
\* application the status of its action; without lines the loop is left.
Iterate(w, left) ==
  IF left = <<>>
  THEN /\ pc' = [pc EXCEPT ![w] = "exit"]
       /\ UNCHANGED <<io, upd>>
  ELSE /\ pc' = [pc EXCEPT ![w] = "exec"]
       /\ EnterUpdate(w, [a \in {Last(left).app} |-> PkgType(Last(left).action)])

WStart(w) ==
  /\ At(w, "start")
  /\ qlock = NoProc
  /\ queue # <<>>
  /\ lines' = [lines EXCEPT ![w] = queue]
  /\ Iterate(w, queue)
  /\ UNCHANGED <<files, locks, seen, overlap, bounds, req, result, event>>

\* An action on package a ends with outcome r: the packages installed and
\* pending afterwards and the type and other information of the status.
Outcome(inst, pend, type, info) ==
  [installed |-> inst, pending |-> pend, status |-> Entry(type, info)]

\* _handle_pkg_install: skipped when installed; the feeds and the space are
\* checked, opkg may fail.
InstallOutcomes(a) ==
  IF a \in installed THEN {Outcome(installed, pending, "INSTALLED", FALSE)}
  ELSE {Outcome(installed, pending, "ERRORED", TRUE)} \cup
       (IF a \in Available
        THEN {Outcome(installed \cup {a}, pending \ {a}, "INSTALLED", info) : info \in BOOLEAN}
        ELSE {})

\* _handle_pkg_remove: skipped when neither installed nor pending; a pending
\* package only leaves the restore list; others may depend on the package.
RemoveOutcomes(a) ==
  IF a \in pending THEN {Outcome(installed, pending \ {a}, "NoEntry", FALSE)}
  ELSE IF a \notin installed THEN {Outcome(installed, pending, "NoEntry", FALSE)}
  ELSE {Outcome(installed \ {a}, pending, "NoEntry", FALSE),
        Outcome(installed, pending, "ERRORED", TRUE)}

WExec(w) ==
  /\ At(w, "exec")
  /\ Job(w).action # "upgrade"
  /\ \E r \in IF Job(w).action = "install" THEN InstallOutcomes(Job(w).app)
                                         ELSE RemoveOutcomes(Job(w).app) :
       /\ installed' = r.installed
       /\ pending' = r.pending
       /\ result' = [result EXCEPT ![w] = r.status]
  /\ pc' = [pc EXCEPT ![w] = "event"]
  /\ UNCHANGED <<queue, locks, update, bounds, req, lines, event>>

\* _pkg_upgrade, first half: validation may refuse; the installed package is
\* removed and the result of that ignored.
WUpgradeRefused(w) ==
  /\ At(w, "exec")
  /\ Job(w).action = "upgrade"
  /\ result' = [result EXCEPT ![w] = "ERRORED"]
  /\ pc' = [pc EXCEPT ![w] = "event"]
  /\ UNCHANGED <<files, locks, io, seen, upd, overlap, bounds, req, lines, event>>

WUpgradeRemove(w) ==
  /\ At(w, "exec")
  /\ Job(w).action = "upgrade"
  /\ Job(w).app \in Available \cap installed
  /\ installed' \in {installed, installed \ {Job(w).app}}
  /\ pc' = [pc EXCEPT ![w] = "reinstall"]
  /\ UNCHANGED <<queue, pending, locks, update, bounds, req, lines, result, event>>

\* _pkg_upgrade, second half.
WUpgradeInstall(w) ==
  /\ At(w, "reinstall")
  /\ \/ /\ installed' = installed \cup {Job(w).app}
        /\ \E info \in BOOLEAN : result' = [result EXCEPT ![w] = Entry("INSTALLED", info)]
     \/ /\ result' = [result EXCEPT ![w] = "ERRORED"]
        /\ UNCHANGED installed
  /\ pc' = [pc EXCEPT ![w] = "event"]
  /\ UNCHANGED <<queue, pending, locks, update, bounds, req, lines, event>>

\* _trigger_pkg_event reads the queue file without its lock, from the top,
\* skips the first line of the package and takes the action of the second.
\* That action is still a string, which is no key of ACTION_TO_PKG_TYPE: the
\* event then has no type.  Otherwise its type is the outcome of the job.
LinesOf(q, a) == {i \in DOMAIN q : q[i].app = a}

EventType(q, a) == IF \E i, j \in LinesOf(q, a) : i # j THEN "nil" ELSE "outcome"

WEvent(w) ==
  /\ At(w, "event")
  /\ event' = [app |-> Job(w).app, type |-> EventType(queue, Job(w).app)]
  /\ pc' = [pc EXCEPT ![w] = "drop"]
  /\ UNCHANGED <<files, locks, update, bounds, req, lines, result>>

\* Under the lock of the queue file: drop the last line; if an action on the
\* same package is left, its type is the status, looking from the end.  (The
\* error for an empty file cannot occur: HeadIsExecuting.)
NextAction(q, a) == q[CHOOSE i \in LinesOf(q, a) : \A j \in LinesOf(q, a) : j <= i].action

WDrop(w) ==
  /\ At(w, "drop")
  /\ qlock = NoProc
  /\ queue # <<>>
  /\ qlock' = w
  /\ lines' = [lines EXCEPT ![w] = Front(queue)]
  /\ LET a == Job(w).app
         left == Front(queue)
     IN  EnterUpdate(w, [x \in {a} |-> IF LinesOf(left, a) # {}
                                      THEN PkgType(NextAction(left, a)) ELSE result[w]])
  /\ pc' = [pc EXCEPT ![w] = "commit"]
  /\ UNCHANGED <<files, multi, bounds, req, seen, result, event, overlap>>

WCommit(w) ==
  /\ At(w, "commit")
  /\ queue' = lines[w]
  /\ qlock' = NoProc
  /\ result' = [result EXCEPT ![w] = "NoEntry"]
  /\ event' = NoEvent
  /\ Iterate(w, lines[w])
  /\ UNCHANGED <<status, installed, pending, multi, seen, overlap, bounds, req, lines>>

\* Unlock the multi lock and exit.
WExit(w) ==
  /\ At(w, "exit")
  /\ multi' = NoProc
  /\ lines' = [lines EXCEPT ![w] = <<>>]
  /\ result' = [result EXCEPT ![w] = "NoEntry"]
  /\ event' = NoEvent
  /\ pc' = [pc EXCEPT ![w] = "off"]
  /\ UNCHANGED <<files, qlock, update, bounds, req>>

-----------------------------------------------------------------------------
(* Single-package calls: tried under the multi lock, OPKG_BUSY when it is  *)
(* held.  An upload only holds the lock.                                   *)

SingleActions == Actions \cup {"offline", "upload"}

STry(s, action, a) ==
  /\ At(s, "idle")
  /\ singles < MaxSingles
  /\ Unlocked
  /\ multi' = s
  /\ singles' = singles + 1
  /\ req' = [req EXCEPT ![s] = [action |-> action, pkgs |-> <<a>>]]
  /\ pc' = [pc EXCEPT ![s] = "sexec"]
  /\ UNCHANGED <<files, qlock, update, issued, faults, lines, result, event>>

SApp(s) == req[s].pkgs[1]

\* A call ends: with new information on the package it is put in the status file.
SFinish(s, entries) ==
  /\ pc' = [pc EXCEPT ![s] = "sexit"]
  /\ IF entries = NoUpdate THEN UNCHANGED <<io, upd>> ELSE EnterUpdate(s, entries)

\* The status entry a successful install leaves.
InstalledEntry(a, info) == [x \in {a} |-> Entry("INSTALLED", info)]

\* A refused or failed call, and an upload, change nothing.
SRefused(s) ==
  /\ At(s, "sexec")
  /\ SFinish(s, NoUpdate)
  /\ UNCHANGED <<files, locks, seen, overlap, bounds, req, lines, result, event>>

SInstall(s) ==
  /\ At(s, "sexec")
  /\ \/ req[s].action = "install" /\ SApp(s) \in Available \ installed
     \/ req[s].action = "offline"
  /\ installed' = installed \cup {SApp(s)}
  /\ pending' = pending \ {SApp(s)}
  /\ \E info \in BOOLEAN : SFinish(s, InstalledEntry(SApp(s), info))
  /\ UNCHANGED <<queue, status, locks, seen, overlap, bounds, req, lines, result, event>>

SRemovePending(s) ==
  /\ At(s, "sexec")
  /\ req[s].action = "remove"
  /\ SApp(s) \in pending
  /\ pending' = pending \ {SApp(s)}
  /\ SFinish(s, NoUpdate)
  /\ UNCHANGED <<queue, status, installed, locks, seen, overlap, bounds, req,
                 lines, result, event>>

SRemove(s) ==
  /\ At(s, "sexec")
  /\ req[s].action = "remove"
  /\ SApp(s) \in installed \ pending
  /\ installed' = installed \ {SApp(s)}
  /\ SFinish(s, [x \in {SApp(s)} |-> "NoEntry"])
  /\ UNCHANGED <<queue, status, pending, locks, seen, overlap, bounds, req,
                 lines, result, event>>

SUpgradeRemove(s) ==
  /\ At(s, "sexec")
  /\ req[s].action = "upgrade"
  /\ SApp(s) \in Available \cap installed
  /\ installed' \in {installed, installed \ {SApp(s)}}
  /\ pc' = [pc EXCEPT ![s] = "sreinstall"]
  /\ UNCHANGED <<queue, pending, locks, update, bounds, req, lines, result, event>>

SUpgradeInstall(s) ==
  /\ At(s, "sreinstall")
  /\ \/ /\ installed' = installed \cup {SApp(s)}
        /\ \E info \in BOOLEAN : SFinish(s, InstalledEntry(SApp(s), info))
     \/ /\ SFinish(s, NoUpdate)
        /\ UNCHANGED installed
  /\ UNCHANGED <<queue, status, pending, locks, seen, overlap, bounds, req,
                 lines, result, event>>

SExit(s) ==
  /\ At(s, "sexit")
  /\ multi' = NoProc
  /\ req' = [req EXCEPT ![s] = NoReq]
  /\ pc' = [pc EXCEPT ![s] = "idle"]
  /\ UNCHANGED <<files, qlock, update, bounds, lines, result, event>>

-----------------------------------------------------------------------------
\* clear_net_restart_messages: read every entry, drop the message, pass all of
\* them to update_pkg_status_file.  Packages in keep have other information.
ClearMessages(n, keep) ==
  /\ At(n, "idle")
  /\ EnterUpdate(n, [a \in {a \in Apps : status[a] # "NoEntry"} |->
                     IF status[a] = "INSTALLED" THEN Entry("INSTALLED", a \in keep)
                                                ELSE status[a]])
  /\ UNCHANGED <<files, locks, bounds, pc, req, seen, lines, result, event, overlap>>

-----------------------------------------------------------------------------
(* Faults: an error raised in the worker's pcall, the death of a process,  *)
(* a failed fork.                                                          *)

WError(w) ==
  /\ \E label \in {"exec", "reinstall", "event"} : At(w, label)
  /\ faults < MaxFaults
  /\ faults' = faults + 1
  /\ pc' = [pc EXCEPT ![w] = "exit"]
  /\ UNCHANGED <<files, locks, update, issued, singles, req, lines, result, event>>

\* The kernel drops the locks of a process that dies.  A worker may die
\* between opening the queue file with "w" and writing it.
Crash(p) ==
  /\ pc[p] # Start(p) \/ io[p] # "out"
  /\ faults < MaxFaults
  /\ faults' = faults + 1
  /\ multi' = IF multi = p THEN NoProc ELSE multi
  /\ qlock' = IF qlock = p THEN NoProc ELSE qlock
  /\ queue' \in IF At(p, "commit") THEN {queue, <<>>} ELSE {queue}
  /\ event' = IF multi = p THEN NoEvent ELSE event
  /\ pc' = [pc EXCEPT ![p] = Start(p)]
  /\ io' = [io EXCEPT ![p] = "out"]
  /\ seen' = [seen EXCEPT ![p] = NoStatuses]
  /\ upd' = [upd EXCEPT ![p] = NoUpdate]
  /\ req' = IF p \in Callers \cup Singles THEN [req EXCEPT ![p] = NoReq] ELSE req
  /\ lines' = IF p \in Workers THEN [lines EXCEPT ![p] = <<>>] ELSE lines
  /\ result' = IF p \in Workers THEN [result EXCEPT ![p] = "NoEntry"] ELSE result
  /\ UNCHANGED <<status, installed, pending, issued, singles, overlap>>

-----------------------------------------------------------------------------
UpdateStep(p) == StatusLoad(p) \/ StatusTruncate(p) \/ StatusStore(p)

CallerStep(c) == Enqueue(c) \/ \E w \in Workers : Fork(c, w)

WorkerStep(w) ==
  \/ WAcquire(w) \/ WStart(w) \/ WStartEmpty(w)
  \/ WExec(w) \/ WUpgradeRefused(w) \/ WUpgradeRemove(w) \/ WUpgradeInstall(w)
  \/ WEvent(w) \/ WDrop(w) \/ WCommit(w) \/ WExit(w)

SingleStep(s) ==
  \/ SRefused(s) \/ SInstall(s) \/ SRemovePending(s) \/ SRemove(s)
  \/ SUpgradeRemove(s) \/ SUpgradeInstall(s) \/ SExit(s)

Next ==
  \/ \E p \in Procs : UpdateStep(p)
  \/ \E c \in Callers : CallerStep(c)
  \/ \E c \in Callers, action \in Asked, pkgs \in Requests : Call(c, action, pkgs)
  \/ \E w \in Workers : WorkerStep(w)
  \/ \E s \in Singles : SingleStep(s)
  \/ \E s \in Singles, action \in SingleAsked, a \in Apps : STry(s, action, a)
  \/ \E n \in Restarters, keep \in SUBSET Apps : ClearMessages(n, keep)
  \/ \E w \in Workers : WError(w)
  \/ \E p \in Procs : Crash(p)

Spec == Init /\ [][Next]_vars

\* A process that has started a call runs on; nobody has to start one.
Fairness ==
  /\ \A p \in Procs : WF_vars(UpdateStep(p))
  /\ \A c \in Callers : WF_vars(CallerStep(c))
  /\ \A w \in Workers : WF_vars(WorkerStep(w))
  /\ \A s \in Singles : WF_vars(SingleStep(s))

FairSpec == Spec /\ Fairness

-----------------------------------------------------------------------------
(* Properties.                                                             *)

CallerLabels == {"idle", "enqueue", "fork"}
Running == {"exec", "reinstall", "event", "drop"}
Locked == {"start", "commit", "exit"} \cup Running
WorkerLabels == {"off", "wait"} \cup Locked
SingleLabels == {"idle", "sexec", "sreinstall", "sexit"}
Updates == UNION {[S -> Statuses] : S \in SUBSET Apps}

\* The types of the variables.
TypeOK ==
  /\ queue \in Seq(Jobs)
  /\ status \in [Apps -> Statuses]
  /\ installed \in SUBSET Apps
  /\ pending \in SUBSET Apps
  /\ multi \in Workers \cup Singles \cup {NoProc}
  /\ qlock \in Workers \cup {NoProc}
  /\ pc \in [Procs -> CallerLabels \cup WorkerLabels \cup SingleLabels]
  /\ \A c \in Callers : pc[c] \in CallerLabels
  /\ \A w \in Workers : pc[w] \in WorkerLabels
  /\ \A s \in Singles : pc[s] \in SingleLabels
  /\ \A n \in Restarters : pc[n] = "idle"
  /\ req \in [Callers \cup Singles -> [action : SingleActions, pkgs : Seq(Apps)]]
  /\ \A c \in Callers : req[c].action \in Actions
  /\ \A s \in Singles : pc[s] \in {"sexec", "sreinstall"} => SApp(s) \in Apps
  /\ io \in [Procs -> {"out", "entered", "loaded", "truncated"}]
  /\ seen \in [Procs -> [Apps -> Statuses]]
  /\ upd \in [Procs -> Updates]
  /\ lines \in [Workers -> Seq(Jobs)]
  /\ result \in [Workers -> Settled]
  /\ event \in [app : Apps \cup {"none"}, type : {"none", "nil", "outcome"}]
  /\ issued \in Nat /\ singles \in Nat /\ faults \in Nat
  /\ overlap \in BOOLEAN

\* acquire_lock "prevents multiple API instances running of pkg actions": no
\* two processes are between taking and giving back the multi lock, so opkg
\* never installs or removes for two of them.
InsideMulti(p) == pc[p] \in Locked \cup {"sexec", "sreinstall", "sexit"}

OneExecutor == \A p, q \in Procs : InsideMulti(p) /\ InsideMulti(q) => p = q

\* While a worker executes a line of its copy of the queue, that very job is the
\* last line of the file, whatever callers have put before it meanwhile: the
\* line the worker then drops is the job it has executed.
HeadIsExecuting ==
  \A w \in Workers : pc[w] \in Running =>
    queue # <<>> /\ lines[w] # <<>> /\ Last(queue) = Last(lines[w])

\* From the bottom up the queue holds the jobs in the order they were accepted,
\* none missing and none twice.
InOrder == \A i \in DOMAIN queue : queue[i].ticket = issued + 1 - i

\* Who is inside holds the multi lock; a worker about to write the queue file
\* holds that file's lock and has the file's lines without the last.
MultiOwner == \A p \in Procs : InsideMulti(p) => multi = p

QueueOwner ==
  \A w \in Workers : pc[w] = "commit" =>
    qlock = w /\ queue # <<>> /\ lines[w] = Front(queue)

\* The inductive invariant of PkgQueueProofs.
IInv == TypeOK /\ MultiOwner /\ QueueOwner /\ HeadIsExecuting /\ InOrder

\* Without faults a queue that holds jobs has somebody to execute them: a worker
\* that will still read it, or a caller about to fork one.
WillRead(w) == pc[w] \in {"wait", "start", "commit"} \cup Running

NoLostWakeup ==
  queue # <<>> /\ faults = 0 =>
    (\E c \in Callers : pc[c] = "fork") \/ \E w \in Workers : WillRead(w)

\* Once every call has ended and the queue is empty, no package is shown as
\* being installed, removed or updated: unless a process has failed or two
\* updates of the status file have overlapped.
Quiescent == queue = <<>> /\ \A p \in Procs : At(p, Start(p))

StatusSettles ==
  Quiescent /\ faults = 0 /\ ~overlap => \A a \in Apps : status[a] \in Settled

\* A stale job cannot be executed: only the worker that holds the multi lock and
\* the queue's lock removes a line, and it removes the last one; a crash may
\* lose all of them, nothing else shortens the queue.
JobsLeaveFromTheEnd ==
  [][Len(queue') < Len(queue) =>
       \/ queue' = Front(queue) /\ multi \in Workers /\ qlock = multi
       \/ faults' > faults /\ queue' = <<>>]_vars

\* Every accepted job is executed and leaves the queue.
Handled ==
  \A t \in 1..MaxJobs :
    (issued >= t) ~> (\A i \in DOMAIN queue : queue[i].ticket # t)

\* The queue as the list of jobs of PkgWork and the job in execution.
NoJob == [action |-> "none", app |-> NoProc, ticket |-> 0]

\* The job is in execution from the moment its status is written.
Executes(w) == pc[w] \in Running /\ io[w] = "out"

RunningJob ==
  IF \E w \in Workers : Executes(w) THEN Job(CHOOSE w \in Workers : Executes(w))
  ELSE IF \E w \in Workers : pc[w] = "commit" THEN Last(queue) ELSE NoJob

Work == INSTANCE PkgWork WITH
          Jobs <- Jobs, NoJob <- NoJob,
          jobs <- [i \in 1..Len(queue) |-> queue[Len(queue) + 1 - i]],
          running <- RunningJob

\* Without faults the program implements the reliable work list; with faults
\* the one whose execution may be broken off and whose jobs may be lost.
ReliableWork == Work!ReliableSpec
FaultyWork == Work!FaultySpec

-----------------------------------------------------------------------------
(* What comments of the code say and the code does not do.                 *)

\* opkg_utils_common.lua:372: the scan of the queue skips the first line of the
\* package "because it is the one currently being executed".
SkipsTheExecuting ==
  \A w \in Workers : pc[w] = "event" =>
    \A i \in LinesOf(queue, Job(w).app) :
      (\A j \in LinesOf(queue, Job(w).app) : i <= j) => queue[i] = Job(w)

\* opkg_multi.lua:206: the entry of a package successfully installed is removed
\* from the file: a package whose installs have all ended is not "installing".
InstalledEntryRemoved ==
  Quiescent /\ faults = 0 => \A a \in installed : status[a] # "INSTALLING"
=============================================================================
