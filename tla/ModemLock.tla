----------------------------- MODULE ModemLock ------------------------------
(***************************************************************************)
(* The lock file /var/lock/modem_dfota.lock, by which a modem firmware     *)
(* update (dfota) keeps ping_reboot.sh and periodic_reboot.sh from         *)
(* restarting the modem or the router, and the lock applet of busybox they *)
(* use.  "lock F" opens or creates F, takes its flock, leaves a helper     *)
(* process that keeps the flock and writes the helper's pid to F; "lock    *)
(* -u F" sends SIGTERM to whatever pid it reads in F.                      *)
(*                                                                         *)
(*  - an UPDATER is a slot for runs of dfota, one modem after the other;   *)
(*  - a PING is a section of ping_reboot: it tries the lock;               *)
(*  - a PERIODIC is a section of periodic_reboot: it waits for the lock.   *)
(*                                                                         *)
(* Updaters run as root (rpc-dfota) or dfota (dfota.init), the others as   *)
(* preboot.                                                                *)
(***************************************************************************)
EXTENDS Integers, FiniteSets

CONSTANTS
  Updaters, Pings, Periodics,
  Nobody,      \* holder of the free lock
  User, Root,  \* user of a process; the superuser
  EmptyRuns,   \* updaters whose runs may find nothing to update
  MayReboot,   \* pings and periodics whose action reboots the router
  FilePresent, \* an earlier run has left the lock file
  MaxModems,   \* bound: modems of a run
  MaxRuns,     \* bound: runs of all scripts
  MaxFaults    \* bound: scripts killed

Rebooters == Pings \cup Periodics
Procs == Updaters \cup Rebooters

ASSUME ProcsAssumption ==
  /\ Nobody \notin Procs
  /\ Updaters \cap Rebooters = {} /\ Pings \cap Periodics = {}
  /\ EmptyRuns \subseteq Updaters /\ MayReboot \subseteq Rebooters
  /\ FilePresent \in BOOLEAN

\* preboot is neither root nor the user of an updater.
ASSUME UsersAssumption ==
  \A r \in Rebooters : User[r] # Root /\ \A u \in Updaters : User[u] # User[r]

ASSUME BoundsAssumption ==
  MaxModems \in Nat \ {0} /\ MaxRuns \in Nat /\ MaxFaults \in Nat

VARIABLES
  file,    \* the lock file; its pid is that of the current helper, of a dead
           \* one, or missing
  holder,  \* the process whose helper has the flock
  pc,      \* where a script is, or a lock command its dead script has left
  modems,  \* modems an updater has yet to look at
  locked,  \* the lock command of an updater's run has succeeded
  runs, faults

vars == <<file, holder, pc, modems, locked, runs, faults>>

Users == {User[p] : p \in Procs}
Files == [exists : BOOLEAN, group : BOOLEAN, owner : Users \cup {Root},
          pid : {"none", "stale", "current"}]

NoFile == [exists |-> FALSE, group |-> FALSE, owner |-> Root, pid |-> "none"]
OldFile == [exists |-> TRUE, group |-> TRUE, owner |-> Root, pid |-> "stale"]

Init ==
  /\ file = IF FilePresent THEN OldFile ELSE NoFile
  /\ holder = Nobody
  /\ pc = [p \in Procs |-> "off"]
  /\ modems = [u \in Updaters |-> 0]
  /\ locked = [u \in Updaters |-> FALSE]
  /\ runs = 0 /\ faults = 0

-----------------------------------------------------------------------------
(* The lock applet.                                                        *)

\* The file is created with mode 0700 in a directory of group lock, of which
\* dfota and preboot are members.
CanOpen(p) == User[p] \in {Root, file.owner} \/ file.group

\* Mutant of CanKill: every process may signal every helper.
AnyoneKills(p, q) == TRUE

\* kill(2): root, or the user of the helper.
CanKill(p, q) == User[p] \in {Root, User[q]}

\* do_lock up to the flock.  Until the helper's pid is written the file holds
\* what it held or, created or truncated, no pid.
Take(p) ==
  /\ holder = Nobody
  /\ holder' = p
  /\ \/ /\ ~file.exists
        /\ file' = [exists |-> TRUE, group |-> FALSE, owner |-> User[p], pid |-> "none"]
     \/ /\ file.exists /\ CanOpen(p)
        /\ file' \in {[file EXCEPT !.pid = pid] : pid \in {file.pid, "none"}}

\* The rest of do_lock, in the parent.
WritePid(p) ==
  /\ file' = [file EXCEPT !.pid = IF holder = p THEN "current" ELSE "stale"]
  /\ UNCHANGED holder

\* do_unlock kills the helper named in the file, whoever has started it.  In an
\* empty file fscanf finds no pid and the variable is not initialised: it may hit
\* the helper or nothing.
Reaches(p) == file.exists /\ CanOpen(p) /\ holder # Nobody /\ CanKill(p, holder)

\* Mutant of Unlock: the lock is left to the helper.
NeverUnlocks(p) == UNCHANGED <<file, holder>>

Unlock(p) ==
  \/ /\ Reaches(p) /\ file.pid # "stale"
     /\ holder' = Nobody
     /\ file' = IF file.pid = "none" THEN file ELSE [file EXCEPT !.pid = "stale"]
  \/ /\ ~(Reaches(p) /\ file.pid = "current")
     /\ UNCHANGED <<file, holder>>

-----------------------------------------------------------------------------
(* dfota.                                                                  *)

\* Mutant of Alone: the check for another instance is missing.
NotChecked(u) == TRUE

\* No script: at most a lock command that outlives it and waits or writes its pid.
Gone == {"off", "waits", "writes"}

\* pgrep finds no other instance.
Alone(u) == \A v \in Updaters \ {u} : pc[v] \in Gone

Begin(u) ==
  /\ pc[u] = "off"
  /\ Alone(u)
  /\ runs < MaxRuns
  /\ runs' = runs + 1
  /\ pc' = [pc EXCEPT ![u] = "check"]
  /\ \E n \in 1..MaxModems : modems' = [modems EXCEPT ![u] = n]
  /\ UNCHANGED <<file, holder, locked, faults>>

\* Mutant of Left: the loop over the modems runs once too often.
LeftOrLast(u) == modems[u] >= 0

\* The loop over the modems goes on.
Left(u) == modems[u] > 0

\* The modem does not answer, has no update, or none was asked for.
Skip(u) ==
  /\ pc[u] = "check" /\ Left(u)
  /\ u \in EmptyRuns \/ modems[u] > 1
  /\ modems' = [modems EXCEPT ![u] = @ - 1]
  /\ UNCHANGED <<file, holder, pc, locked, runs, faults>>

\* control_services stop: waits even for a lock of its own.
Stop(u) ==
  /\ pc[u] = "check" /\ Left(u)
  /\ pc' = [pc EXCEPT ![u] = "lock"]
  /\ UNCHANGED <<file, holder, modems, locked, runs, faults>>

LockTaken(u) ==
  /\ pc[u] = "lock"
  /\ Take(u)
  /\ pc' = [pc EXCEPT ![u] = "write"]
  /\ locked' = [locked EXCEPT ![u] = TRUE]
  /\ UNCHANGED <<modems, runs, faults>>

LockWritten(u) ==
  /\ pc[u] = "write"
  /\ WritePid(u)
  /\ pc' = [pc EXCEPT ![u] = "chmod"]
  /\ UNCHANGED <<modems, locked, runs, faults>>

\* "Can't open": the status of the lock command is not looked at.
LockFailed(u) ==
  /\ pc[u] = "lock"
  /\ file.exists /\ ~CanOpen(u)
  /\ pc' = [pc EXCEPT ![u] = "chmod"]
  /\ UNCHANGED <<file, holder, modems, locked, runs, faults>>

Chmod(u) ==
  /\ pc[u] = "chmod"
  /\ file' = [file EXCEPT !.group = @ \/ User[u] \in {Root, file.owner}]
  /\ pc' = [pc EXCEPT ![u] = "update"]
  /\ UNCHANGED <<holder, modems, locked, runs, faults>>

\* The modem is updated and back: on to the next.
Updated(u) ==
  /\ pc[u] = "update"
  /\ pc' = [pc EXCEPT ![u] = "check"]
  /\ modems' = [modems EXCEPT ![u] = @ - 1]
  /\ UNCHANGED <<file, holder, locked, runs, faults>>

\* do_update fails, or the update does not start in time.
UpdateFailed(u) ==
  /\ pc[u] = "update"
  /\ pc' = [pc EXCEPT ![u] = "end"]
  /\ UNCHANGED <<file, holder, modems, locked, runs, faults>>

\* end: control_services start, whether or not the run has taken the lock.
End(u) ==
  /\ pc[u] = "end" \/ (pc[u] = "check" /\ ~Left(u))
  /\ Unlock(u)
  /\ pc' = [pc EXCEPT ![u] = "off"]
  /\ modems' = [modems EXCEPT ![u] = 0]
  /\ locked' = [locked EXCEPT ![u] = FALSE]
  /\ UNCHANGED <<runs, faults>>

-----------------------------------------------------------------------------
(* ping_reboot.sh and periodic_reboot.sh.                                  *)

\* The file is there, readable and writable.
Usable(r) == file.exists /\ CanOpen(r)

Fire(r) == pc[r] = "off" /\ runs < MaxRuns /\ runs' = runs + 1

\* preboot_lock without a usable file, and perform_reboot: act without the lock.
ActUnlocked(r) ==
  /\ Fire(r)
  /\ ~Usable(r)
  /\ pc' = [pc EXCEPT ![r] = "act"]
  /\ UNCHANGED <<file, holder, modems, locked, faults>>

\* lock -n: somebody else's lock makes the script exit.
PingLocks(r) ==
  /\ Fire(r)
  /\ Usable(r)
  /\ IF holder = Nobody
     THEN Take(r) /\ pc' = [pc EXCEPT ![r] = "write"]
     ELSE UNCHANGED <<file, holder, pc>>
  /\ UNCHANGED <<modems, locked, faults>>

PeriodicWaits(r) ==
  /\ Fire(r)
  /\ Usable(r)
  /\ pc' = [pc EXCEPT ![r] = "lock"]
  /\ UNCHANGED <<file, holder, modems, locked, faults>>

PeriodicLocks(r) ==
  /\ pc[r] = "lock"
  /\ Take(r)
  /\ pc' = [pc EXCEPT ![r] = "write"]
  /\ UNCHANGED <<modems, locked, runs, faults>>

RebooterWrites(r) ==
  /\ pc[r] = "write"
  /\ WritePid(r)
  /\ pc' = [pc EXCEPT ![r] = "act"]
  /\ UNCHANGED <<modems, locked, runs, faults>>

\* The ubus call that restarts the modem returns.
Restarted(r) ==
  /\ pc[r] = "act"
  /\ pc' = [pc EXCEPT ![r] = "unlock"]
  /\ UNCHANGED <<file, holder, modems, locked, runs, faults>>

\* lock -u, whether or not the script has taken the lock.
RebooterUnlocks(r) ==
  /\ pc[r] = "unlock"
  /\ Unlock(r)
  /\ pc' = [pc EXCEPT ![r] = "off"]
  /\ UNCHANGED <<modems, locked, runs, faults>>

\* The router reboots: /var is a tmpfs.
Reboot(r) ==
  /\ pc[r] = "act" /\ r \in MayReboot
  /\ file' = NoFile
  /\ holder' = Nobody
  /\ pc' = [p \in Procs |-> "off"]
  /\ modems' = [u \in Updaters |-> 0]
  /\ locked' = [u \in Updaters |-> FALSE]
  /\ UNCHANGED <<runs, faults>>

\* A script is killed (stop_service, procd); its helper lives on, and so does the
\* lock command it was waiting for.
Kill(p) ==
  /\ pc[p] \notin Gone
  /\ faults < MaxFaults
  /\ faults' = faults + 1
  /\ pc' = [pc EXCEPT ![p] = CASE pc[p] = "lock"  -> "waits"
                               [] pc[p] = "write" -> "writes"
                               [] OTHER           -> "off"]
  /\ modems' = IF p \in Updaters THEN [modems EXCEPT ![p] = 0] ELSE modems
  /\ locked' = IF p \in Updaters THEN [locked EXCEPT ![p] = FALSE] ELSE locked
  /\ UNCHANGED <<file, holder, runs>>

OrphanLocks(p) ==
  /\ pc[p] = "waits"
  /\ Take(p)
  /\ pc' = [pc EXCEPT ![p] = "writes"]
  /\ UNCHANGED <<modems, locked, runs, faults>>

\* "Can't open", or the helper's pid is written.
OrphanEnds(p) ==
  /\ \/ pc[p] = "writes" /\ WritePid(p)
     \/ pc[p] = "waits" /\ file.exists /\ ~CanOpen(p) /\ UNCHANGED <<file, holder>>
  /\ pc' = [pc EXCEPT ![p] = "off"]
  /\ UNCHANGED <<modems, locked, runs, faults>>

-----------------------------------------------------------------------------
UpdaterStep(u) ==
  \/ Skip(u) \/ Stop(u) \/ LockTaken(u) \/ LockWritten(u) \/ LockFailed(u)
  \/ Chmod(u) \/ Updated(u) \/ UpdateFailed(u) \/ End(u)

RebooterStep(r) == RebooterWrites(r) \/ Restarted(r) \/ RebooterUnlocks(r)

Next ==
  \/ \E u \in Updaters : Begin(u) \/ UpdaterStep(u)
  \/ \E r \in Rebooters : ActUnlocked(r) \/ RebooterStep(r) \/ Reboot(r)
  \/ \E r \in Pings : PingLocks(r)
  \/ \E r \in Periodics : PeriodicWaits(r) \/ PeriodicLocks(r)
  \/ \E p \in Procs : Kill(p) \/ OrphanLocks(p) \/ OrphanEnds(p)

Spec == Init /\ [][Next]_vars

\* Scripts run on, calls return, and a modem being updated comes back.
Fairness ==
  /\ \A u \in Updaters : WF_vars(UpdaterStep(u))
  /\ \A r \in Rebooters : WF_vars(RebooterStep(r))
  /\ \A r \in Periodics : WF_vars(PeriodicLocks(r))

FairSpec == Spec /\ Fairness

-----------------------------------------------------------------------------
(* Properties.                                                             *)

Labels == Gone \cup {"check", "lock", "write", "chmod", "update", "end", "act", "unlock"}

\* The types of the variables.
TypeOK ==
  /\ file \in Files
  /\ holder \in Procs \cup {Nobody}
  /\ pc \in [Procs -> Labels]
  /\ \A r \in Rebooters : pc[r] \in Gone \cup {"lock", "write", "act", "unlock"}
  /\ \A u \in Updaters : pc[u] \notin {"act", "unlock"}
  /\ modems \in [Updaters -> Nat]
  /\ locked \in [Updaters -> BOOLEAN]
  /\ runs \in Nat /\ faults \in Nat

\* At most one update at a time.
OneUpdater == \A u, v \in Updaters : pc[u] \notin Gone /\ pc[v] \notin Gone => u = v

\* An update that has taken the lock keeps it until it ends, although ping_reboot
\* and periodic_reboot end with "lock -u" even when they have not locked.
HoldsWhileUpdating == \A u \in Updaters : locked[u] => holder = u

\* The inductive invariant of ModemLockProofs.
Cleared == \A u \in Updaters : pc[u] \in Gone => ~locked[u]
Looking == \A u \in Updaters : pc[u] \in {"lock", "write", "chmod", "update"} => Left(u)

IInv == TypeOK /\ OneUpdater /\ HoldsWhileUpdating /\ Cleared /\ Looking

\* What it takes besides to keep restarts out of updates: the lock file is there
\* for all (Shared), a restart only ever runs under the lock (Held), and a run
\* that unlocks as root has locked (Failing, Looked).
Shared == file.exists /\ file.group
Held == \A r \in Rebooters : pc[r] \in {"write", "act", "unlock"} => holder = r
Failing == \A u \in Updaters : pc[u] \in {"write", "chmod", "update", "end"} => locked[u]
Looked == \A u \in Updaters \ EmptyRuns : pc[u] = "check" /\ ~Left(u) => locked[u]

PInv == IInv /\ Shared /\ Held /\ Failing /\ Looked

\* The modem is not restarted, nor the router rebooted, while a modem is updated.
RestartExcludesUpdate ==
  \A u \in Updaters, r \in Rebooters : ~(pc[u] = "update" /\ pc[r] = "act")

\* Once every script has ended the lock is free: unless one was killed.
LockLeftFree ==
  (\A p \in Procs : pc[p] = "off") /\ faults = 0 => holder = Nobody

\* dfota:1020, "Iterate modem ids": a run goes through its modems and ends.
RunEnds ==
  \A u \in Updaters : pc[u] = "check" ~> pc[u] = "off"
=============================================================================
