-------------------------- MODULE ModemLockProofs ---------------------------
(* Proofs about ModemLock: an update keeps the lock it has taken, and under *)
(* three conditions nobody restarts the modem meanwhile.                    *)
EXTENDS ModemLock, TLAPS

USE ProcsAssumption, UsersAssumption, BoundsAssumption

\* The lock applet keeps the types of the file and of the holder.
LEMMA AppletTypes ==
  ASSUME TypeOK, NEW p \in Procs, Take(p) \/ WritePid(p) \/ Unlock(p)
  PROVE  file' \in Files /\ holder' \in Procs \cup {Nobody}
<1>1. User[p] \in Users BY DEF Users
<1>2. CASE Take(p)
  <2>1. CASE ~file.exists
    <3>1. file' = [exists |-> TRUE, group |-> FALSE, owner |-> User[p], pid |-> "none"]
      BY <1>2, <2>1 DEF Take
    <3>2. file' \in Files BY <1>1, <3>1 DEF Files
    <3> QED BY <1>2, <3>2 DEF Take
  <2>2. CASE file.exists
    <3>1. PICK pid \in {file.pid, "none"} : file' = [file EXCEPT !.pid = pid]
      BY <1>2, <2>2 DEF Take
    <3>2. file' \in Files BY <3>1 DEF TypeOK, Files
    <3> QED BY <1>2, <3>2 DEF Take
  <2> QED BY <2>1, <2>2
<1>3. CASE WritePid(p) BY <1>3 DEF WritePid, TypeOK, Files
<1>4. CASE Unlock(p) BY <1>4 DEF Unlock, TypeOK, Files
<1> QED BY <1>2, <1>3, <1>4

\* "lock -u" of another process does not reach the lock of an update: the user
\* of a ping or a periodic may not kill its helper, and no other update runs.
LEMMA UnlockSpares ==
  ASSUME IInv, NEW p \in Procs, Unlock(p), pc[p] \notin Gone,
         NEW u \in Updaters, locked[u], u # p
  PROVE  holder' = u
<1>1. holder = u BY DEF IInv, HoldsWhileUpdating
<1>2. CASE p \in Updaters
  <2>1. pc[u] \notin Gone BY DEF IInv, Cleared
  <2> QED BY <1>2, <2>1 DEF IInv, OneUpdater
<1>3. CASE p \in Rebooters
  <2>1. ~CanKill(p, holder) BY <1>1, <1>3 DEF CanKill
  <2> QED BY <1>1, <2>1 DEF Unlock, Reaches
<1> QED BY <1>2, <1>3 DEF Procs

\* Nobody runs initially.
LEMMA InitInv == Init => IInv
<1> SUFFICES ASSUME Init PROVE IInv OBVIOUS
<1>1. file \in Files BY DEF Init, Files, OldFile, NoFile
<1>2. \A p \in Procs : pc[p] = "off" BY DEF Init
<1>3. TypeOK
  <2>1. pc \in [Procs -> Labels] BY DEF Init, Labels, Gone
  <2>2. modems \in [Updaters -> Nat] /\ locked \in [Updaters -> BOOLEAN] BY DEF Init
  <2>3. runs \in Nat /\ faults \in Nat /\ holder = Nobody BY DEF Init
  <2> QED BY <1>1, <1>2, <2>1, <2>2, <2>3 DEF TypeOK, Procs, Gone
<1>4. OneUpdater /\ Looking BY <1>2 DEF OneUpdater, Looking, Procs, Gone
<1>5. HoldsWhileUpdating /\ Cleared BY DEF Init, HoldsWhileUpdating, Cleared
<1> QED BY <1>3, <1>4, <1>5 DEF IInv

\* A run begins only when no other is there.
LEMMA BeginInv == ASSUME IInv, NEW u \in Updaters, Begin(u) PROVE IInv'
<1> USE DEF Begin, IInv
<1>1. TypeOK'
  <2>1. u \in Procs /\ u \notin Rebooters BY DEF Procs
  <2>2. PICK n \in 1..MaxModems : modems' = [modems EXCEPT ![u] = n] OBVIOUS
  <2>3. modems' \in [Updaters -> Nat] BY <2>2 DEF TypeOK
  <2> QED BY <2>1, <2>3 DEF TypeOK, Labels, Gone, Gone
<1>2. OneUpdater' BY DEF TypeOK, OneUpdater, Alone
<1>3. HoldsWhileUpdating' BY DEF HoldsWhileUpdating
<1>4. Cleared' BY DEF TypeOK, Cleared, Gone
<1>5. Looking' BY DEF TypeOK, Looking, Left
<1> QED BY <1>1, <1>2, <1>3, <1>4, <1>5

\* A step of a run other than its end.
LEMMA RunInv ==
  ASSUME IInv, NEW u \in Updaters, UpdaterStep(u), ~End(u)
  PROVE  IInv'
<1> USE DEF IInv
<1>1. u \in Procs /\ u \notin Rebooters BY DEF Procs
<1>2. Updaters \subseteq Procs BY DEF Procs
<1>3. \E l \in {"check", "lock", "write", "chmod", "update", "end"} : pc' = [pc EXCEPT ![u] = l]
  BY DEF UpdaterStep, Skip, Stop, LockTaken, LockWritten, LockFailed, Chmod, Updated, UpdateFailed,
         TypeOK
<1>4. pc[u] \notin Gone BY DEF Gone, UpdaterStep, Skip, Stop, LockTaken, LockWritten, LockFailed, Chmod,
                           Updated, UpdateFailed
<1>5. file' \in Files /\ holder' \in Procs \cup {Nobody}
  <2>1. CASE LockTaken(u) \/ LockWritten(u) BY <1>1, <2>1, AppletTypes DEF LockTaken, LockWritten
  <2>2. CASE Chmod(u) BY <2>2 DEF Chmod, TypeOK, Files
  <2>3. CASE UNCHANGED <<file, holder>> BY <2>3 DEF TypeOK
  <2> QED BY <2>1, <2>2, <2>3 DEF UpdaterStep, Skip, Stop, LockFailed, Updated, UpdateFailed
<1>6. modems' \in [Updaters -> Nat]
  <2>1. CASE Skip(u) \/ Updated(u)
    <3>1. modems[u] \in Nat /\ modems[u] > 0 /\ modems' = [modems EXCEPT ![u] = @ - 1]
      BY <2>1 DEF Skip, Updated, TypeOK, Looking, Left
    <3>2. modems[u] - 1 \in Nat BY <3>1
    <3> QED BY <3>1, <3>2 DEF TypeOK
  <2>2. CASE modems' = modems BY <2>2 DEF TypeOK
  <2> QED BY <2>1, <2>2 DEF UpdaterStep, Stop, LockTaken, LockWritten, LockFailed, Chmod,
                            UpdateFailed
<1>7. \/ locked' = locked
      \/ LockTaken(u) /\ locked' = [locked EXCEPT ![u] = TRUE]
  <2>1. CASE LockTaken(u) BY <2>1 DEF LockTaken
  <2>2. CASE ~LockTaken(u)
    BY <2>2 DEF UpdaterStep, Skip, Stop, LockWritten, LockFailed, Chmod, Updated, UpdateFailed
  <2> QED BY <2>1, <2>2
<1>8. UNCHANGED <<runs, faults>>
  BY DEF UpdaterStep, Skip, Stop, LockTaken, LockWritten, LockFailed, Chmod, Updated, UpdateFailed
<1>9. TypeOK'
  <2>1. PICK l \in {"check", "lock", "write", "chmod", "update", "end"} : pc' = [pc EXCEPT ![u] = l]
    BY <1>3
  <2>2. pc' \in [Procs -> Labels] BY <2>1 DEF TypeOK, Labels, Gone, Gone
  <2>3. \A r \in Rebooters : pc'[r] \in Gone \cup {"lock", "write", "act", "unlock"}
    BY <1>1, <2>1 DEF TypeOK, Procs
  <2>4. \A v \in Updaters : pc'[v] \notin {"act", "unlock"} BY <1>2, <2>1 DEF TypeOK
  <2>5. locked' \in [Updaters -> BOOLEAN] BY <1>7 DEF TypeOK
  <2> QED BY <1>5, <1>6, <1>8, <2>2, <2>3, <2>4, <2>5 DEF TypeOK
<1>10. OneUpdater' BY <1>2, <1>3, <1>4 DEF TypeOK, OneUpdater
<1>11. HoldsWhileUpdating'
  <2>1. CASE LockTaken(u)
    <3>1. \A v \in Updaters : ~locked[v]
      BY <1>2, <2>1 DEF LockTaken, Take, HoldsWhileUpdating
    <3> QED BY <2>1, <3>1 DEF LockTaken, Take, HoldsWhileUpdating, TypeOK
  <2>2. CASE ~LockTaken(u)
    <3>1. holder' = holder
      BY <2>2 DEF UpdaterStep, Skip, Stop, LockWritten, WritePid, LockFailed, Chmod, Updated,
                  UpdateFailed
    <3> QED BY <1>7, <2>2, <3>1 DEF HoldsWhileUpdating
  <2> QED BY <2>1, <2>2
<1>12. Cleared' BY <1>1, <1>2, <1>3, <1>7 DEF TypeOK, Cleared, Gone
<1>13. Looking'
  <2>1. CASE Skip(u) \/ Updated(u) \/ UpdateFailed(u)
    <3>1. pc'[u] \in {"check", "end"} BY <1>1, <2>1 DEF Skip, Updated, UpdateFailed, TypeOK
    <3>2. \A v \in Updaters \ {u} : pc'[v] = pc[v] /\ modems'[v] = modems[v]
      BY <1>2, <2>1 DEF Skip, Updated, UpdateFailed, TypeOK
    <3> QED BY <3>1, <3>2 DEF Looking, Left
  <2>2. CASE Stop(u) \/ LockTaken(u) \/ LockWritten(u) \/ LockFailed(u) \/ Chmod(u)
    <3>1. modems' = modems /\ Left(u)
      BY <2>2 DEF Stop, LockTaken, LockWritten, LockFailed, Chmod, Looking
    <3>2. \A v \in Updaters \ {u} : pc'[v] = pc[v] BY <1>2, <1>3 DEF TypeOK
    <3> QED BY <3>1, <3>2 DEF Looking, Left
  <2> QED BY <2>1, <2>2 DEF UpdaterStep
<1> QED BY <1>9, <1>10, <1>11, <1>12, <1>13

\* A run ends, whether or not it has locked.
LEMMA EndInv == ASSUME IInv, NEW u \in Updaters, End(u) PROVE IInv'
<1> USE DEF IInv, End
<1>1. u \in Procs /\ pc[u] \notin Gone BY DEF Procs, Gone
<1>2. TypeOK' BY <1>1, AppletTypes DEF TypeOK, Labels, Gone, Gone
<1>3. OneUpdater' BY <1>1 DEF TypeOK, OneUpdater, Gone, Procs
<1>4. HoldsWhileUpdating' BY <1>1, UnlockSpares DEF TypeOK, HoldsWhileUpdating
<1>5. Cleared' /\ Looking' BY DEF TypeOK, Cleared, Looking, Left
<1> QED BY <1>2, <1>3, <1>4, <1>5

\* Steps of a ping or a periodic that leave the lock as it is, or take it.
LEMMA RebooterInv ==
  ASSUME IInv, NEW r \in Rebooters,
         \/ ActUnlocked(r) \/ PeriodicWaits(r) \/ Restarted(r)
         \/ PingLocks(r) \/ PeriodicLocks(r) \/ RebooterWrites(r)
  PROVE  IInv'
<1> USE DEF IInv
<1>1. r \in Procs /\ r \notin Updaters BY DEF Procs
<1>2. pc' \in [Procs -> Labels] /\ \A p \in Procs \ {r} : pc'[p] = pc[p]
  BY <1>1 DEF ActUnlocked, PeriodicWaits, Restarted, PingLocks, PeriodicLocks, RebooterWrites,
              TypeOK, Labels
<1>3. pc'[r] \in Gone \cup {"lock", "write", "act", "unlock"}
  BY <1>1 DEF ActUnlocked, PeriodicWaits, Restarted, PingLocks, PeriodicLocks, RebooterWrites,
              Fire, TypeOK, Labels
<1>4. modems' = modems /\ locked' = locked /\ runs' \in Nat /\ faults' = faults
  BY DEF ActUnlocked, PeriodicWaits, Restarted, PingLocks, PeriodicLocks, RebooterWrites,
         Fire, TypeOK
<1>5. \/ UNCHANGED <<file, holder>>
      \/ Take(r)
      \/ WritePid(r)
  BY DEF ActUnlocked, PeriodicWaits, Restarted, PingLocks, PeriodicLocks, RebooterWrites
<1>6. file' \in Files /\ holder' \in Procs \cup {Nobody}
  BY <1>1, <1>5, AppletTypes DEF TypeOK
<1>7. TypeOK'
  <2>1. \A x \in Rebooters : pc'[x] \in Gone \cup {"lock", "write", "act", "unlock"}
    BY <1>2, <1>3 DEF TypeOK, Procs
  <2>2. \A x \in Updaters : pc'[x] \notin {"act", "unlock"}
    BY <1>1, <1>2 DEF TypeOK, Procs
  <2> QED BY <1>2, <1>4, <1>6, <2>1, <2>2 DEF TypeOK
<1>8. \A u \in Updaters : pc'[u] = pc[u] BY <1>1, <1>2 DEF Procs
<1>9. HoldsWhileUpdating'
  <2>1. \A u \in Updaters : locked[u] => holder # Nobody
    BY DEF HoldsWhileUpdating, Procs
  <2> QED BY <1>4, <1>5, <2>1 DEF HoldsWhileUpdating, Take, WritePid
<1>10. OneUpdater' /\ Cleared' /\ Looking'
  BY <1>4, <1>8 DEF OneUpdater, Cleared, Looking, Left
<1> QED BY <1>7, <1>9, <1>10

\* "lock -u" at the end of a ping or a periodic.
LEMMA RebooterUnlocksInv == ASSUME IInv, NEW r \in Rebooters, RebooterUnlocks(r) PROVE IInv'
<1> USE DEF IInv, RebooterUnlocks
<1>1. r \in Procs /\ r \notin Updaters /\ pc[r] \notin Gone BY DEF Procs, Gone
<1>2. TypeOK' BY <1>1, AppletTypes DEF TypeOK, Labels, Gone, Gone
<1>3. \A u \in Updaters : pc'[u] = pc[u] BY <1>1 DEF TypeOK, Procs
<1>4. HoldsWhileUpdating' BY <1>1, UnlockSpares DEF HoldsWhileUpdating
<1>5. OneUpdater' /\ Cleared' /\ Looking' BY <1>3 DEF OneUpdater, Cleared, Looking, Left
<1> QED BY <1>2, <1>4, <1>5

\* The reboot of the router and the death of a script.
LEMMA BreakInv ==
  ASSUME IInv, \/ \E r \in Rebooters : Reboot(r)
               \/ \E p \in Procs : Kill(p)
  PROVE  IInv'
<1> USE DEF IInv
<1>1. CASE \E r \in Rebooters : Reboot(r)
  <2>1. NoFile \in Files BY DEF NoFile, Files
  <2>2. \A u \in Updaters : u \in Procs BY DEF Procs
  <2>3. \A r \in Rebooters : r \in Procs BY DEF Procs
  <2> QED
    BY <1>1, <2>1, <2>2, <2>3 DEF Reboot, TypeOK, Labels, Gone, OneUpdater, HoldsWhileUpdating,
                                  Cleared, Looking, Left
<1>2. CASE \E p \in Procs : Kill(p)
  <2> PICK p \in Procs : Kill(p) BY <1>2
  <2> USE DEF Kill
  <2>1. Updaters \subseteq Procs /\ Rebooters \subseteq Procs BY DEF Procs
  <2>2. pc'[p] \in Gone /\ \A q \in Procs \ {p} : pc'[q] = pc[q] BY DEF TypeOK, Gone
  <2>3. \A u \in Updaters \ {p} : locked'[u] = locked[u] /\ modems'[u] = modems[u] BY DEF TypeOK
  <2>4. p \in Updaters => ~locked'[p] BY DEF TypeOK
  <2>5. TypeOK'
    <3>1. pc' \in [Procs -> Labels] BY DEF TypeOK, Labels, Gone
    <3>2. modems' \in [Updaters -> Nat] /\ locked' \in [Updaters -> BOOLEAN] BY DEF TypeOK
    <3>3. \A r \in Rebooters : pc'[r] \in Gone \cup {"lock", "write", "act", "unlock"}
      BY <2>1, <2>2 DEF TypeOK
    <3>4. \A u \in Updaters : pc'[u] \notin {"act", "unlock"}
      BY <2>1, <2>2 DEF TypeOK, Gone
    <3> QED BY <3>1, <3>2, <3>3, <3>4 DEF TypeOK
  <2>6. OneUpdater' BY <2>1, <2>2 DEF OneUpdater
  <2>7. HoldsWhileUpdating' BY <2>3, <2>4 DEF HoldsWhileUpdating
  <2>8. Cleared' BY <2>1, <2>2, <2>3, <2>4 DEF Cleared
  <2>9. Looking' BY <2>1, <2>2, <2>3 DEF Looking, Left, Gone
  <2> QED BY <2>5, <2>6, <2>7, <2>8, <2>9
<1> QED BY <1>1, <1>2

\* A lock command whose script is dead: it takes a free lock, never one in use.
LEMMA OrphanInv ==
  ASSUME IInv, NEW p \in Procs, OrphanLocks(p) \/ OrphanEnds(p)
  PROVE  IInv'
<1> USE DEF IInv
<1>1. Updaters \subseteq Procs /\ Rebooters \subseteq Procs BY DEF Procs
<1>2. pc[p] \in Gone /\ pc'[p] \in Gone /\ \A q \in Procs \ {p} : pc'[q] = pc[q]
  BY DEF OrphanLocks, OrphanEnds, TypeOK, Gone
<1>3. modems' = modems /\ locked' = locked /\ runs' = runs /\ faults' = faults
  BY DEF OrphanLocks, OrphanEnds
<1>4. UNCHANGED <<file, holder>> \/ Take(p) \/ WritePid(p) BY DEF OrphanLocks, OrphanEnds
<1>5. file' \in Files /\ holder' \in Procs \cup {Nobody} BY <1>4, AppletTypes DEF TypeOK
<1>6. TypeOK'
  <2>1. pc' \in [Procs -> Labels] BY DEF OrphanLocks, OrphanEnds, TypeOK, Labels, Gone
  <2>2. \A r \in Rebooters : pc'[r] \in Gone \cup {"lock", "write", "act", "unlock"}
    BY <1>1, <1>2 DEF TypeOK
  <2>3. \A u \in Updaters : pc'[u] \notin {"act", "unlock"} BY <1>1, <1>2 DEF TypeOK, Gone
  <2> QED BY <1>3, <1>5, <2>1, <2>2, <2>3 DEF TypeOK
<1>7. OneUpdater' BY <1>1, <1>2 DEF OneUpdater
<1>8. HoldsWhileUpdating'
  <2>1. \A u \in Updaters : locked[u] => holder # Nobody
    BY DEF HoldsWhileUpdating, Procs
  <2> QED BY <1>3, <1>4, <2>1 DEF HoldsWhileUpdating, Take, WritePid
<1>9. Cleared' BY <1>1, <1>2, <1>3 DEF Cleared
<1>10. Looking' BY <1>1, <1>2, <1>3 DEF Looking, Left, Gone
<1> QED BY <1>6, <1>7, <1>8, <1>9, <1>10

\* Nothing changes.
LEMMA StutterInv == ASSUME IInv, UNCHANGED vars PROVE IInv'
<1> QED BY DEF vars, IInv, TypeOK, OneUpdater, HoldsWhileUpdating, Cleared, Looking, Left

\* The whole next-state relation keeps IInv.
LEMMA NextInv == ASSUME IInv, [Next]_vars PROVE IInv'
<1>1. ASSUME NEW u \in Updaters, Begin(u) PROVE IInv' BY <1>1, BeginInv
<1>2. ASSUME NEW u \in Updaters, UpdaterStep(u) PROVE IInv' BY <1>2, RunInv, EndInv
<1>3. ASSUME NEW r \in Rebooters, ActUnlocked(r) PROVE IInv' BY <1>3, RebooterInv
<1>4. ASSUME NEW r \in Rebooters, RebooterStep(r) PROVE IInv'
  BY <1>4, RebooterInv, RebooterUnlocksInv DEF RebooterStep
<1>5. ASSUME NEW r \in Pings, PingLocks(r) PROVE IInv' BY <1>5, RebooterInv DEF Rebooters
<1>6. ASSUME NEW r \in Periodics, PeriodicWaits(r) \/ PeriodicLocks(r) PROVE IInv'
  BY <1>6, RebooterInv DEF Rebooters
<1>7. CASE UNCHANGED vars BY <1>7, StutterInv
<1> QED BY <1>1, <1>2, <1>3, <1>4, <1>5, <1>6, <1>7, BreakInv, OrphanInv DEF Next

\* The inductive invariant: the types, one run of dfota at a time, a run that has
\* locked holds the lock, nobody has locked who is gone, and a run that updates has
\* modems left.
THEOREM Invariance == Spec => []IInv
<1> QED BY InitInv, NextInv, PTL DEF Spec

\* The types; a run never has less than no modem left.
THEOREM TypeCorrect == Spec => []TypeOK
<1>1. IInv => TypeOK BY DEF IInv
<1> QED BY <1>1, Invariance, PTL

\* dfota: a run that has taken the lock holds it until it ends, although the
\* scripts that restart the modem end with "lock -u" unconditionally; whoever is
\* killed, for any number of scripts and users.
THEOREM UpdateKeepsLock == Spec => []HoldsWhileUpdating
<1>1. IInv => HoldsWhileUpdating BY DEF IInv
<1> QED BY <1>1, Invariance, PTL

\* pgrep: never two updates at a time.
THEOREM SingleUpdate == Spec => []OneUpdater
<1>1. IInv => OneUpdater BY DEF IInv
<1> QED BY <1>1, Invariance, PTL

(***************************************************************************)
(* Restarts and updates exclude each other when an earlier run has left    *)
(* the lock file, no script reboots the router (which takes the file), and *)
(* only the user dfota has runs that find nothing to update.               *)
(***************************************************************************)
Excludes ==
  FilePresent /\ MayReboot = {} /\ \A u \in EmptyRuns : User[u] # Root

\* The lock applet leaves a shared file shared.
LEMMA AppletShared ==
  ASSUME TypeOK, Shared, NEW p \in Procs, Take(p) \/ WritePid(p) \/ Unlock(p)
  PROVE  Shared'
<1>1. \/ file' = file
      \/ \E pid \in {"none", "stale", "current"} : file' = [file EXCEPT !.pid = pid]
  BY DEF Take, WritePid, Unlock, Shared, TypeOK, Files
<1> QED BY <1>1 DEF TypeOK, Files, Shared

\* "lock -u" of an update does not reach the lock of a restart: the run has the
\* lock itself, or its user may not kill the helper.
LEMMA EndSpares ==
  ASSUME Excludes, PInv, NEW u \in Updaters, End(u), NEW r \in Rebooters, holder = r
  PROVE  holder' = r
<1>1. u # r OBVIOUS
<1>2. ~locked[u] BY <1>1 DEF PInv, IInv, HoldsWhileUpdating
<1>3. u \in EmptyRuns BY <1>2 DEF PInv, Failing, Looked, End
<1>4. ~CanKill(u, holder) BY <1>3 DEF Excludes, CanKill
<1> QED BY <1>4 DEF End, Unlock, Reaches

\* Initially the lock file is there and nobody runs.
LEMMA InitPInv == ASSUME Excludes, Init PROVE PInv
<1>1. \A p \in Procs : pc[p] = "off" BY DEF Init
<1>2. Shared BY DEF Init, Shared, Excludes, OldFile
<1>3. Held /\ Failing /\ Looked BY <1>1 DEF Held, Failing, Looked, Procs
<1> QED BY <1>2, <1>3, InitInv DEF PInv

\* Steps of a run.
LEMMA UpdaterPInv ==
  ASSUME Excludes, PInv, NEW u \in Updaters, Begin(u) \/ UpdaterStep(u)
  PROVE  Shared' /\ Held' /\ Failing' /\ Looked'
<1> USE DEF PInv, IInv
<1>1. u \in Procs /\ u \notin Rebooters /\ Updaters \subseteq Procs /\ Rebooters \subseteq Procs
  BY DEF Procs
<1>2. pc \in [Procs -> Labels] /\ modems \in [Updaters -> Nat] /\ locked \in [Updaters -> BOOLEAN]
  BY DEF TypeOK
<1>3. ~LockFailed(u) BY DEF LockFailed, Shared, CanOpen
<1>4. \/ pc' = pc
      \/ \E l \in Labels : pc' = [pc EXCEPT ![u] = l]
  BY DEF UpdaterStep, Begin, Skip, Stop, LockTaken, LockWritten, LockFailed, Chmod, Updated,
         UpdateFailed, End, Labels, Gone
<1>5. \A p \in Procs \ {u} : pc'[p] = pc[p] BY <1>2, <1>4
<1>6. \A v \in Updaters \ {u} : locked'[v] = locked[v] /\ modems'[v] = modems[v]
  BY <1>2 DEF UpdaterStep, Begin, Skip, Stop, LockTaken, LockWritten, LockFailed, Chmod, Updated,
              UpdateFailed, End
<1>7. Shared'
  <2>1. CASE LockTaken(u) \/ LockWritten(u) \/ End(u)
    BY <1>1, <2>1, AppletShared DEF LockTaken, LockWritten, End
  <2>2. CASE Chmod(u) BY <2>2 DEF Chmod, Shared, TypeOK, Files
  <2>3. CASE file' = file BY <2>3 DEF Shared
  <2> QED BY <2>1, <2>2, <2>3
       DEF UpdaterStep, Begin, Skip, Stop, LockFailed, Updated, UpdateFailed
<1>8. Held'
  <2>1. \A r \in Rebooters : pc'[r] = pc[r] BY <1>1, <1>5
  <2>2. CASE LockTaken(u)
    <3>1. \A r \in Rebooters : holder # r BY <1>1, <2>2 DEF LockTaken, Take
    <3> QED BY <2>1, <3>1 DEF Held
  <2>3. CASE End(u)
    <3>1. \A r \in Rebooters : holder = r => holder' = r BY <2>3, EndSpares
    <3> QED BY <2>1, <3>1 DEF Held
  <2>4. CASE holder' = holder BY <2>1, <2>4 DEF Held
  <2> QED BY <2>2, <2>3, <2>4
       DEF UpdaterStep, Begin, Skip, Stop, LockWritten, WritePid, LockFailed, Chmod, Updated,
           UpdateFailed
<1>9. pc'[u] \in {"write", "chmod", "update", "end"} => locked'[u]
  <2>1. CASE LockTaken(u) BY <1>2, <2>1 DEF LockTaken
  <2>2. CASE LockWritten(u) \/ Chmod(u) \/ UpdateFailed(u)
    BY <1>2, <2>2 DEF LockWritten, Chmod, UpdateFailed, Failing
  <2>3. CASE Begin(u) \/ Stop(u) \/ Updated(u) \/ End(u)
    BY <1>1, <1>2, <2>3 DEF Begin, Stop, Updated, End
  <2>4. CASE Skip(u) BY <2>4 DEF Skip
  <2> QED BY <1>3, <2>1, <2>2, <2>3, <2>4 DEF UpdaterStep
<1>10. u \notin EmptyRuns /\ pc'[u] = "check" /\ ~(modems'[u] > 0) => locked'[u]
  <2>1. CASE Begin(u)
    <3>1. PICK n \in 1..MaxModems : modems' = [modems EXCEPT ![u] = n] BY <2>1 DEF Begin
    <3>2. modems'[u] > 0 BY <1>2, <3>1
    <3> QED BY <3>2
  <2>2. CASE Skip(u)
    <3>1. u \notin EmptyRuns => modems'[u] > 0 BY <1>2, <2>2 DEF Skip
    <3> QED BY <3>1
  <2>3. CASE Updated(u) BY <2>3 DEF Updated, Failing
  <2>4. CASE Stop(u) \/ LockTaken(u) \/ LockWritten(u) \/ Chmod(u) \/ UpdateFailed(u) \/ End(u)
    BY <1>1, <1>2, <2>4 DEF Stop, LockTaken, LockWritten, Chmod, UpdateFailed, End
  <2> QED BY <1>3, <2>1, <2>2, <2>3, <2>4 DEF UpdaterStep
<1>11. Failing' BY <1>1, <1>5, <1>6, <1>9 DEF Failing
<1>12. Looked' BY <1>1, <1>5, <1>6, <1>10 DEF Looked, Left
<1> QED BY <1>7, <1>8, <1>11, <1>12

\* Steps of a ping or a periodic: it acts only when it has taken the lock.
LEMMA RebooterPInv ==
  ASSUME Excludes, PInv, NEW r \in Rebooters,
         \/ ActUnlocked(r) \/ RebooterStep(r) \/ PingLocks(r)
         \/ PeriodicWaits(r) \/ PeriodicLocks(r)
  PROVE  Shared' /\ Held' /\ Failing' /\ Looked'
<1> USE DEF PInv, IInv
<1>1. r \in Procs /\ r \notin Updaters /\ Updaters \subseteq Procs /\ Rebooters \subseteq Procs
  BY DEF Procs
<1>2. pc \in [Procs -> Labels] BY DEF TypeOK
<1>3. ~ActUnlocked(r) BY DEF ActUnlocked, Usable, Shared, CanOpen
<1>4. \A p \in Procs \ {r} : pc'[p] = pc[p]
  BY <1>1, <1>2 DEF RebooterStep, RebooterWrites, Restarted, RebooterUnlocks, ActUnlocked,
                    PingLocks, PeriodicWaits, PeriodicLocks
<1>5. modems' = modems /\ locked' = locked
  BY DEF RebooterStep, RebooterWrites, Restarted, RebooterUnlocks, ActUnlocked,
         PingLocks, PeriodicWaits, PeriodicLocks
<1>6. Shared'
  <2>1. \/ file' = file
        \/ Take(r) \/ WritePid(r) \/ Unlock(r)
    BY DEF RebooterStep, RebooterWrites, Restarted, RebooterUnlocks, ActUnlocked,
           PingLocks, PeriodicWaits, PeriodicLocks
  <2> QED BY <1>1, <2>1, AppletShared DEF Shared
<1>7. Failing' /\ Looked'
  BY <1>1, <1>4, <1>5 DEF Failing, Looked, Left
<1>8. Held'
  <2>1. CASE Take(r) /\ pc' = [pc EXCEPT ![r] = "write"]
    <3>1. \A q \in Rebooters \ {r} : pc'[q] \notin {"write", "act", "unlock"}
      BY <1>1, <1>4, <2>1 DEF Held, Take
    <3> QED BY <2>1, <3>1 DEF Held, Take
  <2>2. CASE RebooterWrites(r) \/ Restarted(r)
    <3>1. holder = r /\ holder' = r
      BY <2>2 DEF RebooterWrites, WritePid, Restarted, Held
    <3>2. \A q \in Rebooters \ {r} : pc'[q] = pc[q] BY <1>1, <1>4
    <3> QED BY <3>1, <3>2 DEF Held
  <2>3. CASE RebooterUnlocks(r)
    <3>1. holder = r BY <2>3 DEF RebooterUnlocks, Held
    <3>2. pc'[r] = "off" BY <1>1, <1>2, <2>3 DEF RebooterUnlocks
    <3>3. \A q \in Rebooters \ {r} : pc'[q] \notin {"write", "act", "unlock"}
      BY <1>1, <1>4, <3>1 DEF Held
    <3> QED BY <3>2, <3>3 DEF Held
  <2>4. CASE UNCHANGED <<holder, pc>> BY <2>4 DEF Held
  <2>5. CASE PeriodicWaits(r)
    <3>1. pc'[r] = "lock" /\ holder' = holder BY <1>1, <1>2, <2>5 DEF PeriodicWaits
    <3> QED BY <1>1, <1>4, <3>1 DEF Held
  <2> QED BY <1>3, <2>1, <2>2, <2>3, <2>4, <2>5 DEF RebooterStep, PingLocks, PeriodicLocks
<1> QED BY <1>6, <1>7, <1>8

\* The death of a script, its helper keeping the lock, and what becomes of the
\* lock command it has left.
LEMMA DeathPInv ==
  ASSUME PInv, NEW p \in Procs, Kill(p) \/ OrphanLocks(p) \/ OrphanEnds(p)
  PROVE  Shared' /\ Held' /\ Failing' /\ Looked'
<1> USE DEF PInv, IInv
<1>1. Updaters \subseteq Procs /\ Rebooters \subseteq Procs BY DEF Procs
<1>2. pc'[p] \in Gone /\ \A q \in Procs \ {p} : pc'[q] = pc[q]
  BY DEF Kill, OrphanLocks, OrphanEnds, TypeOK, Gone
<1>3. \A u \in Updaters \ {p} : locked'[u] = locked[u] /\ modems'[u] = modems[u]
  BY DEF Kill, OrphanLocks, OrphanEnds, TypeOK
<1>4. \/ file' = file /\ holder' = holder
      \/ Take(p) \/ WritePid(p)
  BY DEF Kill, OrphanLocks, OrphanEnds
<1>5. Shared' BY <1>4, AppletShared DEF Shared
<1>6. Held'
  <2>1. \A r \in Rebooters : pc'[r] \in {"write", "act", "unlock"} =>
          pc[r] \in {"write", "act", "unlock"}
    BY <1>1, <1>2 DEF Gone
  <2>2. CASE Take(p)
    <3>1. \A r \in Rebooters : holder # r BY <1>1, <2>2 DEF Take
    <3> QED BY <2>1, <3>1 DEF Held
  <2>3. CASE holder' = holder BY <2>1, <2>3 DEF Held
  <2> QED BY <1>4, <2>2, <2>3 DEF WritePid
<1>7. Failing' BY <1>1, <1>2, <1>3 DEF Failing, Gone
<1>8. Looked' BY <1>1, <1>2, <1>3 DEF Looked, Left, Gone
<1> QED BY <1>5, <1>6, <1>7, <1>8

\* The whole next-state relation keeps PInv.
LEMMA NextPInv == ASSUME Excludes, PInv, [Next]_vars PROVE PInv'
<1>1. IInv' BY NextInv DEF PInv
<1> SUFFICES Shared' /\ Held' /\ Failing' /\ Looked' BY <1>1 DEF PInv
<1>2. ASSUME NEW u \in Updaters, Begin(u) \/ UpdaterStep(u)
      PROVE  Shared' /\ Held' /\ Failing' /\ Looked'
  BY <1>2, UpdaterPInv
<1>3. ASSUME NEW r \in Rebooters,
             \/ ActUnlocked(r) \/ RebooterStep(r) \/ PingLocks(r)
             \/ PeriodicWaits(r) \/ PeriodicLocks(r)
      PROVE  Shared' /\ Held' /\ Failing' /\ Looked'
  BY <1>3, RebooterPInv
<1>4. ASSUME NEW p \in Procs, Kill(p) \/ OrphanLocks(p) \/ OrphanEnds(p)
      PROVE  Shared' /\ Held' /\ Failing' /\ Looked'
  BY <1>4, DeathPInv
<1>5. \A r \in Rebooters : ~Reboot(r) BY DEF Excludes, Reboot
<1>6. Pings \subseteq Rebooters /\ Periodics \subseteq Rebooters BY DEF Rebooters
<1>7. CASE UNCHANGED vars
  <2>1. Shared' /\ Held' BY <1>7 DEF vars, PInv, Shared, Held
  <2>2. Failing' /\ Looked' BY <1>7 DEF vars, PInv, Failing, Looked, Left
  <2> QED BY <2>1, <2>2
<1>8. CASE Next
  <2>1. CASE \E u \in Updaters : Begin(u) \/ UpdaterStep(u) BY <1>2, <2>1
  <2>2. CASE \E r \in Rebooters : ActUnlocked(r) \/ RebooterStep(r) BY <1>3, <2>2
  <2>3. CASE \E r \in Pings : PingLocks(r) BY <1>3, <1>6, <2>3
  <2>4. CASE \E r \in Periodics : PeriodicWaits(r) \/ PeriodicLocks(r) BY <1>3, <1>6, <2>4
  <2>5. CASE \E p \in Procs : Kill(p) \/ OrphanLocks(p) \/ OrphanEnds(p) BY <1>4, <2>5
  <2> QED BY <1>5, <1>8, <2>1, <2>2, <2>3, <2>4, <2>5 DEF Next
<1> QED BY <1>7, <1>8

\* dfota:162, "Lock modem from being used": under the three conditions no script
\* restarts the modem while it is updated, whoever is killed.
THEOREM Exclusion == ASSUME Excludes PROVE Spec => []RestartExcludesUpdate
<1>1. Init => PInv BY InitPInv
<1>2. PInv /\ [Next]_vars => PInv' BY NextPInv
<1>3. PInv => RestartExcludesUpdate
  <2> SUFFICES ASSUME PInv, NEW u \in Updaters, NEW r \in Rebooters,
                      pc[u] = "update", pc[r] = "act"
               PROVE  FALSE
    BY DEF RestartExcludesUpdate
  <2>1. holder = u BY DEF PInv, IInv, Failing, HoldsWhileUpdating
  <2>2. holder = r BY DEF PInv, Held
  <2> QED BY <2>1, <2>2 DEF Procs
<1> QED BY <1>1, <1>2, <1>3, PTL DEF Spec

(***************************************************************************)
(* Under the same conditions, and as long as no script is killed, the lock *)
(* belongs to a script that is there, and the file names its helper.       *)
(***************************************************************************)
Lawful ==
  faults = 0 =>
    /\ \A p \in Procs : pc[p] \notin {"waits", "writes"}
    /\ holder # Nobody =>
         pc[holder] \notin Gone /\ (pc[holder] # "write" => file.pid = "current")

\* The holder's own "lock -u" frees the lock, anybody else's spares it or frees
\* it too: the file names no helper of the past while the lock is held.
LEMMA UnlockFrees ==
  ASSUME PInv, NEW p \in Procs, Unlock(p)
  PROVE  /\ holder = p /\ file.pid = "current" => holder' = Nobody
         /\ holder' = Nobody \/ (holder' = holder /\ file' = file)
<1>1. holder = p => Reaches(p)
  BY DEF Reaches, CanOpen, CanKill, PInv, Shared
<1> QED BY <1>1 DEF Unlock

\* Every step keeps the lock lawful.
LEMMA LawfulKept == ASSUME Excludes, PInv, Lawful, [Next]_vars PROVE Lawful'
<1> SUFFICES ASSUME faults' = 0 PROVE Lawful' BY DEF Lawful
<1>1. /\ pc \in [Procs -> Labels] /\ faults \in Nat
      /\ Nobody \notin Procs /\ holder \in Procs \cup {Nobody} /\ file \in Files
  BY DEF PInv, IInv, TypeOK
<1>2. \A p \in Procs : ~Kill(p)
  <2> SUFFICES ASSUME NEW p \in Procs, faults' = faults + 1 PROVE FALSE BY DEF Kill
  <2> QED BY <1>1
<1>3. \A r \in Rebooters : ~Reboot(r) BY DEF Excludes, Reboot
<1>4. faults = 0
  BY <1>1, <1>2, <1>3
  DEF Next, vars, Begin, UpdaterStep, Skip, Stop, LockTaken, LockWritten, LockFailed, Chmod, Updated,
      UpdateFailed, End, ActUnlocked, RebooterStep, RebooterWrites, Restarted, RebooterUnlocks,
      PingLocks, PeriodicWaits, PeriodicLocks, OrphanLocks, OrphanEnds
<1>5. /\ \A p \in Procs : pc[p] \notin {"waits", "writes"}
      /\ holder # Nobody =>
           pc[holder] \notin Gone /\ (pc[holder] # "write" => file.pid = "current")
  BY <1>4 DEF Lawful
<1>6. Updaters \subseteq Procs /\ Rebooters \subseteq Procs BY DEF Procs
\* A step of p that moves neither the lock nor the file nor p out of its run.
<1>7. ASSUME NEW p \in Procs, NEW l \in Labels \ Gone, pc' = [pc EXCEPT ![p] = l],
             holder' = holder, file'.pid = file.pid, holder = p => pc[p] # "write" /\ l # "write"
      PROVE  Lawful'
  BY <1>1, <1>5, <1>7 DEF Lawful, Gone
<1>8. ASSUME NEW p \in Procs, Take(p), pc' = [pc EXCEPT ![p] = "write"] PROVE Lawful'
  BY <1>1, <1>5, <1>8 DEF Lawful, Take, Gone
<1>9. ASSUME NEW p \in Procs, holder = p, WritePid(p), NEW l \in Labels \ Gone,
             pc' = [pc EXCEPT ![p] = l]
      PROVE  Lawful'
  <2>1. file'.pid = "current" /\ holder' = p BY <1>1, <1>9 DEF WritePid, Files
  <2> QED BY <1>1, <1>5, <1>9, <2>1 DEF Lawful, Gone
<1>10. ASSUME NEW p \in Procs, Unlock(p), pc[p] \notin {"off", "write"}, pc' = [pc EXCEPT ![p] = "off"]
       PROVE  Lawful'
  <2>1. holder = p => holder' = Nobody BY <1>1, <1>5, <1>10, UnlockFrees
  <2>2. holder' = Nobody \/ (holder' = holder /\ file' = file /\ holder # p)
    BY <1>1, <1>10, <2>1, UnlockFrees
  <2> QED BY <1>1, <1>5, <1>10, <2>2 DEF Lawful, Gone
<1>11. ASSUME UNCHANGED <<file, holder, pc>> PROVE Lawful'
  BY <1>5, <1>11 DEF Lawful
<1>12. ASSUME NEW u \in Updaters, Begin(u) \/ UpdaterStep(u) PROVE Lawful'
  <2>1. CASE Begin(u) \/ Stop(u) \/ Updated(u) \/ UpdateFailed(u)
    <3>1. \E l \in {"check", "lock", "end"} : pc' = [pc EXCEPT ![u] = l]
      BY <2>1 DEF Begin, Stop, Updated, UpdateFailed
    <3>2. pc[u] # "write" /\ holder' = holder /\ file' = file
      BY <2>1 DEF Begin, Stop, Updated, UpdateFailed
    <3> QED BY <1>6, <1>7, <3>1, <3>2 DEF Labels, Gone
  <2>2. CASE Skip(u) BY <1>11, <2>2 DEF Skip
  <2>3. CASE LockTaken(u) BY <1>6, <1>8, <2>3 DEF LockTaken
  <2>4. CASE LockWritten(u)
    <3>1. holder = u BY <2>4 DEF LockWritten, PInv, IInv, Failing, HoldsWhileUpdating
    <3> QED BY <1>6, <1>9, <2>4, <3>1 DEF LockWritten, Labels, Gone
  <2>5. CASE Chmod(u)
    <3>1. file'.pid = file.pid BY <1>1, <2>5 DEF Chmod, Files
    <3> QED BY <1>6, <1>7, <2>5, <3>1 DEF Chmod, Labels, Gone
  <2>6. CASE End(u) BY <1>6, <1>10, <2>6 DEF End
  <2>7. ~LockFailed(u) BY DEF LockFailed, PInv, Shared, CanOpen
  <2> QED BY <1>12, <2>1, <2>2, <2>3, <2>4, <2>5, <2>6, <2>7 DEF UpdaterStep
<1>13. ASSUME NEW r \in Rebooters,
              \/ ActUnlocked(r) \/ RebooterStep(r) \/ PingLocks(r)
              \/ PeriodicWaits(r) \/ PeriodicLocks(r)
       PROVE  Lawful'
  <2>1. ~ActUnlocked(r) BY DEF ActUnlocked, Usable, PInv, Shared, CanOpen
  <2>2. CASE RebooterWrites(r)
    <3>1. holder = r BY <2>2 DEF RebooterWrites, PInv, Held
    <3> QED BY <1>6, <1>9, <2>2, <3>1 DEF RebooterWrites, Labels, Gone
  <2>3. CASE Restarted(r) BY <1>6, <1>7, <2>3 DEF Restarted, Labels, Gone
  <2>4. CASE RebooterUnlocks(r) BY <1>6, <1>10, <2>4 DEF RebooterUnlocks
  <2>5. CASE PingLocks(r) BY <1>6, <1>8, <1>11, <2>5 DEF PingLocks
  <2>6. CASE PeriodicWaits(r)
    <3>1. pc[r] = "off" BY <2>6 DEF PeriodicWaits, Fire
    <3> QED BY <1>6, <1>7, <2>6, <3>1 DEF PeriodicWaits, Labels, Gone
  <2>7. CASE PeriodicLocks(r) BY <1>6, <1>8, <2>7 DEF PeriodicLocks
  <2> QED BY <1>13, <2>1, <2>2, <2>3, <2>4, <2>5, <2>6, <2>7 DEF RebooterStep
<1>14. \A p \in Procs : ~OrphanLocks(p) /\ ~OrphanEnds(p) BY <1>5 DEF OrphanLocks, OrphanEnds
<1>15. CASE UNCHANGED vars BY <1>11, <1>15 DEF vars
<1>16. CASE Next
  <2>1. Pings \subseteq Rebooters /\ Periodics \subseteq Rebooters BY DEF Rebooters
  <2> QED BY <1>2, <1>3, <1>12, <1>13, <1>14, <1>16, <2>1 DEF Next
<1> QED BY <1>15, <1>16

\* control_services start, unlock: once every script has ended the lock is free,
\* under the same conditions and unless a script was killed.
THEOREM LockFreed == ASSUME Excludes PROVE Spec => []LockLeftFree
<1>1. Init => PInv /\ Lawful
  <2> SUFFICES ASSUME Init PROVE PInv /\ Lawful OBVIOUS
  <2>1. PInv BY InitPInv
  <2>2. Lawful BY DEF Init, Lawful
  <2> QED BY <2>1, <2>2
<1>2. PInv /\ Lawful /\ [Next]_vars => (PInv /\ Lawful)' BY NextPInv, LawfulKept
<1>3. PInv /\ Lawful => LockLeftFree
  <2> SUFFICES ASSUME PInv, Lawful, \A p \in Procs : pc[p] = "off", faults = 0, holder # Nobody
               PROVE  FALSE
    BY DEF LockLeftFree
  <2>1. holder \in Procs BY DEF PInv, IInv, TypeOK
  <2> QED BY <2>1 DEF Lawful, Gone
<1> QED BY <1>1, <1>2, <1>3, PTL DEF Spec
=============================================================================
