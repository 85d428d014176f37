# Device services and drivers: a TLA+ verification project

This directory holds TLA+ models, TLC runs and TLAPS proofs about services that Teltonika adds to OpenWrt
on the RUT951, and about drivers of its platform. Paths are relative to `src/` of the repository root;
`V` stands for `package/feeds/vuci/vuci-app-package-manager-api/files/usr/lib/lua/vuci`
`T` for `package/teltonika`, `E` for `target/linux/ramips/files-5.15/drivers/net/ethernet/ralink/mtk_eth_soc.c`
and `N` for `target/linux/generic/files/drivers/mtd/nand`.

## Inventory

The repository is an OpenWrt SDK: a build system, kernel and bootloader targets, third-party packages, and,
below `package/feeds/vuci` and `package/teltonika`, the vendor's own programs. The last carry the
control logic of the product. The C code that is kept as source here, and not fetched when the SDK is built, is mostly drivers
of the kernel targets. The parts that keep state across calls and share it with others:

| Part | State | Operations | Talks to | What is hard | What makes it correct |
|---|---|---|---|---|---|
| Package queue, `V/opkg_multi.lua` | `/tmp/pkgman/package_queue`, `packages_status.json` | `start_multi_install`, `_remove`, `_upgrade`, the forked worker, `update_pkg_status_file`, `clear_net_restart_messages` | the multi lock, opkg, the restore list | callers and workers interleave on two files and two locks; the status file has no lock; death between truncation and write | each accepted job is executed once, in order, by somebody; the status tells the truth when all is done |
| Single-package calls, `V/opkg.lua`, `V/opkg_pkg.lua` | installed packages, restore list | online and offline install, remove, upgrade, upload | the same multi lock, the status file | non-blocking lock; an upgrade is a removal and an install | never beside a worker; no loss of a package |
| Helpers, `V/opkg_utils_common.lua` | locks, feeds, caches | `acquire_lock`, `test_lock`, `_trigger_pkg_event`, `_compare_versions` | everything above | reads the queue without its lock; order of versions on strings | the event tells the action; no downgrade |
| Package restore, `T/package_restore/bin/files/package_restore.lua` | `/etc/package_restore.txt`, failed list | reinstalls packages after a firmware upgrade | opkg, the package manager | a restart at any step; edits by the package manager meanwhile; waits without a bound | each package ends up restored, failed or removed |
| Modem update, `T/quectel/quectel_dfota/files/dfota` | the lock file, the modem | check, update, wait for the modem, end | the lock applet, procd, rpcd | runs as two users; a modem that does not come back; several modems | nobody restarts a modem that is being updated |
| Reboot scripts, `T/reboot_utils/bin/files` | fail counters, the lock file | ping, periodic and wireless reboot | dfota by the lock file, ubus, cron | locks that outlive their script; tests before use | as above; the action happens when due |
| Configuration profiles, `T/profiler/bin/files/profile.sh` | archives, the profile in use | create, update, change, remove | uci, the scheduler | no locking; an archive is deleted before it is written anew | the profile in use always has its archive |
| SIM idle protection, `T/sim_idle_protection/bin/files` | the SIM in use before the call, a lock per modem | switch to the idle SIM, connect, ping, switch back | mobifd, cron | waits for connections, errors between the two switches, calls that wait for each other | the SIM in use before comes back |
| Ethernet driver, `E` | transmit ring, NAPI, interrupt mask, queue state, reset flag | `fe_start_xmit`, `fe_poll`, `fe_handle_irq`, `fe_open`, `fe_stop`, `fe_tx_timeout`, `fe_reset_pending` | the hardware by registers and descriptors, the stack by its locks | interrupt, softirq, transmit and work contexts without a common lock; a reset of a device in use | no slot used twice; the queue is always woken; nothing touches a ring that is gone |
| Bad block management, `N/mtk_bmt.c`, `mtk_bmt_v2.c` | the mapping and pool tables, in memory and in one block | read, write, erase, test and mark, remap, `upload_bmt`, init | the NAND driver below, MTD users above | every access may fail; power cuts; one copy of the table | a mapping is one-to-one; what was written can be read |
| Reverse lookups, `package/libs/rpcd-mod-rrdns/src/src/rrdns.c` | a lookup's list, requests by identifier and by address | lookup, answer, timeout | rpcd by ubus, a name server by UDP | lost, repeated and colliding answers | one reply to each lookup, each name at its address |
| Counters and buttons, `package/kernel/pulse-counter`, `gpio-button-hotplug` | counters, debounce timers | interrupt, timer, read | procfs, uevents | interrupt against timer and reader | no pulse lost or counted twice |
| mwan3, dot1x, network services | interface state | tracking, hotplug | netifd, hostapd | changed third-party code | interface state follows the trackers |

`PROJECT.json` lists them with what is and what is not modelled, and under `hazards` each place where the
code is hard to test.

Not modelled at all: build system, toolchain, boot loader and third-party packages (not the vendor's
program), code that only generates configuration, and the modem daemon with its library (`T/gsm`), a large program
that deserves a project of its own.

## Modules

```
PkgWork            what the queue promises                  (abstract)
PkgQueue           the queue and what shares its locks and files
  MCPkgQueue       instances for TLC
  PkgQueueProofs   theorems: the queue, its locks, its order
  PkgWorkProofs    theorems: the queue implements PkgWork
  PkgStatusProofs  theorem: the status file settles
ModemLock          the lock file between dfota and the reboot scripts
  MCModemLock      instances for TLC
  ModemLockProofs  theorems
FeEth              the Ethernet driver's transmit ring and its life cycle
  FeEthProofs      theorems
FlashStore         what the flash promises its users        (abstract)
Bmt                bad block management of the NAND flash
  BmtProofs        theorems: the mapping, the tables, the data
  BmtStoreProofs   theorem: the driver implements FlashStore
RrDns              a reverse DNS lookup
  RrDnsProofs      theorems
MCDrivers          FeEth, Bmt and RrDns side by side, instances for TLC
```

### PkgQueue

One module holds callers, workers, single-package calls and the clearing of restart messages because they
only meet in shared files and locks. It corresponds to the code as follows.

* `queue` is the queue file, top line first. Callers write **above** (`Enqueue`, `opkg_multi.lua:308-326`) and
  workers take the **last** line (`WStart`, `WDrop`, `WCommit`, 345-411). The multi lock and the lock on the queue file are
  `multi` and `qlock`. A caller holds `qlock` for one atomic step, since nobody can see the file between.
  The worker's two steps under it, `WDrop` and `WCommit`, have status updates in between.
* `status` is the status file. `update_pkg_status_file` is three steps, `StatusLoad`, `StatusTruncate` and
  `StatusStore`, as the code reads the file, opens it with `"w"` and writes it. `io`, `seen` and `upd` are the
  progress of a process inside. An entry is its type; messages and source are one bit, "has other
  information", which decides whether the entry of an installed package is removed (199-207).
* `installed` and `pending` are the outcomes of opkg and of edits of the restore list. opkg is a choice between
  success and failure (`InstallOutcomes`, `RemoveOutcomes`); size, architecture and firmware checks are one refusal.
* A fork connects a caller with a worker that is off. A caller never waits for its worker.
* `WError` is an error inside the worker's `pcall`, `Crash` the death of any process: locks are dropped by the kernel,
  files keep what has been written, and a worker that dies while it writes the queue file may leave it empty.
* `ticket`, `issued` and `overlap` are history: the number of a job, and whether two status updates overlapped.

`PkgWork` says what callers may rely on: a list of jobs, executed from its head, one at a time; `Abort` and `Lose` are
what faults may do to it. `PkgQueue` refines it by reading the file from the bottom; a job is in execution from the
moment its status is written until the file is written without it.

### ModemLock

`lock F` (`package/utils/busybox/patches/220-add_lock_util.patch`) opens or creates `F`, takes its flock, and leaves a
helper process that keeps the flock; then it writes the helper's pid to the file. `lock -u F` sends SIGTERM to the pid it finds there, whoever asks:
it works if the caller may read the file and signal the helper. So correctness of the lock rests on users and file modes, and both are in the model.

* `file` is the lock file (whether it exists, is readable for group `lock`, its owner, and whether its pid is that of the
  current helper, of a dead one, or missing), `holder` the process whose helper has the flock.
* `Take` is `do_lock` up to the flock and `WritePid` the rest. Between the two the file names an old helper or none.
  `Unlock` is `do_unlock`. In an empty file `fscanf` leaves its variable uninitialised: the signal may or may not hit the helper.
* `Begin` to `End` are a run of dfota. A run looks at its modems one by one (`Skip`), takes the lock before each
  update (`Stop`, `LockTaken`, `LockWritten`, `Chmod`), and unlocks once at its end whether or not it has locked. The status of the lock
  command is not looked at (`LockFailed`).
* A ping tries the lock and gives up; a periodic reboot waits. Both act without a lock when the file is missing or not
  accessible, and both end with `lock -u`.
* `Kill` is a script killed by `stop_service` or procd. Its helper lives on; a lock command it was waiting for does too
  and takes the lock later (`OrphanLocks`, `OrphanEnds`).
* `Reboot` clears `/var`, a tmpfs.

Left out: what an update does to the modem (it succeeds or fails), `modem_trackd`, notifications, fail counters of
ping_reboot, and `wireless_reboot`, which does not use the lock.

### FeEth

The ring is four indices, `free` (oldest slot), `dtx` (the hardware's place), `ctx` (the doorbell) and `next`, and `buf`, what
`tx_buf[i].skb` is: nothing, part of a packet, or its last slot. A context that another may interrupt is split at each read or write the
other can see:

* transmission (`XmitMap` to `XmitBell`) under the stack's transmit lock: mapping, stop, second test, doorbell. `batch` is the stack's
  run of packets with `xmit_more`, `full` remembers a packet that did not fit;
* the hardware (`HwSend`, `HwReceive`) and the interrupt (`IrqSchedule`, `IrqRefused`);
* the poll (`PollBegin` to `PollEnable`): status, reaping, second read of the index, acknowledge, completion, wake, receive, end. Reaping
  is one step, as only the poll writes `free` and a slot behind `dtx` is nobody else's;
* the watchdog and its work item (`TxTimeout`, `Work`, `ResetBegin`), closing and opening (`CloseBegin`, `OpenBegin`), and `fe_stop` and
  `fe_open` step by step under the rtnl lock (`ctl`, `who`).

External, modelled from how the driver uses them: the DMA engine sends in order up to the doorbell; `napi_complete_done` polls once more if
a schedule was missed; `napi_disable` waits for the instance to be idle; the stack does not call the driver while the queue
is stopped or the device deactivated; `dev_close` deactivates before it calls `fe_stop`.
`late` remembers what a poll did after `fe_stop` had undone it.

Left out: `fe_change_mtu`, which on this router's SoC returns at line 1443, as only rt2880 and rt3883 set `FE_FLAG_JUMBO_FRAME`. It is not like a
reset: when its `fe_open` fails it returns the error without `dev_close` (1475), and the device stays up with its NAPI instance disabled, so
`NoHangWhileUp` and `Wakes` are not claimed for those two. Further left out are contents of descriptors, addresses in the receive ring and memory
failing there, VLAN and checksum bits, statistics, the end of DMA that `fe_stop` waits for (1310-1317; the model's hardware stops at once), and that
`fe_cal_txd_req` counts the slots `fe_tx_map_dma` will use: a packet takes as many as were counted.

### Bmt

`flash[b][p]` is the logical block whose current data a page holds, or `None` for an erased page, `Half` for one a user was told could not be
written, and `Junk` for what is nobody's current data: an old copy, a table, or two writes on top of each other (`Over`). `bbTbl`, `bmtTbl` and `blkIdx` are the tables in memory, `table[b]` a
table stored in a block with its signature (`whole`, `torn` or `none`). An access of a caller is one step (`Write`, `Erase`, ...) or a
failure of it that starts a replacement: `Remap` picks a block of the pool, erases it and copies, `UploadErase` and `UploadProgram` write the
table, and `again` repeats the access. An erase that fails may have got at any of the pages (`Left`), and a table in the block may still be there, or part of it
(`Remains`): that goes for the erase of a user (`EraseFails`), which may be given up with the old block mapped and readable, for the table's block
(`UploadEraseFails`), and for the new block in `Remap`, where nobody looks at the result (`mtk_bmt_v2.c:270`) and the copy then writes over what is left. `upload_bmt` tries earlier pool entries when a block fails (`NextPlace`). `PowerFails` is possible in every
state; `Boot` is `mtk_bmt_init_v2`: the foremost table that can be read, or a new scan (`Rescan`).

History says what was lost and why: `written` is what a reader may expect, `hurt` the logical blocks whose copy broke off, `raw` those that lie on
what could not be erased (the erase failed, or the new block still held pages when it was filled), until they are erased, and `why`
the causes for which a later boot may not find the current table: the table has moved (`worn`), the power failed while it was rewritten (`window`), or
it could not be read (`unread`).

`FlashStore` says what a user may rely on: of each page of a block, whether a reader gets its data, an erased page or junk (`read`). Only a write and an
erase of that block change it (`WritePage`, `FailWrite`, `EraseBlock`, `FailErase`), and its replacement (`TakeOver`), which without damage leaves out just a page whose write
had failed, and after a copy that broke off (`Harm`) keeps the pages before the break. A block is spoiled when it or its replacement could not be erased: the
replacement may then hold anything (`TakeOverSpoiled`). And the flash may lose track of its blocks (`LoseTrack`): from then on nothing is promised. `Bmt`
refines it by where a block is read from (`Home`): the mapping in memory, but for a block being replaced the old one until
the new table is written, and without power the mapping the next start will find.

Left out: the spare (OOB) bytes of a page, which `bbt_nand_copy` leaves behind (it writes with an `ooblen` of 0 and sets it after the write, on a variable of
that turn of the loop, `mtk_bmt.c:42-63`), so that nothing is said of OOB data stored through `mtk_bmt_write`; a second write to a page whose write was given
up, which no user of an MTD makes before an erase; debugfs (`debug`, repair, mark), ranges without remapping, a good block that cannot be read during a scan (the driver takes it for bad),
callers at the same time (the driver has no lock and one `data_buf`; MTD users are taken to come one after the other), what the
driver does once `bmt_blk_idx` is (u16)-1 or a torn table was accepted (step `beyond`), and the algorithms of `mtk_bmt_bbt.c` and
`mtk_bmt_nmbm.c`, which other boards use.

### RrDns

One lookup: `list` is what is left of the addresses, `byId` the tree of outstanding identifiers, `byAddr` that of
addresses, `wire` (history) every query sent. `NextQuery` has an outcome for each return of `rrdns_next_query`; `Answer` takes any query ever
sent, so answers are lost, repeated and reordered; `Stray` is what does not match or is too short. Lookups share nothing, so one is enough.
Left out: the wait for memory or a socket in `rpc_rrdns_lookup` (the call fails there and keeps no state), and the text of names.

## Runs

| Run | Question | Bounds |
|---|---|---|
| `core` | Does the queue refine `PkgWork` without faults? Types, one executor, executed line is last, order, no lost wakeup | 2 callers, 2 workers, 1 application, 3 jobs of install and remove |
| `singles` | Is the multi lock exclusive beside single calls, and does the status settle? | 1 caller, 1 worker, 1 single call of each of 5 kinds, 1 clearing, 2 applications, 1 job |
| `faults` | What can an error, crash or failed fork break? | 1 caller, 2 workers, 2 applications, requests of 1 or 2 packages, 3 jobs, 1 fault |
| `live` | Is every job handled? | 2 callers, 2 workers, upgrades, 1 upload, 2 jobs, no fault |
| `event`, `entry` | two comments the code contradicts (below) | 2 callers, 2 workers, 2 jobs |
| `modem_any` | Does an update keep its lock whatever happens? | runs as root and dfota, 2 pings, 1 periodic, 2 modems, 4 runs, 2 kills, reboots |
| `modem_present` | Do restarts and updates exclude each other, is the lock given back, do runs end? | the same scripts, lock file there, 1 modem, 5 runs, no kill or reboot |
| `modem_absent`, `modem_second` | two failures of the lock (below) | 3 and 2 runs |
| `drivers` | Are ring, queue, doorbell and interrupt right through polls, closes and resets; is the mapping of the flash one-to-one and what was written still there, and does the driver refine `FlashStore`? | ring of 4, threshold 2, packets of 1 or 2 slots, budget 1, no reception; 5 blocks of 2 pages, 2 of them logical, 1 bad from the factory, 2 failing accesses, 1 retry |
| `drivers_live` | Is a stopped queue woken and every lookup replied to; are a lookup's limit, end and names right; does the flash keep its data, and its promise, through a third failure? | ring of 2, packets of 1 slot, 1 received frame; 2 addresses, 2 identifiers, lists up to 3, limit up to 2; 4 blocks of 1 page, 1 of them logical, 1 bad from the factory, 3 failing accesses, no retry |

Why the bounds are enough: the hazards of the queue need one job in execution, one behind it and one arriving; two callers that
both fork; and two workers of which one finds the queue already emptied. Three jobs give all of these. With one
application every job concerns the same package, which is the case in which statuses and events collide; two
applications add a status update that carries entries of another package. The hazards of the lock need
one update, one script with the lock and one without; the runs have one more of each kind. Callers are interchangeable and so
are workers, hence the symmetry in the runs of safety properties; `live` and the runs of `ModemLock` have none.
`MCDrivers` puts three modules with no common state into one specification: `focus` says which one moves in a behaviour, so
their state spaces are added and not multiplied. A ring of four is the smallest in which the threshold, a packet of two slots and the
free slot all differ; a budget of one makes every poll with two packets run out of it. Five blocks leave a pool of two or three: one to copy
to and one or two for the table, so that it runs out; two failures are enough for an access and its copy, or the erase of its new block, to fail in one
replacement. The three failures of `drivers_live`, on the smallest flash with a pool of three, give the case in which a block was filled by a replacement that a power cut
undid, is picked again for a second one, and cannot be erased. Ring, pool and lists of any size are covered by the proofs.
Deadlock is not checked: runs stop at their bounds, a device may stay closed, a flash may fail for good.

What passing runs show: the executed line is always the one dropped; the order of calls is kept through both reversals; without faults
no accepted job is left without a worker; a fault can break off a job or, in the one window where the queue file is
truncated, lose all of them, but cannot make a stale line be executed; jobs left behind by a worker that failed or died
wait for the next call, also those of a caller that had seen its lock and only appended (`opkg_multi.lua:326`); the status file settles **provided** no two updates of it
overlap. An update of a modem keeps its lock against all scripts; restarts are kept out only under the conditions named
under *Proofs*. The ring is never overrun and no queue is forgotten over an empty ring, save that of a packet that did not fit, which waits for the
watchdog; a poll that is not yet over when `fe_stop` begins is the one way in which a stopped queue or a masked interrupt comes back.
Logical blocks never share a physical one, and data outlives failures and power cuts except for the causes in `hurt`, `raw` and `why`: a copy that broke off, an erase
that failed, the loss of the only table. A damaged block keeps the pages copied before the break. Until the table is lost, data of the past is read only of a block that could not be erased, or whose
replacement could not be, and only until it is erased. The flash may be harmed by nothing but a failing access to the block itself or its replacement: no other block is touched.

What violations show:

* `event`: `opkg_utils_common.lua:372` skips the first line of the package "because it is the one currently being executed". It is the last.
* `entry`: `opkg_multi.lua:206` says the entry of an installed package is removed. A caller that read the status file before the
  worker wrote it writes the entry back, and the package is shown as being installed for good.
* `modem_absent`: until dfota has created the lock file and changed its mode, the reboot scripts act without a lock, and a
  restart overlaps an update. `/var` is empty after each boot.
* `modem_second`: a run that updates one modem and comes to a second waits for the helper it has left itself.

### Fairness

`PkgQueue!Fairness` is weak fairness of each process's own steps once it has started a call: a process that can go on
does. Nobody has to start a call. A worker that waits for the multi lock is served because uploads are bounded; the code's
blocking `lockf` gives no more. Faults are not fair, and `Handled` is checked without them.

`ModemLock!Fairness` is weak fairness of each script's steps: a script that can go on does, ubus calls return, and the
modem comes back after an update. The last is an assumption: `track_update_status` waits without a bound.
A waiting `lock` is only weakly fair: `RunEnds` holds because scripts give back the lock and the number of runs is bounded.

`FeEth!FeFairness` is weak fairness of contexts the kernel runs to their end (the transmit function, softirq, work item, holder of the
rtnl lock), of an interrupt that is let through, and of the watchdog's timer. Nothing is assumed of the hardware: `Wakes` holds even if it stops
sending. `RrDns!DnsFairness` is weak fairness of the loop of the lookup and of uloop's timer; answers are not fair. `Bmt` has no liveness:
its operations are calls that return.

## Proofs

All theorems hold for every value of the constants that satisfies the named assumptions of the modules.

**PkgQueueProofs.** Assumptions: the sets of processes are disjoint, requests are nonempty sequences of applications, the actions are known ones.
`HeadIsExecuting` is not inductive: that a caller leaves the last line alone needs that the queue is not empty while
a worker executes, and that a worker about to write drops just that line needs that it alone holds the queue's lock and that its copy
is still the file. `IInv` adds `MultiOwner` (who is inside holds the multi lock) and `QueueOwner` (who commits
holds the file's lock and has the file's lines without the last). Each action has a lemma; `Quiet` does those that leave the
queue and the locks alone. From `IInv` follow

* `TypeCorrect`, `MutualExclusion` (`OneExecutor`), `DropsWhatItExecuted` (`HeadIsExecuting`), `KeepsOrder` (`InOrder`);
* `LeavesFromTheEnd` (`JobsLeaveFromTheEnd`): every step that shortens the queue drops the last line under both locks, or is
  a crash that empties the file.

**ModemLockProofs.** Assumptions: updaters and reboot scripts are disjoint, and the user of the scripts is neither root nor
the user of an update. `IInv` adds `Cleared` and `Looking` to types, one run at a time and "who has locked holds".
The core is `UnlockSpares`: `lock -u` of a script does not reach an update's helper since its user may not signal it, and that of
another run cannot be there.

* `UpdateKeepsLock` (`HoldsWhileUpdating`) and `SingleUpdate` (`OneUpdater`), whatever is killed or rebooted;
* `Exclusion` (`RestartExcludesUpdate`), under `Excludes`: the lock file is there from the start, no script
  reboots the router, and runs that find nothing to update are not root's. `PInv` adds that a restart only runs under the lock (`Held`) and that a run that
  unlocks as root has locked (`Failing`, `Looked`). Each condition is needed: `modem_absent` shows the first; a
  reboot takes the file away; and a run of root that finds nothing kills the helper of a restart in progress.

* `LockFreed` (`LockLeftFree`), under `Excludes`: the lock is free when all scripts have ended and none was killed; `Lawful` says that
  the holder is a script that is still there, and that the file names its helper.

`NothingForgotten` (`NoLostWakeup`) of PkgQueueProofs needs that a non-empty queue, without faults, always has a worker that will still look at
it or a caller that is about to fork one (`AttendedStep`).

**PkgWorkProofs.** `ImplementsFaultyWork` (`FaultyWork`) and `ImplementsReliableWork` (`ReliableWork`, if no process ever fails). The work list is the queue read from its last
line, and the running job that of the worker that executes, or the last line while a worker is about to drop it (`RunningJob`). The lemmas on `Reversed` say what lines
written above, and a last line dropped, are in the list. Each step is one of five kinds: it leaves list and running job alone (`Stands`), accepts, begins, finishes, or breaks
off (`Accepts`, `Begins`, `Finishes`, `BreaksOff`), and only steps that count a fault break off. From `IInv` follows that a
worker that executes or commits has the last line in its hands (`RunsTheLast`); besides it the proof needs that a caller that writes has jobs to write (`AsksForJobs`).

**PkgStatusProofs.** `StatusesSettle` (`StatusSettles`). `SInv` says of runs without faults:

* `UpdatesFit`: what a process inside `update_pkg_status_file` may write. A caller writes of the packages it is about to queue, a
  single call an outcome, a worker of the package of the last line, and after the execution an action in progress only if
  a line above has the same package;
* `MarkedAreOwed`: while no two updates overlapped and at most one process will overwrite the file with what it has read (`OneWriter`), an
  application marked as in progress, in the file, in a copy that will be written back or in an update to come, is owed a final
  status: a caller is about to queue it, or a line has it that no worker is about to drop (`Owed`).

A quiescent system owes nothing, so nothing is marked. `OneWriter` is needed since `overlap` is recorded when one of the two opens the file for writing, not when both have read it. TLC finds no
violation of `SInv` in the instances of `core`, `entry`, `faults` and `singles`.

**FeEthProofs.** Assumption: the ring has at least two slots and a threshold below its size. `FeInv` is needed in this form because
the order of the ring cannot be kept without knowing who may touch it:

* `Control`: who owns the rings, and what the NAPI instance can be, at each step of opening and stopping; `Masked`, `KeptStopped`: a poll that has
  not ended is the one that changes mask or queue later (`late`);
* `RingInv`: `RingOrder`, an unallocated ring is empty, and the slot before `next` ends a packet, so the hardware never sends half of one;
* `Told`: completions are counted only between reaping and `netdev_completed_queue`; `Woken`: a queue stopped for lack of slots has packets in
  the ring, or a poll that is about to test it.

From it follow the eight invariants of `drivers` about the driver: `FeTypeCorrect`, `RingStaysOrdered`, `QueueStaysBalanced`, `NoQueueStuck`,
`DoorbellAlwaysRung`, `RingOutOfReach`, `OffStaysQuiet`, `StopEnds`.

**BmtProofs.** Assumption: a logical block and three more. `NoAlias` alone is not inductive: `Sound` says of a pair of tables that mapped blocks are distinct and that a pool
block is mapped only if its entry is used; it must hold of the tables in memory **and** of every table stored (`Stored`), as a boot may load any of
them. `Filled` says that entries an upload may still try have blocks. From `BmtInv` follow `BmtTypeCorrect`, `MappingIsOneToOne` and `TablesAvoidData`.

`DataSurvives` (`Intact`) adds, page by page, `Kept` (each block that is neither `hurt` nor `raw` lies where a mapping says, `Whole`), `Copying` (a replacement copies all that
was written, and for a failed write no more than that), `Fresh` (the write that is tried again finds its page erased) and `Recorded`, where the tables are: nothing was
written yet (`Unwritten`); one block holds the current tables and a boot finds them there (`Settled`); they are being rewritten
(`Rewriting`); or the pool has a single block (`Lone`). In the last case `bmt_blk_idx` is 0, which `get_bmt_index` also returns
for "not found", and every boot makes the tables anew. It makes the same mapping: nothing can be replaced, as `find_valid_block_in_pool` looks
below entry 0, and a block marked bad since is missing in the scan, which then finds too few blocks and fails (`ScanLoses`, `LoneMarked`).

**BmtStoreProofs.** `ImplementsStore` (`KeepsItsPromise`): every behaviour of `Bmt` is one of `FlashStore` (`Store!StoreSpec`, which `KeepsItsPromise` writes so that
TLC looks first whether the driver has moved at all). It says more than `Intact`, which speaks of
whole blocks in two steps of the driver: it relates what is read before and after **each** step, in every step and for damaged and spoiled blocks too. The
invariant is `StoreInv`, on top of that of `DataSurvives`:

* `OldApart`: while a replacement is recorded, the block it replaces is no place for the table;
* `Copied`: the new block holds what the old one does, but for a page whose write had failed, or, if the copy broke off, its first pages; nothing is said of a new block
  that could not be erased;
* `Behind`: the stored table differs from the mapping in memory by the replacement alone, so a power cut between the copy and the new
  table goes back to the old block, which still has everything.

Each kind of step has two lemmas: it keeps the invariant (`AccessStore`, `RemapStore`, `UploadStore`, `BootStore`), and it is a step of `FlashStore` or is not
seen (`AccessUses`, `RemapUses`, `UploadUses`, `BootUses`). TLC checks `KeepsItsPromise` in `drivers` and `drivers_live`.

**RrDnsProofs.** Assumption: `BadAddr` is no address and identifiers are finite. `DnsInv` adds that every outstanding identifier was sent for its address (`Sent`), and
that while addresses are left and nothing has failed the window is full (`FullWindow`): from it follow `WindowKept`, `EndsComplete`
and `NamesUnmixed`; the last two state what identifiers that collide, or a query that was not made, cost.

Only model-checked: the liveness properties `Handled`, `RunEnds`, `Wakes` and `Replied`, since liveness under fairness is out of the
prover's reach. Every other property of a passing run is a theorem.

## Plan

1. Done: `PkgWork`, `PkgQueue`, `ModemLock`, `FeEth`, `FlashStore`, `Bmt`, `RrDns`, their runs, the proofs of their safety invariants and
   of both refinements.
2. `PkgRestore`: the restore process and its list, with restarts between any two steps, composed with the edits the package
   manager makes to the same list (`_remove_pkg_from_pkg_restore`). Property: no package is both pending and installed when the process ends.
3. `PkgVersion`: `_version_split` and `_compare_versions` as functions, against the numeric order of versions.
4. `Profiles`: create, update, change and remove against archives and the profile in use, with interruption between
   the removal of an archive and its replacement, and two calls at once; the counters of `ping_reboot`, in the style of `ModemLock`.

The map covers a small share of the repository's C code. Nearly all of that is third-party code or tables of constants (boot loaders, register headers,
generated lexers and parsers, libraries), where a model would say nothing of this product.
