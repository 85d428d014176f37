------------------------------- MODULE FeEth -------------------------------
(***************************************************************************)
(* The Ethernet driver of the router's SoC (mtk_eth_soc.c): a ring of      *)
(* transmit descriptors shared by the transmit function, the hardware and  *)
(* the NAPI poll, the interrupt of both directions, the stopping and       *)
(* waking of the transmit queue, the watchdog, and the opening, closing    *)
(* and resetting of the device.  Every read or write one context makes and *)
(* another may come in between is an action of its own.                    *)
(***************************************************************************)
EXTENDS Integers, FiniteSets

CONSTANTS
  RingSize,   \* tx_ring_size
  Thresh,     \* tx_thresh: the queue is stopped with this many slots or less
  Needs,      \* the numbers of descriptors a packet may take
  RxSize,     \* rx_ring_size: frames the hardware may have received ahead
  Budget      \* the NAPI weight

ASSUME RingAssumption ==
  /\ RingSize \in Nat /\ RingSize > 1
  /\ Thresh \in Nat /\ Thresh < RingSize
  /\ Needs \subseteq Nat \ {0}
  /\ RxSize \in Nat
  /\ Budget \in Nat \ {0}

VARIABLES
  next, free,      \* tx_next_idx, tx_free_idx: where the next packet goes, the oldest slot
  ctx, dtx,        \* registers TX_CTX_IDX0 (the doorbell) and TX_DTX_IDX0 (the hardware's place)
  buf,             \* tx_buf[i].skb: "none", "part" (DMA_DUMMY_DESC) or "last" (the packet)
  ringUp,          \* the rings are allocated
  dma,             \* the hardware works on them
  stopped,         \* the driver has stopped the queue (netif_stop_queue)
  xmit,            \* where fe_start_xmit is; "oops": it used a ring that is gone
  more,            \* netdev_xmit_more() of the packet being sent
  batch,           \* the stack's batch: "none", "open" (another packet follows), "broken"
  full,            \* history: the queue was stopped because a packet did not fit
  queued,          \* packets netdev_sent_queue has counted and netdev_completed_queue has not
  rx,              \* received frames in the receive ring
  status, enabled, \* FE_INT_STATUS and whether FE_INT_ENABLE lets it through
  napi, missed,    \* the NAPI instance: "idle", "sched" or "off", and its MISSED bit
  poll,            \* where fe_poll is
  rxAsked, again, done,  \* its locals: receive interrupt seen, budget used up, packets completed
  ctl, who,        \* where the holder of the rtnl lock is, and what it does
  up,              \* the stack may transmit (between dev_activate and dev_deactivate)
  pending, worker, \* FE_FLAG_RESET_PENDING and the work item
  late             \* history: what a poll did after fe_stop had undone it

txVars == <<next, buf, queued, xmit, more, batch, full>>
hwVars == <<dtx, rx, status>>
pollVars == <<poll, rxAsked, again, done>>
irqVars == <<enabled, napi, missed>>
ctlVars == <<ctl, who, up, ringUp, dma>>
workVars == <<pending, worker>>
feVars == <<txVars, hwVars, pollVars, irqVars, ctlVars, workVars,
            free, ctx, stopped, late>>

Slots == 0..(RingSize - 1)

\* Mutant of Slot: the indices never wrap.
SlotNoWrap(i, k) == i + k

(* NEXT_TX_DESP_IDX, k times.                                              *)
Slot(i, k) == IF i + k >= RingSize THEN i + k - RingSize ELSE i + k

(* The slots from a up to, and without, b: (b - a) & (tx_ring_size - 1).   *)
Ahead(a, b) == IF b >= a THEN b - a ELSE b - a + RingSize

\* Mutant of Empty: off by one.
EmptyOneMore == RingSize - Ahead(free, next) + 1

(* fe_empty_txd.                                                           *)
Empty == RingSize - Ahead(free, next)

(* The slot lies k places behind slot a, and k < n.                        *)
Within(i, a, n) == Ahead(a, i) < n

-----------------------------------------------------------------------------
(* Transmission.  The stack holds the transmit lock for a whole batch and  *)
(* calls fe_start_xmit only while the queue is not stopped.                *)

(* Nobody is inside the transmit lock.                                     *)
TxQuiet == xmit = "idle" /\ batch # "open"

CanXmit == xmit = "idle" /\ up /\ ~stopped

(* The stack ends a batch; what it has promised the hardware is still owed.*)
BatchEnd == IF ctx # next THEN "broken" ELSE "none"

(* fe_start_xmit finds room and fe_tx_map_dma fills the packet's slots.    *)
XmitMap == \E n \in Needs, m \in BOOLEAN :
  /\ CanXmit /\ ringUp /\ Empty > n
  /\ buf' = [i \in Slots |-> IF ~Within(i, next, n) THEN buf[i]
                             ELSE IF i = Slot(next, n - 1) THEN "last" ELSE "part"]
  /\ next' = Slot(next, n)
  /\ queued' = queued + 1
  /\ more' = m
  /\ xmit' = "mapped"
  /\ UNCHANGED <<batch, full, hwVars, pollVars, irqVars, ctlVars, workVars,
                 free, ctx, stopped, late>>

(* The packet cannot be mapped (or padded): it is dropped and counted as   *)
(* sent.                                                                   *)
XmitDrop == \E n \in Needs, m \in BOOLEAN :
  /\ CanXmit /\ ringUp /\ Empty > n
  /\ batch' = IF m THEN "open" ELSE BatchEnd
  /\ UNCHANGED <<next, buf, queued, xmit, more, full, hwVars, pollVars, irqVars,
                 ctlVars, workVars, free, ctx, stopped, late>>

(* The packet does not fit: "Tx Ring full when queue awake!".              *)
XmitFull == \E n \in Needs :
  /\ CanXmit /\ Empty <= n
  /\ xmit' = "full"
  /\ UNCHANGED <<next, buf, queued, more, batch, full, hwVars, pollVars, irqVars,
                 ctlVars, workVars, free, ctx, stopped, late>>

(* netif_stop_queue; NETDEV_TX_BUSY makes the stack keep the packet.       *)
XmitBusy ==
  /\ xmit = "full"
  /\ stopped' = TRUE
  /\ full' = TRUE
  /\ batch' = BatchEnd
  /\ xmit' = "idle"
  /\ UNCHANGED <<next, buf, queued, more, hwVars, pollVars, irqVars, ctlVars,
                 workVars, free, ctx, late>>

(* The rings are gone: the driver writes through a null pointer.           *)
XmitOops == \E n \in Needs :
  /\ CanXmit /\ ~ringUp /\ Empty > n
  /\ xmit' = "oops"
  /\ UNCHANGED <<next, buf, queued, more, batch, full, hwVars, pollVars, irqVars,
                 ctlVars, workVars, free, ctx, stopped, late>>

(* Few slots are left: the queue is stopped.                               *)
XmitStop ==
  /\ xmit = "mapped"
  /\ IF Empty <= Thresh THEN stopped' = TRUE /\ xmit' = "recheck"
                        ELSE stopped' = stopped /\ xmit' = "bell"
  /\ UNCHANGED <<next, buf, queued, more, batch, full, hwVars, pollVars, irqVars,
                 ctlVars, workVars, free, ctx, late>>

(* After smp_mb: a poll may have freed slots before it could see the stop. *)
XmitRecheck ==
  /\ xmit = "recheck"
  /\ IF Empty > Thresh THEN stopped' = FALSE /\ full' = FALSE
                       ELSE UNCHANGED <<stopped, full>>
  /\ xmit' = "bell"
  /\ UNCHANGED <<next, buf, queued, more, batch, hwVars, pollVars, irqVars,
                 ctlVars, workVars, free, ctx, late>>

\* Mutant of XmitBell: a stopped queue is not reason enough.
XmitBellUnlessMore ==
  /\ xmit = "bell"
  /\ ctx' = IF ~more THEN next ELSE ctx
  /\ batch' = IF more /\ ~stopped THEN "open" ELSE "none"
  /\ more' = FALSE
  /\ xmit' = "idle"
  /\ UNCHANGED <<next, buf, queued, full, hwVars, pollVars, irqVars,
                 ctlVars, workVars, free, stopped, late>>

(* The hardware is told, unless the stack has another packet at once.      *)
XmitBell ==
  /\ xmit = "bell"
  /\ ctx' = IF stopped \/ ~more THEN next ELSE ctx
  /\ batch' = IF more /\ ~stopped THEN "open" ELSE "none"
  /\ more' = FALSE
  /\ xmit' = "idle"
  /\ UNCHANGED <<next, buf, queued, full, hwVars, pollVars, irqVars,
                 ctlVars, workVars, free, stopped, late>>

-----------------------------------------------------------------------------
(* The hardware and the interrupt.                                         *)

(* A descriptor is sent; the interrupt status is set with a packet's last. *)
HwSend ==
  /\ dma /\ dtx # ctx
  /\ dtx' = Slot(dtx, 1)
  /\ status' = IF buf[dtx] = "last" THEN status \cup {"tx"} ELSE status
  /\ UNCHANGED <<txVars, rx, pollVars, irqVars, ctlVars, workVars, free, ctx, stopped, late>>

HwReceive ==
  /\ dma /\ rx < RxSize
  /\ rx' = rx + 1
  /\ status' = status \cup {"rx"}
  /\ UNCHANGED <<txVars, dtx, pollVars, irqVars, ctlVars, workVars, free, ctx, stopped, late>>

(* NAPI_STATE_DISABLE: napi_disable has begun and not ended.               *)
Disabling == ctl = "napi"

(* fe_handle_irq schedules the poll and masks the interrupt.               *)
IrqSchedule ==
  /\ enabled /\ status # {}
  /\ napi = "idle" /\ ~Disabling
  /\ napi' = "sched"
  /\ enabled' = FALSE
  /\ UNCHANGED <<txVars, hwVars, missed, pollVars, ctlVars, workVars, free, ctx, stopped, late>>

(* napi_schedule_prep fails: the interrupt is neither masked nor served.   *)
IrqRefused ==
  /\ enabled /\ status # {}
  /\ napi # "idle" /\ ~Disabling
  /\ missed' = TRUE
  /\ UNCHANGED <<txVars, hwVars, enabled, napi, pollVars, ctlVars, workVars,
                 free, ctx, stopped, late>>

-----------------------------------------------------------------------------
(* fe_poll, in softirq context.                                            *)

PollBegin ==
  /\ napi = "sched" /\ poll = "idle"
  /\ rxAsked' = ("rx" \in status)
  /\ again' = FALSE
  /\ done' = 0
  /\ poll' = IF "tx" \in status THEN "tx" ELSE IF "rx" \in status THEN "rx" ELSE "end"
  /\ UNCHANGED <<txVars, hwVars, irqVars, ctlVars, workVars, free, ctx, stopped, late>>

\* Mutant of Completed: every descriptor counts as a packet.
CompletedSlots(k) == Cardinality({j \in 0..(k - 1) : buf[Slot(free, j)] # "none"})

(* The packets that end in the first k slots from the oldest one.          *)
Completed(k) == Cardinality({j \in 0..(k - 1) : buf[Slot(free, j)] = "last"})

(* fe_poll_tx leaves its loop: the hardware's place, the budget or a slot  *)
(* without a packet.                                                       *)
ReapEnds(k) == \/ k = Ahead(free, dtx)
               \/ Completed(k) >= Budget
               \/ buf[Slot(free, k)] = "none"

PollReap ==
  /\ poll = "tx"
  /\ \E k \in 0..Ahead(free, dtx) :
       /\ ReapEnds(k) /\ \A j \in 0..(k - 1) : ~ReapEnds(j)
       /\ buf' = [i \in Slots |-> IF Within(i, free, k) THEN "none" ELSE buf[i]]
       /\ free' = Slot(free, k)
       /\ done' = Completed(k)
       /\ IF k = Ahead(free, dtx) THEN poll' = "reread" /\ again' = again
                                  ELSE poll' = "wake" /\ again' = TRUE
  /\ UNCHANGED <<next, queued, xmit, more, batch, full, hwVars, rxAsked, irqVars,
                 ctlVars, workVars, ctx, stopped, late>>

(* The hardware index is read again before the status is cleared.          *)
PollReread ==
  /\ poll = "reread"
  /\ IF free = dtx THEN poll' = "txack" /\ again' = again
                   ELSE poll' = "wake" /\ again' = TRUE
  /\ UNCHANGED <<txVars, hwVars, rxAsked, done, irqVars, ctlVars, workVars,
                 free, ctx, stopped, late>>

PollTxAck ==
  /\ poll = "txack"
  /\ status' = status \ {"tx"}
  /\ poll' = "wake"
  /\ UNCHANGED <<txVars, dtx, rx, rxAsked, again, done, irqVars, ctlVars, workVars,
                 free, ctx, stopped, late>>

AfterTx == IF rxAsked THEN "rx" ELSE "end"

\* Mutant of PollComplete: only the transmit function starts the queue again.
PollCompleteOnly ==
  /\ poll = "wake"
  /\ queued' = queued - done
  /\ done' = 0
  /\ poll' = AfterTx
  /\ UNCHANGED <<next, buf, xmit, more, batch, full, hwVars, rxAsked, again, irqVars,
                 ctlVars, workVars, free, ctx, stopped, late>>

(* netdev_completed_queue, and the test that follows it.                   *)
PollComplete ==
  /\ poll = "wake"
  /\ queued' = queued - done
  /\ done' = 0
  /\ poll' = IF done > 0 /\ stopped /\ Empty > Thresh THEN "waking" ELSE AfterTx
  /\ UNCHANGED <<next, buf, xmit, more, batch, full, hwVars, rxAsked, again, irqVars,
                 ctlVars, workVars, free, ctx, stopped, late>>

(* The steps of fe_stop after it has stopped the queue, and after it has   *)
(* masked the interrupt.                                                   *)
QueueStopped == ctl \in {"irqoff", "napi"}
IrqMasked == ctl = "napi" \/ napi = "off"

(* netif_wake_queue, without the transmit lock.                            *)
PollWake ==
  /\ poll = "waking"
  /\ stopped' = FALSE
  /\ full' = FALSE
  /\ late' = IF QueueStopped THEN late \cup {"wake"} ELSE late
  /\ poll' = AfterTx
  /\ UNCHANGED <<next, buf, queued, xmit, more, batch, hwVars, rxAsked, again, done,
                 irqVars, ctlVars, workVars, free, ctx>>

(* fe_poll_rx: with budget left the status is cleared, in a later step.    *)
PollRx ==
  /\ poll = "rx"
  /\ IF rx < Budget THEN rx' = 0 /\ poll' = "rxack" /\ again' = again
                    ELSE rx' = rx - Budget /\ poll' = "end" /\ again' = TRUE
  /\ UNCHANGED <<txVars, dtx, status, rxAsked, done, irqVars, ctlVars, workVars,
                 free, ctx, stopped, late>>

PollRxAck ==
  /\ poll = "rxack"
  /\ status' = status \ {"rx"}
  /\ poll' = "end"
  /\ UNCHANGED <<txVars, dtx, rx, rxAsked, again, done, irqVars, ctlVars, workVars,
                 free, ctx, stopped, late>>

(* napi_complete_done: one more poll if an interrupt came in between.      *)
NapiComplete ==
  /\ napi' = IF missed THEN "sched" ELSE "idle"
  /\ missed' = FALSE

(* The whole budget is returned; the core polls again unless the instance  *)
(* is being disabled.                                                      *)
PollRepeat ==
  /\ poll = "end" /\ (again \/ status # {})
  /\ IF Disabling THEN NapiComplete ELSE UNCHANGED <<napi, missed>>
  /\ poll' = "idle" /\ rxAsked' = FALSE /\ again' = FALSE
  /\ UNCHANGED <<txVars, hwVars, enabled, done, ctlVars, workVars,
                 free, ctx, stopped, late>>

PollDone ==
  /\ poll = "end" /\ ~again /\ status = {}
  /\ NapiComplete
  /\ poll' = "enable" /\ rxAsked' = FALSE
  /\ UNCHANGED <<txVars, hwVars, enabled, again, done, ctlVars, workVars,
                 free, ctx, stopped, late>>

(* fe_int_enable, whatever napi_complete_done has returned.                *)
PollEnable ==
  /\ poll = "enable"
  /\ enabled' = TRUE
  /\ late' = IF IrqMasked THEN late \cup {"enable"} ELSE late
  /\ poll' = "idle"
  /\ UNCHANGED <<txVars, hwVars, napi, missed, rxAsked, again, done, ctlVars,
                 workVars, free, ctx, stopped>>

-----------------------------------------------------------------------------
(* The watchdog and the work it schedules.                                 *)

(* dev_watchdog takes the transmit lock and calls fe_tx_timeout.           *)
TxTimeout ==
  /\ up /\ stopped /\ TxQuiet
  /\ ~pending
  /\ pending' = TRUE
  /\ UNCHANGED <<txVars, hwVars, pollVars, irqVars, ctlVars, worker, free, ctx, stopped, late>>

(* fe_pending_work clears the bit and then waits for the rtnl lock.        *)
Work ==
  /\ pending /\ worker = "idle"
  /\ pending' = FALSE
  /\ worker' = "reset"
  /\ UNCHANGED <<txVars, hwVars, pollVars, irqVars, ctlVars, free, ctx, stopped, late>>

(* fe_reset_pending has the lock and calls fe_stop, device up or not.      *)
ResetBegin ==
  /\ worker = "reset" /\ ctl = "idle"
  /\ ctl' = "stop" /\ who' = "reset"
  /\ UNCHANGED <<txVars, hwVars, pollVars, irqVars, up, ringUp, dma, workVars,
                 free, ctx, stopped, late>>

\* Mutant of CloseBegin: the device given up is not deactivated first.
CloseBeginActive ==
  /\ \/ ctl = "idle" /\ up
     \/ ctl = "failed"
  /\ TxQuiet
  /\ up' = (ctl = "failed" /\ up)
  /\ ctl' = "stop" /\ who' = "close"
  /\ UNCHANGED <<txVars, hwVars, pollVars, irqVars, ringUp, dma, workVars,
                 free, ctx, stopped, late>>

(* The interface is taken down, or fe_reset_pending gives up ("closing     *)
(* device"): dev_deactivate waits for the transmit function, then fe_stop. *)
CloseBegin ==
  /\ \/ ctl = "idle" /\ up
     \/ ctl = "failed"
  /\ TxQuiet
  /\ up' = FALSE
  /\ ctl' = "stop" /\ who' = "close"
  /\ UNCHANGED <<txVars, hwVars, pollVars, irqVars, ringUp, dma, workVars,
                 free, ctx, stopped, late>>

OpenBegin ==
  /\ ctl = "idle" /\ ~up
  /\ ctl' = "alloc" /\ who' = "open"
  /\ UNCHANGED <<txVars, hwVars, pollVars, irqVars, up, ringUp, dma, workVars,
                 free, ctx, stopped, late>>

-----------------------------------------------------------------------------
(* fe_stop.                                                                *)

\* Mutant of StopQueue: the queue is left running.
StopQueueNot ==
  /\ ctl = "stop" /\ TxQuiet
  /\ ctl' = "irqoff"
  /\ UNCHANGED <<txVars, hwVars, pollVars, irqVars, who, up, ringUp, dma, workVars,
                 free, ctx, stopped, late>>

(* netif_tx_disable, under the transmit lock.                              *)
StopQueue ==
  /\ ctl = "stop" /\ TxQuiet
  /\ stopped' = TRUE
  /\ ctl' = "irqoff"
  /\ UNCHANGED <<txVars, hwVars, pollVars, irqVars, who, up, ringUp, dma, workVars,
                 free, ctx, late>>

\* Mutant of StopIrq: the interrupt is not masked.
StopIrqNot ==
  /\ ctl = "irqoff"
  /\ ctl' = "napi"
  /\ UNCHANGED <<txVars, hwVars, pollVars, irqVars, who, up, ringUp, dma,
                 workVars, free, ctx, stopped, late>>

(* fe_int_disable; napi_disable sets its bit and waits for the poll to end.*)
StopIrq ==
  /\ ctl = "irqoff"
  /\ enabled' = FALSE
  /\ ctl' = "napi"
  /\ UNCHANGED <<txVars, hwVars, pollVars, napi, missed, who, up, ringUp, dma,
                 workVars, free, ctx, stopped, late>>

NapiOff ==
  /\ ctl = "napi" /\ napi = "idle"
  /\ napi' = "off"
  /\ ctl' = "free"
  /\ UNCHANGED <<txVars, hwVars, pollVars, enabled, missed, who, up, ringUp, dma,
                 workVars, free, ctx, stopped, late>>

NoBuffers == [i \in Slots |-> "none"]

(* The hardware is stopped and fe_free_dma drops what was queued.          *)
FreeDma ==
  /\ ctl = "free"
  /\ dma' = FALSE
  /\ ringUp' = FALSE
  /\ buf' = NoBuffers
  /\ queued' = 0
  /\ rx' = 0
  /\ IF who = "close" THEN ctl' = "idle" /\ who' = "none"
                      ELSE ctl' = "alloc" /\ UNCHANGED who
  /\ UNCHANGED <<next, xmit, more, batch, full, dtx, status, pollVars, irqVars, up,
                 workVars, free, ctx, stopped, late>>

-----------------------------------------------------------------------------
(* fe_open.                                                                *)

(* fe_init_dma.                                                            *)
AllocDma ==
  /\ ctl = "alloc"
  /\ next' = 0 /\ free' = 0
  /\ ctx' = 0 /\ dtx' = 0
  /\ buf' = NoBuffers
  /\ ringUp' = TRUE
  /\ ctl' = "start"
  /\ UNCHANGED <<queued, xmit, more, batch, full, rx, status, pollVars, irqVars, who,
                 up, dma, workVars, stopped, late>>

(* No memory: fe_open fails, and a reset goes on to close the device.      *)
AllocFails ==
  /\ ctl = "alloc"
  /\ next' = 0 /\ free' = 0
  /\ IF who = "reset" THEN ctl' = "failed" /\ UNCHANGED who
                      ELSE ctl' = "idle" /\ who' = "none"
  /\ UNCHANGED <<buf, queued, xmit, more, batch, full, hwVars, pollVars, irqVars, up,
                 ringUp, dma, workVars, ctx, stopped, late>>

(* The hardware starts, then napi_enable.                                  *)
OpenNapi ==
  /\ ctl = "start"
  /\ dma' = TRUE
  /\ napi' = "idle"
  /\ ctl' = "end"
  /\ UNCHANGED <<txVars, hwVars, pollVars, enabled, missed, who, up, ringUp, workVars,
                 free, ctx, stopped, late>>

\* Mutant of OpenEnd: the queue is not started.
OpenEndStopped ==
  /\ ctl = "end"
  /\ enabled' = TRUE
  /\ late' = {}
  /\ up' = TRUE
  /\ worker' = IF who = "reset" THEN "idle" ELSE worker
  /\ ctl' = "idle" /\ who' = "none"
  /\ UNCHANGED <<next, buf, queued, xmit, more, batch, full, stopped, hwVars, pollVars,
                 napi, missed, ringUp, dma, pending, free, ctx>>

(* fe_int_enable and netif_start_queue; the opened device is activated.    *)
OpenEnd ==
  /\ ctl = "end"
  /\ enabled' = TRUE
  /\ stopped' = FALSE
  /\ full' = FALSE
  /\ late' = {}
  /\ up' = TRUE
  /\ worker' = IF who = "reset" THEN "idle" ELSE worker
  /\ ctl' = "idle" /\ who' = "none"
  /\ UNCHANGED <<next, buf, queued, xmit, more, batch, hwVars, pollVars, napi, missed,
                 ringUp, dma, pending, free, ctx>>

-----------------------------------------------------------------------------
FeInit ==
  /\ next = 0 /\ free = 0 /\ ctx = 0 /\ dtx = 0
  /\ buf = NoBuffers
  /\ ringUp = FALSE /\ dma = FALSE
  /\ stopped = FALSE /\ xmit = "idle" /\ more = FALSE /\ batch = "none" /\ full = FALSE
  /\ queued = 0 /\ rx = 0
  /\ status = {} /\ enabled = FALSE /\ napi = "off" /\ missed = FALSE
  /\ poll = "idle" /\ rxAsked = FALSE /\ again = FALSE /\ done = 0
  /\ ctl = "idle" /\ who = "none" /\ up = FALSE
  /\ pending = FALSE /\ worker = "idle"
  /\ late = {}

XmitStep == XmitBusy \/ XmitStop \/ XmitRecheck \/ XmitBell
XmitNext == XmitMap \/ XmitDrop \/ XmitFull \/ XmitOops \/ XmitStep
PollStep == \/ PollBegin \/ PollReap \/ PollReread \/ PollTxAck \/ PollComplete
            \/ PollWake \/ PollRx \/ PollRxAck \/ PollRepeat \/ PollDone \/ PollEnable
StopStep == StopQueue \/ StopIrq \/ NapiOff \/ FreeDma
OpenStep == AllocDma \/ AllocFails \/ OpenNapi \/ OpenEnd

FeNext ==
  \/ XmitNext
  \/ HwSend \/ HwReceive \/ IrqSchedule \/ IrqRefused
  \/ PollStep
  \/ TxTimeout \/ Work \/ ResetBegin \/ CloseBegin \/ OpenBegin
  \/ StopStep \/ OpenStep

FeSpec == FeInit /\ [][FeNext]_feVars

(* The transmit function, an open batch, the softirq, the work item and    *)
(* the holder of the rtnl lock go on; an interrupt that is let through is  *)
(* delivered; the watchdog's timer runs.  Nothing is assumed of the        *)
(* hardware, of the stack's wish to send, or of the administrator.         *)
FeFairness ==
  /\ WF_feVars(XmitStep)
  /\ WF_feVars(batch = "open" /\ XmitNext)
  /\ WF_feVars(PollStep)
  /\ WF_feVars(IrqSchedule)
  /\ WF_feVars(TxTimeout) /\ WF_feVars(Work) /\ WF_feVars(ResetBegin)
  /\ WF_feVars(ctl = "failed" /\ CloseBegin)
  /\ WF_feVars(StopStep) /\ WF_feVars(OpenStep)

FeFairSpec == FeSpec /\ FeFairness

-----------------------------------------------------------------------------
(* The type invariant.                                                     *)
RingType ==
  /\ next \in Slots /\ free \in Slots /\ ctx \in Slots /\ dtx \in Slots
  /\ buf \in [Slots -> {"none", "part", "last"}]
  /\ queued \in Int /\ done \in Nat /\ rx \in 0..RxSize

XmitType ==
  /\ xmit \in {"idle", "mapped", "full", "oops", "recheck", "bell"}
  /\ more \in BOOLEAN /\ batch \in {"none", "open", "broken"}
  /\ stopped \in BOOLEAN /\ full \in BOOLEAN

PollType ==
  /\ status \subseteq {"tx", "rx"}
  /\ enabled \in BOOLEAN /\ napi \in {"idle", "sched", "off"} /\ missed \in BOOLEAN
  /\ poll \in {"idle", "tx", "reread", "txack", "wake", "waking", "rx", "rxack", "end", "enable"}
  /\ rxAsked \in BOOLEAN /\ again \in BOOLEAN

CtlType ==
  /\ ctl \in {"idle", "stop", "irqoff", "napi", "free", "alloc", "start", "end", "failed"}
  /\ who \in {"none", "reset", "close", "open"} /\ up \in BOOLEAN
  /\ ringUp \in BOOLEAN /\ dma \in BOOLEAN
  /\ pending \in BOOLEAN /\ worker \in {"idle", "reset"}
  /\ late \subseteq {"wake", "enable"}

FeTypeOK == RingType /\ XmitType /\ PollType /\ CtlType

(* The four indices of a ring in use stand in order, one slot at least is  *)
(* free, and the slots with a packet are those from the oldest to the next *)
(* one: the driver overwrites nothing that is not sent, the hardware never *)
(* gets a slot that was freed, and fe_poll_tx never meets an empty slot.   *)
RingOrder ==
  ringUp =>
    /\ Ahead(free, dtx) + Ahead(dtx, ctx) + Ahead(ctx, next) = Ahead(free, next)
    /\ \A i \in Slots : buf[i] # "none" <=> Within(i, free, Ahead(free, next))

(* What netdev_sent_queue has counted is in the ring, or was taken out by  *)
(* the poll that is about to call netdev_completed_queue: neither a reset  *)
(* nor a partly sent packet makes the two counts differ.                   *)
QueueBalance ==
  queued = Cardinality({i \in Slots : buf[i] = "last"}) + done

(* Nobody but the watchdog wakes a stopped queue whose ring is empty: the  *)
(* test after the stop and the test after the completion leave no such     *)
(* queue behind.  Only the queue of a packet that did not fit (there the   *)
(* driver does not test again) may end like this.                          *)
NoStuckQueue ==
  up /\ stopped /\ xmit = "idle" /\ ctl = "idle" /\ free = next
    /\ done = 0 /\ poll # "waking" => full

(* When the stack has ended its batch the hardware knows of every packet,  *)
(* unless the last one of the batch was refused or dropped.                *)
DoorbellRung ==
  ringUp /\ xmit = "idle" /\ batch = "none" => ctx = next

(* The stack may use a ring that is gone only when a poll has woken the    *)
(* queue that fe_stop had stopped and before napi_disable took effect.     *)
AwakeRing ==
  up /\ ~stopped /\ ~ringUp => "wake" \in late

(* The queue of a device that stays up is always woken again, even if the  *)
(* hardware has stopped sending or a completion was missed: by a poll or   *)
(* by the watchdog's reset.                                                *)
Wakes == up /\ stopped ~> ~stopped \/ ~up \/ xmit = "oops"

(* The interrupt is let through while nobody can serve it (and then        *)
(* returns for ever) only when a poll has enabled it after fe_stop.        *)
QuietWhenOff ==
  napi = "off" /\ enabled => "enable" \in late

(* A reset of a device that is up never waits for a NAPI instance that is  *)
(* disabled already; napi_disable would not return and keep the rtnl lock. *)
NoHangWhileUp ==
  up /\ ctl = "napi" => napi # "off"
=============================================================================
