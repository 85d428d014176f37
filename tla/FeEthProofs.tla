---------------------------- MODULE FeEthProofs ----------------------------
(***************************************************************************)
(* What holds of the Ethernet driver for rings of any size, packets of any *)
(* number of descriptors and any budget.                                   *)
(***************************************************************************)
EXTENDS FeEth, FiniteSetTheorems, TLAPS

-----------------------------------------------------------------------------
(* The ring's arithmetic.                                                  *)

\* The slots k places behind a slot, and the distance between two slots.
LEMMA SlotFacts ==
  ASSUME NEW i \in Slots, NEW k \in 0..RingSize
  PROVE  Slot(i, k) \in Slots
BY RingAssumption DEF Slots, Slot

\* The distance between two slots is less than the ring, and leads from one to the other.
LEMMA AheadFacts ==
  ASSUME NEW a \in Slots, NEW b \in Slots
  PROVE  /\ Ahead(a, b) \in Nat /\ Ahead(a, b) < RingSize
         /\ Ahead(a, b) = 0 <=> a = b
         /\ Slot(a, Ahead(a, b)) = b
BY RingAssumption DEF Slots, Ahead, Slot

\* The number of packets found in the first slots is a number.
LEMMA CompletedType ==
  ASSUME NEW k \in Nat
  PROVE  /\ IsFiniteSet({j \in 0..(k - 1) : buf[Slot(free, j)] = "last"})
         /\ Completed(k) \in Nat
<1>1. IsFiniteSet(0..(k - 1))
  BY FS_Interval
<1>2. {j \in 0..(k - 1) : buf[Slot(free, j)] = "last"} \in SUBSET (0..(k - 1))
  OBVIOUS
<1>3. QED
  BY <1>1, <1>2, FS_Subset, FS_CardinalityType DEF Completed

-----------------------------------------------------------------------------
(* Which steps change what.                                                *)

\* The steps that move an index or a buffer of the transmit ring.
LEMMA RingFrame ==
  [FeNext]_feVars =>
    \/ XmitMap \/ XmitBell \/ HwSend \/ PollReap \/ FreeDma \/ AllocDma \/ AllocFails
    \/ UNCHANGED <<next, free, ctx, dtx, buf>>
BY DEF FeNext, feVars, txVars, hwVars, pollVars, irqVars, ctlVars, workVars,
       XmitNext, XmitDrop, XmitFull, XmitOops, XmitStep, XmitBusy, XmitStop, XmitRecheck,
       HwReceive, IrqSchedule, IrqRefused, PollStep, PollBegin, PollReread, PollTxAck,
       PollComplete, PollWake, PollRx, PollRxAck, PollRepeat, PollDone, PollEnable,
       TxTimeout, Work, ResetBegin, CloseBegin, OpenBegin, StopStep, StopQueue, StopIrq,
       NapiOff, OpenStep, OpenNapi, OpenEnd

\* The steps that count packets, sent or received.
LEMMA CountFrame ==
  [FeNext]_feVars =>
    \/ XmitMap \/ HwReceive \/ PollBegin \/ PollReap \/ PollComplete \/ PollRx \/ FreeDma
    \/ UNCHANGED <<queued, done, rx>>
BY DEF FeNext, feVars, txVars, hwVars, pollVars, irqVars, ctlVars, workVars,
       XmitNext, XmitDrop, XmitFull, XmitOops, XmitStep, XmitBusy, XmitStop, XmitRecheck,
       XmitBell, HwSend, IrqSchedule, IrqRefused, PollStep, PollReread, PollTxAck,
       PollWake, PollRxAck, PollRepeat, PollDone, PollEnable,
       TxTimeout, Work, ResetBegin, CloseBegin, OpenBegin, StopStep, StopQueue, StopIrq,
       NapiOff, OpenStep, AllocDma, AllocFails, OpenNapi, OpenEnd

\* The steps that change where a transmission is, and the queue.
LEMMA XmitFrame ==
  [FeNext]_feVars =>
    \/ XmitNext \/ PollWake \/ StopQueue \/ OpenEnd
    \/ UNCHANGED <<xmit, more, batch, stopped, full>>
BY DEF FeNext, feVars, txVars, hwVars, pollVars, irqVars, ctlVars, workVars,
       HwSend, HwReceive, IrqSchedule, IrqRefused, PollStep, PollBegin, PollReap, PollReread,
       PollTxAck, PollComplete, PollRx, PollRxAck, PollRepeat, PollDone, PollEnable,
       TxTimeout, Work, ResetBegin, CloseBegin, OpenBegin, StopStep, StopIrq,
       NapiOff, FreeDma, OpenStep, AllocDma, AllocFails, OpenNapi

\* The steps that change the poll, the interrupts and NAPI.
LEMMA PollFrame ==
  [FeNext]_feVars =>
    \/ HwSend \/ HwReceive \/ IrqSchedule \/ IrqRefused \/ PollStep
    \/ StopIrq \/ NapiOff \/ OpenNapi \/ OpenEnd
    \/ UNCHANGED <<status, enabled, napi, missed, poll, rxAsked, again>>
BY DEF FeNext, feVars, txVars, hwVars, pollVars, irqVars, ctlVars, workVars,
       XmitNext, XmitMap, XmitDrop, XmitFull, XmitOops, XmitStep, XmitBusy, XmitStop,
       XmitRecheck, XmitBell, TxTimeout, Work, ResetBegin, CloseBegin, OpenBegin,
       StopStep, StopQueue, FreeDma, OpenStep, AllocDma, AllocFails

\* The steps of opening, closing and resetting.
LEMMA CtlFrame ==
  [FeNext]_feVars =>
    \/ ResetBegin \/ CloseBegin \/ OpenBegin \/ StopStep \/ OpenStep
    \/ UNCHANGED <<ctl, who, up, ringUp, dma>>
BY DEF FeNext, feVars, txVars, hwVars, pollVars, irqVars, ctlVars, workVars,
       XmitNext, XmitMap, XmitDrop, XmitFull, XmitOops, XmitStep, XmitBusy, XmitStop,
       XmitRecheck, XmitBell, HwSend, HwReceive, IrqSchedule, IrqRefused,
       PollStep, PollBegin, PollReap, PollReread, PollTxAck, PollComplete, PollWake,
       PollRx, PollRxAck, PollRepeat, PollDone, PollEnable, TxTimeout, Work

\* The reset request and what a poll did too late.
LEMMA WorkFrame ==
  [FeNext]_feVars =>
    \/ TxTimeout \/ Work \/ OpenEnd \/ PollWake \/ PollEnable
    \/ UNCHANGED <<pending, worker, late>>
BY DEF FeNext, feVars, txVars, hwVars, pollVars, irqVars, ctlVars, workVars,
       XmitNext, XmitMap, XmitDrop, XmitFull, XmitOops, XmitStep, XmitBusy, XmitStop,
       XmitRecheck, XmitBell, HwSend, HwReceive, IrqSchedule, IrqRefused,
       PollStep, PollBegin, PollReap, PollReread, PollTxAck, PollComplete,
       PollRx, PollRxAck, PollRepeat, PollDone, ResetBegin, CloseBegin, OpenBegin,
       StopStep, StopQueue, StopIrq, NapiOff, FreeDma, OpenStep, AllocDma, AllocFails, OpenNapi

-----------------------------------------------------------------------------
(* Type correctness.                                                       *)

\* The variables begin with their types.
LEMMA FeInitType == FeInit => FeTypeOK
<1> SUFFICES ASSUME FeInit PROVE FeTypeOK
  OBVIOUS
<1>1. RingType
  BY RingAssumption DEF FeInit, RingType, Slots, NoBuffers
<1>2. XmitType
  BY DEF FeInit, XmitType
<1>3. PollType
  BY DEF FeInit, PollType
<1>4. CtlType
  BY DEF FeInit, CtlType
<1>5. QED
  BY <1>1, <1>2, <1>3, <1>4 DEF FeTypeOK

\* Every step keeps the types of the ring.
LEMMA RingTypeStep == RingType /\ [FeNext]_feVars => RingType'
<1> SUFFICES ASSUME RingType, [FeNext]_feVars PROVE RingType'
  OBVIOUS
<1> USE DEF hwVars, pollVars, irqVars, ctlVars, workVars, txVars
<1>1. /\ next' \in Slots /\ free' \in Slots /\ ctx' \in Slots /\ dtx' \in Slots
      /\ buf' \in [Slots -> {"none", "part", "last"}]
  <2>1. CASE XmitMap
    <3>1. PICK n \in Needs :
            /\ Empty > n
            /\ buf' = [i \in Slots |-> IF ~Within(i, next, n) THEN buf[i]
                                       ELSE IF i = Slot(next, n - 1) THEN "last" ELSE "part"]
            /\ next' = Slot(next, n)
            /\ UNCHANGED <<free, ctx, dtx>>
      BY <2>1 DEF XmitMap
    <3>2. n \in 0..RingSize
      BY <3>1, RingAssumption, AheadFacts DEF Empty, RingType
    <3>3. next' \in Slots
      BY <3>1, <3>2, SlotFacts DEF RingType
    <3>4. buf' \in [Slots -> {"none", "part", "last"}]
      BY <3>1 DEF RingType
    <3>5. QED
      BY <3>1, <3>3, <3>4 DEF RingType
  <2>2. CASE XmitBell
    BY <2>2 DEF XmitBell, RingType
  <2>3. CASE HwSend
    <3>1. dtx' \in Slots
      BY <2>3, RingAssumption, SlotFacts DEF HwSend, RingType
    <3>2. QED
      BY <2>3, <3>1 DEF HwSend, RingType
  <2>4. CASE PollReap
    <3>1. PICK k \in 0..Ahead(free, dtx) :
            /\ buf' = [i \in Slots |-> IF Within(i, free, k) THEN "none" ELSE buf[i]]
            /\ free' = Slot(free, k)
            /\ UNCHANGED <<next, ctx, dtx>>
      BY <2>4 DEF PollReap
    <3>2. k \in 0..RingSize
      BY AheadFacts, RingAssumption DEF RingType
    <3>3. free' \in Slots
      BY <3>1, <3>2, SlotFacts DEF RingType
    <3>4. buf' \in [Slots -> {"none", "part", "last"}]
      BY <3>1 DEF RingType
    <3>5. QED
      BY <3>1, <3>3, <3>4 DEF RingType
  <2>5. CASE FreeDma
    BY <2>5 DEF FreeDma, NoBuffers, RingType
  <2>6. CASE AllocDma
    BY <2>6, RingAssumption DEF AllocDma, NoBuffers, RingType, Slots
  <2>7. CASE AllocFails
    BY <2>7, RingAssumption DEF AllocFails, RingType, Slots
  <2>8. CASE UNCHANGED <<next, free, ctx, dtx, buf>>
    BY <2>8 DEF RingType
  <2>9. QED
    BY <2>1, <2>2, <2>3, <2>4, <2>5, <2>6, <2>7, <2>8, RingFrame
<1>2. queued' \in Int /\ done' \in Nat /\ rx' \in 0..RxSize
  <2>1. CASE XmitMap
    BY <2>1 DEF XmitMap, RingType
  <2>2. CASE HwReceive
    BY <2>2, RingAssumption DEF HwReceive, RingType
  <2>3. CASE PollReap
    <3>1. PICK k \in 0..Ahead(free, dtx) : done' = Completed(k) /\ UNCHANGED <<queued, rx>>
      BY <2>3 DEF PollReap
    <3>2. k \in Nat
      BY AheadFacts DEF RingType
    <3>3. QED
      BY <3>1, <3>2, CompletedType DEF RingType
  <2>4. CASE PollBegin
    BY <2>4 DEF PollBegin, RingType
  <2>5. CASE PollComplete
    BY <2>5 DEF PollComplete, RingType
  <2>6. CASE PollRx
    BY <2>6, RingAssumption DEF PollRx, RingType
  <2>7. CASE FreeDma
    BY <2>7, RingAssumption DEF FreeDma, RingType
  <2>8. CASE UNCHANGED <<queued, done, rx>>
    BY <2>8 DEF RingType
  <2>9. QED
    BY <2>1, <2>2, <2>3, <2>4, <2>5, <2>6, <2>7, <2>8, CountFrame
<1>3. QED
  BY <1>1, <1>2 DEF RingType

\* Every step keeps the types of the transmission.
LEMMA XmitTypeStep == XmitType /\ [FeNext]_feVars => XmitType'
<1> SUFFICES ASSUME XmitType, [FeNext]_feVars PROVE XmitType'
  OBVIOUS
<1>1. CASE XmitMap \/ XmitDrop \/ XmitFull \/ XmitOops
  BY <1>1 DEF XmitMap, XmitDrop, XmitFull, XmitOops, BatchEnd, XmitType
<1>2. CASE XmitStep
  BY <1>2 DEF XmitStep, XmitBusy, XmitStop, XmitRecheck, XmitBell, BatchEnd, XmitType
<1>3. CASE PollWake
  BY <1>3 DEF PollWake, XmitType
<1>4. CASE StopQueue \/ OpenEnd
  BY <1>4 DEF StopQueue, OpenEnd, txVars, XmitType
<1>5. CASE UNCHANGED <<xmit, more, batch, stopped, full>>
  BY <1>5 DEF XmitType
<1>6. QED
  BY <1>1, <1>2, <1>3, <1>4, <1>5, XmitFrame DEF XmitNext

\* Every step keeps the types of the poll.
LEMMA PollTypeStep == PollType /\ [FeNext]_feVars => PollType'
<1> SUFFICES ASSUME PollType, [FeNext]_feVars PROVE PollType'
  OBVIOUS
<1> USE DEF hwVars, pollVars, irqVars
<1>1. CASE HwSend \/ HwReceive \/ IrqSchedule \/ IrqRefused
  BY <1>1 DEF HwSend, HwReceive, IrqSchedule, IrqRefused, PollType
<1>2. CASE PollBegin
  <2>1. /\ rxAsked' = ("rx" \in status) /\ again' = FALSE
        /\ poll' = IF "tx" \in status THEN "tx" ELSE IF "rx" \in status THEN "rx" ELSE "end"
        /\ UNCHANGED <<status, enabled, napi, missed>>
    BY <1>2 DEF PollBegin
  <2>2. rxAsked' \in BOOLEAN /\ poll' \in {"tx", "rx", "end"}
    BY <2>1
  <2>3. QED
    BY <2>1, <2>2 DEF PollType
<1>3. CASE PollReap
  BY <1>3 DEF PollReap, PollType
<1>4. CASE PollReread \/ PollTxAck
  BY <1>4 DEF PollReread, PollTxAck, PollType
<1>5. CASE PollComplete \/ PollWake
  BY <1>5 DEF PollComplete, PollWake, AfterTx, PollType
<1>6. CASE PollRx \/ PollRxAck
  BY <1>6 DEF PollRx, PollRxAck, PollType
<1>7. CASE PollRepeat \/ PollDone \/ PollEnable
  BY <1>7 DEF PollRepeat, PollDone, PollEnable, NapiComplete, PollType
<1>8. CASE StopIrq \/ NapiOff \/ OpenNapi \/ OpenEnd
  BY <1>8 DEF StopIrq, NapiOff, OpenNapi, OpenEnd, PollType
<1>9. CASE UNCHANGED <<status, enabled, napi, missed, poll, rxAsked, again>>
  BY <1>9 DEF PollType
<1>10. QED
  BY <1>1, <1>2, <1>3, <1>4, <1>5, <1>6, <1>7, <1>8, <1>9, PollFrame DEF PollStep

\* Every step keeps the types of the control of the device.
LEMMA CtlTypeStep == CtlType /\ [FeNext]_feVars => CtlType'
<1> SUFFICES ASSUME CtlType, [FeNext]_feVars PROVE CtlType'
  OBVIOUS
<1> USE DEF ctlVars, workVars
<1>1. ctl' \in {"idle", "stop", "irqoff", "napi", "free", "alloc", "start", "end", "failed"}
      /\ who' \in {"none", "reset", "close", "open"}
  BY CtlFrame DEF CtlType, ResetBegin, CloseBegin, OpenBegin, StopStep, StopQueue, StopIrq,
     NapiOff, FreeDma, OpenStep, AllocDma, AllocFails, OpenNapi, OpenEnd
<1>2. up' \in BOOLEAN /\ ringUp' \in BOOLEAN /\ dma' \in BOOLEAN
  BY CtlFrame DEF CtlType, ResetBegin, CloseBegin, OpenBegin, StopStep, StopQueue, StopIrq,
     NapiOff, FreeDma, OpenStep, AllocDma, AllocFails, OpenNapi, OpenEnd
<1>3. pending' \in BOOLEAN /\ worker' \in {"idle", "reset"} /\ late' \subseteq {"wake", "enable"}
  BY WorkFrame DEF CtlType, TxTimeout, Work, OpenEnd, PollWake, PollEnable
<1>4. QED
  BY <1>1, <1>2, <1>3 DEF CtlType

\* Every step keeps all of them.
LEMMA FeStepType == FeTypeOK /\ [FeNext]_feVars => FeTypeOK'
BY RingTypeStep, XmitTypeStep, PollTypeStep, CtlTypeStep DEF FeTypeOK

-----------------------------------------------------------------------------
(* The control state: who holds the rtnl lock, when the rings exist and    *)
(* when the NAPI instance is disabled.                                     *)

Owner ==
  /\ ctl \in {"stop", "irqoff", "napi", "free"} => who \in {"reset", "close"}
  /\ ctl \in {"alloc", "start", "end"} => who \in {"reset", "open"}
  /\ ctl # "idle" /\ who \in {"close", "open"} => ~up

Rings ==
  /\ up /\ ctl \in {"idle", "stop", "irqoff", "napi", "free"} => ringUp
  /\ ctl \in {"start", "end"} => ringUp
  /\ ctl \in {"alloc", "failed"} => ~ringUp
  /\ ctl = "idle" /\ ~up => ~ringUp

NapiState ==
  /\ ctl \in {"free", "alloc", "start", "failed"} => napi = "off"
  /\ ctl = "idle" /\ ~up => napi = "off"
  /\ ctl = "end" => napi # "off"
  /\ up /\ ctl \in {"idle", "stop", "irqoff", "napi"} => napi # "off"
  /\ poll \notin {"idle", "enable"} => napi = "sched"

Control == Owner /\ Rings /\ NapiState

\* The interrupt stays masked from fe_int_disable on, if no poll lets it
\* through.
Masked == IrqMasked /\ enabled => "enable" \in late

\* The queue stays stopped, and nobody transmits, from netif_tx_disable on
\* until the rings are back, if no poll wakes it.
KeptStopped ==
  up /\ ctl \in {"irqoff", "napi", "free", "alloc", "failed"} =>
    "wake" \in late \/ (stopped /\ xmit = "idle")

\* Every step keeps who has the device in hand.
LEMMA OwnerStep == Owner /\ [FeNext]_feVars => Owner'
BY CtlFrame
DEF Owner, ResetBegin, CloseBegin, OpenBegin, StopStep, StopQueue, StopIrq, NapiOff, FreeDma,
    OpenStep, AllocDma, AllocFails, OpenNapi, OpenEnd, ctlVars

\* Every step keeps the rings there while they may be used.
LEMMA RingsStep == Owner /\ Rings /\ [FeNext]_feVars => Rings'
BY CtlFrame
DEF Owner, Rings, ResetBegin, CloseBegin, OpenBegin, StopStep, StopQueue, StopIrq, NapiOff,
    FreeDma, OpenStep, AllocDma, AllocFails, OpenNapi, OpenEnd, ctlVars

\* Every step keeps the state of NAPI in line with that of the device.
LEMMA NapiStateStep == CtlType /\ PollType /\ Control /\ [FeNext]_feVars => NapiState'
<1> SUFFICES ASSUME CtlType, PollType, Owner, NapiState, [FeNext]_feVars PROVE NapiState'
  BY DEF Control
<1> USE DEF irqVars, ctlVars, pollVars, workVars
<1>1. CASE IrqSchedule \/ IrqRefused
  BY <1>1 DEF IrqSchedule, IrqRefused, NapiState
<1>2. CASE PollBegin \/ PollReap \/ PollReread \/ PollTxAck \/ PollComplete \/ PollWake
  BY <1>2 DEF PollBegin, PollReap, PollReread, PollTxAck, PollComplete, PollWake, NapiState
<1>3. CASE PollRx \/ PollRxAck \/ PollRepeat \/ PollDone \/ PollEnable
  BY <1>3
  DEF PollRx, PollRxAck, PollRepeat, PollDone, PollEnable, NapiComplete, NapiState
<1>4. CASE ResetBegin \/ CloseBegin \/ OpenBegin
  BY <1>4 DEF ResetBegin, CloseBegin, OpenBegin, NapiState
<1>5. CASE StopQueue \/ StopIrq \/ NapiOff \/ FreeDma
  BY <1>5 DEF StopQueue, StopIrq, NapiOff, FreeDma, NapiState, Owner
<1>6. CASE AllocDma \/ AllocFails \/ OpenNapi \/ OpenEnd
  BY <1>6 DEF AllocDma, AllocFails, OpenNapi, OpenEnd, NapiState, Owner
<1>7. CASE HwSend \/ HwReceive
  BY <1>7 DEF HwSend, HwReceive, NapiState
<1>8. CASE UNCHANGED <<napi, poll, ctl, up>>
  BY <1>8 DEF NapiState
<1>9. QED
  BY <1>1, <1>2, <1>3, <1>4, <1>5, <1>6, <1>7, <1>8, PollFrame, CtlFrame
  DEF PollStep, StopStep, OpenStep

\* No step leaves the interrupts on behind the back of the one who stops the device.
LEMMA MaskedStep == Control /\ Masked /\ [FeNext]_feVars => Masked'
<1> SUFFICES ASSUME NapiState, Masked, [FeNext]_feVars PROVE Masked'
  BY DEF Control
<1> USE DEF Masked, IrqMasked, irqVars, ctlVars, pollVars, workVars
<1>1. CASE PollWake \/ PollEnable
  BY <1>1 DEF PollWake, PollEnable
<1>2. CASE PollBegin \/ PollReap \/ PollReread \/ PollTxAck \/ PollComplete
  BY <1>2 DEF PollBegin, PollReap, PollReread, PollTxAck, PollComplete
<1>3. CASE PollRx \/ PollRxAck \/ PollRepeat \/ PollDone
  BY <1>3 DEF PollRx, PollRxAck, PollRepeat, PollDone, NapiComplete, NapiState
<1>4. CASE IrqSchedule \/ IrqRefused \/ HwSend \/ HwReceive
  BY <1>4 DEF IrqSchedule, IrqRefused, HwSend, HwReceive
<1>5. CASE ResetBegin \/ CloseBegin \/ OpenBegin
  BY <1>5 DEF ResetBegin, CloseBegin, OpenBegin
<1>6. CASE StopQueue \/ StopIrq \/ NapiOff \/ FreeDma
  BY <1>6 DEF StopQueue, StopIrq, NapiOff, FreeDma
<1>7. CASE AllocDma \/ AllocFails \/ OpenNapi \/ OpenEnd
  BY <1>7 DEF AllocDma, AllocFails, OpenNapi, OpenEnd, NapiState
<1>8. CASE TxTimeout \/ Work
  BY <1>8 DEF TxTimeout, Work
<1>9. CASE UNCHANGED <<napi, enabled, ctl, late>>
  BY <1>9
<1>10. QED
  BY <1>1, <1>2, <1>3, <1>4, <1>5, <1>6, <1>7, <1>8, <1>9, PollFrame, CtlFrame, WorkFrame
  DEF PollStep, StopStep, OpenStep

\* No step starts the queue behind his back.
LEMMA KeptStoppedStep == Control /\ KeptStopped /\ [FeNext]_feVars => KeptStopped'
<1> SUFFICES ASSUME Owner, NapiState, KeptStopped, [FeNext]_feVars PROVE KeptStopped'
  BY DEF Control
<1> USE DEF KeptStopped, irqVars, ctlVars, pollVars, workVars, txVars
<1>1. CASE XmitMap \/ XmitDrop \/ XmitFull \/ XmitOops
  BY <1>1 DEF XmitMap, XmitDrop, XmitFull, XmitOops, CanXmit
<1>2. CASE XmitBusy \/ XmitStop \/ XmitRecheck \/ XmitBell
  BY <1>2 DEF XmitBusy, XmitStop, XmitRecheck, XmitBell
<1>3. CASE PollWake \/ PollEnable
  BY <1>3 DEF PollWake, PollEnable, QueueStopped, NapiState
<1>4. CASE ResetBegin \/ CloseBegin \/ OpenBegin
  BY <1>4 DEF ResetBegin, CloseBegin, OpenBegin
<1>5. CASE StopQueue \/ StopIrq \/ NapiOff \/ FreeDma
  BY <1>5 DEF StopQueue, StopIrq, NapiOff, FreeDma, TxQuiet
<1>6. CASE AllocDma \/ AllocFails \/ OpenNapi \/ OpenEnd
  BY <1>6 DEF AllocDma, AllocFails, OpenNapi, OpenEnd
<1>7. CASE TxTimeout \/ Work
  BY <1>7 DEF TxTimeout, Work
<1>8. CASE UNCHANGED <<xmit, stopped, ctl, up, late>>
  BY <1>8
<1>9. QED
  BY <1>1, <1>2, <1>3, <1>4, <1>5, <1>6, <1>7, <1>8, XmitFrame, CtlFrame, WorkFrame
  DEF XmitNext, XmitStep, StopStep, OpenStep

\* No transmission returns with packets the hardware has not been told of.
LEMMA DoorbellStep == Control /\ DoorbellRung /\ [FeNext]_feVars => DoorbellRung'
<1> SUFFICES ASSUME Rings, DoorbellRung, [FeNext]_feVars PROVE DoorbellRung'
  BY DEF Control
<1> USE DEF DoorbellRung, ctlVars, txVars
<1>1. CASE XmitMap \/ XmitDrop \/ XmitFull \/ XmitOops
  BY <1>1 DEF XmitMap, XmitDrop, XmitFull, XmitOops, BatchEnd
<1>2. CASE XmitBusy \/ XmitStop \/ XmitRecheck \/ XmitBell
  BY <1>2 DEF XmitBusy, XmitStop, XmitRecheck, XmitBell, BatchEnd
<1>3. CASE HwSend \/ PollReap \/ PollWake
  BY <1>3 DEF HwSend, PollReap, PollWake
<1>4. CASE ResetBegin \/ CloseBegin \/ OpenBegin
  BY <1>4 DEF ResetBegin, CloseBegin, OpenBegin
<1>5. CASE StopQueue \/ StopIrq \/ NapiOff \/ FreeDma
  BY <1>5 DEF StopQueue, StopIrq, NapiOff, FreeDma
<1>6. CASE AllocDma \/ AllocFails \/ OpenNapi \/ OpenEnd
  BY <1>6 DEF AllocDma, AllocFails, OpenNapi, OpenEnd, Rings
<1>7. CASE UNCHANGED <<xmit, batch, ringUp, ctx, next>>
  BY <1>7
<1>8. QED
  BY <1>1, <1>2, <1>3, <1>4, <1>5, <1>6, <1>7, XmitFrame, CtlFrame, RingFrame
  DEF XmitNext, XmitStep, StopStep, OpenStep

-----------------------------------------------------------------------------
(* The ring.                                                               *)

\* Going round: distances add up while they stay below the size of the ring.
LEMMA AheadMore ==
  ASSUME NEW a \in Slots, NEW b \in Slots, NEW n \in Nat, Ahead(a, b) + n < RingSize
  PROVE  /\ Slot(b, n) \in Slots
         /\ Ahead(a, Slot(b, n)) = Ahead(a, b) + n
         /\ Ahead(b, Slot(b, n)) = n
         /\ \A i \in Slots : Ahead(a, i) < Ahead(a, b) + n <=>
                               Ahead(a, i) < Ahead(a, b) \/ Ahead(b, i) < n
BY RingAssumption DEF Slots, Ahead, Slot

\* A slot k places on in a stretch is k places nearer to its end.
LEMMA AheadLess ==
  ASSUME NEW a \in Slots, NEW b \in Slots, NEW k \in Nat, k <= Ahead(a, b)
  PROVE  /\ Slot(a, k) \in Slots
         /\ Ahead(Slot(a, k), b) = Ahead(a, b) - k
         /\ \A i \in Slots : Ahead(Slot(a, k), i) < Ahead(a, b) - k <=>
                               k <= Ahead(a, i) /\ Ahead(a, i) < Ahead(a, b)
BY RingAssumption DEF Slots, Ahead, Slot

\* Distances add up along the ring.
LEMMA AheadSum ==
  ASSUME NEW a \in Slots, NEW b \in Slots, NEW c \in Slots
  PROVE  Ahead(a, b) + Ahead(b, c) = Ahead(a, c)
           \/ Ahead(a, b) + Ahead(b, c) = Ahead(a, c) + RingSize
BY RingAssumption DEF Slots, Ahead

\* A ring that is gone holds nothing.
EmptyRing == ~ringUp => \A i \in Slots : buf[i] = "none"

\* The last slot in use holds the end of a packet.
LastSlot == ringUp /\ free # next => buf[Slot(next, RingSize - 1)] = "last"

RingInv == RingOrder /\ EmptyRing /\ LastSlot

\* Every step keeps the ring empty where it was emptied.
LEMMA EmptyRingStep ==
  FeTypeOK /\ Control /\ EmptyRing /\ [FeNext]_feVars => EmptyRing'
<1> SUFFICES ASSUME RingType, Rings, EmptyRing, [FeNext]_feVars PROVE EmptyRing'
  BY DEF FeTypeOK, Control
<1> USE DEF EmptyRing, ctlVars, txVars, hwVars
<1>1. CASE XmitMap
  BY <1>1 DEF XmitMap
<1>2. CASE PollReap
  BY <1>2 DEF PollReap, RingType
<1>3. CASE XmitBell \/ HwSend
  BY <1>3 DEF XmitBell, HwSend
<1>4. CASE StopStep
  BY <1>4 DEF StopStep, StopQueue, StopIrq, NapiOff, FreeDma, NoBuffers
<1>5. CASE OpenStep
  BY <1>5 DEF OpenStep, AllocDma, AllocFails, OpenNapi, OpenEnd, NoBuffers
<1>6. CASE ResetBegin \/ CloseBegin \/ OpenBegin
  BY <1>6 DEF ResetBegin, CloseBegin, OpenBegin
<1>7. CASE UNCHANGED <<buf, ringUp>>
  BY <1>7
<1>8. QED
  BY <1>1, <1>2, <1>3, <1>4, <1>5, <1>6, <1>7, RingFrame, CtlFrame DEF StopStep, OpenStep

\* A packet that is mapped goes into empty slots behind those in use.
LEMMA MapRing ==
  ASSUME FeTypeOK, RingInv, XmitMap
  PROVE  RingInv'
<1>1. PICK n \in Needs :
        /\ ringUp /\ Empty > n
        /\ buf' = [i \in Slots |-> IF ~Within(i, next, n) THEN buf[i]
                                   ELSE IF i = Slot(next, n - 1) THEN "last" ELSE "part"]
        /\ next' = Slot(next, n)
        /\ UNCHANGED <<free, ctx, dtx, ringUp>>
  BY DEF XmitMap, hwVars, ctlVars
<1>2. n \in Nat /\ n > 0
  BY RingAssumption
<1>3. next \in Slots /\ free \in Slots /\ ctx \in Slots /\ dtx \in Slots
  BY DEF FeTypeOK, RingType
<1>4. Ahead(free, next) + n < RingSize
  BY <1>1, <1>2, <1>3, AheadFacts, RingAssumption DEF Empty
<1>5. /\ Ahead(free, next) = Ahead(free, dtx) + Ahead(dtx, ctx) + Ahead(ctx, next)
      /\ \A i \in Slots : buf[i] # "none" <=> Ahead(free, i) < Ahead(free, next)
  BY <1>1 DEF RingInv, RingOrder, Within
<1>6. /\ Ahead(free, next') = Ahead(free, next) + n
      /\ Ahead(next, next') = n
      /\ \A i \in Slots : Ahead(free, i) < Ahead(free, next) + n <=>
                            Ahead(free, i) < Ahead(free, next) \/ Ahead(next, i) < n
      /\ next' \in Slots
  BY <1>1, <1>2, <1>3, <1>4, AheadMore
<1>7. Ahead(ctx, next) + n < RingSize
  BY <1>2, <1>3, <1>4, <1>5, AheadFacts, RingAssumption
<1>8. Ahead(ctx, next') = Ahead(ctx, next) + n
  BY <1>1, <1>2, <1>3, <1>7, AheadMore
<1>9. \A i \in Slots : buf'[i] # "none" <=> buf[i] # "none" \/ Ahead(next, i) < n
  BY <1>1 DEF Within
<1>10. RingOrder'
  <2>1. Ahead(free', next') = Ahead(free', dtx') + Ahead(dtx', ctx') + Ahead(ctx', next')
    BY <1>1, <1>2, <1>3, <1>5, <1>6, <1>8, AheadFacts
  <2>2. \A i \in Slots : buf'[i] # "none" <=> Ahead(free', i) < Ahead(free', next')
    BY <1>1, <1>5, <1>6, <1>9
  <2>3. QED
    BY <2>1, <2>2 DEF RingOrder, Within
<1>11. EmptyRing'
  BY <1>1 DEF EmptyRing
<1>12. LastSlot'
  <2>1. n < RingSize
    BY <1>2, <1>3, <1>4, AheadFacts, RingAssumption
  <2>2. Slot(next, n - 1) \in Slots /\ Ahead(next, Slot(next, n - 1)) = n - 1
    BY <1>2, <1>3, <2>1, RingAssumption DEF Slot, Slots, Ahead
  <2>3. buf'[Slot(next, n - 1)] = "last"
    BY <1>1, <1>2, <2>2 DEF Within
  <2>4. Slot(next', RingSize - 1) = Slot(next, n - 1)
    <3>1. Slot(Slot(next, n), RingSize - 1) = Slot(next, n - 1)
      BY <1>2, <1>3, <2>1, RingAssumption DEF Slot, Slots
    <3>2. QED
      BY <1>1, <3>1
  <2>5. QED
    BY <2>3, <2>4 DEF LastSlot
<1>13. QED
  BY <1>10, <1>11, <1>12 DEF RingInv

\* A reap empties the oldest slots, and none that the hardware has not sent.
LEMMA ReapRing ==
  ASSUME FeTypeOK, RingInv, PollReap
  PROVE  RingInv'
<1>1. PICK k \in 0..Ahead(free, dtx) :
        /\ buf' = [i \in Slots |-> IF Within(i, free, k) THEN "none" ELSE buf[i]]
        /\ free' = Slot(free, k)
        /\ UNCHANGED <<next, ctx, dtx, ringUp>>
  BY DEF PollReap, hwVars, ctlVars
<1>2. next \in Slots /\ free \in Slots /\ ctx \in Slots /\ dtx \in Slots
  BY DEF FeTypeOK, RingType
<1>3. k \in Nat /\ k <= Ahead(free, dtx)
  BY <1>2, AheadFacts
<1>4. /\ free' \in Slots
      /\ Ahead(free', dtx) = Ahead(free, dtx) - k
  BY <1>1, <1>2, <1>3, AheadLess
<1>5. \A i \in Slots : buf'[i] # "none" <=> buf[i] # "none" /\ k <= Ahead(free, i)
  BY <1>1, <1>2, <1>3, AheadFacts DEF Within
<1>6. CASE ~ringUp
  BY <1>1, <1>5, <1>6 DEF RingInv, RingOrder, EmptyRing, LastSlot
<1>7. CASE ringUp
  <2>1. /\ Ahead(free, next) = Ahead(free, dtx) + Ahead(dtx, ctx) + Ahead(ctx, next)
        /\ \A i \in Slots : buf[i] # "none" <=> Ahead(free, i) < Ahead(free, next)
    BY <1>7 DEF RingInv, RingOrder, Within
  <2>2. k <= Ahead(free, next)
    BY <1>2, <1>3, <2>1, AheadFacts
  <2>3. /\ Ahead(free', next) = Ahead(free, next) - k
        /\ \A i \in Slots : Ahead(free', i) < Ahead(free, next) - k <=>
                              k <= Ahead(free, i) /\ Ahead(free, i) < Ahead(free, next)
    BY <1>1, <1>2, <1>3, <2>2, AheadLess
  <2>4. RingOrder'
    <3>1. Ahead(free', next') = Ahead(free', dtx') + Ahead(dtx', ctx') + Ahead(ctx', next')
      BY <1>1, <1>2, <1>3, <1>4, <2>1, <2>3, AheadFacts
    <3>2. \A i \in Slots : buf'[i] # "none" <=> Ahead(free', i) < Ahead(free', next')
      BY <1>1, <1>5, <2>1, <2>3
    <3>3. QED
      BY <3>1, <3>2 DEF RingOrder, Within
  <2>5. EmptyRing'
    BY <1>1, <1>7 DEF EmptyRing
  <2>6. LastSlot'
    <3>1. SUFFICES ASSUME free' # next PROVE buf'[Slot(next, RingSize - 1)] = "last"
      BY <1>1 DEF LastSlot
    <3>2. Ahead(free, next) - k > 0
      BY <1>2, <1>3, <1>4, <2>2, <2>3, <3>1, AheadFacts
    <3>3. /\ Slot(next, RingSize - 1) \in Slots
          /\ Ahead(free, Slot(next, RingSize - 1)) = Ahead(free, next) - 1
      BY <1>2, <1>3, <3>2, AheadFacts, RingAssumption DEF Slot, Slots, Ahead
    <3>4. free # next
      BY <1>2, <1>3, <3>2, AheadFacts
    <3>5. buf[Slot(next, RingSize - 1)] = "last"
      BY <1>7, <3>4 DEF RingInv, LastSlot
    <3>6. ~(Ahead(free, Slot(next, RingSize - 1)) < k)
      BY <1>2, <1>3, <3>2, <3>3, AheadFacts
    <3>7. QED
      BY <1>1, <3>3, <3>5, <3>6 DEF Within
  <2>7. QED
    BY <2>4, <2>5, <2>6 DEF RingInv
<1>8. QED
  BY <1>6, <1>7

\* Every step keeps the indices in their order, and the packets whole.
LEMMA RingInvStep ==
  FeTypeOK /\ Control /\ RingInv /\ [FeNext]_feVars => RingInv'
<1> SUFFICES ASSUME FeTypeOK, Control, RingInv, [FeNext]_feVars PROVE RingInv'
  OBVIOUS
<1>1. EmptyRing'
  BY EmptyRingStep DEF RingInv
<1>2. next \in Slots /\ free \in Slots /\ ctx \in Slots /\ dtx \in Slots
  BY DEF FeTypeOK, RingType
<1>3. CASE XmitMap
  BY <1>3, MapRing
<1>4. CASE PollReap
  BY <1>4, ReapRing
<1>5. CASE XmitBell
  <2>1. ctx' \in {ctx, next} /\ UNCHANGED <<next, free, dtx, buf, ringUp>>
    BY <1>5 DEF XmitBell, hwVars, ctlVars
  <2>2. LastSlot'
    BY <2>1 DEF RingInv, LastSlot
  <2>3. ASSUME ringUp
        PROVE  Ahead(free, dtx) + Ahead(dtx, ctx') + Ahead(ctx', next) = Ahead(free, next)
    <3>1. Ahead(free, dtx) + Ahead(dtx, ctx) + Ahead(ctx, next) = Ahead(free, next)
      BY <2>3 DEF RingInv, RingOrder
    <3>2. Ahead(dtx, ctx) + Ahead(ctx, next) = Ahead(dtx, next)
      BY <1>2, <3>1, AheadSum, AheadFacts, RingAssumption
    <3>3. Ahead(next, next) = 0
      BY <1>2, AheadFacts
    <3>4. QED
      BY <1>2, <2>1, <3>1, <3>2, <3>3, AheadFacts
  <2>4. RingOrder'
    BY <2>1, <2>3 DEF RingInv, RingOrder, Within
  <2>5. QED
    BY <1>1, <2>2, <2>4 DEF RingInv
<1>6. CASE HwSend
  <2>1. dtx # ctx /\ dtx' = Slot(dtx, 1) /\ UNCHANGED <<next, free, ctx, buf, ringUp>>
    BY <1>6 DEF HwSend, txVars, ctlVars
  <2>2. LastSlot'
    BY <2>1 DEF RingInv, LastSlot
  <2>3. ASSUME ringUp
        PROVE  Ahead(free, dtx') + Ahead(dtx', ctx) + Ahead(ctx, next) = Ahead(free, next)
    <3>1. Ahead(free, dtx) + Ahead(dtx, ctx) + Ahead(ctx, next) = Ahead(free, next)
      BY <2>3 DEF RingInv, RingOrder
    <3>2. Ahead(dtx, ctx) >= 1 /\ Ahead(dtx, ctx) \in Nat
      BY <1>2, <2>1, AheadFacts
    <3>3. Ahead(dtx', ctx) = Ahead(dtx, ctx) - 1
      BY <1>2, <2>1, <3>2, AheadLess
    <3>4. Ahead(free, dtx) + 1 < RingSize \/ Ahead(free, dtx) + 1 = Ahead(free, next)
      BY <1>2, <3>1, <3>2, AheadFacts, RingAssumption
    <3>5. Ahead(free, dtx') = Ahead(free, dtx) + 1
      BY <1>2, <2>1, <3>4, AheadMore, AheadFacts, RingAssumption
    <3>6. QED
      BY <1>2, <3>1, <3>2, <3>3, <3>5, AheadFacts
  <2>4. RingOrder'
    BY <2>1, <2>3 DEF RingInv, RingOrder, Within
  <2>5. QED
    BY <1>1, <2>2, <2>4 DEF RingInv
<1>7. CASE FreeDma \/ AllocFails
  <2>1. ringUp' = FALSE
    BY <1>7 DEF FreeDma, AllocFails, Control, Rings, FeTypeOK, CtlType
  <2>2. QED
    BY <1>1, <2>1 DEF RingInv, RingOrder, LastSlot
<1>8. CASE AllocDma
  <2>1. next' = 0 /\ free' = 0 /\ ctx' = 0 /\ dtx' = 0 /\ buf' = NoBuffers
    BY <1>8 DEF AllocDma
  <2>2. Ahead(0, 0) = 0
    BY DEF Ahead
  <2>3. \A i \in Slots : buf'[i] = "none" /\ ~Within(i, 0, 0)
    BY <2>1, AheadFacts, RingAssumption DEF NoBuffers, Within, Slots
  <2>4. RingOrder'
    BY <2>1, <2>2, <2>3 DEF RingOrder
  <2>5. QED
    BY <1>1, <2>1, <2>4 DEF RingInv, LastSlot
<1>9. CASE UNCHANGED <<next, free, ctx, dtx, buf>>
  <2>1. ringUp' = ringUp \/ ~ringUp' \/ AllocDma
    BY CtlFrame DEF ResetBegin, CloseBegin, OpenBegin, StopStep, StopQueue, StopIrq, NapiOff,
       FreeDma, OpenStep, AllocFails, OpenNapi, OpenEnd, ctlVars
  <2>2. QED
    BY <1>1, <1>8, <1>9, <2>1 DEF RingInv, RingOrder, LastSlot, Within
<1>10. QED
  BY <1>3, <1>4, <1>5, <1>6, <1>7, <1>8, <1>9, RingFrame

-----------------------------------------------------------------------------
(* The packets.                                                            *)

Lasts == {i \in Slots : buf[i] = "last"}

\* The packets in the ring can be counted.
LEMMA LastsFinite == IsFiniteSet(Lasts) /\ Cardinality(Lasts) \in Nat
<1>1. IsFiniteSet(Slots)
  BY FS_Interval, RingAssumption DEF Slots
<1>2. Lasts \in SUBSET Slots
  BY DEF Lasts
<1>3. QED
  BY <1>1, <1>2, FS_Subset, FS_CardinalityType

\* Between two polls no completed packet waits to be told of.
Told == poll \notin {"reread", "txack", "wake"} => done = 0

\* The poll counts the packets that end in the slots it empties.
LEMMA CompletedCounts ==
  ASSUME RingType, NEW k \in Nat, k < RingSize
  PROVE  Completed(k) = Cardinality({i \in Lasts : Within(i, free, k)})
<1> DEFINE J == {j \in 0..(k - 1) : buf[Slot(free, j)] = "last"}
           R == {i \in Lasts : Within(i, free, k)}
           f == [j \in J |-> Slot(free, j)]
<1>1. IsFiniteSet(J) /\ Completed(k) = Cardinality(J)
  BY CompletedType DEF Completed
<1>2. \A j \in 0..(k - 1) : Slot(free, j) \in Slots /\ Ahead(free, Slot(free, j)) = j
  BY RingAssumption DEF Slots, Slot, Ahead, RingType
<1>3. f \in [J -> R]
  BY <1>2 DEF Lasts, Within
<1>4. \A i \in R : Ahead(free, i) \in J /\ f[Ahead(free, i)] = i
  BY AheadFacts DEF Lasts, Within, RingType
<1>5. \A a, b \in J : f[a] = f[b] => a = b
  BY <1>2
<1>6. f \in Bijection(J, R)
  <2> HIDE DEF J, R, f
  <2>1. \A i \in R : \E j \in J : f[j] = i
    BY <1>4
  <2>2. QED
    BY <1>3, <1>5, <2>1 DEF Bijection, Injection, Surjection, IsInjective
<1>7. Cardinality(R) = Cardinality(J)
  <2> HIDE DEF J, R, f
  <2>1. ExistsBijection(J, R)
    BY <1>6 DEF ExistsBijection
  <2>2. QED
    BY <1>1, <2>1, FS_Bijection
<1>8. QED
  BY <1>1, <1>7

\* Every step keeps what the queue was told.
LEMMA ToldStep == Control /\ Told /\ [FeNext]_feVars => Told'
<1> SUFFICES ASSUME NapiState, Told, [FeNext]_feVars PROVE Told'
  BY DEF Control
<1> USE DEF Told, pollVars
<1>1. CASE XmitMap \/ HwReceive \/ HwSend \/ IrqSchedule \/ IrqRefused
  BY <1>1 DEF XmitMap, HwReceive, HwSend, IrqSchedule, IrqRefused
<1>2. CASE PollBegin \/ PollReread \/ PollTxAck \/ PollComplete \/ PollWake
  BY <1>2 DEF PollBegin, PollReread, PollTxAck, PollComplete, PollWake
<1>3. CASE PollRx \/ PollRxAck \/ PollRepeat \/ PollDone \/ PollEnable
  BY <1>3 DEF PollRx, PollRxAck, PollRepeat, PollDone, PollEnable
<1>4. CASE PollReap
  BY <1>4 DEF PollReap
<1>5. CASE StopIrq \/ NapiOff \/ FreeDma \/ OpenNapi \/ OpenEnd
  BY <1>5 DEF StopIrq, NapiOff, FreeDma, OpenNapi, OpenEnd
<1>6. CASE UNCHANGED <<poll, done>>
  BY <1>6
<1>7. QED
  BY <1>1, <1>2, <1>3, <1>4, <1>5, <1>6, PollFrame, CountFrame DEF PollStep

\* Every step keeps the queue in balance with the ring.
LEMMA BalanceStep ==
  FeTypeOK /\ Control /\ RingInv /\ Told /\ QueueBalance /\ [FeNext]_feVars => QueueBalance'
<1> SUFFICES ASSUME RingType, PollType, Control, RingInv, Told, QueueBalance, [FeNext]_feVars
             PROVE  QueueBalance'
  BY DEF FeTypeOK
<1> USE DEF ctlVars, txVars, hwVars, pollVars
<1>1. queued = Cardinality(Lasts) + done
  BY DEF QueueBalance, Lasts
<1>2. SUFFICES queued' = Cardinality(Lasts') + done'
  BY DEF QueueBalance, Lasts
<1>3. /\ next \in Slots /\ free \in Slots /\ dtx \in Slots /\ ctx \in Slots
      /\ queued \in Int /\ done \in Nat
  BY DEF RingType
<1>4. CASE XmitMap
  <2>1. PICK n \in Needs :
          /\ ringUp /\ Empty > n
          /\ buf' = [i \in Slots |-> IF ~Within(i, next, n) THEN buf[i]
                                     ELSE IF i = Slot(next, n - 1) THEN "last" ELSE "part"]
          /\ queued' = queued + 1 /\ done' = done
    BY <1>4 DEF XmitMap
  <2> DEFINE e == Slot(next, n - 1)
  <2>2. n \in Nat /\ n > 0 /\ n < RingSize /\ Ahead(free, next) + n < RingSize
    BY <1>3, <2>1, AheadFacts, RingAssumption DEF Empty
  <2>3. e \in Slots /\ Ahead(next, e) = n - 1
    BY <1>3, <2>2, RingAssumption DEF Slots, Slot, Ahead
  <2>4. \A i \in Slots : Within(i, next, n) => buf[i] = "none"
    <3>1. \A i \in Slots : Within(i, next, n) => ~Within(i, free, Ahead(free, next))
      BY <1>3, <2>2, RingAssumption DEF Within, Slots, Ahead
    <3>2. QED
      BY <2>1, <3>1 DEF RingInv, RingOrder
  <2>5. Lasts' = Lasts \cup {e} /\ e \notin Lasts
    <3>1. Within(e, next, n)
      BY <2>2, <2>3 DEF Within
    <3>2. \A i \in Slots : buf'[i] = "last" <=> buf[i] = "last" \/ i = e
      BY <2>1, <2>4, <3>1
    <3>3. QED
      BY <2>3, <2>4, <3>1, <3>2 DEF Lasts
  <2>6. Cardinality(Lasts') = Cardinality(Lasts) + 1
    BY <2>5, LastsFinite, FS_AddElement
  <2>7. QED
    BY <1>1, <1>3, <2>1, <2>6, LastsFinite
<1>5. CASE PollReap
  <2>1. PICK k \in 0..Ahead(free, dtx) :
          /\ buf' = [i \in Slots |-> IF Within(i, free, k) THEN "none" ELSE buf[i]]
          /\ done' = Completed(k) /\ poll = "tx" /\ queued' = queued
    BY <1>5 DEF PollReap
  <2> DEFINE R == {i \in Lasts : Within(i, free, k)}
  <2>2. k \in Nat /\ k < RingSize
    BY <1>3, AheadFacts, RingAssumption
  <2>3. done = 0
    BY <2>1 DEF Told
  <2>4. Lasts' = Lasts \ R
    BY <2>1 DEF Lasts
  <2>5. Lasts \cap R = R
    OBVIOUS
  <2>6. Cardinality(Lasts') = Cardinality(Lasts) - Cardinality(R)
    <3> HIDE DEF R
    <3>1. QED
      BY <2>4, <2>5, LastsFinite, FS_Difference
  <2>7. done' = Cardinality(R) /\ Cardinality(R) \in Nat
    BY <2>1, <2>2, CompletedCounts, CompletedType
  <2>8. QED
    BY <1>1, <1>3, <2>1, <2>3, <2>6, <2>7, LastsFinite
<1>6. CASE PollComplete
  BY <1>1, <1>3, <1>6, LastsFinite DEF PollComplete, Lasts
<1>7. CASE PollBegin
  BY <1>1, <1>7 DEF PollBegin, Told, Lasts
<1>8. CASE FreeDma \/ AllocDma
  <2>1. buf' = NoBuffers
    BY <1>8 DEF FreeDma, AllocDma
  <2>2. Lasts' = {}
    BY <2>1 DEF Lasts, NoBuffers
  <2>3. Cardinality(Lasts') = 0
    BY <2>2, FS_EmptySet
  <2>4. done = 0
    BY <1>8 DEF FreeDma, AllocDma, Control, NapiState, Told
  <2>5. done' = 0
    BY <1>8, <2>4 DEF FreeDma, AllocDma
  <2>6. queued' = 0
    <3>1. CASE FreeDma
      BY <3>1 DEF FreeDma
    <3>2. CASE AllocDma
      <4>1. ~ringUp /\ queued' = queued
        BY <3>2 DEF AllocDma, Control, Rings
      <4>2. Lasts = {}
        BY <4>1 DEF Lasts, RingInv, EmptyRing
      <4>3. QED
        BY <1>1, <2>4, <4>1, <4>2, FS_EmptySet
    <3>3. QED
      BY <1>8, <3>1, <3>2
  <2>7. QED
    BY <2>3, <2>5, <2>6
<1>9. CASE XmitBell \/ HwSend \/ AllocFails
  <2>1. buf' = buf /\ queued' = queued /\ done' = done
    BY <1>9 DEF XmitBell, HwSend, AllocFails
  <2>2. QED
    BY <1>1, <2>1 DEF Lasts
<1>10. CASE HwReceive \/ PollRx
  <2>1. buf' = buf /\ queued' = queued /\ done' = done
    BY <1>10 DEF HwReceive, PollRx
  <2>2. QED
    BY <1>1, <2>1 DEF Lasts
<1>11. CASE UNCHANGED <<queued, done, rx>> /\ UNCHANGED <<next, free, ctx, dtx, buf>>
  BY <1>1, <1>11 DEF Lasts
<1>12. QED
  BY <1>4, <1>5, <1>6, <1>7, <1>8, <1>9, <1>10, <1>11, RingFrame, CountFrame

\* A stopped queue has packets in the ring, a completion about to be told of,
\* or a wake-up under way; only the queue of a packet that did not fit may not.
Woken ==
  up /\ stopped /\ ctl = "idle" /\ ~full => free # next \/ done > 0 \/ poll = "waking"

\* Every step keeps a stopped queue in the care of somebody.
LEMMA WokenStep ==
  FeTypeOK /\ Control /\ RingInv /\ Told /\ Woken /\ [FeNext]_feVars => Woken'
<1> SUFFICES ASSUME FeTypeOK, Control, RingInv, Told, Woken, [FeNext]_feVars PROVE Woken'
  OBVIOUS
<1> USE DEF ctlVars, txVars, hwVars, pollVars, irqVars, workVars
<1>1. /\ next \in Slots /\ free \in Slots /\ dtx \in Slots /\ done \in Nat
      /\ XmitType /\ CtlType /\ PollType
  BY DEF FeTypeOK, RingType
<1>2. CASE XmitMap \/ XmitDrop \/ XmitFull \/ XmitOops
  BY <1>2 DEF XmitMap, XmitDrop, XmitFull, XmitOops, CanXmit, Woken
<1>3. CASE XmitBusy \/ XmitBell \/ XmitRecheck
  BY <1>3 DEF XmitBusy, XmitBell, XmitRecheck, Woken
<1>4. CASE XmitStop
  <2>1. stopped' = stopped \/ Empty <= Thresh
    BY <1>4 DEF XmitStop
  <2>2. Empty <= Thresh => free # next
    BY <1>1, AheadFacts, RingAssumption DEF Empty
  <2>3. UNCHANGED <<up, ctl, full, free, next, done, poll>>
    BY <1>4 DEF XmitStop
  <2>4. QED
    BY <2>1, <2>2, <2>3 DEF Woken
<1>5. CASE PollReap
  <2>1. PICK k \in 0..Ahead(free, dtx) :
          /\ free' = Slot(free, k) /\ done' = Completed(k) /\ poll = "tx"
          /\ UNCHANGED <<next, up, stopped, ctl, full, dtx>>
    BY <1>5 DEF PollReap
  <2>2. SUFFICES ASSUME up, stopped, ctl = "idle", ~full, free' = next
                 PROVE  done' > 0
    BY <2>1 DEF Woken
  <2>3. ringUp /\ done = 0 /\ free # next
    BY <2>1, <2>2 DEF Control, Rings, Told, Woken
  <2>4. k \in Nat /\ k <= Ahead(free, dtx) /\ k <= Ahead(free, next)
    <3>1. k \in Nat /\ k <= Ahead(free, dtx)
      BY <1>1, AheadFacts
    <3>2. Ahead(free, dtx) <= Ahead(free, next)
      BY <1>1, <2>3, AheadFacts DEF RingInv, RingOrder, FeTypeOK, RingType
    <3>3. QED
      BY <1>1, <3>1, <3>2, AheadFacts
  <2>5. k = Ahead(free, next)
    <3>1. Ahead(Slot(free, k), next) = Ahead(free, next) - k
      BY <1>1, <2>4, AheadLess
    <3>2. Slot(free, k) = next /\ Ahead(next, next) = 0
      BY <1>1, <2>1, <2>2, AheadFacts
    <3>3. QED
      BY <1>1, <2>4, <3>1, <3>2, AheadFacts
  <2>6. k > 0 /\ k < RingSize
    BY <1>1, <2>3, <2>5, AheadFacts
  <2>7. Slot(free, k - 1) = Slot(next, RingSize - 1)
    BY <1>1, <2>5, <2>6, RingAssumption DEF Slot, Slots, Ahead
  <2>8. buf[Slot(free, k - 1)] = "last"
    BY <2>3, <2>7 DEF RingInv, LastSlot
  <2>9. Completed(k) # 0
    <3>1. k - 1 \in 0..(k - 1)
      BY <2>4, <2>6
    <3>2. {j \in 0..(k - 1) : buf[Slot(free, j)] = "last"} # {}
      BY <2>8, <3>1
    <3>3. QED
      BY <2>4, <3>2, CompletedType, FS_EmptySet DEF Completed
  <2>10. done' = Completed(k) /\ Completed(k) \in Nat
    BY <2>1, <2>4, CompletedType
  <2>11. QED
    BY <2>9, <2>10
<1>6. CASE PollComplete
  <2>1. free = next => Empty > Thresh
    BY <1>1, AheadFacts, RingAssumption DEF Empty
  <2>2. /\ poll' = IF done > 0 /\ stopped /\ Empty > Thresh THEN "waking" ELSE AfterTx
        /\ done' = 0 /\ poll = "wake" /\ UNCHANGED <<free, next, up, stopped, ctl, full>>
    BY <1>6 DEF PollComplete
  <2>3. QED
    BY <2>1, <2>2 DEF Woken
<1>7. CASE PollWake
  BY <1>7 DEF PollWake, Woken
<1>8. CASE PollBegin \/ PollReread \/ PollTxAck
  BY <1>8 DEF PollBegin, PollReread, PollTxAck, Woken, Told
<1>9. CASE PollRx \/ PollRxAck \/ PollRepeat \/ PollDone \/ PollEnable
  BY <1>9 DEF PollRx, PollRxAck, PollRepeat, PollDone, PollEnable, Woken
<1>10. CASE HwSend \/ HwReceive \/ IrqSchedule \/ IrqRefused
  BY <1>10 DEF HwSend, HwReceive, IrqSchedule, IrqRefused, Woken
<1>11. CASE ResetBegin \/ CloseBegin \/ OpenBegin
  BY <1>11 DEF ResetBegin, CloseBegin, OpenBegin, Woken
<1>12. CASE StopQueue \/ StopIrq \/ NapiOff \/ FreeDma
  BY <1>12 DEF StopQueue, StopIrq, NapiOff, FreeDma, Woken, Control, Owner
<1>13. CASE AllocDma \/ AllocFails \/ OpenNapi \/ OpenEnd
  BY <1>13 DEF AllocDma, AllocFails, OpenNapi, OpenEnd, Woken, Control, Owner
<1>14. CASE UNCHANGED <<up, stopped, ctl, full, free, next, done, poll>>
  BY <1>14 DEF Woken
<1>15. QED
  BY <1>2, <1>3, <1>4, <1>5, <1>6, <1>7, <1>8, <1>9, <1>10, <1>11, <1>12, <1>13, <1>14,
     RingFrame, CountFrame, XmitFrame, PollFrame, CtlFrame
  DEF XmitNext, XmitStep, PollStep, StopStep, OpenStep

-----------------------------------------------------------------------------
(* The inductive invariant.                                                *)

FeInv ==
  /\ FeTypeOK /\ Control /\ Masked /\ KeptStopped /\ DoorbellRung
  /\ RingInv /\ Told /\ QueueBalance /\ Woken

\* The invariant holds initially.
LEMMA FeInitInv == FeInit => FeInv
<1> SUFFICES ASSUME FeInit PROVE FeInv
  OBVIOUS
<1>1. FeTypeOK
  BY FeInitType
<1>2. Control /\ Masked /\ KeptStopped /\ Told /\ Woken
  BY DEF FeInit, Control, Owner, Rings, NapiState, Masked, KeptStopped, Told, Woken
<1>3. DoorbellRung /\ RingInv
  BY DEF FeInit, DoorbellRung, RingInv, RingOrder, EmptyRing, LastSlot, NoBuffers
<1>4. QueueBalance
  <2>1. {i \in Slots : buf[i] = "last"} = {}
    BY DEF FeInit, NoBuffers
  <2>2. queued = 0 /\ done = 0
    BY DEF FeInit
  <2>3. QED
    BY <2>1, <2>2, FS_EmptySet DEF QueueBalance
<1>5. QED
  BY <1>1, <1>2, <1>3, <1>4 DEF FeInv

(* The inductive invariant of the Ethernet driver.                         *)
THEOREM FeInvariance == FeSpec => []FeInv
<1>1. FeInv /\ [FeNext]_feVars => FeInv'
  <2>1. FeInv /\ [FeNext]_feVars => Control'
    BY OwnerStep, RingsStep, NapiStateStep DEF FeInv, Control, FeTypeOK
  <2>2. QED
    BY <2>1, FeStepType, MaskedStep, KeptStoppedStep, DoorbellStep, RingInvStep, ToldStep,
       BalanceStep, WokenStep DEF FeInv
<1>2. QED
  BY <1>1, FeInitInv, PTL DEF FeSpec

(* Every variable of the driver keeps its type.                            *)
THEOREM FeTypeCorrect == FeSpec => []FeTypeOK
<1>1. FeInv => FeTypeOK
  BY DEF FeInv
<1>2. QED
  BY <1>1, FeInvariance, PTL

(* The four indices of the ring stay in order, through wraps and resets.   *)
THEOREM RingStaysOrdered == FeSpec => []RingOrder
<1>1. FeInv => RingOrder
  BY DEF FeInv, RingInv
<1>2. QED
  BY <1>1, FeInvariance, PTL

(* What is counted as queued is in the ring or about to be completed.      *)
THEOREM QueueStaysBalanced == FeSpec => []QueueBalance
<1>1. FeInv => QueueBalance
  BY DEF FeInv
<1>2. QED
  BY <1>1, FeInvariance, PTL

(* No poll and no transmission leaves a stopped queue over an empty ring.  *)
THEOREM NoQueueStuck == FeSpec => []NoStuckQueue
<1>1. FeInv => NoStuckQueue
  BY DEF FeInv, Woken, NoStuckQueue
<1>2. QED
  BY <1>1, FeInvariance, PTL

(* No packet is left without its doorbell at the end of a batch.           *)
THEOREM DoorbellAlwaysRung == FeSpec => []DoorbellRung
<1>1. FeInv => DoorbellRung
  BY DEF FeInv
<1>2. QED
  BY <1>1, FeInvariance, PTL

(* A ring that is gone is in reach of the transmit function only after a   *)
(* poll has woken the stopped queue.                                       *)
THEOREM RingOutOfReach == FeSpec => []AwakeRing
<1>1. FeInv => AwakeRing
  BY DEF FeInv, FeTypeOK, CtlType, Control, Rings, KeptStopped, AwakeRing
<1>2. QED
  BY <1>1, FeInvariance, PTL

(* The interrupt of a disabled instance is masked, if no poll unmasks it.  *)
THEOREM OffStaysQuiet == FeSpec => []QuietWhenOff
<1>1. FeInv => QuietWhenOff
  BY DEF FeInv, Masked, IrqMasked, QuietWhenOff
<1>2. QED
  BY <1>1, FeInvariance, PTL

(* Stopping a device that is up never waits for ever for its poll.         *)
THEOREM StopEnds == FeSpec => []NoHangWhileUp
<1>1. FeInv => NoHangWhileUp
  BY DEF FeInv, Control, NapiState, NoHangWhileUp
<1>2. QED
  BY <1>1, FeInvariance, PTL
=============================================================================
