------------------------------- MODULE HciTx --------------------------------
(***************************************************************************)
(* The transmit side of the HCI layer, src/hci/ssv_hci.c, over an          *)
(* interface with interrupts (SDIO: isr_disable is false).                 *)
(*                                                                         *)
(* Any context may enqueue frames, pause and resume the hardware queues,   *)
(* or stop and start the layer.  Frames leave in ssv6xxx_hci_isr, which    *)
(* runs while the chip signals RESOURCE_LOW ("low" below) or RX and the    *)
(* interrupt is not masked; it clears "low" from its mask when there is    *)
(* nothing it may send, and ssv6xxx_hci_trigger_tx sets it again.  A       *)
(* failed transfer queues ssv6xxx_hci_isr_reset as work.                   *)
(*                                                                         *)
(* hci_mutex orders the changes of int_mask and of the chip's mask         *)
(* register, txq_mask_lock those of txq_mask; the queues have their own    *)
(* lock, taken for one operation at a time; paused and hci_start are read  *)
(* without a lock.  A step is what a context does between two such points. *)
(***************************************************************************)
EXTENDS Integers, Sequences, FiniteSets

CONSTANTS
  NumQueues,    \* SSV_HW_TXQ_NUM, 5 in the code
  Frames,       \* frames to enqueue, each once (a model bound)
  QueueOf,      \* the queue of each frame
  Pages,        \* the chip pages it takes
  PageMax,      \* tx_page_threshold
  IdMax,        \* tx_id_threshold
  OutMax,       \* size of the chip's output queue for each queue
  InMax,        \* SSV6XXX_ID_HCI_INPUT_QUEUE, 8 in the code
  LowTrigger,   \* RESOURCE_LOW is up while at most so many frames are in the chip
  HasTrigger,   \* if_ops has trigger_tx_rx (ENABLE_WAKE_IO_ISR_WHEN_HCI_ENQUEUE)
  Callers,      \* contexts that call the layer
  MayDo,        \* the operations each of them calls
  MaxOps,       \* bound: pauses, resumes, stops and starts
  Events,       \* which of EventKinds may happen
  MaxEvents     \* bound: how many of them

\* "rx": a frame is received; "rxfail": reading it fails; "bus": IF_SEND fails;
\* "read": reading the chip's counters fails.
EventKinds == {"rx", "rxfail", "bus", "read"}

None == "none"                  \* nobody holds the lock
NoFrame == 0
Queues == 0 .. NumQueues - 1
Mgmt == NumQueues - 1            \* queue 4, handled apart
Ops == {"enqueue", "pause", "resume", "stop", "start"}
Ints == {"rx", "low"}            \* SSV6XXX_INT_RX, SSV6XXX_INT_RESOURCE_LOW

ASSUME HciAssumption ==
  /\ NumQueues \in Nat \ {0}
  /\ QueueOf \in [Frames -> Queues] /\ Pages \in [Frames -> Nat \ {0}]
  /\ PageMax \in Nat /\ IdMax \in Nat /\ InMax \in Nat \ {0}
  /\ OutMax \in [Queues -> Nat] /\ LowTrigger \in Nat
  /\ HasTrigger \in BOOLEAN /\ MaxOps \in Nat /\ MaxEvents \in Nat
  /\ MayDo \in [Callers -> SUBSET Ops]
  /\ Events \subseteq EventKinds
  /\ Frames \subseteq Nat \ {NoFrame}
  /\ Callers \cap {None, "isr", "work"} = {}

VARIABLES
  fresh,     \* frames not enqueued yet
  q,         \* hw_txq[].qhead
  txqMask,   \* txq_mask
  paused,    \* the queues whose paused is true
  halted,    \* MTX_HALT_Q_MB, in the chip
  maskLock,  \* holder of txq_mask_lock
  intMask,   \* int_mask
  intStatus, \* RESOURCE_LOW is in int_status
  hwMask,    \* the interrupts the chip's mask register lets through
  signal,    \* mmc_signal_sdio_irq has been called
  claimed,   \* the interrupt handler is installed (sdio_claim_irq)
  hciMutex,  \* holder of hci_mutex
  started,   \* hci_start
  pc,        \* where each context is
  regval,    \* the mask it is about to write to the chip
  isr,       \* the interrupt handler's locals
  hand,      \* the frame it has dequeued
  reset,     \* isr_reset_work is queued
  chipIn,    \* the chip's input queue
  chipOut,   \* its output queues
  used,      \* the pages and ids it has given to frames
  rx,        \* the chip signals RX
  sent,      \* frames handed to the bus, for each queue (history)
  dropped,   \* frames freed because they are too large (history)
  late,      \* frames sent since their queue was paused (history)
  ops,       \* operations so far (bounded by MaxOps)
  events     \* events so far (bounded by MaxEvents)

queueVars == <<fresh, q, sent, dropped>>
pauseVars == <<txqMask, paused, halted, maskLock>>
irqVars == <<intMask, intStatus, hwMask, signal, claimed, hciMutex>>
isrVars == <<isr, hand, reset>>
chipVars == <<chipIn, chipOut, used, rx>>
bounds == <<ops, events>>
vars == <<queueVars, pauseVars, irqVars, started, pc, regval, isrVars,
          chipVars, late, bounds>>

Ctx == Callers \cup {"work"}        \* the interrupt handler is apart

Goto(c, where) == pc' = [pc EXCEPT ![c] = where]
Event(k) == k \in Events /\ events < MaxEvents /\ events' = events + 1
Operation(c, op) ==
  /\ pc[c] = "idle" /\ op \in MayDo[c]
  /\ ops < MaxOps /\ ops' = ops + 1
-----------------------------------------------------------------------------
(* The chip (external).                                                    *)

Full == [page |-> 0, id |-> 0]       \* no frame in the chip

Low == used.id <= LowTrigger
Status == (IF Low THEN {"low"} ELSE {}) \cup (IF rx THEN {"rx"} ELSE {})

\* The chip moves a frame to the output queue of its AC, and sends it on the
\* air unless that queue is halted.
ChipAccept ==
  /\ chipIn # <<>>
  /\ LET f == Head(chipIn)
     IN  chipOut' = [chipOut EXCEPT ![QueueOf[f]] = Append(@, f)]
  /\ chipIn' = Tail(chipIn)
  /\ UNCHANGED <<queueVars, pauseVars, irqVars, started, pc, regval, isrVars,
                 used, rx, late, bounds>>

ChipSend(i) ==
  /\ chipOut[i] # <<>> /\ i \notin halted
  /\ used' = [page |-> used.page - Pages[Head(chipOut[i])], id |-> used.id - 1]
  /\ chipOut' = [chipOut EXCEPT ![i] = Tail(@)]
  /\ UNCHANGED <<queueVars, pauseVars, irqVars, started, pc, regval, isrVars,
                 chipIn, rx, late, bounds>>

ChipRx ==
  /\ Event("rx") /\ rx' = TRUE
  /\ UNCHANGED <<queueVars, pauseVars, irqVars, started, pc, regval, isrVars,
                 chipIn, chipOut, used, late, ops>>
-----------------------------------------------------------------------------
Nothing == [page |-> 0, id |-> 0, out |-> 0]
Idle == [at |-> "idle", q |-> 0, left |-> 0, free |-> Nothing, status |-> {},
         fail |-> FALSE]

Init ==
  /\ fresh = Frames /\ q = [i \in Queues |-> <<>>]
  /\ txqMask = {} /\ paused = {} /\ halted = {} /\ maskLock = None
  /\ intMask = {"rx", "low"} /\ intStatus = FALSE /\ hwMask = {}
  /\ signal = FALSE /\ claimed = FALSE /\ hciMutex = None /\ started = FALSE
  /\ pc = [c \in Ctx |-> "idle"] /\ regval = [c \in Ctx \cup {"isr"} |-> {}]
  /\ isr = Idle /\ hand = NoFrame /\ reset = FALSE
  /\ chipIn = <<>> /\ chipOut = [i \in Queues |-> <<>>] /\ used = Full
  /\ rx = FALSE
  /\ sent = [i \in Queues |-> <<>>] /\ dropped = {}
  /\ late = [i \in Queues |-> 0] /\ ops = 0 /\ events = 0
-----------------------------------------------------------------------------
(* ssv6xxx_hci_enqueue and ssv6xxx_hci_trigger_tx                          *)

Enqueue(c, f) ==
  /\ pc[c] = "idle" /\ "enqueue" \in MayDo[c] /\ f \in fresh
  /\ \/ q' = [q EXCEPT ![QueueOf[f]] = <<f>> \o @]       \* skb_queue_head
     \/ q' = [q EXCEPT ![QueueOf[f]] = Append(@, f)]     \* skb_queue_tail
  /\ fresh' = fresh \ {f}
  /\ Goto(c, "trigger")
  /\ UNCHANGED <<sent, dropped, pauseVars, irqVars, started, regval, isrVars,
                 chipVars, late, bounds>>

\* hci_mutex is held until the chip's mask is written.  Mutant: it is given up
\* as soon as int_mask is changed.
UnlockBeforeWriting(c) == hciMutex' = None
HoldToWrite(c) == hciMutex' = c

Trigger(c) ==
  /\ pc[c] = "trigger" /\ hciMutex = None
  /\ \/ /\ "low" \in intMask
        /\ Goto(c, "idle")
        /\ UNCHANGED <<intMask, intStatus, hciMutex, regval>>
     \/ /\ "low" \notin intMask /\ HasTrigger
        /\ intStatus' = TRUE
        /\ Goto(c, "signal")
        /\ UNCHANGED <<intMask, hciMutex, regval>>
     \/ /\ "low" \notin intMask /\ ~HasTrigger
        /\ intMask' = intMask \cup {"low"}
        /\ regval' = [regval EXCEPT ![c] = intMask']
        /\ HoldToWrite(c)
        /\ Goto(c, "setmask")
        /\ UNCHANGED intStatus
  /\ UNCHANGED <<queueVars, pauseVars, hwMask, signal, claimed, started,
                 isrVars, chipVars, late, bounds>>

\* HCI_IRQ_SET_MASK, under hci_mutex
TriggerSetMask(c) ==
  /\ pc[c] = "setmask"
  /\ hwMask' = regval[c]
  /\ hciMutex' = None
  /\ Goto(c, "idle")
  /\ UNCHANGED <<queueVars, pauseVars, intMask, intStatus, signal, claimed,
                 started, regval, isrVars, chipVars, late, bounds>>

\* ssv6xxx_sdio_trigger_tx_rx.  Mutant: the handler is not signalled while it
\* runs.
TriggerSignalIdle(c) ==
  /\ pc[c] = "signal"
  /\ signal' = (signal \/ isr.at = "idle")
  /\ Goto(c, "idle")
  /\ UNCHANGED <<queueVars, pauseVars, intMask, intStatus, hwMask, claimed,
                 hciMutex, started, regval, isrVars, chipVars, late, bounds>>

TriggerSignal(c) ==
  /\ pc[c] = "signal"
  /\ signal' = TRUE
  /\ Goto(c, "idle")
  /\ UNCHANGED <<queueVars, pauseVars, intMask, intStatus, hwMask, claimed,
                 hciMutex, started, regval, isrVars, chipVars, late, bounds>>
-----------------------------------------------------------------------------
(* ssv6xxx_hci_txq_pause and ssv6xxx_hci_txq_resume                        *)

PauseTake(c, m) ==
  /\ Operation(c, "pause") /\ maskLock = None
  /\ maskLock' = c
  /\ txqMask' = txqMask \cup m
  /\ paused' = paused \cup txqMask'
  /\ Goto(c, "pausing")
  /\ UNCHANGED <<queueVars, halted, irqVars, started, regval, isrVars,
                 chipVars, late, events>>

\* HAL_UPDATE_TXQ_MASK: a read, then a write over the bus
PauseWrite(c) ==
  /\ pc[c] = "pausing"
  /\ halted' = txqMask
  /\ maskLock' = None
  /\ Goto(c, "idle")
  /\ UNCHANGED <<queueVars, txqMask, paused, irqVars, started, regval, isrVars,
                 chipVars, late, bounds>>

ResumeTake(c, m) ==
  /\ Operation(c, "resume") /\ maskLock = None
  /\ maskLock' = c
  /\ txqMask' = txqMask \ m
  /\ late' = [i \in Queues |-> IF i \in m THEN 0 ELSE late[i]]
  /\ Goto(c, "resuming")
  /\ UNCHANGED <<queueVars, paused, halted, irqVars, started, regval, isrVars,
                 chipVars, events>>

\* Mutant: every queue is marked as running again.
NoneStillPaused(m) == {}
StillPaused(m) == paused \cap m

ResumeWrite(c) ==
  /\ pc[c] = "resuming"
  /\ halted' = txqMask
  /\ paused' = StillPaused(txqMask)
  /\ maskLock' = None
  /\ Goto(c, "trigger")
  /\ UNCHANGED <<queueVars, txqMask, irqVars, started, regval, isrVars,
                 chipVars, late, bounds>>
-----------------------------------------------------------------------------
(* ssv6xxx_hci_irq_disable and _enable, in ssv6xxx_hci_stop, in            *)
(* ssv6xxx_hci_start and in the work ssv6xxx_hci_isr_reset.  They write    *)
(* the chip's mask without hci_mutex.                                      *)

Stop(c) ==
  /\ Operation(c, "stop")
  /\ hwMask' = {}
  /\ Goto(c, "stopping")
  /\ UNCHANGED <<queueVars, pauseVars, intMask, intStatus, signal, claimed,
                 hciMutex, started, regval, isrVars, chipVars, late, events>>

\* ssv6xxx_sdio_irq_disable waits for the handler to return.
StopWait(c) ==
  /\ pc[c] = "stopping" /\ isr.at = "idle"
  /\ claimed' = FALSE
  /\ started' = FALSE
  /\ Goto(c, "idle")
  /\ UNCHANGED <<queueVars, pauseVars, intMask, intStatus, hwMask, signal,
                 hciMutex, regval, isrVars, chipVars, late, bounds>>

Start(c) ==
  /\ Operation(c, "start") /\ ~started      \* mac80211 starts it once
  /\ regval' = [regval EXCEPT ![c] = intMask]
  /\ Goto(c, "starting")
  /\ UNCHANGED <<queueVars, pauseVars, irqVars, started, isrVars, chipVars,
                 late, events>>

StartMask(c) ==
  /\ pc[c] = "starting"
  /\ hwMask' = regval[c]
  /\ Goto(c, "claiming")
  /\ UNCHANGED <<queueVars, pauseVars, intMask, intStatus, signal, claimed,
                 hciMutex, started, regval, isrVars, chipVars, late, bounds>>

\* ssv6xxx_sdio_irq_enable; claiming twice has no effect.
Claim(c) ==
  /\ pc[c] = "claiming"
  /\ claimed' = TRUE
  /\ started' = (started \/ c # "work")
  /\ Goto(c, "idle")
  /\ UNCHANGED <<queueVars, pauseVars, intMask, intStatus, hwMask, signal,
                 hciMutex, regval, isrVars, chipVars, late, bounds>>

ResetMask ==
  /\ pc["work"] = "idle" /\ reset
  /\ reset' = FALSE
  /\ hwMask' = {}
  /\ Goto("work", "stopping")
  /\ UNCHANGED <<queueVars, pauseVars, intMask, intStatus, signal, claimed,
                 hciMutex, started, regval, isr, hand, chipVars, late, bounds>>

ResetWait ==
  /\ pc["work"] = "stopping" /\ isr.at = "idle"
  /\ claimed' = FALSE
  /\ regval' = [regval EXCEPT !["work"] = intMask]
  /\ Goto("work", "starting")
  /\ UNCHANGED <<queueVars, pauseVars, intMask, intStatus, hwMask, signal,
                 hciMutex, started, isrVars, chipVars, late, bounds>>
-----------------------------------------------------------------------------
(* ssv6xxx_hci_isr                                                         *)

IsrAt(where) == isr' = [isr EXCEPT !.at = where]
isrOnly == <<queueVars, pauseVars, irqVars, started, pc, regval, hand, reset,
             chipVars, late, bounds>>

IsrEnter ==
  /\ isr.at = "idle" /\ claimed
  /\ signal \/ Status \cap hwMask # {}
  /\ signal' = FALSE
  /\ IsrAt("merge")
  /\ UNCHANGED <<queueVars, pauseVars, intMask, intStatus, hwMask, claimed,
                 hciMutex, started, pc, regval, hand, reset, chipVars, late,
                 bounds>>

\* int_status is merged into int_mask.
IsrMerge ==
  /\ isr.at = "merge" /\ hciMutex = None
  /\ hciMutex' = "isr"
  /\ IF intStatus
     THEN /\ intMask' = intMask \cup {"low"}
          /\ intStatus' = FALSE
          /\ regval' = [regval EXCEPT !["isr"] = intMask']
          /\ IsrAt("setmask")
     ELSE IsrAt("status") /\ UNCHANGED <<intMask, intStatus, regval>>
  /\ UNCHANGED <<queueVars, pauseVars, hwMask, signal, claimed, started, pc,
                 hand, reset, chipVars, late, bounds>>

IsrSetMask ==
  /\ isr.at = "setmask"
  /\ hwMask' = regval["isr"]
  /\ IsrAt("status")
  /\ UNCHANGED <<queueVars, pauseVars, intMask, intStatus, signal, claimed,
                 hciMutex, started, pc, regval, hand, reset, chipVars, late,
                 bounds>>

\* What follows the work on the interrupts st, when none of it failed.
Part(st) == IF "low" \in st THEN "queue" ELSE "rx"

IsrStatus ==
  /\ isr.at = "status"
  /\ hciMutex' = None
  /\ LET st == Status \cap intMask
     IN  isr' = IF st = {} THEN Idle
                ELSE [Idle EXCEPT !.at = Part(st), !.q = Mgmt, !.status = st]
  /\ UNCHANGED <<queueVars, pauseVars, intMask, intStatus, hwMask, signal,
                 claimed, started, pc, regval, hand, reset, chipVars, late,
                 bounds>>

\* _do_tx calls ssv6xxx_hci_tx_handler for each queue, the last one first.
\* Mutant: it goes on below queue 0.
FollowingBelow(i) == IF i.q < 0 \/ i.fail THEN [i EXCEPT !.at = "recheck"]
                     ELSE [i EXCEPT !.q = @ - 1, !.at = "queue"]
Following(i) == IF i.q = 0 \/ i.fail THEN [i EXCEPT !.at = "recheck"]
                ELSE [i EXCEPT !.q = @ - 1, !.at = "queue"]

IsrSkip ==
  /\ isr.at = "queue"
  /\ \/ Len(q[isr.q]) = 0
     \/ isr.q \in paused
     \/ Len(chipIn) = InMax /\ isr.q # Mgmt     \* retry_read for queue 4
  /\ isr' = Following(isr)
  /\ UNCHANGED isrOnly

\* HAL_READRG_TXQ_INFO: what the chip has left, and how many frames its
\* input queue takes.
FreeNow == [page |-> PageMax - used.page, id |-> IdMax - used.id,
            out |-> OutMax[isr.q] - Len(chipOut[isr.q])]
IsrRead ==
  /\ isr.at = "queue" /\ Len(q[isr.q]) > 0 /\ isr.q \notin paused
  /\ Len(chipIn) < InMax
  /\ isr' = [isr EXCEPT !.at = "info", !.free = FreeNow,
                        !.left = InMax - Len(chipIn)]
  /\ UNCHANGED isrOnly

\* The read fails.  The HAL function returns a bool, so that "ret < 0" never
\* holds: the uninitialised txq_info is used, hci_used_id is -1.
IsrReadFails ==
  /\ Event("read")
  /\ isr.at = "queue" /\ Len(q[isr.q]) > 0 /\ isr.q \notin paused
  /\ \E page \in {-1, PageMax}, id \in {-1, IdMax}, out \in {0, OutMax[isr.q]} :
       isr' = [isr EXCEPT !.at = "info", !.left = Len(q[isr.q]),
                          !.free = [page |-> page, id |-> id, out |-> out]]
  /\ UNCHANGED <<queueVars, pauseVars, irqVars, started, pc, regval, hand,
                 reset, chipVars, late, ops>>

\* Queue 4 reads again when the numbers make no sense; for the others
\* BUG_ON stands here.
IsrInfo ==
  /\ isr.at = "info"
  /\ IF isr.free.page < 0 \/ isr.free.id < 0
     THEN isr.q = Mgmt /\ IsrAt("queue")
     ELSE IsrAt("xmit")
  /\ UNCHANGED isrOnly

\* ssv6xxx_hci_xmit.  Mutant: paused is looked at by ssv6xxx_hci_tx_handler
\* only.
MayTakeUnchecked == started /\ isr.left > 0
MayTake == started /\ isr.q \notin paused /\ isr.left > 0

XmitTake ==
  /\ isr.at = "xmit" /\ hand = NoFrame
  /\ MayTake /\ Len(q[isr.q]) > 0
  /\ hand' = Head(q[isr.q])
  /\ q' = [q EXCEPT ![isr.q] = Tail(@)]
  /\ isr' = [isr EXCEPT !.left = @ - 1]
  /\ UNCHANGED <<fresh, sent, dropped, pauseVars, irqVars, started, pc, regval,
                 reset, chipVars, late, bounds>>

XmitDone ==
  /\ isr.at = "xmit" /\ hand = NoFrame
  /\ ~MayTake \/ Len(q[isr.q]) = 0
  /\ isr' = Following(isr)
  /\ UNCHANGED isrOnly

TooLarge(f) == Pages[f] > PageMax
\* Mutant: a frame for which there are not enough pages is sent.
FitsIds(f) == isr.free.id > 0 /\ isr.free.out > 0
Fits(f) == Pages[f] <= isr.free.page /\ isr.free.id > 0 /\ isr.free.out > 0

XmitDrop ==
  /\ isr.at = "xmit" /\ hand # NoFrame /\ TooLarge(hand)
  /\ dropped' = dropped \cup {hand}
  /\ hand' = NoFrame
  /\ isr' = Following(isr)
  /\ UNCHANGED <<fresh, q, sent, pauseVars, irqVars, started, pc, regval, reset,
                 chipVars, late, bounds>>

\* Mutant: a frame that cannot be sent now goes to the tail of its queue.
PutBackAtTail(f) == [q EXCEPT ![isr.q] = Append(@, f)]
PutBack(f) == [q EXCEPT ![isr.q] = <<f>> \o @]

XmitPutBack ==
  /\ isr.at = "xmit" /\ hand # NoFrame /\ ~TooLarge(hand) /\ ~Fits(hand)
  /\ q' = PutBack(hand)
  /\ hand' = NoFrame
  /\ isr' = Following(isr)
  /\ UNCHANGED <<fresh, sent, dropped, pauseVars, irqVars, started, pc, regval,
                 reset, chipVars, late, bounds>>

XmitSend ==
  /\ isr.at = "xmit" /\ hand # NoFrame /\ ~TooLarge(hand) /\ Fits(hand)
  /\ sent' = [sent EXCEPT ![isr.q] = Append(@, hand)]
  /\ chipIn' = Append(chipIn, hand)
  /\ used' = [page |-> used.page + Pages[hand], id |-> used.id + 1]
  /\ late' = [late EXCEPT ![isr.q] = IF isr.q \in txqMask \cap halted THEN @ + 1
                                     ELSE @]
  /\ isr' = [isr EXCEPT !.free = [page |-> isr.free.page - Pages[hand],
                                  id |-> isr.free.id - 1,
                                  out |-> isr.free.out - 1]]
  /\ hand' = NoFrame
  /\ UNCHANGED <<fresh, q, dropped, pauseVars, irqVars, started, pc, regval,
                 reset, chipOut, rx, bounds>>

\* IF_SEND fails: the frame is put back, no other queue is looked at.
XmitSendFails ==
  /\ Event("bus")
  /\ isr.at = "xmit" /\ hand # NoFrame /\ ~TooLarge(hand) /\ Fits(hand)
  /\ q' = PutBack(hand)
  /\ hand' = NoFrame
  /\ isr' = Following([isr EXCEPT !.fail = TRUE])
  /\ UNCHANGED <<fresh, sent, dropped, pauseVars, irqVars, started, pc, regval,
                 reset, chipVars, late, ops>>

\* ssv6xxx_hci_is_frame_send.  Mutants: only the queue looked at last counts; a
\* queue with a single frame does not.
FrameSendLast == 0 \notin paused /\ Len(q[0]) > 0
FrameSendTwo == \E i \in Queues : i \notin paused /\ Len(q[i]) > 1
FrameSend == \E i \in Queues : i \notin paused /\ Len(q[i]) > 0

\* The end of _do_tx: "low" is masked when there is nothing to send.
IsrRecheck ==
  /\ isr.at = "recheck" /\ hciMutex = None
  /\ IF FrameSend
     THEN IsrAt("after") /\ UNCHANGED <<intMask, hciMutex, regval>>
     ELSE /\ intMask' = intMask \ {"low"}
          /\ regval' = [regval EXCEPT !["isr"] = intMask']
          /\ HoldToWrite("isr")
          /\ IsrAt("clearmask")
  /\ UNCHANGED <<queueVars, pauseVars, intStatus, hwMask, signal, claimed,
                 started, pc, hand, reset, chipVars, late, bounds>>

IsrClearMask ==
  /\ isr.at = "clearmask"
  /\ hwMask' = regval["isr"]
  /\ hciMutex' = None
  /\ IsrAt("after")
  /\ UNCHANGED <<queueVars, pauseVars, intMask, intStatus, signal, claimed,
                 started, pc, regval, hand, reset, chipVars, late, bounds>>

\* The handler ends, looks at RX, or asks for a reset.
IsrAfter ==
  /\ isr.at = "after"
  /\ reset' = (reset \/ isr.fail)
  /\ isr' = IF ~isr.fail /\ "rx" \in isr.status THEN [isr EXCEPT !.at = "rx"]
            ELSE Idle
  /\ UNCHANGED <<queueVars, pauseVars, irqVars, started, pc, regval, hand,
                 chipVars, late, bounds>>

\* _isr_do_rx; then the handler looks at its interrupts again.
IsrRx ==
  /\ isr.at = "rx"
  /\ rx' = FALSE
  /\ isr' = [Idle EXCEPT !.at = "merge"]
  /\ UNCHANGED <<queueVars, pauseVars, irqVars, started, pc, regval, hand,
                 reset, chipIn, chipOut, used, late, bounds>>

IsrRxFails ==
  /\ Event("rxfail") /\ isr.at = "rx"
  /\ reset' = TRUE
  /\ isr' = Idle
  /\ UNCHANGED <<queueVars, pauseVars, irqVars, started, pc, regval, hand,
                 chipVars, late, ops>>
-----------------------------------------------------------------------------
(* Properties.                                                             *)

CallerPcs == {"idle", "trigger", "setmask", "signal", "pausing", "resuming",
              "stopping", "starting", "claiming"}
IsrPcs == {"idle", "merge", "setmask", "status", "queue", "info", "xmit",
           "recheck", "clearmask", "after", "rx"}

TypeOK ==
  /\ fresh \subseteq Frames /\ q \in [Queues -> Seq(Frames)]
  /\ txqMask \subseteq Queues /\ paused \subseteq Queues
  /\ halted \subseteq Queues /\ maskLock \in Callers \cup {None}
  /\ intMask \subseteq Ints /\ intStatus \in BOOLEAN /\ hwMask \subseteq Ints
  /\ signal \in BOOLEAN /\ claimed \in BOOLEAN
  /\ hciMutex \in Callers \cup {None, "isr"} /\ started \in BOOLEAN
  /\ pc \in [Ctx -> CallerPcs]
  /\ regval \in [Ctx \cup {"isr"} -> SUBSET Ints]
  /\ isr \in [at : IsrPcs, q : Queues, left : Nat, status : SUBSET Ints,
              free : [page : Int, id : Int, out : Int], fail : BOOLEAN]
  /\ hand \in Frames \cup {NoFrame} /\ reset \in BOOLEAN
  /\ chipIn \in Seq(Frames) /\ chipOut \in [Queues -> Seq(Frames)]
  /\ used \in [page : Int, id : Int] /\ rx \in BOOLEAN
  /\ sent \in [Queues -> Seq(Frames)] /\ dropped \subseteq Frames
  /\ late \in [Queues -> Nat] /\ ops \in Nat /\ events \in Nat

\* No wakeup is lost: while a queue that is not paused holds a frame and
\* nobody is on the way to trigger, the interrupt handler wants RESOURCE_LOW
\* or is told to.
Armed == (\E i \in Queues : i \notin paused /\ q[i] # <<>>)
         /\ (\A c \in Callers : pc[c] # "trigger")
           => "low" \in intMask \/ intStatus

\* What trigger_tx leaves in int_status is seen: the handler will be woken,
\* or has yet to look.
StatusSeen == intStatus =>
  signal \/ isr.at = "merge" \/ \E c \in Callers : pc[c] = "signal"

\* No change of the mask is lost: the chip's mask is the driver's whenever
\* nobody is writing it.
Writing == \/ \E c \in Ctx : pc[c] \in {"setmask", "stopping", "starting", "claiming"}
           \/ isr.at \in {"setmask", "clearmask"}
MaskWritten == claimed /\ ~Writing => hwMask = intMask

\* Between two operations, a queue is paused, and halted in the chip, exactly
\* if it is in txq_mask.
PauseAgrees == maskLock = None => paused = txqMask /\ halted = txqMask

\* After a pause has returned, at most one frame of the queue is sent: the
\* one that was past the check.
PauseHolds == \A i \in Queues : late[i] <= 1

\* The handler never gives the chip more than it has, however many frames it
\* sends on one reading of the chip's counters.
ChipFits ==
  /\ used.page <= PageMax /\ used.id <= IdMax
  /\ Len(chipIn) <= InMax

\* BUG_ON(SSV6XXX_PAGE_TX_THRESHOLD(ctrl_hci) < txq_info.tx_use_page) and the
\* same for the ids, in ssv6xxx_hci_tx_handler.
InfoInRange ==
  isr.at = "info" /\ isr.q # Mgmt => isr.free.page >= 0 /\ isr.free.id >= 0

\* The frames of each queue go to the bus once each and in their order.
Waiting == [i \in Queues |-> IF hand # NoFrame /\ isr.q = i THEN <<hand>> \o q[i]
                             ELSE q[i]]
Abstract == INSTANCE TxQueues WITH waiting <- Waiting
ImplementsTxQueues == Abstract!QSpec

\* Once the layer stays started and no queue stays paused, every frame that
\* was ever enqueued is sent or dropped, however enqueues, pauses, resumes and
\* starts met the interrupt handler before.
Gone(f) == f \in dropped
           \/ f \in {sent[QueueOf[f]][k] : k \in 1 .. Len(sent[QueueOf[f]])}
EventuallySent ==
  <>[](started /\ paused = {}) => \A f \in Frames : f \notin fresh ~> Gone(f)
-----------------------------------------------------------------------------
Caller(c) ==
  \/ \E f \in Frames : Enqueue(c, f)
  \/ Trigger(c) \/ TriggerSetMask(c) \/ TriggerSignal(c)
  \/ \E m \in SUBSET Queues \ {{}} : PauseTake(c, m) \/ ResumeTake(c, m)
  \/ PauseWrite(c) \/ ResumeWrite(c)
  \/ Stop(c) \/ StopWait(c) \/ Start(c) \/ StartMask(c) \/ Claim(c)
Work == ResetMask \/ ResetWait \/ StartMask("work") \/ Claim("work")
Isr ==
  \/ IsrEnter \/ IsrMerge \/ IsrSetMask \/ IsrStatus
  \/ IsrSkip \/ IsrRead \/ IsrReadFails \/ IsrInfo
  \/ XmitTake \/ XmitDone \/ XmitDrop \/ XmitPutBack \/ XmitSend \/ XmitSendFails
  \/ IsrRecheck \/ IsrClearMask \/ IsrAfter \/ IsrRx \/ IsrRxFails
Chip == ChipAccept \/ (\E i \in Queues : ChipSend(i)) \/ ChipRx

Next == (\E c \in Callers : Caller(c)) \/ Work \/ Isr \/ Chip

Spec == Init /\ [][Next]_vars

\* The contexts and the chip keep going.  A caller that waits for hci_mutex
\* gets it in the end (mutexes are handed over in order).
Fairness ==
  /\ \A c \in Callers : WF_vars(TriggerSetMask(c) \/ TriggerSignal(c)
                                \/ PauseWrite(c) \/ ResumeWrite(c)
                                \/ StopWait(c) \/ StartMask(c) \/ Claim(c))
                        /\ SF_vars(Trigger(c))
  /\ WF_vars(Work) /\ WF_vars(Isr) /\ SF_vars(IsrMerge) /\ SF_vars(IsrRecheck)
  /\ WF_vars(ChipAccept) /\ \A i \in Queues : WF_vars(ChipSend(i))

FairSpec == Spec /\ Fairness
=============================================================================
