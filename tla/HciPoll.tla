------------------------------- MODULE HciPoll ------------------------------
(***************************************************************************)
(* The transmit side of the HCI layer over an interface without interrupts *)
(* (USB): the thread ssv6xxx_hci_tx_task drains the hardware queues by     *)
(* itself, with ssv6xxx_hci_force_tx_handler.  And the flow control        *)
(* towards mac80211 which both ends of the queues call,                    *)
(* ssv6200_tx_flow_control of src/smac/dev.c.  PollTx adds the thread that *)
(* fills the queues, and the specification.                                *)
(*                                                                         *)
(* flow_ctrl_status is tested, and then changed by a load and a store,     *)
(* without a lock; those are steps of their own.  Pause and resume hold    *)
(* txq_mask_lock and are one step here (HciTx takes them apart).           *)
(***************************************************************************)
EXTENDS Integers, Sequences, FiniteSets, SequencesExt

CONSTANTS
  HpQueues,     \* SSV_HW_TXQ_NUM; the last queue is the management queue
  HpFrames,     \* frames, each enqueued once (a model bound)
  HpQueueOf,    \* the queue of each frame
  HpMaxSize,    \* max_qsize, 64 in the code
  HpResume,     \* resum_thres, 48 in the code
  HpChipSize,   \* frames the chip has room for
  HpMaxErrors,  \* MAX_HCI_TX_TASK_SEND_FAIL, 3 in the code
  HpFaults,     \* which of "bus", "gone" and "read" may happen
  HpMaxFaults,  \* bound: how many of them
  HpPauses,     \* the masks the callers of the pause and resume pass
  HpMaxOps      \* bound: pauses, resumes, stops and starts

HpQs == 0 .. HpQueues - 1
HpMgmt == HpQueues - 1
ACs == HpQs \ {HpMgmt}     \* flow control leaves queue 4 alone

ASSUME HpAssumption ==
  /\ HpQueues \in Nat \ {0, 1} /\ HpFrames \subseteq Nat \ {0} /\ IsFiniteSet(HpFrames)
  /\ HpQueueOf \in [HpFrames -> HpQs]
  /\ HpMaxSize \in Nat /\ HpResume \in 1 .. HpMaxSize
  /\ HpChipSize \in Nat \ {0} /\ HpMaxErrors \in Nat
  /\ HpFaults \subseteq {"bus", "gone", "read"}
  /\ HpPauses \subseteq SUBSET HpQs
  /\ HpMaxFaults \in Nat /\ HpMaxOps \in Nat

VARIABLES
  hpFresh,    \* frames not enqueued yet
  hpQ,        \* hw_txq[].qhead
  hpSent,     \* frames handed to the bus, for each queue (history)
  hpDropped,  \* frames freed instead (history)
  hpHand,     \* the frame ssv6xxx_hci_force_xmit has dequeued
  hpTask,     \* ssv6xxx_hci_tx_task: place, queue, frames and pages left, err
  hpMask,     \* txq_mask, and the queues whose paused is true
  hpStarted,  \* hci_start
  hpScan,     \* USB_HW_RESOURCE_CHK_SCAN is in usb_hw_resource
  hpErrCnt,   \* err_cnt
  hpIfErr,    \* SSV6XXX_HCI_OP_IFERR is in hci_flags
  hpChip,     \* frames in the chip
  hpEmpty,    \* sc->tx_q_empty
  fcBits,     \* sc->tx.flow_ctrl_status, as a set of queues
  fcStopped,  \* the queues mac80211 has been told to stop
  fc,         \* for each context, the flow control call it is in
  fcClash,    \* two calls overlapped, or a stop came too late (history)
  hpFaultsUsed, hpOps

hpFrameVars == <<hpFresh, hpQ, hpSent, hpDropped, hpHand>>
hpCtl == <<hpMask, hpStarted, hpScan, hpOps>>
hpErr == <<hpErrCnt, hpIfErr, hpFaultsUsed>>
fcVars == <<fcBits, fcStopped, fc, fcClash>>
hpVars == <<hpFrameVars, hpTask, hpCtl, hpErr, hpChip, hpEmpty, fcVars>>

NoFrame == 0
NoCall == [at |-> "none", ac |-> 0, stop |-> FALSE, val |-> {}]
FcContexts == {"tx", "hci"}
Resting == [at |-> "wait", q |-> 0, left |-> 0, pages |-> 0, err |-> "none"]
HpFault(k) == /\ k \in HpFaults /\ hpFaultsUsed < HpMaxFaults
              /\ hpFaultsUsed' = hpFaultsUsed + 1
HpOp == hpOps < HpMaxOps /\ hpOps' = hpOps + 1

HpInit ==
  /\ hpFresh = HpFrames /\ hpQ = [i \in HpQs |-> <<>>]
  /\ hpSent = [i \in HpQs |-> <<>>] /\ hpDropped = {} /\ hpHand = NoFrame
  /\ hpTask = Resting
  \* The interface is up: ssv6xxx_hci_start has been called.  A calibration
  \* or a channel switch may hold the queues.
  /\ hpMask \in {{}} \cup HpPauses /\ hpStarted = TRUE /\ hpScan \in BOOLEAN /\ hpOps = 0
  /\ hpErrCnt = 0 /\ hpIfErr = FALSE /\ hpFaultsUsed = 0
  /\ hpChip = 0 /\ hpEmpty = FALSE
  /\ fcBits = {} /\ fcStopped = {} /\ fc = [c \in FcContexts |-> NoCall]
  /\ fcClash = FALSE
-----------------------------------------------------------------------------
(* ssv6200_tx_flow_control                                                 *)

FcIdle(c) == fc[c].at = "none"

\* Mutant: the management queue is controlled too.
FcControlledAll(i) == TRUE
FcControlled(i) == i \in ACs

\* Context c calls it for queue i, or does not.
FcCall(c, i, stop, condition) ==
  IF condition /\ FcControlled(i)
  THEN /\ fc' = [fc EXCEPT ![c] = [at |-> "test", ac |-> i, stop |-> stop, val |-> {}]]
       /\ fcClash' = (fcClash \/ \E d \in FcContexts \ {c} : ~FcIdle(d))
  ELSE UNCHANGED <<fc, fcClash>>

\* The bit is tested, and mac80211 called.  backlog: frames of the queue
\* still wait, so that somebody will wake it.
FcTest(c, backlog) ==
  /\ fc[c].at = "test"
  /\ LET a == fc[c].ac
         act == (a \in fcBits) # fc[c].stop
     IN  /\ fc' = [fc EXCEPT ![c] = IF act THEN [@ EXCEPT !.at = "load"] ELSE NoCall]
         /\ fcStopped' = IF ~act THEN fcStopped
                         ELSE IF fc[c].stop THEN fcStopped \cup {a} ELSE fcStopped \ {a}
         /\ fcClash' = (fcClash \/ (act /\ fc[c].stop /\ ~backlog))
  /\ UNCHANGED fcBits

FcLoad(c) ==
  /\ fc[c].at = "load"
  /\ fc' = [fc EXCEPT ![c].at = "store", ![c].val = fcBits]
  /\ UNCHANGED <<fcBits, fcStopped, fcClash>>

FcStore(c) ==
  /\ fc[c].at = "store"
  /\ fcBits' = IF fc[c].stop THEN fc[c].val \cup {fc[c].ac} ELSE fc[c].val \ {fc[c].ac}
  /\ fc' = [fc EXCEPT ![c] = NoCall]
  /\ UNCHANGED <<fcStopped, fcClash>>

FcStep(c, backlog) ==
  /\ FcTest(c, backlog) \/ FcLoad(c) \/ FcStore(c)
  /\ UNCHANGED <<hpFrameVars, hpTask, hpCtl, hpErr, hpChip, hpEmpty>>
-----------------------------------------------------------------------------
(* ssv6xxx_hci_enqueue, in the TX task.  Its wakeup of this thread needs   *)
(* no variable: the thread looks at the queues when it waits.              *)

HpEnqueue(f, head, flow) ==
  LET i == HpQueueOf[f]
      q == IF head THEN <<f>> \o hpQ[i] ELSE Append(hpQ[i], f)
  IN  /\ hpQ' = [hpQ EXCEPT ![i] = q]
      /\ hpFresh' = hpFresh \ {f}
      /\ FcCall("tx", i, TRUE, flow /\ Len(q) >= HpMaxSize)

\* ssv6xxx_hci_txq_pause and _resume, ssv6xxx_hci_stop and _start
HpControl ==
  /\ HpOp
  /\ \/ \E m \in HpPauses : hpMask' \in {hpMask \cup m, hpMask \ m} \ {hpMask}
        /\ UNCHANGED hpStarted
     \/ hpStarted' = ~hpStarted /\ UNCHANGED hpMask
  /\ UNCHANGED <<hpFrameVars, hpTask, hpScan, hpErr, hpChip, hpEmpty, fcVars>>

\* The chip transmits.
HpChipSends ==
  /\ hpChip > 0 /\ hpChip' = hpChip - 1
  /\ UNCHANGED <<hpFrameVars, hpTask, hpCtl, hpErr, hpEmpty, fcVars>>
-----------------------------------------------------------------------------
(* ssv6xxx_hci_tx_task                                                     *)

HpBroken == hpIfErr \/ hpErrCnt > HpMaxErrors
HpFrameSend == \E i \in HpQs \ hpMask : hpQ[i] # <<>>

\* ssv6xxx_hci_txq_flush frees the queues that are not in its argument, and
\* gets all of them.  Mutant: it frees those that are.
HpFlushesInverse(q) == q \in HpQs
HpFlushes(q) == q \notin HpQs

HpGivesUp ==
  /\ hpTask.at = "wait" /\ HpBroken
  /\ hpErrCnt' = 0
  /\ LET freed == {q \in HpQs : HpFlushes(q)}
     IN  /\ hpDropped' = hpDropped \cup UNION {ToSet(hpQ[q]) : q \in freed}
         /\ hpQ' = [q \in HpQs |-> IF q \in freed THEN <<>> ELSE hpQ[q]]
  /\ UNCHANGED <<hpFresh, hpSent, hpHand, hpTask, hpCtl, hpIfErr, hpFaultsUsed, hpChip,
                 hpEmpty, fcVars>>

HpBegin ==
  /\ hpTask.at = "wait" /\ ~HpBroken /\ HpFrameSend
  /\ hpTask' = [Resting EXCEPT !.at = "queue", !.q = HpMgmt]
  /\ UNCHANGED <<hpFrameVars, hpCtl, hpErr, hpChip, hpEmpty, fcVars>>

\* _do_force_tx goes on with the next queue, or leaves; what the thread does
\* with the error.
HpLeave(err) ==
  IF hpTask.q > 0 /\ err \notin {"bus", "gone"}
  THEN /\ hpTask' = [hpTask EXCEPT !.at = "queue", !.q = @ - 1, !.err = err]
       /\ UNCHANGED <<hpErrCnt, hpIfErr>>
  ELSE /\ hpTask' = Resting
       /\ hpErrCnt' = IF err = "bus" THEN hpErrCnt + 1 ELSE hpErrCnt
       /\ hpIfErr' = (hpIfErr \/ err = "gone")

HpHalted(i) == ~hpStarted \/ i \in hpMask

\* ssv6xxx_hci_force_tx_handler, up to the transfers
HpHandler ==
  LET i == hpTask.q
      room == IF hpScan THEN HpChipSize - hpChip ELSE Cardinality(HpFrames)
  IN  /\ hpTask.at = "queue"
      /\ \/ hpQ[i] = <<>> /\ HpLeave(hpTask.err) /\ UNCHANGED hpFaultsUsed
         \/ hpQ[i] # <<>> /\ HpHalted(i) /\ HpLeave("busy") /\ UNCHANGED hpFaultsUsed
         \/ hpQ[i] # <<>> /\ ~HpHalted(i) /\ hpScan /\ HpFault("read") /\ HpLeave("bus")
         \/ /\ hpQ[i] # <<>> /\ ~HpHalted(i)
            /\ hpTask' = [hpTask EXCEPT !.at = "xmit", !.left = Len(hpQ[i]), !.pages = room]
            /\ UNCHANGED hpErr
      /\ UNCHANGED <<hpFrameVars, hpCtl, hpChip, hpEmpty, fcVars>>

\* ssv6xxx_hci_force_xmit, the next frame
HpDequeue ==
  LET i == hpTask.q
  IN  /\ hpTask.at = "xmit" /\ FcIdle("hci") /\ hpHand = NoFrame
      /\ IF hpTask.left = 0 \/ HpHalted(i) \/ hpQ[i] = <<>>
         THEN /\ hpTask' = [hpTask EXCEPT !.at = "after",
                                          !.err = IF hpTask.left > 0 /\ HpHalted(i)
                                                  THEN "busy" ELSE @]
              /\ UNCHANGED <<hpHand, hpQ>>
         ELSE /\ hpHand' = Head(hpQ[i])
              /\ hpQ' = [hpQ EXCEPT ![i] = Tail(@)]
              /\ UNCHANGED hpTask
      /\ UNCHANGED <<hpFresh, hpSent, hpDropped, hpCtl, hpErr, hpChip, hpEmpty, fcVars>>

\* The chip has no page for the frame, or the transfer fails.  Mutant: the
\* frame is put back at the tail.
HpPutBackTail(q, f) == Append(q, f)
HpPutBack(q, f) == <<f>> \o q

HpReturn(err) ==
  /\ hpQ' = [hpQ EXCEPT ![hpTask.q] = HpPutBack(@, hpHand)]
  /\ hpHand' = NoFrame
  /\ hpTask' = [hpTask EXCEPT !.at = "after", !.err = err]
  /\ UNCHANGED <<hpFresh, hpSent, hpDropped, hpCtl, hpErrCnt, hpIfErr, hpChip, hpEmpty,
                 fcVars>>

HpNoPage ==
  /\ hpHand # NoFrame /\ hpTask.pages = 0
  /\ HpReturn(hpTask.err) /\ UNCHANGED hpFaultsUsed

HpSendFails ==
  /\ hpHand # NoFrame /\ hpTask.pages > 0
  /\ \E k \in {"bus", "gone"} : HpFault(k) /\ HpReturn(k)

\* Without a reading of the chip the interface makes the transfer wait.
HpSend ==
  LET i == hpTask.q
  IN  /\ hpHand # NoFrame /\ hpTask.pages > 0 /\ hpChip < HpChipSize
      /\ hpSent' = [hpSent EXCEPT ![i] = Append(@, hpHand)]
      /\ hpHand' = NoFrame
      /\ hpChip' = hpChip + 1
      /\ hpTask' = [hpTask EXCEPT !.left = @ - 1, !.pages = @ - 1]
      /\ FcCall("hci", i, FALSE, Len(hpQ[i]) < HpResume)
      /\ UNCHANGED <<hpFresh, hpQ, hpDropped, hpCtl, hpErr, hpEmpty, fcBits, fcStopped>>

\* hci_tx_q_empty_cb is called when the queue is empty.
HpAfter ==
  /\ hpTask.at = "after"
  /\ hpEmpty' = (hpEmpty \/ hpQ[hpTask.q] = <<>>)
  /\ HpLeave(hpTask.err)
  /\ UNCHANGED <<hpFrameVars, hpCtl, hpFaultsUsed, hpChip, fcVars>>

HpThread == \/ HpGivesUp \/ HpBegin \/ HpHandler \/ HpDequeue
            \/ HpNoPage \/ HpSendFails \/ HpSend \/ HpAfter
-----------------------------------------------------------------------------
HpTypeOK ==
  /\ hpFresh \subseteq HpFrames /\ hpQ \in [HpQs -> Seq(HpFrames)]
  /\ hpSent \in [HpQs -> Seq(HpFrames)] /\ hpDropped \subseteq HpFrames
  /\ hpHand \in HpFrames \cup {NoFrame}
  /\ hpTask \in [at : {"wait", "queue", "xmit", "after"}, q : HpQs, left : Nat,
                 pages : Nat, err : {"none", "busy", "bus", "gone"}]
  /\ hpMask \subseteq HpQs /\ hpStarted \in BOOLEAN /\ hpScan \in BOOLEAN
  /\ hpErrCnt \in 0 .. HpMaxErrors + 1 /\ hpIfErr \in BOOLEAN
  /\ hpChip \in 0 .. HpChipSize /\ hpEmpty \in BOOLEAN
  /\ fcBits \subseteq ACs /\ fcStopped \subseteq ACs /\ fcClash \in BOOLEAN
  /\ fc \in [FcContexts -> [at : {"none", "test", "load", "store"}, ac : ACs,
                            stop : BOOLEAN, val : SUBSET ACs]]
  /\ hpFaultsUsed \in Nat /\ hpOps \in Nat

\* The thread's failures, put-backs and pauses keep each queue exactly once
\* and in order; and nothing is ever dropped: what is called a flush, when
\* errors repeat or the interface is gone, keeps every frame.
HpWaiting == [i \in HpQs |-> IF hpHand # NoFrame /\ hpTask.q = i
                             THEN <<hpHand>> \o hpQ[i] ELSE hpQ[i]]
HpAbstract == INSTANCE TxQueues WITH
  Frames <- HpFrames, Queues <- HpQs, QueueOf <- HpQueueOf,
  waiting <- HpWaiting, sent <- hpSent, dropped <- {}, fresh <- hpFresh
HpImplementsTxQueues == HpAbstract!QSpec
=============================================================================
