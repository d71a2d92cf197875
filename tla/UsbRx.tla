------------------------------- MODULE UsbRx -------------------------------
(***************************************************************************)
(* The receive buffers of src/hwif/usb/usb.c.  Each buffer has an URB.     *)
(* The completion handler puts a filled buffer at the end of ssv_rx_queue  *)
(* and schedules a worker (a tasklet, or a work item), which hands the     *)
(* data to HCI and submits the URB again; when HCI has no room, or there   *)
(* is no memory, it puts the buffer back and schedules itself.  Suspend    *)
(* kills the URBs one by one and resume submits them all, both without a   *)
(* look at the worker.                                                     *)
(*                                                                         *)
(* A step is a completion, what the worker does between two looks at the   *)
(* queue or the bus, or one buffer of suspend and resume.                  *)
(***************************************************************************)
EXTENDS Naturals, Sequences, FiniteSets, SequencesExt, SeqKept

CONSTANTS
  UxCount,      \* nr_recvbuff, 2 unless the user changes ssv_rx_nr_recvbuff
  UxMaxData,    \* bound: transfers from the chip
  UxMaxEvents,  \* bound: errors on the bus and times without room or memory
  UxMaxSuspends \* bound: times the device is suspended

ASSUME UxAssumption ==
  UxCount \in Nat \ {0} /\ UxMaxData \in Nat /\ UxMaxEvents \in Nat /\ UxMaxSuspends \in Nat

UxBufs == 1 .. UxCount
UxNone == 0

VARIABLES
  uxBus,      \* the submitted URBs, in the order the host fills them
  uxQueue,    \* ssv_rx_queue
  uxHand,     \* the buffer the worker has dequeued
  uxPc,       \* where the worker is
  uxPending,  \* the worker is scheduled
  uxData,     \* what each buffer holds; 0 is an rx_filled of 0
  uxNext,     \* the next transfer of the chip
  uxOut,      \* what was given to rx_cb, in order
  uxPower,    \* where suspend and resume are
  uxSwapped,  \* a buffer was put back behind another one (history)
  uxMet,      \* buffers resume submitted while the worker had them (history)
  uxDeaf,     \* buffers in no list: the host took no URB for them (history)
  uxEvents, uxSuspends \* faults and suspends so far (bounds)

uxWorker == <<uxHand, uxPc, uxPending>>
uxCounts == <<uxEvents, uxSuspends>>
uxVars == <<uxBus, uxQueue, uxWorker, uxData, uxNext, uxOut, uxPower, uxSwapped,
            uxMet, uxDeaf, uxCounts>>

\* ssv6xxx_usb_rx_task has submitted every buffer.
UxInit ==
  /\ uxBus = [b \in UxBufs |-> b] /\ uxQueue = <<>>
  /\ uxHand = UxNone /\ uxPc = "idle" /\ uxPending = FALSE
  /\ uxData = [b \in UxBufs |-> 0] /\ uxNext = 1 /\ uxOut = <<>>
  /\ uxPower = [at |-> "on", k |-> 0]
  /\ uxSwapped = FALSE /\ uxMet = {} /\ uxDeaf = {} /\ uxEvents = 0 /\ uxSuspends = 0

UxEvent == uxEvents < UxMaxEvents /\ uxEvents' = uxEvents + 1 /\ UNCHANGED uxSuspends
-----------------------------------------------------------------------------
(* ssv6xxx_usb_recv_rx: rx_filled is 0 from now on, whether the URB can be *)
(* submitted (not while the device is suspended) or not (it is already, or *)
(* usb_submit_urb finds no memory, which is only logged).                  *)
UxSubmit(b) ==
  /\ uxData' = [uxData EXCEPT ![b] = 0]
  /\ \/ /\ uxBus' = IF uxPower.at = "off" \/ b \in ToSet(uxBus) THEN uxBus
                    ELSE Append(uxBus, b)
        /\ uxDeaf' = uxDeaf \ {b}
        /\ UNCHANGED uxCounts
     \/ /\ UxEvent /\ b \notin ToSet(uxBus)
        /\ uxDeaf' = uxDeaf \cup {b}
        /\ UNCHANGED uxBus

\* ssv6xxx_enqueue_list_node takes the node off the list it is on and adds
\* it at the end.  Mutant: at the front.
UxEnqueuedFirst(b) == <<b>> \o Without(uxQueue, {b})
UxEnqueued(b) == Append(Without(uxQueue, {b}), b)

(* ssv6xxx_usb_recv_rx_complete                                            *)
UxComplete ==
  /\ uxBus # <<>> /\ uxNext <= UxMaxData
  /\ LET b == Head(uxBus)
     IN  /\ uxData' = [uxData EXCEPT ![b] = uxNext]
         /\ uxQueue' = UxEnqueued(b)
  /\ uxBus' = Tail(uxBus)
  /\ uxNext' = uxNext + 1
  /\ uxPending' = TRUE
  /\ UNCHANGED <<uxHand, uxPc, uxOut, uxPower, uxSwapped, uxMet, uxDeaf,
                 uxCounts>>

\* urb->status is not 0: the buffer is submitted again at once, if it can be.
UxCompleteBad ==
  /\ uxBus # <<>> /\ UxEvent
  /\ \/ uxBus' = Append(Tail(uxBus), Head(uxBus)) /\ UNCHANGED uxDeaf
     \/ uxBus' = Tail(uxBus) /\ uxDeaf' = uxDeaf \cup {Head(uxBus)}
  /\ UNCHANGED <<uxQueue, uxWorker, uxData, uxNext, uxOut, uxPower, uxSwapped,
                 uxMet>>
-----------------------------------------------------------------------------
(* ssv6xxx_usb_recv_rx_tasklet, ssv6xxx_usb_recv_rx_work                   *)
UxBegin ==
  /\ uxPc = "idle" /\ uxPending
  /\ uxPending' = FALSE /\ uxPc' = "loop"
  /\ UNCHANGED <<uxBus, uxQueue, uxHand, uxData, uxNext, uxOut, uxPower,
                 uxSwapped, uxMet, uxDeaf, uxCounts>>

UxTake ==
  /\ uxPc = "loop"
  /\ IF uxQueue = <<>>
     THEN uxPc' = "idle" /\ UNCHANGED <<uxHand, uxQueue>>
     ELSE uxPc' = "has" /\ uxHand' = Head(uxQueue) /\ uxQueue' = Tail(uxQueue)
  /\ UNCHANGED <<uxBus, uxPending, uxData, uxNext, uxOut, uxPower, uxSwapped,
                 uxMet, uxDeaf, uxCounts>>

\* is_rx_q_full, or skb_alloc fails: the buffer goes back to the end.
\* Mutant: the worker is not scheduled again.
UxBack == UxEnqueued(uxHand)
UxAgainNot == uxPending
UxAgain == TRUE
UxPutBack ==
  /\ uxPc = "has" /\ UxEvent
  /\ uxQueue' = UxBack
  /\ uxSwapped' = (uxSwapped \/ uxQueue # <<>>)
  /\ uxHand' = UxNone /\ uxPc' = "idle" /\ uxPending' = UxAgain
  /\ UNCHANGED <<uxBus, uxData, uxNext, uxOut, uxPower, uxMet, uxDeaf>>

\* The data are copied into an skb for rx_cb.
UxDeliver ==
  /\ uxPc = "has"
  /\ uxOut' = Append(uxOut, uxData[uxHand])
  /\ uxPc' = "done"
  /\ UNCHANGED <<uxBus, uxQueue, uxHand, uxPending, uxData, uxNext, uxPower,
                 uxSwapped, uxMet, uxDeaf, uxCounts>>

UxGive ==
  /\ uxPc = "done"
  /\ UxSubmit(uxHand)
  /\ uxHand' = UxNone /\ uxPc' = "loop"
  /\ UNCHANGED <<uxQueue, uxPending, uxNext, uxOut, uxPower, uxSwapped, uxMet>>
-----------------------------------------------------------------------------
(* ssv_usb_suspend and ssv_usb_resume, one buffer a step                   *)

UxSuspend ==
  /\ uxPower.at = "on" /\ uxSuspends < UxMaxSuspends
  /\ uxSuspends' = uxSuspends + 1
  /\ uxPower' = [at |-> "kill", k |-> 1]
  /\ UNCHANGED <<uxBus, uxQueue, uxWorker, uxData, uxNext, uxOut, uxSwapped,
                 uxMet, uxDeaf, uxEvents>>

\* usb_kill_urb: the completion handler runs and cannot submit it again.
UxKill ==
  /\ uxPower.at = "kill" /\ uxPower.k <= UxCount
  /\ uxBus' = Without(uxBus, {uxPower.k})
  /\ uxPower' = [uxPower EXCEPT !.k = @ + 1]
  /\ UNCHANGED <<uxQueue, uxWorker, uxData, uxNext, uxOut, uxSwapped, uxMet,
                 uxDeaf, uxCounts>>

\* The USB core ends what the worker has submitted meanwhile; no URB can be
\* submitted until the device is resumed.
UxOff ==
  /\ uxPower.at = "kill" /\ uxPower.k > UxCount
  /\ uxBus' = <<>>
  /\ uxPower' = [at |-> "off", k |-> 0]
  /\ UNCHANGED <<uxQueue, uxWorker, uxData, uxNext, uxOut, uxSwapped, uxMet,
                 uxDeaf, uxCounts>>

UxResume ==
  /\ uxPower.at = "off"
  /\ uxPower' = [at |-> "submit", k |-> 1]
  /\ UNCHANGED <<uxBus, uxQueue, uxWorker, uxData, uxNext, uxOut, uxSwapped,
                 uxMet, uxDeaf, uxCounts>>

\* Mutant: the last buffer is not submitted.
UxResumeToLess == UxCount - 1
UxResumeTo == UxCount
UxResumeOne ==
  /\ uxPower.at = "submit" /\ uxPower.k <= UxResumeTo
  /\ UxSubmit(uxPower.k)
  /\ uxMet' = uxMet \cup ({uxPower.k} \cap (ToSet(uxQueue) \cup {uxHand}))
  /\ uxPower' = [uxPower EXCEPT !.k = @ + 1]
  /\ UNCHANGED <<uxQueue, uxWorker, uxNext, uxOut, uxSwapped>>

UxResumed ==
  /\ uxPower.at = "submit" /\ uxPower.k > UxResumeTo
  /\ uxPower' = [at |-> "on", k |-> 0]
  /\ UNCHANGED <<uxBus, uxQueue, uxWorker, uxData, uxNext, uxOut, uxSwapped,
                 uxMet, uxDeaf, uxCounts>>
-----------------------------------------------------------------------------
UxWork == UxBegin \/ UxTake \/ UxPutBack \/ UxDeliver \/ UxGive
UxPowerStep == UxKill \/ UxOff \/ UxResumeOne \/ UxResumed
UxNextStep == UxComplete \/ UxCompleteBad \/ UxWork \/ UxSuspend \/ UxPowerStep \/ UxResume

UxSpec == UxInit /\ [][UxNextStep]_uxVars
\* A scheduled tasklet or work item runs to its end; suspend and resume do
\* too.  Nothing makes the chip send or the device resume.
UxFairSpec == UxSpec /\ WF_uxVars(UxWork) /\ WF_uxVars(UxPowerStep)
-----------------------------------------------------------------------------
UxTypeOK ==
  /\ uxBus \in Seq(UxBufs) /\ uxQueue \in Seq(UxBufs) /\ uxHand \in {UxNone} \cup UxBufs
  /\ uxPc \in {"idle", "loop", "has", "done"} /\ uxPending \in BOOLEAN
  /\ uxData \in [UxBufs -> 0 .. UxMaxData] /\ uxNext \in 1 .. UxMaxData + 1
  /\ uxOut \in Seq(0 .. UxMaxData)
  /\ uxPower \in [at : {"on", "kill", "off", "submit"}, k : 0 .. UxCount + 1]
  /\ uxSwapped \in BOOLEAN /\ uxMet \subseteq UxBufs /\ uxDeaf \subseteq UxBufs
  /\ uxEvents \in 0 .. UxMaxEvents /\ uxSuspends \in 0 .. UxMaxSuspends

\* Whatever fails and whenever the device is suspended, what the chip sent
\* is delivered once or still waits in a buffer, nothing empty is delivered,
\* and HCI sees the transfers in the order of the chip; but for the order
\* when a buffer that found no room was put back behind a later one, and for
\* all of it once resume has met a buffer the worker had, which is emptied,
\* or filled again under the worker's hands.
UxWaiting == {uxData[b] : b \in ToSet(uxQueue) \cup IF uxPc = "has" THEN {uxHand} ELSE {}}
UxNoneLost == /\ ToSet(uxOut) \cup UxWaiting = 1 .. uxNext - 1
              /\ Len(uxOut) + Cardinality(UxWaiting) = uxNext - 1
UxOrdered == \A j \in 1 .. Len(uxOut) - 1 : uxOut[j] < uxOut[j + 1]
UxDelivery == uxMet = {} => UxNoneLost /\ (uxSwapped \/ UxOrdered)

\* The endpoint never goes deaf: again and again, unless the device stays
\* suspended, every buffer is back on the bus, so that none was lost by an
\* error of a transfer, a lack of room or of memory for the skb, or a suspend
\* at any moment; but for a buffer whose URB usb_submit_urb has refused, which
\* nothing but the next resume submits again.
UxListens == []<>(uxPower.at = "off" \/ ToSet(uxBus) \cup uxDeaf = UxBufs)
=============================================================================
