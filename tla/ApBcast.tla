------------------------------ MODULE ApBcast ------------------------------
(***************************************************************************)
(* Broadcast frames of an access point while stations sleep, src/smac/ap.c *)
(* with its callers in src/smac/dev.c: frames wait in bcast_txq; three     *)
(* work items of config_wq announce them in the beacon (aid0_bit_set),     *)
(* send them after each DTIM, and take the announcement back.  The queue   *)
(* config_wq has one thread: one work item runs at a time.  The TX task,   *)
(* mac80211's notifications and the removal of the interface run beside it.*)
(*                                                                         *)
(* A step is what a work item does under ps_state_lock, or one call of     *)
(* ssv6200_release_bcast_frame_res.                                        *)
(***************************************************************************)
EXTENDS Naturals, Sequences, SequencesExt

CONSTANTS
  AbMaxQueue,   \* SSV6200_MAX_BCAST_QUEUE_LEN, 16
  AbBurst,      \* SSV6200_ID_MANAGER_QUEUE, 8
  AbMaxBlocked, \* 5, the bound of queue_block_cnt
  AbFrames,     \* bound: broadcast frames
  AbMaxAps,     \* bound: access points added
  AbMaxRefused, \* bound: beacons the chip has no buffer for
  AbMaxNotes    \* bound: notifications of mac80211

ASSUME AbAssumption ==
  /\ AbMaxQueue \in Nat \ {0} /\ AbBurst \in Nat \ {0} /\ AbMaxBlocked \in Nat
  /\ AbFrames \in Nat /\ AbMaxAps \in Nat /\ AbMaxRefused \in Nat /\ AbMaxNotes \in Nat

VARIABLES
  abUp,      \* bq4_dtim: there is an access point whose frames are buffered
  abVif,     \* ap_vif is not NULL
  abAsleep,  \* sta_asleep_mask is not 0
  abQueue,   \* bcast_txq
  abNext,    \* the next frame
  abStart, abStop, abTx, \* which of the three work items are queued
  abWork,    \* what the thread of config_wq is in: "none", "tx" or "stop"
  abLoop,    \* i in ssv6200_bcast_tx_work
  abBlocked, \* queue_block_cnt
  abAid0,    \* aid0_bit_set
  abBuf,     \* that bit in beacon_buf
  abAir,     \* that bit in the beacon the chip sends
  abRel,     \* where ssv6200_remove_interface is
  abAps, abRefused, abNotes, \* so far (bounded)
  abLeft     \* a removal ended with aid0_bit_set (history)

abItems == <<abStart, abStop, abTx>>
abThread == <<abWork, abLoop, abBlocked>>
abBeacon == <<abAid0, abBuf, abAir, abRefused>>
abIface == <<abUp, abVif, abRel, abAps, abLeft>>
abVars == <<abIface, abAsleep, abQueue, abNext, abItems, abThread, abBeacon, abNotes>>

AbInit ==
  /\ abUp = FALSE /\ abVif = FALSE /\ abAsleep = FALSE /\ abQueue = <<>> /\ abNext = 1
  /\ abStart = FALSE /\ abStop = FALSE /\ abTx = FALSE
  /\ abWork = "none" /\ abLoop = 0 /\ abBlocked = 0
  /\ abAid0 = FALSE /\ abBuf = FALSE /\ abAir = FALSE
  /\ abRel = "none" /\ abAps = 0 /\ abRefused = 0 /\ abNotes = 0 /\ abLeft = FALSE

\* ssv6xxx_beacon_set: the chip has a buffer for the beacon, or has none.
AbSetBeacon(bit) ==
  \/ abAir' = bit /\ UNCHANGED abRefused
  \/ abRefused < AbMaxRefused /\ abRefused' = abRefused + 1 /\ UNCHANGED abAir

\* ssv6xxx_beacon_change: nothing without an interface, or when the beacon
\* is the one in beacon_buf, which is replaced before the chip has it.
AbChangeBeacon(bit) ==
  IF abVif /\ abBuf # bit THEN abBuf' = bit /\ AbSetBeacon(bit)
  ELSE UNCHANGED <<abBuf, abAir, abRefused>>
-----------------------------------------------------------------------------
(* _ssv6xxx_tx and ssv6200_bcast_enqueue, under ps_state_lock              *)

AbEnqueued(f) ==
  Append(IF Len(abQueue) >= AbMaxQueue THEN Tail(abQueue) ELSE abQueue, f)

\* While no station sleeps the frame is sent at once, before those queued.
AbSend ==
  /\ abUp /\ abNext <= AbFrames
  /\ abNext' = abNext + 1
  /\ IF abAsleep
     THEN /\ abQueue' = AbEnqueued(abNext)
          /\ abStart' = (abStart \/ Len(abQueue') = 1)
     ELSE UNCHANGED <<abQueue, abStart>>
  /\ UNCHANGED <<abIface, abAsleep, abStop, abTx, abThread, abBeacon, abNotes>>

(* ssv6200_sta_notify; the mask goes from or to 0.                         *)
AbSleep ==
  /\ abUp /\ ~abAsleep /\ abNotes < AbMaxNotes
  /\ abAsleep' = TRUE /\ abNotes' = abNotes + 1
  /\ abStart' = (abStart \/ abQueue # <<>>)
  /\ UNCHANGED <<abIface, abQueue, abNext, abStop, abTx, abThread, abBeacon>>

AbAwake ==
  /\ abUp /\ abAsleep /\ abNotes < AbMaxNotes
  /\ abAsleep' = FALSE /\ abNotes' = abNotes + 1
  /\ UNCHANGED <<abIface, abQueue, abNext, abItems, abThread, abBeacon>>
-----------------------------------------------------------------------------
(* ssv6200_bcast_start_work.  Mutant: the beacon is made before the bit.   *)
AbAnnouncedOld == abAid0
AbAnnounced == TRUE
AbStartWork ==
  /\ abStart /\ abWork = "none"
  /\ abStart' = FALSE
  /\ IF abAid0 THEN UNCHANGED <<abTx, abBeacon>>
     ELSE abAid0' = TRUE /\ AbChangeBeacon(AbAnnounced) /\ abTx' = TRUE
  /\ UNCHANGED <<abIface, abAsleep, abQueue, abNext, abStop, abThread, abNotes>>

(* ssv6200_bcast_tx_work                                                   *)

\* The queue of the chip or of HCI has frames from the last DTIM: wait for
\* another one; after AbMaxBlocked times the frames are freed.
AbTxBlocked ==
  /\ abTx /\ abWork = "none"
  /\ IF abBlocked >= AbMaxBlocked
     THEN abBlocked' = 0 /\ abQueue' = <<>> /\ abTx' = FALSE /\ abStop' = TRUE
     ELSE abBlocked' = abBlocked + 1 /\ UNCHANGED <<abQueue, abTx, abStop>>
  /\ UNCHANGED <<abIface, abAsleep, abNext, abStart, abWork, abLoop, abBeacon, abNotes>>

AbTxBegin ==
  /\ abTx /\ abWork = "none"
  /\ abTx' = FALSE /\ abWork' = "tx" /\ abLoop' = 0 /\ abBlocked' = 0
  /\ UNCHANGED <<abIface, abAsleep, abQueue, abNext, abStart, abStop, abBeacon, abNotes>>

\* One frame; the lock is free while HCI_SEND runs.  A full burst arms the
\* timer again, an empty queue ends the round.
AbTxOne ==
  /\ abWork = "tx"
  /\ IF abQueue = <<>>
     THEN abWork' = "none" /\ abStop' = TRUE /\ UNCHANGED <<abQueue, abLoop, abTx>>
     ELSE /\ abQueue' = Tail(abQueue) /\ abLoop' = abLoop + 1
          /\ IF abLoop' = AbBurst THEN abWork' = "none" /\ abTx' = TRUE
             ELSE UNCHANGED <<abWork, abTx>>
          /\ UNCHANGED abStop
  /\ UNCHANGED <<abIface, abAsleep, abNext, abStart, abBlocked, abBeacon, abNotes>>

(* ssv6200_bcast_stop_work.  Mutant: it does not look at the queue.        *)
AbNothingWaitsSure == TRUE
AbNothingWaits == abQueue = <<>>
AbStopBegin ==
  /\ abStop /\ abWork = "none"
  /\ abStop' = FALSE
  /\ IF ~abAid0 THEN UNCHANGED <<abTx, abWork>>
     ELSE IF AbNothingWaits THEN abTx' = FALSE /\ abWork' = "stop"
     ELSE abTx' = TRUE /\ UNCHANGED abWork
  /\ UNCHANGED <<abIface, abAsleep, abQueue, abNext, abStart, abLoop, abBlocked, abBeacon,
                 abNotes>>

AbStopEnd ==
  /\ abWork = "stop"
  /\ abWork' = "none" /\ abAid0' = FALSE /\ AbChangeBeacon(FALSE)
  /\ UNCHANGED <<abIface, abAsleep, abQueue, abNext, abItems, abLoop, abBlocked, abNotes>>

(* ssv6200_set_tim_work when other bits of the beacon have changed         *)
AbSetTim ==
  /\ abVif /\ abWork = "none"
  /\ abBuf' = abAid0 /\ AbSetBeacon(abAid0)
  /\ UNCHANGED <<abIface, abAsleep, abQueue, abNext, abItems, abThread, abAid0, abNotes>>
-----------------------------------------------------------------------------
(* ssv6200_add_interface, _if_set_apmode and the first beacon; nothing can *)
(* be associated before it.                                                *)
AbAdd ==
  /\ ~abVif /\ abAps < AbMaxAps
  /\ abVif' = TRUE /\ abUp' = TRUE /\ abAps' = abAps + 1
  /\ abBuf' = abAid0 /\ AbSetBeacon(abAid0)
  /\ UNCHANGED <<abRel, abLeft, abAsleep, abQueue, abNext, abItems, abThread, abAid0, abNotes>>

(* ssv6200_remove_interface, ssv6200_release_bcast_frame_res               *)
AbRelease ==
  /\ abUp /\ abVif
  /\ abUp' = FALSE /\ abAsleep' = FALSE /\ abRel' = "start"
  /\ UNCHANGED <<abVif, abAps, abLeft, abQueue, abNext, abItems, abThread, abBeacon, abNotes>>

\* cancel_work_sync waits for the work item when it runs.
AbCancelStart ==
  /\ abRel = "start"
  /\ abStart' = FALSE /\ abRel' = "stop"
  /\ UNCHANGED <<abUp, abVif, abAps, abLeft, abAsleep, abQueue, abNext, abStop, abTx, abThread,
                 abBeacon, abNotes>>

AbCancelStop ==
  /\ abRel = "stop" /\ abWork # "stop"
  /\ abStop' = FALSE /\ abRel' = "flush"
  /\ UNCHANGED <<abUp, abVif, abAps, abLeft, abAsleep, abQueue, abNext, abStart, abTx, abThread,
                 abBeacon, abNotes>>

AbFlush ==
  /\ abRel = "flush"
  /\ abQueue' = <<>> /\ abRel' = "tx"
  /\ UNCHANGED <<abUp, abVif, abAps, abLeft, abAsleep, abNext, abItems, abThread, abBeacon,
                 abNotes>>

AbCancelTx ==
  /\ abRel = "tx" /\ abWork # "tx"
  /\ abTx' = FALSE /\ abRel' = "beacon"
  /\ UNCHANGED <<abUp, abVif, abAps, abLeft, abAsleep, abQueue, abNext, abStart, abStop,
                 abThread, abBeacon, abNotes>>

\* ssv6xxx_beacon_release; aid0_bit_set stays as it is.
AbBeaconRelease ==
  /\ abRel = "beacon"
  /\ abVif' = FALSE /\ abRel' = "none" /\ abBuf' = FALSE /\ abAir' = FALSE
  /\ abLeft' = (abLeft \/ abAid0)
  /\ UNCHANGED <<abUp, abAps, abAsleep, abQueue, abNext, abItems, abThread, abAid0, abRefused,
                 abNotes>>
-----------------------------------------------------------------------------
AbWorkStep == AbStartWork \/ AbTxBlocked \/ AbTxBegin \/ AbTxOne \/ AbStopBegin \/ AbStopEnd
AbRemoval == AbCancelStart \/ AbCancelStop \/ AbFlush \/ AbCancelTx \/ AbBeaconRelease
AbNextStep == \/ AbSend \/ AbSleep \/ AbAwake \/ AbWorkStep \/ AbSetTim \/ AbAdd
              \/ AbRelease \/ AbRemoval
AbSpec == AbInit /\ [][AbNextStep]_abVars
\* The timers expire and config_wq runs what is queued, each item in turn.
AbFairSpec == AbSpec /\ WF_abVars(AbWorkStep) /\ WF_abVars(AbRemoval)
-----------------------------------------------------------------------------
AbTypeOK ==
  /\ abUp \in BOOLEAN /\ abVif \in BOOLEAN /\ abAsleep \in BOOLEAN
  /\ abQueue \in Seq(1 .. AbFrames) /\ Len(abQueue) <= AbMaxQueue /\ abNext \in 1 .. AbFrames + 1
  /\ abStart \in BOOLEAN /\ abStop \in BOOLEAN /\ abTx \in BOOLEAN
  /\ abWork \in {"none", "tx", "stop"} /\ abLoop \in 0 .. AbBurst
  /\ abBlocked \in 0 .. AbMaxBlocked
  /\ abAid0 \in BOOLEAN /\ abBuf \in BOOLEAN /\ abAir \in BOOLEAN
  /\ abRel \in {"none", "start", "stop", "flush", "tx", "beacon"}
  /\ abAps \in 0 .. AbMaxAps /\ abRefused \in 0 .. AbMaxRefused /\ abNotes \in 0 .. AbMaxNotes
  /\ abLeft \in BOOLEAN

\* When frames are about to be sent after the DTIM the beacon has told the
\* sleeping stations so, whatever was added, removed, woken or cancelled
\* before; unless the chip refused a beacon, which is taken for sent.
AbTold == abVif /\ (abTx \/ abWork = "tx") /\ abRefused = 0 => abAir

\* No start is lost between the TX task and the work items: a buffered
\* frame leaves the queue, however enqueueing, the rounds of tx_work and
\* the check of stop_work fall together; unless an access point was removed
\* with aid0_bit_set, which then keeps every later start from working.
AbNoneStuck ==
  \A f \in 1 .. AbFrames : f \in ToSet(abQueue) ~> (f \notin ToSet(abQueue) \/ abLeft)
=============================================================================
