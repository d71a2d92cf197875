-------------------------------- MODULE PollTx ------------------------------
(***************************************************************************)
(* The transmit side over USB as a whole: mac80211, the TX task of         *)
(* src/smac/dev.c with the frames that wait to be aggregated               *)
(* (early_aggr_ampdu_q, src/smac/ampdu.c), and the HCI thread of HciPoll.  *)
(* The two threads meet in the hardware queues, in tx_q_empty and in       *)
(* flow_ctrl_status.                                                       *)
(*                                                                         *)
(* A-MPDUs are in detail in AmpduTx; here a frame that is aggregated waits *)
(* until a flush finds room in the BlockAck window, and one session is     *)
(* modelled.                                                               *)
(***************************************************************************)
EXTENDS HciPoll

CONSTANTS
  PtAmpdu,    \* the frames that are aggregated, all of one queue
  PtWindow,   \* A-MPDUs that may be on their way, the BlockAck window
  PtUpper,    \* SSV_AMPDU_FLOW_CONTROL_UPPER_BOUND, 256 in the code
  PtLower     \* SSV_AMPDU_FLOW_CONTROL_LOWER_BOUND, 128 in the code

ASSUME PtAssumption ==
  /\ PtAmpdu \subseteq HpFrames
  /\ \A f, g \in PtAmpdu : HpQueueOf[f] = HpQueueOf[g] /\ HpQueueOf[f] # HpMgmt
  /\ PtWindow \in Nat \ {0} /\ PtUpper \in Nat /\ PtLower \in 0 .. PtUpper

VARIABLES
  ptNew,    \* frames mac80211 has not given yet
  ptQ,      \* tx_skb_q
  ptEarly,  \* early_aggr_ampdu_q
  ptAcked,  \* A-MPDUs a BlockAck has answered
  ptPc,     \* ssv6xxx_tx_task: "sleep", "work", "check", "flush" or "clear"
  ptTimed,  \* before_timeout is 0
  ptCarry   \* the A-MPDU a flush has taken, to be enqueued

ptVars == <<hpVars, ptNew, ptQ, ptEarly, ptAcked, ptPc, ptTimed, ptCarry>>
ptTask == <<ptPc, ptTimed, ptCarry>>
HpRest == <<hpTask, hpHand, hpSent, hpDropped, hpCtl, hpErr, hpChip, fcBits, fcStopped>>

PtInit ==
  /\ HpInit
  /\ ptNew = HpFrames /\ ptQ = <<>> /\ ptEarly = <<>> /\ ptAcked = {}
  /\ ptPc = "sleep" /\ ptTimed = FALSE /\ ptCarry = NoFrame

\* mac80211 gives its frames one by one, none of a queue that is stopped.
PtArrive ==
  /\ \E f \in ptNew :
       /\ \A g \in ptNew : f <= g
       /\ HpQueueOf[f] \notin fcStopped
       /\ ptQ' = Append(ptQ, f) /\ ptNew' = ptNew \ {f}
  /\ UNCHANGED <<hpVars, ptEarly, ptAcked, ptTask>>

\* A BlockAck answers an A-MPDU that was sent.
PtAck ==
  /\ \E f \in PtAmpdu \ ptAcked :
       f \in ToSet(hpSent[HpQueueOf[f]]) /\ ptAcked' = ptAcked \cup {f}
  /\ UNCHANGED <<hpVars, ptNew, ptQ, ptEarly, ptTask>>
-----------------------------------------------------------------------------
(* ssv6xxx_tx_task                                                         *)

PtWake ==
  /\ ptPc = "sleep"
  /\ ptTimed' = ~(ptQ # <<>> \/ hpEmpty)
  /\ ptPc' = "work"
  /\ UNCHANGED <<hpVars, ptNew, ptQ, ptEarly, ptAcked, ptCarry>>

\* _ssv6xxx_tx of the next frame: an A-MPDU waits in early_aggr_ampdu_q, the
\* others go to the HCI layer.  Both may stop the queue.
PtWork ==
  /\ ptPc = "work" /\ FcIdle("tx")
  /\ IF ptQ = <<>>
     THEN /\ ptPc' = "check"
          /\ UNCHANGED <<hpQ, hpFresh, fc, fcClash, ptQ, ptEarly>>
     ELSE LET f == Head(ptQ)
          IN  /\ ptQ' = Tail(ptQ) /\ UNCHANGED ptPc
              /\ IF f \in PtAmpdu
                 THEN /\ ptEarly' = Append(ptEarly, f)
                      /\ FcCall("tx", HpQueueOf[f], TRUE, Len(ptEarly) + 1 >= PtUpper)
                      /\ UNCHANGED <<hpQ, hpFresh>>
                 ELSE HpEnqueue(f, FALSE, TRUE) /\ UNCHANGED ptEarly
  /\ UNCHANGED <<HpRest, hpEmpty, ptNew, ptAcked, ptTimed, ptCarry>>

\* Mutant: the time-out does not flush.
PtMustFlushEmpty == hpEmpty
PtMustFlush == hpEmpty \/ ptTimed
PtCheck ==
  /\ ptPc = "check" /\ FcIdle("tx")
  /\ ptPc' = IF PtMustFlush THEN "flush" ELSE "sleep"
  /\ UNCHANGED <<hpVars, ptNew, ptQ, ptEarly, ptAcked, ptTimed, ptCarry>>

PtOut == {f \in PtAmpdu \ ptAcked : f \notin ptNew /\ f \notin ToSet(ptQ \o ptEarly)}
\* Mutant: < for <=.
PtEarlyDrainedOff(n) == n < PtLower
PtEarlyDrained(n) == n <= PtLower

\* ssv6xxx_ampdu_flush, _flush_early_ampdu_q: take an A-MPDU if the window has
\* room, perhaps wake the queue, enqueue it without flow control.
PtFlushTake ==
  /\ ptPc = "flush" /\ FcIdle("tx") /\ ptCarry = NoFrame
  /\ IF ptEarly # <<>> /\ Cardinality(PtOut) < PtWindow
     THEN /\ ptCarry' = Head(ptEarly) /\ ptEarly' = Tail(ptEarly) /\ UNCHANGED ptPc
          /\ FcCall("tx", HpQueueOf[Head(ptEarly)], FALSE,
                    PtEarlyDrained(Len(ptEarly) - 1))
     ELSE ptPc' = "clear" /\ UNCHANGED <<ptCarry, ptEarly, fc, fcClash>>
  /\ UNCHANGED <<HpRest, hpQ, hpFresh, hpEmpty, ptNew, ptQ, ptAcked, ptTimed>>

PtFlushSend ==
  /\ ptPc = "flush" /\ FcIdle("tx") /\ ptCarry # NoFrame
  /\ HpEnqueue(ptCarry, FALSE, FALSE)
  /\ ptCarry' = NoFrame
  /\ UNCHANGED <<HpRest, hpEmpty, ptNew, ptQ, ptEarly, ptAcked, ptPc, ptTimed>>

\* tx_q_empty is cleared; HCI may have set it again during the flush.
PtClear ==
  /\ ptPc = "clear"
  /\ hpEmpty' = FALSE /\ ptPc' = "sleep"
  /\ UNCHANGED <<HpRest, hpQ, hpFresh, fc, fcClash, ptNew, ptQ, ptEarly, ptAcked, ptTimed,
                 ptCarry>>

PtTxTask == PtWake \/ PtWork \/ PtCheck \/ PtFlushTake \/ PtFlushSend \/ PtClear
-----------------------------------------------------------------------------
\* Frames of queue i that wait for the bus, and the A-MPDUs that wait.
PtEarlyOf(i) == IF \E f \in PtAmpdu : HpQueueOf[f] = i THEN Len(ptEarly) ELSE 0
PtBacklog(i) == Len(HpWaiting[i]) >= HpResume \/ PtEarlyOf(i) > PtLower

PtFlow == \E c \in FcContexts :
            FcStep(c, PtBacklog(fc[c].ac)) /\ UNCHANGED <<ptNew, ptQ, ptEarly, ptAcked, ptTask>>
PtHci == HpThread /\ UNCHANGED <<ptNew, ptQ, ptEarly, ptAcked, ptTask>>
PtControl == HpControl /\ UNCHANGED <<ptNew, ptQ, ptEarly, ptAcked, ptTask>>
PtChip == HpChipSends /\ UNCHANGED <<ptNew, ptQ, ptEarly, ptAcked, ptTask>>

PtNext == PtArrive \/ PtAck \/ PtTxTask \/ PtFlow \/ PtHci \/ PtControl \/ PtChip
PtSpec == PtInit /\ [][PtNext]_ptVars

\* The two threads are scheduled (the time-out of the TX task included), the
\* chip transmits what it has, and a BlockAck or its time-out comes.
PtFairSpec ==
  /\ PtSpec
  /\ WF_ptVars(PtTxTask) /\ WF_ptVars(PtHci) /\ WF_ptVars(PtFlow)
  /\ WF_ptVars(PtChip) /\ WF_ptVars(PtAck)
-----------------------------------------------------------------------------
PtTypeOK ==
  /\ HpTypeOK
  /\ ptNew \subseteq HpFrames /\ ptAcked \subseteq PtAmpdu
  /\ ptQ \in Seq(HpFrames) /\ ptEarly \in Seq(PtAmpdu)
  /\ ptPc \in {"sleep", "work", "check", "flush", "clear"}
  /\ ptTimed \in BOOLEAN /\ ptCarry \in PtAmpdu \cup {NoFrame}

\* As long as no two calls of the flow control overlap, and none is delayed
\* until the backlog has gone, mac80211 stays stopped only for a backlog,
\* and flow_ctrl_status says so: HCI's bit and that of the A-MPDUs are one,
\* and still nobody who has to wake the queue sees it as running.
FcStopNeeded ==
  (~fcClash /\ \A c \in FcContexts : FcIdle(c)) =>
    /\ fcStopped = fcBits
    /\ \A i \in fcStopped : PtBacklog(i)

\* A frame given to the driver reaches the bus, though tx_q_empty may be
\* cleared after it was set again, and errors are counted and never
\* forgiven: if the layer stays started and unpaused, or the interface is
\* gone, which ends everything.
PtEventuallySent ==
  <>[](hpStarted /\ hpMask = {} /\ ~hpIfErr) =>
    \A f \in HpFrames : f \notin ptNew ~> f \in ToSet(hpSent[HpQueueOf[f]])
=============================================================================
