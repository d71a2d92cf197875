---------------------------- MODULE PollTxProofs ----------------------------
(***************************************************************************)
(* Safety properties of PollTx, for every value of its constants and       *)
(* bounds: types, the queues of the HCI layer, and flow control.           *)
(***************************************************************************)
EXTENDS PollTx, FiniteLemmas
-----------------------------------------------------------------------------
(* Types.  The parts of PtTypeOK, by what changes together.                *)

HpFramesOK ==
  /\ hpFresh \subseteq HpFrames /\ hpQ \in [HpQs -> Seq(HpFrames)]
  /\ hpSent \in [HpQs -> Seq(HpFrames)] /\ hpDropped \subseteq HpFrames
  /\ hpHand \in HpFrames \cup {NoFrame}
HpTaskOK ==
  /\ hpTask \in [at : {"wait", "queue", "xmit", "after"}, q : HpQs, left : Nat,
                 pages : Nat, err : {"none", "busy", "bus", "gone"}]
  /\ hpErrCnt \in 0 .. HpMaxErrors + 1 /\ hpIfErr \in BOOLEAN /\ hpFaultsUsed \in Nat
HpFlagsOK ==
  /\ hpMask \subseteq HpQs /\ hpStarted \in BOOLEAN /\ hpScan \in BOOLEAN
  /\ hpChip \in 0 .. HpChipSize /\ hpEmpty \in BOOLEAN /\ hpOps \in Nat
FcCalls == [at : {"none", "test", "load", "store"}, ac : ACs, stop : BOOLEAN, val : SUBSET ACs]
FcOK ==
  /\ fcBits \subseteq ACs /\ fcStopped \subseteq ACs /\ fcClash \in BOOLEAN
  /\ fc \in [FcContexts -> FcCalls]
PtTaskOK ==
  /\ ptNew \subseteq HpFrames /\ ptAcked \subseteq PtAmpdu
  /\ ptQ \in Seq(HpFrames) /\ ptEarly \in Seq(PtAmpdu)
  /\ ptPc \in {"sleep", "work", "check", "flush", "clear"}
  /\ ptTimed \in BOOLEAN /\ ptCarry \in PtAmpdu \cup {NoFrame}

LEMMA PtTypeSplit ==
  PtTypeOK <=> HpFramesOK /\ HpTaskOK /\ HpFlagsOK /\ FcOK /\ PtTaskOK
  BY Zenon DEF PtTypeOK, HpTypeOK, HpFramesOK, HpTaskOK, HpFlagsOK, FcOK, FcCalls, PtTaskOK

\* A frame in hand belongs to the transfer that ssv6xxx_hci_force_xmit is in,
\* and errors are looked at before each round.
HpHandInv ==
  /\ hpHand # NoFrame => hpTask.at = "xmit" /\ hpTask.left > 0 /\ FcIdle("hci")
  /\ hpTask.at # "wait" => hpErrCnt <= HpMaxErrors

PtTypeInv == PtTypeOK /\ HpHandInv

LEMMA HpConstants ==
  /\ HpQueues \in Nat \ {0, 1} /\ HpFrames \subseteq Nat \ {0} /\ IsFiniteSet(HpFrames)
  /\ HpQueueOf \in [HpFrames -> HpQs] /\ HpMaxErrors \in Nat /\ HpChipSize \in Nat \ {0}
  /\ HpMgmt \in HpQs /\ 0 \in ACs /\ ACs \subseteq HpQs /\ NoFrame \notin HpFrames
  /\ PtAmpdu \subseteq HpFrames /\ \A p \in HpPauses : p \subseteq HpQs
  BY HpAssumption, PtAssumption DEF HpQs, HpMgmt, ACs, NoFrame

LEMMA PtTypeInit == PtInit => PtTypeInv
<1> SUFFICES ASSUME PtInit PROVE PtTypeInv
  OBVIOUS
<1>1. HpInit
  BY DEF PtInit
<1>2. HpFramesOK
  <2>1. <<>> \in Seq(HpFrames)
    BY EmptySeq
  <2> QED
    BY <1>1, <2>1 DEF HpInit, HpFramesOK
<1>3. HpTaskOK
  <2>1. hpTask = Resting /\ hpErrCnt = 0 /\ hpIfErr = FALSE /\ hpFaultsUsed = 0
    BY <1>1, Zenon DEF HpInit
  <2>2. 0 \in HpQs /\ HpMaxErrors \in Nat
    BY HpConstants
  <2>3. Resting \in [at : {"wait", "queue", "xmit", "after"}, q : HpQs, left : Nat,
                     pages : Nat, err : {"none", "busy", "bus", "gone"}]
    BY <2>2 DEF Resting
  <2>4. 0 \in 0 .. HpMaxErrors + 1 /\ 0 \in Nat
    BY <2>2
  <2> QED
    BY <2>1, <2>3, <2>4, Zenon DEF HpTaskOK
<1>4. HpFlagsOK
  <2>1. hpMask \in {{}} \cup HpPauses /\ hpStarted = TRUE /\ hpScan \in BOOLEAN /\ hpOps = 0
        /\ hpChip = 0 /\ hpEmpty = FALSE
    BY <1>1, Zenon DEF HpInit
  <2>2. 0 \in 0 .. HpChipSize /\ 0 \in Nat
    BY HpConstants
  <2>3. \A p \in HpPauses : p \subseteq HpQs
    BY HpConstants
  <2> QED
    BY <2>1, <2>2, <2>3, Zenon DEF HpFlagsOK
<1>5. FcOK
  <2>1. fcBits = {} /\ fcStopped = {} /\ fc = [c \in FcContexts |-> NoCall] /\ fcClash = FALSE
    BY <1>1, Zenon DEF HpInit
  <2>2. NoCall \in FcCalls
    BY HpConstants DEF NoCall, FcCalls
  <2> QED
    BY <2>1, <2>2 DEF FcOK
<1>6. PtTaskOK
  <2>1. /\ ptNew = HpFrames /\ ptQ = <<>> /\ ptEarly = <<>> /\ ptAcked = {}
        /\ ptPc = "sleep" /\ ptTimed = FALSE /\ ptCarry = NoFrame
    BY Zenon DEF PtInit
  <2> QED
    BY <2>1, EmptySeq DEF PtTaskOK
<1>7. HpHandInv
  <2>1. hpHand = NoFrame /\ hpTask.at = "wait"
    BY <1>1 DEF HpInit, Resting
  <2> QED
    BY <2>1 DEF HpHandInv
<1> QED
  BY <1>2, <1>3, <1>4, <1>5, <1>6, <1>7, PtTypeSplit, Zenon DEF PtTypeInv

\* A call of ssv6200_tx_flow_control begins, or there is nothing to do.
LEMMA FcCallType ==
  ASSUME FcOK, NEW c \in FcContexts, NEW i \in HpQs, NEW stop \in BOOLEAN, NEW condition,
         FcCall(c, i, stop, condition)
  PROVE  /\ fc' \in [FcContexts -> FcCalls] /\ fcClash' \in BOOLEAN
         /\ \A d \in FcContexts \ {c} : fc'[d] = fc[d]
<1>1. CASE condition /\ FcControlled(i)
  <2>1. /\ fc' = [fc EXCEPT ![c] = [at |-> "test", ac |-> i, stop |-> stop, val |-> {}]]
        /\ fcClash' = (fcClash \/ \E d \in FcContexts \ {c} : ~FcIdle(d))
    BY <1>1, Zenon DEF FcCall
  <2>2. [at |-> "test", ac |-> i, stop |-> stop, val |-> {}] \in FcCalls
    BY <1>1 DEF FcCalls, FcControlled
  <2>3. fcClash' \in BOOLEAN
    BY <2>1, Zenon
  <2> QED
    BY <2>1, <2>2, <2>3 DEF FcOK
<1>2. CASE ~(condition /\ FcControlled(i))
  <2>1. UNCHANGED <<fc, fcClash>>
    BY <1>2, Zenon DEF FcCall
  <2> QED
    BY <2>1 DEF FcOK
<1> QED
  BY <1>1, <1>2

LEMMA FcStepType ==
  ASSUME FcOK, NEW c \in FcContexts, NEW backlog,
         FcTest(c, backlog) \/ FcLoad(c) \/ FcStore(c)
  PROVE  FcOK' /\ \A d \in FcContexts \ {c} : fc'[d] = fc[d]
<1>0. fc[c] \in FcCalls /\ fc[c].ac \in ACs /\ fc[c].stop \in BOOLEAN /\ fc[c].val \subseteq ACs
  BY DEF FcOK, FcCalls
<1>1. NoCall \in FcCalls
  BY HpConstants DEF NoCall, FcCalls
<1>2. CASE FcTest(c, backlog)
  <2> DEFINE act == (fc[c].ac \in fcBits) # fc[c].stop
  <2>1. /\ fc' = [fc EXCEPT ![c] = IF act THEN [@ EXCEPT !.at = "load"] ELSE NoCall]
        /\ fcStopped' = IF ~act THEN fcStopped
                        ELSE IF fc[c].stop THEN fcStopped \cup {fc[c].ac} ELSE fcStopped \ {fc[c].ac}
        /\ fcClash' = (fcClash \/ (act /\ fc[c].stop /\ ~backlog))
        /\ UNCHANGED fcBits
    BY <1>2, Zenon DEF FcTest
  <2> HIDE DEF act
  <2>2. [fc[c] EXCEPT !.at = "load"] \in FcCalls
    BY <1>0 DEF FcCalls
  <2>3. fcStopped' \subseteq ACs
    BY <1>0, <2>1, Zenon DEF FcOK
  <2>4. fcClash' \in BOOLEAN
    BY <2>1, Zenon
  <2>5. fc' \in [FcContexts -> FcCalls] /\ \A d \in FcContexts \ {c} : fc'[d] = fc[d]
    BY <1>1, <2>1, <2>2 DEF FcOK
  <2> QED
    BY <2>1, <2>3, <2>4, <2>5, Zenon DEF FcOK
<1>3. CASE FcLoad(c)
  <2>1. /\ fc' = [fc EXCEPT ![c].at = "store", ![c].val = fcBits]
        /\ UNCHANGED <<fcBits, fcStopped, fcClash>>
    BY <1>3, Zenon DEF FcLoad
  <2>2. fc' \in [FcContexts -> FcCalls] /\ \A d \in FcContexts \ {c} : fc'[d] = fc[d]
    BY <1>0, <2>1 DEF FcOK, FcCalls
  <2> QED
    BY <2>1, <2>2, Zenon DEF FcOK
<1>4. CASE FcStore(c)
  <2>1. /\ fcBits' = IF fc[c].stop THEN fc[c].val \cup {fc[c].ac} ELSE fc[c].val \ {fc[c].ac}
        /\ fc' = [fc EXCEPT ![c] = NoCall]
        /\ UNCHANGED <<fcStopped, fcClash>>
    BY <1>4, Zenon DEF FcStore
  <2>2. fc' \in [FcContexts -> FcCalls] /\ \A d \in FcContexts \ {c} : fc'[d] = fc[d]
    BY <1>1, <2>1 DEF FcOK
  <2>3. fcBits' \subseteq ACs
    BY <1>0, <2>1, Zenon
  <2> QED
    BY <2>1, <2>2, <2>3, Zenon DEF FcOK
<1> QED
  BY <1>2, <1>3, <1>4

LEMMA FcCallOK ==
  ASSUME FcOK, NEW c \in FcContexts, NEW i \in HpQs, NEW stop \in BOOLEAN, NEW condition,
         FcCall(c, i, stop, condition), UNCHANGED <<fcBits, fcStopped>>
  PROVE  FcOK'
  BY FcCallType, Zenon DEF FcOK

LEMMA PtFcType ==
  ASSUME PtTypeInv, [PtNext]_ptVars
  PROVE  FcOK'
<1>0. FcOK /\ PtTaskOK /\ HpTaskOK /\ HpFramesOK
  BY PtTypeSplit, Zenon DEF PtTypeInv
<1>q. \A f \in HpFrames : HpQueueOf[f] \in HpQs
  BY HpConstants
<1>t. "tx" \in FcContexts /\ "hci" \in FcContexts
  BY DEF FcContexts
<1>1. CASE PtWork
  <2>1. UNCHANGED <<fcBits, fcStopped>>
    BY <1>1, Zenon DEF PtWork, HpRest
  <2>2. CASE ptQ = <<>>
    BY <1>0, <1>1, <2>1, <2>2, Zenon DEF PtWork, FcOK, fcVars
  <2>3. CASE ptQ # <<>>
    <3>1. Head(ptQ) \in HpFrames
      BY <1>0, <2>3, PutBackHead DEF PtTaskOK
    <3>2. \E condition : FcCall("tx", HpQueueOf[Head(ptQ)], TRUE, condition)
      BY <1>1, <2>3, Zenon DEF PtWork, HpEnqueue
    <3> QED
      BY <1>0, <1>q, <1>t, <2>1, <3>1, <3>2, FcCallOK, Zenon
  <2> QED
    BY <2>2, <2>3
<1>2. CASE PtFlushTake
  <2>1. UNCHANGED <<fcBits, fcStopped>>
    BY <1>2, Zenon DEF PtFlushTake, HpRest
  <2>2. CASE ~(ptEarly # <<>> /\ Cardinality(PtOut) < PtWindow)
    BY <1>0, <1>2, <2>1, <2>2, Zenon DEF PtFlushTake, FcOK
  <2>3. CASE ptEarly # <<>> /\ Cardinality(PtOut) < PtWindow
    <3>1. Head(ptEarly) \in HpFrames
      BY <1>0, <2>3, PutBackHead, HpConstants DEF PtTaskOK
    <3>2. \E condition : FcCall("tx", HpQueueOf[Head(ptEarly)], FALSE, condition)
      BY <1>2, <2>3, Zenon DEF PtFlushTake
    <3> QED
      BY <1>0, <1>q, <1>t, <2>1, <3>1, <3>2, FcCallOK, Zenon
  <2> QED
    BY <2>2, <2>3
<1>3. CASE PtFlushSend
  <2>1. UNCHANGED <<fcBits, fcStopped>> /\ ptCarry # NoFrame /\ HpEnqueue(ptCarry, FALSE, FALSE)
    BY <1>3, Zenon DEF PtFlushSend, HpRest
  <2>2. ptCarry \in HpFrames
    BY <1>0, <2>1, HpConstants, Zenon DEF PtTaskOK
  <2>3. \E condition : FcCall("tx", HpQueueOf[ptCarry], TRUE, condition)
    BY <2>1, Zenon DEF HpEnqueue
  <2> QED
    BY <1>0, <1>q, <1>t, <2>1, <2>2, <2>3, FcCallOK, Zenon
<1>4. CASE PtFlow
  BY <1>0, <1>4, FcStepType, Zenon DEF PtFlow, FcStep
<1>5. CASE HpSend
  <2>1. UNCHANGED <<fcBits, fcStopped>>
        /\ \E condition : FcCall("hci", hpTask.q, FALSE, condition)
    BY <1>5, Zenon DEF HpSend
  <2>2. hpTask.q \in HpQs
    BY <1>0 DEF HpTaskOK
  <2> QED
    BY <1>0, <1>t, <2>1, <2>2, FcCallOK, Zenon
<1>6. CASE HpGivesUp \/ HpBegin \/ HpHandler \/ HpDequeue \/ HpNoPage \/ HpSendFails \/ HpAfter
  <2>1. UNCHANGED fcVars
    BY <1>6, Zenon DEF HpGivesUp, HpBegin, HpHandler, HpDequeue, HpNoPage, HpSendFails,
       HpAfter, HpReturn
  <2> QED
    BY <1>0, <2>1, Zenon DEF FcOK, fcVars
<1>7. CASE \/ PtArrive \/ PtAck \/ PtWake \/ PtCheck \/ PtClear \/ PtControl \/ PtChip
           \/ UNCHANGED ptVars
  <2>1. UNCHANGED <<fcBits, fcStopped, fc, fcClash>>
    BY <1>7, Zenon DEF PtArrive, PtAck, PtWake, PtCheck, PtClear, PtControl, PtChip,
       HpControl, HpChipSends, HpRest, ptVars, hpVars, fcVars
  <2> QED
    BY <1>0, <2>1, Zenon DEF FcOK
<1> QED
  BY <1>1, <1>2, <1>3, <1>4, <1>5, <1>6, <1>7, Zenon DEF PtNext, PtTxTask, PtHci, HpThread

LEMMA PtTaskType ==
  ASSUME PtTypeInv, [PtNext]_ptVars
  PROVE  PtTaskOK'
<1>0. PtTaskOK
  BY PtTypeSplit, Zenon DEF PtTypeInv
<1>1. /\ ptQ \in Seq(HpFrames) /\ ptEarly \in Seq(PtAmpdu) /\ ptNew \subseteq HpFrames
      /\ ptAcked \subseteq PtAmpdu
  BY <1>0, Zenon DEF PtTaskOK
<1>2. CASE PtArrive
  <2>1. PICK f \in ptNew : ptQ' = Append(ptQ, f) /\ ptNew' = ptNew \ {f}
    BY <1>2, Zenon DEF PtArrive
  <2>2. UNCHANGED <<ptEarly, ptAcked, ptPc, ptTimed, ptCarry>>
    BY <1>2, Zenon DEF PtArrive, ptTask
  <2>3. ptQ' \in Seq(HpFrames) /\ ptNew' \subseteq HpFrames
    BY <1>1, <2>1, AppendProperties
  <2> QED
    BY <1>0, <2>2, <2>3, Zenon DEF PtTaskOK
<1>3. CASE PtAck
  <2>1. /\ ptAcked' \subseteq PtAmpdu
        /\ UNCHANGED <<ptNew, ptQ, ptEarly, ptPc, ptTimed, ptCarry>>
    BY <1>1, <1>3, Zenon DEF PtAck, ptTask
  <2> QED
    BY <1>0, <2>1, Zenon DEF PtTaskOK
<1>4. CASE PtWake \/ PtCheck \/ PtClear
  <2>1. /\ UNCHANGED <<ptNew, ptQ, ptEarly, ptAcked, ptCarry>>
        /\ ptPc' \in {"sleep", "work", "flush"} /\ ptTimed' \in BOOLEAN
    BY <1>0, <1>4, Zenon DEF PtWake, PtCheck, PtClear, PtTaskOK
  <2> QED
    BY <1>0, <2>1, Zenon DEF PtTaskOK
<1>5. CASE PtWork
  <2>1. UNCHANGED <<ptNew, ptAcked, ptTimed, ptCarry>>
    BY <1>5, Zenon DEF PtWork
  <2>2. CASE ptQ = <<>>
    <3>1. ptPc' = "check" /\ UNCHANGED <<ptQ, ptEarly>>
      BY <1>5, <2>2, Zenon DEF PtWork
    <3> QED
      BY <1>0, <2>1, <3>1, Zenon DEF PtTaskOK
  <2>3. CASE ptQ # <<>>
    <3>1. /\ ptQ' = Tail(ptQ) /\ UNCHANGED ptPc
          /\ \/ Head(ptQ) \in PtAmpdu /\ ptEarly' = Append(ptEarly, Head(ptQ))
             \/ UNCHANGED ptEarly
      BY <1>5, <2>3, Zenon DEF PtWork
    <3>2. ptQ' \in Seq(HpFrames) /\ ptEarly' \in Seq(PtAmpdu)
      <4>1. ptQ' \in Seq(HpFrames)
        BY <1>1, <2>3, <3>1, PutBackHead
      <4>2. CASE Head(ptQ) \in PtAmpdu /\ ptEarly' = Append(ptEarly, Head(ptQ))
        BY <1>1, <4>1, <4>2, AppendProperties
      <4> QED
        BY <1>1, <3>1, <4>1, <4>2
    <3> QED
      BY <1>0, <2>1, <3>1, <3>2, Zenon DEF PtTaskOK
  <2> QED
    BY <2>2, <2>3
<1>6. CASE PtFlushTake
  <2>1. UNCHANGED <<ptNew, ptQ, ptAcked, ptTimed>>
    BY <1>6, Zenon DEF PtFlushTake
  <2>2. \/ ptEarly # <<>> /\ ptCarry' = Head(ptEarly) /\ ptEarly' = Tail(ptEarly) /\ UNCHANGED ptPc
        \/ ptPc' = "clear" /\ UNCHANGED <<ptCarry, ptEarly>>
    BY <1>6, Zenon DEF PtFlushTake
  <2>3. ptEarly' \in Seq(PtAmpdu) /\ ptCarry' \in PtAmpdu \cup {NoFrame}
    BY <1>0, <1>1, <2>2, PutBackHead DEF PtTaskOK
  <2> QED
    BY <1>0, <2>1, <2>2, <2>3, Zenon DEF PtTaskOK
<1>7. CASE PtFlushSend
  BY <1>0, <1>7, Zenon DEF PtFlushSend, PtTaskOK
<1>8. CASE PtFlow \/ PtHci \/ PtControl \/ PtChip \/ UNCHANGED ptVars
  <2>1. UNCHANGED <<ptNew, ptQ, ptEarly, ptAcked, ptPc, ptTimed, ptCarry>>
    BY <1>8, Zenon DEF PtFlow, PtHci, PtControl, PtChip, ptVars, ptTask
  <2> QED
    BY <1>0, <2>1, Zenon DEF PtTaskOK
<1> QED
  BY <1>2, <1>3, <1>4, <1>5, <1>6, <1>7, <1>8, Zenon DEF PtNext, PtTxTask

HpTasks == [at : {"wait", "queue", "xmit", "after"}, q : HpQs, left : Nat, pages : Nat,
            err : {"none", "busy", "bus", "gone"}]

LEMMA HpLeaveFacts ==
  ASSUME HpTaskOK, hpErrCnt <= HpMaxErrors, NEW err \in {"none", "busy", "bus", "gone"},
         HpLeave(err)
  PROVE  /\ hpTask' \in HpTasks /\ hpErrCnt' \in 0 .. HpMaxErrors + 1 /\ hpIfErr' \in BOOLEAN
         /\ hpTask'.at \in {"wait", "queue"} /\ (hpTask'.at = "queue" => hpErrCnt' = hpErrCnt)
<1>1. hpTask \in HpTasks /\ hpErrCnt \in 0 .. HpMaxErrors + 1 /\ hpIfErr \in BOOLEAN
  BY Zenon DEF HpTaskOK, HpTasks
<1>2. 0 \in HpQs /\ HpQueues \in Nat /\ HpMaxErrors \in Nat /\ HpQs = 0 .. HpQueues - 1
  BY HpConstants DEF HpQs
<1>3. CASE hpTask.q > 0 /\ err \notin {"bus", "gone"}
  <2>1. /\ hpTask' = [hpTask EXCEPT !.at = "queue", !.q = @ - 1, !.err = err]
        /\ UNCHANGED <<hpErrCnt, hpIfErr>>
    BY <1>3, Zenon DEF HpLeave
  <2>2. hpTask.q \in HpQs
    BY <1>1 DEF HpTasks
  <2>3. hpTask.q - 1 \in HpQs
    BY <1>2, <1>3, <2>2
  <2> HIDE DEF HpQs
  <2>4. hpTask' \in HpTasks /\ hpTask'.at = "queue"
    BY <1>1, <2>1, <2>3 DEF HpTasks
  <2> QED
    BY <1>1, <2>1, <2>4, Zenon
<1>4. CASE ~(hpTask.q > 0 /\ err \notin {"bus", "gone"})
  <2>1. /\ hpTask' = Resting
        /\ hpErrCnt' = IF err = "bus" THEN hpErrCnt + 1 ELSE hpErrCnt
        /\ hpIfErr' = (hpIfErr \/ err = "gone")
    BY <1>4, Zenon DEF HpLeave
  <2>2. hpTask' \in HpTasks /\ hpTask'.at = "wait"
    BY <1>2, <2>1 DEF HpTasks, Resting
  <2>3. hpErrCnt' \in 0 .. HpMaxErrors + 1
    BY <1>1, <1>2, <2>1
  <2>4. hpIfErr' \in BOOLEAN
    BY <2>1, Zenon
  <2> QED
    BY <2>2, <2>3, <2>4
<1> QED
  BY <1>3, <1>4

\* A step of a thread that leaves the task and the frame in hand.
LEMMA HpTaskKept ==
  ASSUME HpTaskOK, HpHandInv, UNCHANGED <<hpTask, hpHand, hpErrCnt, hpIfErr, hpFaultsUsed>>,
         FcIdle("hci") => FcIdle("hci")'
  PROVE  HpTaskOK' /\ HpHandInv'
  BY Zenon DEF HpTaskOK, HpHandInv

LEMMA HpTaskStep ==
  ASSUME PtTypeInv, [PtNext]_ptVars
  PROVE  HpTaskOK' /\ HpHandInv'
<1>0. HpTaskOK /\ HpHandInv /\ HpFramesOK /\ HpFlagsOK /\ FcOK /\ PtTaskOK
  BY PtTypeSplit, Zenon DEF PtTypeInv
<1>1. hpTask \in HpTasks /\ hpErrCnt \in 0 .. HpMaxErrors + 1 /\ hpIfErr \in BOOLEAN
      /\ hpFaultsUsed \in Nat
  BY <1>0, Zenon DEF HpTaskOK, HpTasks
<1>2. /\ hpTask.at \in {"wait", "queue", "xmit", "after"} /\ hpTask.q \in HpQs
      /\ hpTask.left \in Nat /\ hpTask.pages \in Nat
      /\ hpTask.err \in {"none", "busy", "bus", "gone"}
  BY <1>1 DEF HpTasks
<1>3. /\ hpHand # NoFrame => hpTask.at = "xmit" /\ hpTask.left > 0 /\ FcIdle("hci")
      /\ hpTask.at # "wait" => hpErrCnt <= HpMaxErrors
  BY <1>0, Zenon DEF HpHandInv
<1>4. "hci" \in FcContexts /\ "tx" \in FcContexts \ {"hci"} /\ "hci" \in FcContexts \ {"tx"}
  BY DEF FcContexts
\* Put together, with no frame in hand afterwards.
<1>5. ASSUME hpTask' \in HpTasks, hpErrCnt' \in 0 .. HpMaxErrors + 1, hpIfErr' \in BOOLEAN,
             hpFaultsUsed' \in Nat, hpHand' = NoFrame,
             hpTask'.at = "wait" \/ hpErrCnt' <= HpMaxErrors
      PROVE  HpTaskOK' /\ HpHandInv'
  BY <1>5, Zenon DEF HpTaskOK, HpTasks, HpHandInv
<1>6. CASE HpGivesUp
  <2>1. hpTask.at = "wait" /\ hpErrCnt' = 0 /\ UNCHANGED <<hpHand, hpTask, hpIfErr, hpFaultsUsed>>
    BY <1>6, Zenon DEF HpGivesUp
  <2>2. hpHand' = NoFrame /\ 0 \in 0 .. HpMaxErrors + 1
    BY <1>3, <2>1, HpConstants
  <2> QED
    BY <1>1, <1>5, <2>1, <2>2, Zenon
<1>7. CASE HpBegin
  <2>1. /\ hpTask.at = "wait" /\ ~HpBroken /\ hpTask' = [Resting EXCEPT !.at = "queue", !.q = HpMgmt]
        /\ UNCHANGED <<hpHand, hpErrCnt, hpIfErr, hpFaultsUsed>>
    BY <1>7, Zenon DEF HpBegin, hpFrameVars, hpErr
  <2>2. hpHand' = NoFrame
    BY <1>3, <2>1
  <2>3. hpTask' \in HpTasks
    BY <2>1, HpConstants DEF HpTasks, Resting
  <2>4. hpErrCnt <= HpMaxErrors
    BY <1>1, <2>1, HpConstants DEF HpBroken
  <2> QED
    BY <1>1, <1>5, <2>1, <2>2, <2>3, <2>4, Zenon
<1>8. CASE HpHandler
  <2> DEFINE room == IF hpScan THEN HpChipSize - hpChip ELSE Cardinality(HpFrames)
  <2>1. hpTask.at = "queue" /\ UNCHANGED hpHand
    BY <1>8, Zenon DEF HpHandler, hpFrameVars
  <2>2. hpHand' = NoFrame /\ hpErrCnt <= HpMaxErrors
    BY <1>3, <2>1
  <2>3. \/ \E err \in {"none", "busy", "bus", "gone"} :
             HpLeave(err) /\ (UNCHANGED hpFaultsUsed \/ HpFault("read"))
        \/ /\ hpTask' = [hpTask EXCEPT !.at = "xmit", !.left = Len(hpQ[hpTask.q]), !.pages = room]
           /\ UNCHANGED <<hpErrCnt, hpIfErr, hpFaultsUsed>>
    BY <1>2, <1>8, Zenon DEF HpHandler, hpErr
  <2>4. CASE \E err \in {"none", "busy", "bus", "gone"} :
               HpLeave(err) /\ (UNCHANGED hpFaultsUsed \/ HpFault("read"))
    <3>1. hpFaultsUsed' \in Nat
      BY <1>1, <2>4 DEF HpFault
    <3>2. /\ hpTask' \in HpTasks /\ hpErrCnt' \in 0 .. HpMaxErrors + 1 /\ hpIfErr' \in BOOLEAN
          /\ hpTask'.at \in {"wait", "queue"} /\ (hpTask'.at = "queue" => hpErrCnt' = hpErrCnt)
      BY <1>0, <2>2, <2>4, HpLeaveFacts, Zenon
    <3> QED
      BY <1>5, <2>2, <3>1, <3>2
  <2>5. CASE /\ hpTask' = [hpTask EXCEPT !.at = "xmit", !.left = Len(hpQ[hpTask.q]), !.pages = room]
             /\ UNCHANGED <<hpErrCnt, hpIfErr, hpFaultsUsed>>
    <3>1. room \in Nat
      <4>1. HpChipSize - hpChip \in Nat
        <5>1. hpChip \in 0 .. HpChipSize
          BY <1>0, Zenon DEF HpFlagsOK
        <5> QED
          BY <5>1, HpConstants
      <4>2. Cardinality(HpFrames) \in Nat
        BY HpConstants, FS_CardinalityType
      <4> QED
        BY <4>1, <4>2
    <3>2. Len(hpQ[hpTask.q]) \in Nat
      <4>1. hpQ[hpTask.q] \in Seq(HpFrames)
        BY <1>0, <1>2 DEF HpFramesOK
      <4> QED
        BY <4>1, LenProperties
    <3> HIDE DEF room
    <3>3. hpTask' \in HpTasks
      BY <1>1, <2>5, <3>1, <3>2 DEF HpTasks
    <3> QED
      BY <1>1, <1>5, <2>2, <2>5, <3>3
  <2> QED
    BY <2>3, <2>4, <2>5
<1>9. CASE HpDequeue
  <2>1. hpTask.at = "xmit" /\ FcIdle("hci") /\ UNCHANGED <<hpErrCnt, hpIfErr, hpFaultsUsed, fc>>
        /\ hpHand = NoFrame
    BY <1>9, Zenon DEF HpDequeue, hpErr, fcVars
  <2>2. CASE hpTask.left = 0 \/ HpHalted(hpTask.q) \/ hpQ[hpTask.q] = <<>>
    <3>1. UNCHANGED hpHand /\ \E err \in {"none", "busy", "bus", "gone"} :
            hpTask' = [hpTask EXCEPT !.at = "after", !.err = err]
      <4> DEFINE err == IF hpTask.left > 0 /\ HpHalted(hpTask.q) THEN "busy" ELSE hpTask.err
      <4>1. /\ UNCHANGED hpHand
            /\ hpTask' = [hpTask EXCEPT !.at = "after",
                                        !.err = IF hpTask.left > 0 /\ HpHalted(hpTask.q)
                                                THEN "busy" ELSE @]
        BY <1>9, <2>2, Zenon DEF HpDequeue
      <4>2. err \in {"none", "busy", "bus", "gone"}
        BY <1>2
      <4>3. hpTask' = [hpTask EXCEPT !.at = "after", !.err = err]
        BY <4>1
      <4> QED
        BY <4>1, <4>2, <4>3, Zenon
    <3>2. hpTask' \in HpTasks
      BY <1>1, <3>1 DEF HpTasks
    <3> QED
      BY <1>1, <1>3, <1>5, <2>1, <3>1, <3>2
  <2>3. CASE ~(hpTask.left = 0 \/ HpHalted(hpTask.q) \/ hpQ[hpTask.q] = <<>>)
    <3>1. UNCHANGED hpTask
      BY <1>9, <2>3, Zenon DEF HpDequeue
    <3>2. hpTask.left > 0 /\ hpErrCnt <= HpMaxErrors
      BY <1>2, <1>3, <2>1, <2>3
    <3>3. FcIdle("hci")'
      BY <2>1 DEF FcIdle
    <3>4. HpTaskOK'
      BY <1>0, <2>1, <3>1, Zenon DEF HpTaskOK
    <3> QED
      BY <2>1, <3>1, <3>2, <3>3, <3>4 DEF HpHandInv
  <2> QED
    BY <2>2, <2>3
<1>10. CASE HpNoPage \/ HpSendFails
  <2>1. \E err \in {"none", "busy", "bus", "gone"} :
          hpHand # NoFrame /\ HpReturn(err) /\ (UNCHANGED hpFaultsUsed \/ HpFault(err))
    BY <1>2, <1>10, Zenon DEF HpNoPage, HpSendFails
  <2>2. PICK err \in {"none", "busy", "bus", "gone"} :
          hpHand # NoFrame /\ HpReturn(err) /\ (UNCHANGED hpFaultsUsed \/ HpFault(err))
    BY <2>1, Zenon
  <2>3. /\ hpHand # NoFrame /\ hpHand' = NoFrame
        /\ hpTask' = [hpTask EXCEPT !.at = "after", !.err = err] /\ UNCHANGED <<hpErrCnt, hpIfErr>>
    BY <2>2, Zenon DEF HpReturn
  <2>4. hpFaultsUsed' \in Nat
    BY <1>1, <2>2 DEF HpFault
  <2>5. hpTask' \in HpTasks
    BY <1>1, <2>3 DEF HpTasks
  <2> QED
    BY <1>1, <1>3, <1>5, <2>3, <2>4, <2>5
<1>11. CASE HpSend
  <2>1. /\ hpHand # NoFrame /\ hpTask.pages > 0 /\ hpHand' = NoFrame
        /\ hpTask' = [hpTask EXCEPT !.left = @ - 1, !.pages = @ - 1]
        /\ UNCHANGED <<hpErrCnt, hpIfErr, hpFaultsUsed>>
    BY <1>11, Zenon DEF HpSend, hpErr
  <2>2. hpTask.left - 1 \in Nat /\ hpTask.pages - 1 \in Nat
    BY <1>2, <1>3, <2>1
  <2>3. hpTask' \in HpTasks
    BY <1>1, <2>1, <2>2 DEF HpTasks
  <2> QED
    BY <1>1, <1>3, <1>5, <2>1, <2>3
<1>12. CASE HpAfter
  <2>1. hpTask.at = "after" /\ HpLeave(hpTask.err) /\ UNCHANGED <<hpHand, hpFaultsUsed>>
    BY <1>12, Zenon DEF HpAfter, hpFrameVars
  <2>2. hpHand' = NoFrame /\ hpErrCnt <= HpMaxErrors
    BY <1>3, <2>1
  <2>3. /\ hpTask' \in HpTasks /\ hpErrCnt' \in 0 .. HpMaxErrors + 1 /\ hpIfErr' \in BOOLEAN
        /\ hpTask'.at \in {"wait", "queue"} /\ (hpTask'.at = "queue" => hpErrCnt' = hpErrCnt)
    BY <1>0, <1>2, <2>1, <2>2, HpLeaveFacts, Zenon
  <2> QED
    BY <1>1, <1>5, <2>1, <2>2, <2>3
<1>13. CASE PtFlow
  <2>1. UNCHANGED <<hpTask, hpHand, hpErrCnt, hpIfErr, hpFaultsUsed>>
    BY <1>13, Zenon DEF PtFlow, FcStep, hpFrameVars, hpErr
  <2>2. PICK c \in FcContexts : \E backlog : FcTest(c, backlog) \/ FcLoad(c) \/ FcStore(c)
    BY <1>13, Zenon DEF PtFlow, FcStep
  <2>3. FcIdle("hci") => FcIdle("hci")'
    <3>1. CASE c = "hci"
      BY <2>2, <3>1 DEF FcTest, FcLoad, FcStore, FcIdle
    <3>2. CASE c # "hci"
      BY <1>0, <1>4, <2>2, <3>2, FcStepType DEF FcIdle
    <3> QED
      BY <3>1, <3>2
  <2> QED
    BY <1>0, <2>1, <2>3, HpTaskKept, Zenon
<1>14. CASE PtWork \/ PtFlushTake \/ PtFlushSend
  <2>1. UNCHANGED <<hpTask, hpHand, hpErrCnt, hpIfErr, hpFaultsUsed>>
    BY <1>14, Zenon DEF PtWork, PtFlushTake, PtFlushSend, HpRest, hpErr
  <2>2. \/ UNCHANGED fc
        \/ \E i, stop, condition : FcCall("tx", i, stop, condition)
    BY <1>14, Zenon DEF PtWork, PtFlushTake, PtFlushSend, HpEnqueue
  <2>3. ASSUME NEW i, NEW stop, NEW condition, FcCall("tx", i, stop, condition)
        PROVE  fc'["hci"] = fc["hci"]
    BY <1>0, <1>4, <2>3 DEF FcCall, FcOK
  <2>4. FcIdle("hci") => FcIdle("hci")'
    BY <2>2, <2>3 DEF FcIdle
  <2> QED
    BY <1>0, <2>1, <2>4, HpTaskKept, Zenon
<1>15. CASE \/ PtArrive \/ PtAck \/ PtWake \/ PtCheck \/ PtClear \/ PtControl \/ PtChip
            \/ UNCHANGED ptVars
  <2>1. UNCHANGED <<hpTask, hpHand, hpErrCnt, hpIfErr, hpFaultsUsed, fc>>
    BY <1>15, Zenon DEF PtArrive, PtAck, PtWake, PtCheck, PtClear, PtControl, PtChip,
       HpControl, HpChipSends, HpRest, ptVars, hpVars, fcVars, hpErr, hpFrameVars
  <2>2. FcIdle("hci") => FcIdle("hci")'
    BY <2>1 DEF FcIdle
  <2> QED
    BY <1>0, <2>1, <2>2, HpTaskKept, Zenon
<1> QED
  BY <1>6, <1>7, <1>8, <1>9, <1>10, <1>11, <1>12, <1>13, <1>14, <1>15, Zenon
     DEF PtNext, PtTxTask, PtHci, HpThread

LEMMA PtFlagsType ==
  ASSUME PtTypeInv, [PtNext]_ptVars
  PROVE  HpFlagsOK'
<1>0. HpFlagsOK /\ HpFramesOK
  BY PtTypeSplit, Zenon DEF PtTypeInv
<1>1. hpChip \in 0 .. HpChipSize /\ hpOps \in Nat /\ HpChipSize \in Nat
  BY <1>0, HpConstants, Zenon DEF HpFlagsOK
<1>2. CASE PtControl
  <2>1. /\ hpOps' = hpOps + 1 /\ UNCHANGED <<hpScan, hpChip, hpEmpty>>
        /\ \/ (\E m \in HpPauses : hpMask' \in {hpMask \cup m, hpMask \ m}) /\ UNCHANGED hpStarted
           \/ hpStarted' = ~hpStarted /\ UNCHANGED hpMask
    BY <1>2, Zenon DEF PtControl, HpControl, HpOp
  <2>2. hpOps' \in Nat
    BY <1>1, <2>1
  <2>3. hpMask' \subseteq HpQs /\ hpStarted' \in BOOLEAN
    BY <1>0, <2>1, HpConstants, Zenon DEF HpFlagsOK
  <2> QED
    BY <1>0, <2>1, <2>2, <2>3, Zenon DEF HpFlagsOK
<1>3. CASE PtChip
  <2>1. hpChip > 0 /\ hpChip' = hpChip - 1
        /\ UNCHANGED <<hpMask, hpStarted, hpScan, hpOps, hpEmpty>>
    BY <1>3, Zenon DEF PtChip, HpChipSends, hpCtl
  <2>2. hpChip' \in 0 .. HpChipSize
    BY <1>1, <2>1
  <2> QED
    BY <1>0, <2>1, <2>2, Zenon DEF HpFlagsOK
<1>4. CASE HpSend
  <2>1. hpChip < HpChipSize /\ hpChip' = hpChip + 1
        /\ UNCHANGED <<hpMask, hpStarted, hpScan, hpOps, hpEmpty>>
    BY <1>4, Zenon DEF HpSend, hpCtl
  <2>2. hpChip' \in 0 .. HpChipSize
    BY <1>1, <2>1
  <2> QED
    BY <1>0, <2>1, <2>2, Zenon DEF HpFlagsOK
<1>5. CASE HpAfter \/ PtClear
  <2>1. UNCHANGED <<hpMask, hpStarted, hpScan, hpOps, hpChip>> /\ hpEmpty' \in BOOLEAN
    BY <1>5, Zenon DEF HpAfter, PtClear, hpCtl, HpRest
  <2> QED
    BY <1>0, <2>1, Zenon DEF HpFlagsOK
<1>6. CASE \/ HpGivesUp \/ HpBegin \/ HpHandler \/ HpDequeue \/ HpNoPage \/ HpSendFails
           \/ PtArrive \/ PtAck \/ PtWake \/ PtWork \/ PtCheck \/ PtFlushTake \/ PtFlushSend
           \/ PtFlow \/ UNCHANGED ptVars
  <2>1. UNCHANGED <<hpMask, hpStarted, hpScan, hpOps, hpChip, hpEmpty>>
    BY <1>6, Zenon DEF HpGivesUp, HpBegin, HpHandler, HpDequeue, HpNoPage, HpSendFails, HpReturn,
       PtArrive, PtAck, PtWake, PtWork, PtCheck, PtFlushTake, PtFlushSend, PtFlow, FcStep,
       HpRest, ptVars, hpVars, hpCtl
  <2> QED
    BY <1>0, <2>1, Zenon DEF HpFlagsOK
<1> QED
  BY <1>2, <1>3, <1>4, <1>5, <1>6, Zenon DEF PtNext, PtTxTask, PtHci, HpThread
-----------------------------------------------------------------------------
(* What a step does to the queues of TxQueues: nothing, a frame more at    *)
(* the end of its queue, or a frame sent.                                  *)

HpStays == UNCHANGED <<HpWaiting, hpSent, hpFresh>>
HpGets(f) ==
  /\ HpWaiting' = [HpWaiting EXCEPT ![HpQueueOf[f]] = Append(@, f)]
  /\ hpFresh' = hpFresh \ {f} /\ UNCHANGED hpSent
HpLoses(i) ==
  /\ HpWaiting[i] # <<>>
  /\ HpWaiting' = [HpWaiting EXCEPT ![i] = Tail(@)]
  /\ hpSent' = [hpSent EXCEPT ![i] = Append(@, Head(HpWaiting[i]))]
  /\ UNCHANGED hpFresh

LEMMA HpWaitingType ==
  ASSUME HpFramesOK
  PROVE  HpWaiting \in [HpQs -> Seq(HpFrames)]
<1>1. ASSUME NEW i \in HpQs
      PROVE  (IF hpHand # NoFrame /\ hpTask.q = i THEN <<hpHand>> \o hpQ[i] ELSE hpQ[i])
               \in Seq(HpFrames)
  <2>1. hpQ[i] \in Seq(HpFrames)
    BY DEF HpFramesOK
  <2>2. CASE hpHand # NoFrame
    <3>1. hpHand \in HpFrames
      BY <2>2 DEF HpFramesOK
    <3> QED
      BY <2>1, <3>1, ConsProperties
  <2> QED
    BY <2>1, <2>2
<1> QED
  BY <1>1 DEF HpWaiting

\* The frame of ssv6xxx_hci_enqueue is the last of its queue, behind the one
\* whose transfer has begun.
LEMMA HpEnqueueMoves ==
  ASSUME HpFramesOK, NEW f \in HpFrames, NEW flow, HpEnqueue(f, FALSE, flow),
         UNCHANGED <<hpSent, hpDropped, hpHand, hpTask>>
  PROVE  HpFramesOK' /\ HpGets(f)
<1> DEFINE i == HpQueueOf[f]
<1>1. /\ hpQ' = [hpQ EXCEPT ![i] = Append(hpQ[i], f)] /\ hpFresh' = hpFresh \ {f}
  BY DEF HpEnqueue
<1>2. i \in HpQs /\ hpQ \in [HpQs -> Seq(HpFrames)]
  BY HpConstants DEF HpFramesOK
<1> HIDE DEF i
<1>3. hpQ[i] \in Seq(HpFrames) /\ Append(hpQ[i], f) \in Seq(HpFrames)
  BY <1>2, AppendProperties
<1>4. hpQ' \in [HpQs -> Seq(HpFrames)] /\ hpFresh' \subseteq HpFrames
  <2>1. hpQ' \in [HpQs -> Seq(HpFrames)]
    BY <1>1, <1>2, <1>3
  <2>2. hpFresh' \subseteq HpFrames
    BY <1>1, Zenon DEF HpFramesOK
  <2> QED
    BY <2>1, <2>2
<1>5. HpFramesOK'
  BY <1>4, Zenon DEF HpFramesOK
<1>6. ASSUME NEW j \in HpQs
      PROVE  (IF hpHand # NoFrame /\ hpTask.q = j THEN <<hpHand>> \o hpQ'[j] ELSE hpQ'[j])
               = IF j = i THEN Append(HpWaiting[j], f) ELSE HpWaiting[j]
  <2>1. HpWaiting[j] = IF hpHand # NoFrame /\ hpTask.q = j THEN <<hpHand>> \o hpQ[j] ELSE hpQ[j]
    BY DEF HpWaiting
  <2>2. CASE j # i
    BY <1>1, <1>2, <2>1, <2>2
  <2>3. CASE j = i
    <3>1. hpQ'[j] = Append(hpQ[i], f)
      BY <1>1, <1>2, <2>3
    <3>2. CASE hpHand # NoFrame /\ hpTask.q = j
      <4>1. hpHand \in HpFrames
        BY <3>2 DEF HpFramesOK
      <4>2. Append(<<hpHand>> \o hpQ[i], f) = <<hpHand>> \o Append(hpQ[i], f)
        BY <1>3, <4>1, AppendBehind
      <4> QED
        BY <2>1, <2>3, <3>1, <3>2, <4>2
    <3>3. CASE ~(hpHand # NoFrame /\ hpTask.q = j)
      BY <2>1, <2>3, <3>1, <3>3
    <3> QED
      BY <3>2, <3>3
  <2> QED
    BY <2>2, <2>3
<1>7. HpWaiting' = [HpWaiting EXCEPT ![i] = Append(@, f)]
  <2>1. HpWaiting' = [j \in HpQs |-> IF hpHand # NoFrame /\ hpTask.q = j THEN <<hpHand>> \o hpQ'[j]
                                     ELSE hpQ'[j]]
    BY DEF HpWaiting
  <2>2. HpWaiting \in [HpQs -> Seq(HpFrames)]
    BY HpWaitingType
  <2> QED
    BY <1>2, <1>6, <2>1, <2>2
<1> QED
  BY <1>1, <1>5, <1>7 DEF HpGets, i

\* A step that leaves the queues, but for the place of a task with no frame
\* in hand.
LEMMA HpQueuesStay ==
  ASSUME HpFramesOK, UNCHANGED <<hpFresh, hpQ, hpSent, hpDropped, hpHand>>,
         hpHand = NoFrame \/ UNCHANGED hpTask
  PROVE  HpFramesOK' /\ HpStays
<1>1. HpFramesOK'
  BY Zenon DEF HpFramesOK
<1>2. HpWaiting' = HpWaiting
  BY DEF HpWaiting
<1> QED
  BY <1>1, <1>2 DEF HpStays

LEMMA HpMoves ==
  ASSUME PtTypeInv, HpThread
  PROVE  HpFramesOK' /\ (HpStays \/ (HpSend /\ HpLoses(hpTask.q)))
<1>0. /\ HpFramesOK /\ hpTask.q \in HpQs
      /\ hpHand # NoFrame => hpTask.at = "xmit" /\ hpHand \in HpFrames
  BY PtTypeSplit DEF PtTypeInv, HpHandInv, HpTaskOK, HpFramesOK
<1>q. hpQ \in [HpQs -> Seq(HpFrames)] /\ hpSent \in [HpQs -> Seq(HpFrames)]
  BY <1>0 DEF HpFramesOK
<1> DEFINE i == hpTask.q
<1>i. i \in HpQs /\ hpQ[i] \in Seq(HpFrames)
  BY <1>0, <1>q
<1>1. CASE HpGivesUp
  <2>1. {q \in HpQs : HpFlushes(q)} = {}
    BY DEF HpFlushes
  <2>2. /\ hpTask.at = "wait" /\ UNCHANGED <<hpFresh, hpSent, hpHand, hpTask>>
        /\ hpDropped' = hpDropped \cup UNION {ToSet(hpQ[q]) : q \in {q \in HpQs : HpFlushes(q)}}
        /\ hpQ' = [q \in HpQs |-> IF q \in {p \in HpQs : HpFlushes(p)} THEN <<>> ELSE hpQ[q]]
    BY <1>1, Zenon DEF HpGivesUp
  <2>3. hpDropped' = hpDropped
    BY <2>1, <2>2
  <2>4. hpQ' = hpQ
    BY <1>q, <2>1, <2>2
  <2> QED
    BY <1>0, <2>2, <2>3, <2>4, HpQueuesStay
<1>2. CASE HpBegin \/ HpHandler \/ HpAfter
  <2>1. /\ hpTask.at \in {"wait", "queue", "after"}
        /\ UNCHANGED <<hpFresh, hpQ, hpSent, hpDropped, hpHand>>
    BY <1>2, Zenon DEF HpBegin, HpHandler, HpAfter, hpFrameVars
  <2> QED
    BY <1>0, <2>1, HpQueuesStay
<1>3. CASE HpDequeue
  <2>1. hpHand = NoFrame /\ UNCHANGED <<hpFresh, hpSent, hpDropped>>
    BY <1>3, Zenon DEF HpDequeue
  <2>2. CASE hpTask.left = 0 \/ HpHalted(i) \/ hpQ[i] = <<>>
    <3>1. UNCHANGED <<hpHand, hpQ>>
      BY <1>3, <2>2, Zenon DEF HpDequeue
    <3> QED
      BY <1>0, <2>1, <3>1, HpQueuesStay
  <2>3. CASE ~(hpTask.left = 0 \/ HpHalted(i) \/ hpQ[i] = <<>>)
    <3>1. /\ hpHand' = Head(hpQ[i]) /\ hpQ' = [hpQ EXCEPT ![i] = Tail(hpQ[i])] /\ UNCHANGED hpTask
      BY <1>3, <2>3 DEF HpDequeue
    <3>2. Head(hpQ[i]) \in HpFrames /\ Tail(hpQ[i]) \in Seq(HpFrames)
          /\ <<Head(hpQ[i])>> \o Tail(hpQ[i]) = hpQ[i]
      BY <1>i, <2>3, PutBackHead
    <3>3. HpFramesOK'
      <4>1. hpQ' \in [HpQs -> Seq(HpFrames)] /\ hpHand' \in HpFrames \cup {NoFrame}
        BY <1>q, <3>1, <3>2
      <4> QED
        BY <1>0, <2>1, <4>1, Zenon DEF HpFramesOK
    <3>4. hpHand' # NoFrame
      BY <3>1, <3>2, HpConstants
    <3> HIDE DEF i
    <3>5. ASSUME NEW j \in HpQs
          PROVE  (IF hpHand' # NoFrame /\ hpTask'.q = j THEN <<hpHand'>> \o hpQ'[j] ELSE hpQ'[j])
                   = hpQ[j]
      <4>1. CASE j # i
        BY <1>q, <3>1, <4>1 DEF i
      <4>2. CASE j = i
        <5>1. hpQ'[j] = Tail(hpQ[i]) /\ hpTask'.q = j
          BY <1>q, <1>i, <3>1, <4>2 DEF i
        <5> QED
          BY <3>1, <3>2, <3>4, <4>2, <5>1
      <4> QED
        BY <4>1, <4>2
    <3>6. HpWaiting' = HpWaiting
      BY <2>1, <3>5 DEF HpWaiting
    <3> QED
      BY <2>1, <3>3, <3>6 DEF HpStays
  <2> QED
    BY <2>2, <2>3
<1>4. CASE HpNoPage \/ HpSendFails
  <2>1. PICK err : hpHand # NoFrame /\ HpReturn(err)
    BY <1>4, Zenon DEF HpNoPage, HpSendFails
  <2>2. /\ hpHand # NoFrame /\ hpQ' = [hpQ EXCEPT ![i] = <<hpHand>> \o hpQ[i]] /\ hpHand' = NoFrame
        /\ UNCHANGED <<hpFresh, hpSent, hpDropped>>
    BY <2>1 DEF HpReturn, HpPutBack
  <2>3. <<hpHand>> \o hpQ[i] \in Seq(HpFrames)
    BY <1>0, <1>i, <2>2, ConsProperties
  <2>4. HpFramesOK'
    <3>1. hpQ' \in [HpQs -> Seq(HpFrames)] /\ hpHand' \in HpFrames \cup {NoFrame}
      BY <1>q, <2>2, <2>3
    <3> QED
      BY <1>0, <2>2, <3>1, Zenon DEF HpFramesOK
  <2>5. ASSUME NEW j \in HpQs
        PROVE  hpQ'[j] = IF hpHand # NoFrame /\ hpTask.q = j THEN <<hpHand>> \o hpQ[j] ELSE hpQ[j]
    BY <1>q, <2>2
  <2>6. HpWaiting' = HpWaiting
    BY <2>2, <2>5 DEF HpWaiting
  <2> QED
    BY <2>2, <2>4, <2>6 DEF HpStays
<1>5. CASE HpSend
  <2>1. /\ hpHand # NoFrame /\ hpHand' = NoFrame
        /\ hpSent' = [hpSent EXCEPT ![i] = Append(hpSent[i], hpHand)]
        /\ UNCHANGED <<hpFresh, hpQ, hpDropped>>
    BY <1>5 DEF HpSend
  <2>2. hpHand \in HpFrames /\ hpSent[i] \in Seq(HpFrames)
    BY <1>0, <1>i, <1>q, <2>1
  <2>3. Append(hpSent[i], hpHand) \in Seq(HpFrames)
    BY <2>2, AppendProperties
  <2>4. HpFramesOK'
    <3>1. hpSent' \in [HpQs -> Seq(HpFrames)] /\ hpHand' \in HpFrames \cup {NoFrame}
      BY <1>q, <2>1, <2>3
    <3> QED
      BY <1>0, <2>1, <3>1, Zenon DEF HpFramesOK
  <2>5. HpWaiting[i] = <<hpHand>> \o hpQ[i]
    BY <1>i, <2>1 DEF HpWaiting
  <2>6. Head(HpWaiting[i]) = hpHand /\ Tail(HpWaiting[i]) = hpQ[i] /\ HpWaiting[i] # <<>>
    BY <1>i, <2>2, <2>5, ConsProperties
  <2>7. ASSUME NEW j \in HpQs PROVE hpQ[j] = IF j = i THEN Tail(HpWaiting[i]) ELSE HpWaiting[j]
    <3>1. CASE j # i
      BY <3>1 DEF HpWaiting
    <3> QED
      BY <2>6, <3>1
  <2>8. HpWaiting' = [HpWaiting EXCEPT ![i] = Tail(HpWaiting[i])]
    <3>1. HpWaiting' = [j \in HpQs |-> hpQ[j]]
      BY <2>1 DEF HpWaiting
    <3>2. HpWaiting \in [HpQs -> Seq(HpFrames)]
      BY <1>0, HpWaitingType
    <3> QED
      BY <1>i, <2>7, <3>1, <3>2
  <2> QED
    BY <1>5, <2>1, <2>4, <2>6, <2>8 DEF HpLoses
<1> QED
  BY <1>1, <1>2, <1>3, <1>4, <1>5, Zenon DEF HpThread

\* The frame that the TX task enqueues in this step.
PtGives(f) ==
  /\ HpGets(f) /\ UNCHANGED <<ptNew, hpHand>>
  /\ \/ /\ ptPc = "work" /\ ptQ # <<>> /\ f = Head(ptQ) /\ ptQ' = Tail(ptQ)
        /\ UNCHANGED <<ptEarly, ptCarry>>
     \/ /\ ptCarry # NoFrame /\ f = ptCarry /\ ptCarry' = NoFrame /\ UNCHANGED <<ptQ, ptEarly>>

LEMMA PtMoves ==
  ASSUME PtTypeInv, [PtNext]_ptVars
  PROVE  /\ HpFramesOK'
         /\ \/ HpStays /\ ~(HpSend /\ PtHci)
            \/ \E f \in HpFrames : PtGives(f) /\ (PtWork \/ PtFlushSend)
            \/ PtHci /\ HpThread /\ (HpStays \/ (HpSend /\ HpLoses(hpTask.q)))
<1>0. HpFramesOK /\ PtTaskOK
  BY PtTypeSplit, Zenon DEF PtTypeInv
<1>1. CASE PtHci
  <2>1. HpThread
    BY <1>1, Zenon DEF PtHci
  <2> QED
    BY <1>1, <2>1, HpMoves, Zenon
<1>2. CASE PtWork
  <2>1. UNCHANGED <<ptNew, ptCarry, hpSent, hpDropped, hpHand, hpTask>> /\ ptPc = "work"
    BY <1>2, Zenon DEF PtWork, HpRest
  <2>2. CASE ptQ # <<>> /\ Head(ptQ) \notin PtAmpdu
    <3>1. /\ HpEnqueue(Head(ptQ), FALSE, TRUE) /\ ptQ' = Tail(ptQ) /\ UNCHANGED ptEarly
      BY <1>2, <2>2, Zenon DEF PtWork
    <3>2. Head(ptQ) \in HpFrames
      BY <1>0, <2>2, PutBackHead DEF PtTaskOK
    <3>3. HpFramesOK' /\ HpGets(Head(ptQ))
      BY <1>0, <2>1, <3>1, <3>2, HpEnqueueMoves
    <3>4. PtGives(Head(ptQ))
      BY <2>1, <2>2, <3>1, <3>3, Zenon DEF PtGives
    <3> QED
      BY <1>2, <3>2, <3>3, <3>4, Zenon
  <2>3. CASE ~(ptQ # <<>> /\ Head(ptQ) \notin PtAmpdu)
    <3>1. UNCHANGED <<hpFresh, hpQ>>
      BY <1>2, <2>3, Zenon DEF PtWork
    <3>2. ~(HpSend /\ PtHci)
      <4>1. PtHci /\ HpSend => hpHand # NoFrame /\ hpHand' = NoFrame
        BY Zenon DEF HpSend
      <4> QED
        BY <2>1, <4>1
    <3> QED
      BY <1>0, <2>1, <3>1, <3>2, HpQueuesStay
  <2> QED
    BY <2>2, <2>3
<1>3. CASE PtFlushSend
  <2>1. /\ HpEnqueue(ptCarry, FALSE, FALSE) /\ ptCarry # NoFrame /\ ptCarry' = NoFrame
        /\ UNCHANGED <<ptNew, ptQ, ptEarly, hpSent, hpDropped, hpHand, hpTask>>
    BY <1>3, Zenon DEF PtFlushSend, HpRest
  <2>2. ptCarry \in HpFrames
    BY <1>0, <2>1, HpConstants, Zenon DEF PtTaskOK
  <2>3. HpFramesOK' /\ HpGets(ptCarry)
    BY <1>0, <2>1, <2>2, HpEnqueueMoves
  <2>4. PtGives(ptCarry)
    BY <2>1, <2>3, Zenon DEF PtGives
  <2> QED
    BY <1>3, <2>2, <2>3, <2>4, Zenon
<1>4. CASE \/ PtArrive \/ PtAck \/ PtWake \/ PtCheck \/ PtFlushTake \/ PtClear
           \/ PtFlow \/ PtControl \/ PtChip \/ UNCHANGED ptVars
  <2>1. UNCHANGED <<hpFresh, hpQ, hpSent, hpDropped, hpHand, hpTask>>
    BY <1>4, Zenon DEF PtArrive, PtAck, PtWake, PtCheck, PtFlushTake, PtClear, PtFlow, FcStep,
       PtControl, HpControl, PtChip, HpChipSends, HpRest, ptVars, hpVars, hpFrameVars
  <2>2. ~(HpSend /\ PtHci)
    <3>1. PtHci /\ HpSend => hpHand # NoFrame /\ hpHand' = NoFrame
      BY Zenon DEF HpSend
    <3> QED
      BY <2>1, <3>1
  <2> QED
    BY <1>0, <2>1, <2>2, HpQueuesStay
<1> QED
  BY <1>1, <1>2, <1>3, <1>4, Zenon DEF PtNext, PtTxTask

LEMMA PtTypeStep == PtTypeInv /\ [PtNext]_ptVars => PtTypeInv'
<1> SUFFICES ASSUME PtTypeInv, [PtNext]_ptVars PROVE PtTypeInv'
  OBVIOUS
<1>1. HpFramesOK' /\ HpTaskOK' /\ HpFlagsOK' /\ FcOK' /\ PtTaskOK' /\ HpHandInv'
  BY PtMoves, HpTaskStep, PtFlagsType, PtFcType, PtTaskType, Zenon
<1>2. PtTypeOK'
  BY <1>1, Zenon DEF PtTypeOK, HpTypeOK, HpFramesOK, HpTaskOK, HpFlagsOK, FcOK, FcCalls, PtTaskOK
<1> QED
  BY <1>1, <1>2 DEF PtTypeInv

\* PtTypeOK: every variable of the transmit side over USB keeps its type; the
\* counts of pages and frames that ssv6xxx_hci_force_xmit counts down never
\* pass zero, and err_cnt goes no further than one past its bound.
THEOREM PollTypeCorrect == PtSpec => []PtTypeOK
<1>1. PtTypeInv => PtTypeOK
  BY DEF PtTypeInv
<1> QED
  BY <1>1, PtTypeInit, PtTypeStep, PTL DEF PtSpec

\* The frames the TX task has are frames that were not enqueued, each once.
PtOnce ==
  /\ ptNew \subseteq hpFresh
  /\ \A j \in 1 .. Len(ptQ) : ptQ[j] \in hpFresh \ ptNew
  /\ \A j \in 1 .. Len(ptEarly) : ptEarly[j] \in hpFresh \ ptNew
  /\ \A j, k \in 1 .. Len(ptQ) : ptQ[j] = ptQ[k] => j = k
  /\ \A j, k \in 1 .. Len(ptEarly) : ptEarly[j] = ptEarly[k] => j = k
  /\ \A j \in 1 .. Len(ptQ) : \A k \in 1 .. Len(ptEarly) : ptQ[j] # ptEarly[k]
  /\ ptCarry # NoFrame =>
       /\ ptCarry \in hpFresh \ ptNew
       /\ \A j \in 1 .. Len(ptQ) : ptQ[j] # ptCarry
       /\ \A k \in 1 .. Len(ptEarly) : ptEarly[k] # ptCarry

LEMMA PtOnceStep ==
  ASSUME PtTypeInv, PtOnce, [PtNext]_ptVars
  PROVE  PtOnce'
<1>0. /\ PtTaskOK /\ ptQ \in Seq(HpFrames) /\ ptEarly \in Seq(PtAmpdu) /\ PtAmpdu \subseteq HpFrames
      /\ ptNew \subseteq HpFrames
  BY PtTypeSplit, HpConstants, Zenon DEF PtTypeInv, PtTaskOK
<1>n. NoFrame \notin HpFrames
  BY HpConstants
<1>1. CASE \E f \in HpFrames : PtGives(f)
  <2>1. PICK f \in HpFrames : PtGives(f)
    BY <1>1
  <2>2. hpFresh' = hpFresh \ {f} /\ UNCHANGED ptNew
    BY <2>1, Zenon DEF PtGives, HpGets
  <2>3. CASE ptQ # <<>> /\ f = Head(ptQ) /\ ptQ' = Tail(ptQ) /\ UNCHANGED <<ptEarly, ptCarry>>
    <3>1. /\ Len(ptQ) \in Nat \ {0} /\ f = ptQ[1] /\ 1 \in 1 .. Len(ptQ)
          /\ \A j \in 1 .. Len(ptQ') : ptQ'[j] = ptQ[j + 1] /\ j + 1 \in 1 .. Len(ptQ) /\ j + 1 # 1
      BY <1>0, <2>3, TailPlaces
    <3>2. f \notin ptNew
      BY <3>1 DEF PtOnce
    <3>3. \A j \in 1 .. Len(ptQ') : ptQ'[j] # f
      BY <3>1 DEF PtOnce
    <3>4. \A j, k \in 1 .. Len(ptQ') : ptQ'[j] = ptQ'[k] => j = k
      <4> SUFFICES ASSUME NEW j \in 1 .. Len(ptQ'), NEW k \in 1 .. Len(ptQ'), ptQ'[j] = ptQ'[k]
                   PROVE  j = k
        OBVIOUS
      <4>1. j + 1 = k + 1
        BY <3>1 DEF PtOnce
      <4> QED
        BY <4>1
    <3>5. \A k \in 1 .. Len(ptEarly) : ptEarly[k] # f
      BY <3>1 DEF PtOnce
    <3> QED
      BY <2>2, <2>3, <3>1, <3>2, <3>3, <3>4, <3>5 DEF PtOnce
  <2>4. CASE ptCarry # NoFrame /\ f = ptCarry /\ ptCarry' = NoFrame /\ UNCHANGED <<ptQ, ptEarly>>
    BY <2>2, <2>4 DEF PtOnce
  <2> QED
    BY <2>1, <2>3, <2>4, Zenon DEF PtGives
<1>2. CASE PtArrive
  <2>1. PICK f \in ptNew : ptQ' = Append(ptQ, f) /\ ptNew' = ptNew \ {f}
    BY <1>2, Zenon DEF PtArrive
  <2>2. UNCHANGED <<hpFresh, ptEarly, ptCarry>>
    BY <1>2, Zenon DEF PtArrive, hpVars, hpFrameVars, ptTask
  <2>3. f \in HpFrames /\ f \in hpFresh
    BY <1>0, <2>1, Zenon DEF PtOnce
  <2>4. /\ Len(ptQ) \in Nat /\ Len(ptQ') = Len(ptQ) + 1
        /\ \A j \in 1 .. Len(ptQ') : \/ j \in 1 .. Len(ptQ) /\ ptQ'[j] = ptQ[j]
                                     \/ j = Len(ptQ) + 1 /\ ptQ'[j] = f
    BY <1>0, <2>1, <2>3, AppendPlaces
  <2>5. /\ \A j \in 1 .. Len(ptQ) : ptQ[j] # f
        /\ \A j \in 1 .. Len(ptEarly) : ptEarly[j] # f
        /\ ptCarry # NoFrame => ptCarry # f
    BY <2>1 DEF PtOnce
  <2>6. \A j, k \in 1 .. Len(ptQ') : ptQ'[j] = ptQ'[k] => j = k
    <3> SUFFICES ASSUME NEW j \in 1 .. Len(ptQ'), NEW k \in 1 .. Len(ptQ'), ptQ'[j] = ptQ'[k]
                 PROVE  j = k
      OBVIOUS
    <3>1. \/ j \in 1 .. Len(ptQ) /\ ptQ'[j] = ptQ[j]
          \/ j = Len(ptQ) + 1 /\ ptQ'[j] = f
      BY <2>4
    <3>2. \/ k \in 1 .. Len(ptQ) /\ ptQ'[k] = ptQ[k]
          \/ k = Len(ptQ) + 1 /\ ptQ'[k] = f
      BY <2>4
    <3> QED
      BY <2>5, <3>1, <3>2, Zenon DEF PtOnce
  <2>o. /\ \A j \in 1 .. Len(ptQ) : ptQ[j] \in hpFresh \ ptNew
        /\ \A j \in 1 .. Len(ptQ) : \A k \in 1 .. Len(ptEarly) : ptQ[j] # ptEarly[k]
        /\ ptCarry # NoFrame => \A j \in 1 .. Len(ptQ) : ptQ[j] # ptCarry
    BY Zenon DEF PtOnce
  <2>7. \A j \in 1 .. Len(ptQ') : ptQ'[j] \in hpFresh \ (ptNew \ {f})
    BY <2>3, <2>4, <2>o
  <2>8. \A j \in 1 .. Len(ptQ') : \A k \in 1 .. Len(ptEarly) : ptQ'[j] # ptEarly[k]
    BY <2>4, <2>5, <2>o, Zenon
  <2>9. ptCarry # NoFrame => \A j \in 1 .. Len(ptQ') : ptQ'[j] # ptCarry
    BY <2>4, <2>5, <2>o
  <2>10. /\ ptNew \ {f} \subseteq hpFresh
         /\ \A j \in 1 .. Len(ptEarly) : ptEarly[j] \in hpFresh \ (ptNew \ {f})
         /\ \A j, k \in 1 .. Len(ptEarly) : ptEarly[j] = ptEarly[k] => j = k
         /\ ptCarry # NoFrame =>
              /\ ptCarry \in hpFresh \ (ptNew \ {f})
              /\ \A k \in 1 .. Len(ptEarly) : ptEarly[k] # ptCarry
    BY DEF PtOnce
  <2> QED
    BY ZenonT(30), <2>1, <2>2, <2>6, <2>7, <2>8, <2>9, <2>10 DEF PtOnce
<1>3. CASE PtWork /\ HpStays
  <2>1. UNCHANGED <<hpFresh, ptNew, ptCarry>>
    BY <1>3, Zenon DEF PtWork, HpStays
  <2>2. CASE ptQ # <<>> /\ Head(ptQ) \in PtAmpdu
    <3>1. ptQ' = Tail(ptQ) /\ ptEarly' = Append(ptEarly, Head(ptQ))
      BY <1>3, <2>2, Zenon DEF PtWork
    <3>2. /\ Len(ptQ) \in Nat \ {0} /\ Head(ptQ) = ptQ[1] /\ 1 \in 1 .. Len(ptQ)
          /\ \A j \in 1 .. Len(ptQ') : ptQ'[j] = ptQ[j + 1] /\ j + 1 \in 1 .. Len(ptQ) /\ j + 1 # 1
      BY <1>0, <2>2, <3>1, TailPlaces
    <3> DEFINE f == Head(ptQ)
    <3>3. /\ Len(ptEarly) \in Nat
          /\ \A j \in 1 .. Len(ptEarly') : \/ j \in 1 .. Len(ptEarly) /\ ptEarly'[j] = ptEarly[j]
                                           \/ j = Len(ptEarly) + 1 /\ ptEarly'[j] = f
      BY <1>0, <2>2, <3>1, AppendPlaces
    <3>4. /\ f \in hpFresh \ ptNew /\ \A j \in 1 .. Len(ptQ') : ptQ'[j] # f
          /\ \A k \in 1 .. Len(ptEarly) : ptEarly[k] # f
          /\ ptCarry # NoFrame => ptCarry # f
      BY <3>2 DEF PtOnce
    <3>5. \A j, k \in 1 .. Len(ptQ') : ptQ'[j] = ptQ'[k] => j = k
      <4> SUFFICES ASSUME NEW j \in 1 .. Len(ptQ'), NEW k \in 1 .. Len(ptQ'), ptQ'[j] = ptQ'[k]
                   PROVE  j = k
        OBVIOUS
      <4>1. j + 1 = k + 1
        BY <3>2 DEF PtOnce
      <4> QED
        BY <4>1
    <3> HIDE DEF f
    <3>6. \A j, k \in 1 .. Len(ptEarly') : ptEarly'[j] = ptEarly'[k] => j = k
      <4> SUFFICES ASSUME NEW j \in 1 .. Len(ptEarly'), NEW k \in 1 .. Len(ptEarly'),
                          ptEarly'[j] = ptEarly'[k]
                   PROVE  j = k
        OBVIOUS
      <4>1. \/ j \in 1 .. Len(ptEarly) /\ ptEarly'[j] = ptEarly[j]
            \/ j = Len(ptEarly) + 1 /\ ptEarly'[j] = f
        BY <3>3
      <4>2. \/ k \in 1 .. Len(ptEarly) /\ ptEarly'[k] = ptEarly[k]
            \/ k = Len(ptEarly) + 1 /\ ptEarly'[k] = f
        BY <3>3
      <4> QED
        BY <3>4, <4>1, <4>2, Zenon DEF PtOnce
    <3>o. /\ \A j \in 1 .. Len(ptQ) : ptQ[j] \in hpFresh \ ptNew
          /\ \A j \in 1 .. Len(ptEarly) : ptEarly[j] \in hpFresh \ ptNew
          /\ \A j \in 1 .. Len(ptQ) : \A k \in 1 .. Len(ptEarly) : ptQ[j] # ptEarly[k]
          /\ ptCarry # NoFrame => /\ ptCarry \in hpFresh \ ptNew
                                  /\ \A j \in 1 .. Len(ptQ) : ptQ[j] # ptCarry
                                  /\ \A k \in 1 .. Len(ptEarly) : ptEarly[k] # ptCarry
      BY Zenon DEF PtOnce
    <3>7. \A j \in 1 .. Len(ptQ') : ptQ'[j] \in hpFresh \ ptNew
      BY <3>2, <3>o
    <3>8. \A j \in 1 .. Len(ptEarly') : ptEarly'[j] \in hpFresh \ ptNew
      BY <3>3, <3>4, <3>o, Zenon
    <3>9. \A j \in 1 .. Len(ptQ') : \A k \in 1 .. Len(ptEarly') : ptQ'[j] # ptEarly'[k]
      BY <3>2, <3>3, <3>4, <3>o
    <3>10. ptCarry # NoFrame => /\ ptCarry \in hpFresh \ ptNew
                                /\ \A j \in 1 .. Len(ptQ') : ptQ'[j] # ptCarry
                                /\ \A k \in 1 .. Len(ptEarly') : ptEarly'[k] # ptCarry
      <4>1. ptCarry # NoFrame => \A j \in 1 .. Len(ptQ') : ptQ'[j] # ptCarry
        BY <3>2, <3>o
      <4>2. ptCarry # NoFrame => \A k \in 1 .. Len(ptEarly') : ptEarly'[k] # ptCarry
        BY <3>3, <3>4, <3>o, Zenon
      <4> QED
        BY <3>o, <4>1, <4>2, Zenon
    <3>11. ptNew \subseteq hpFresh
      BY Zenon DEF PtOnce
    <3> QED
      BY <2>1, <3>5, <3>6, <3>7, <3>8, <3>9, <3>10, <3>11, Zenon DEF PtOnce
  <2>3. CASE ptQ = <<>>
    <3>1. UNCHANGED <<ptQ, ptEarly>>
      BY <1>3, <2>3, Zenon DEF PtWork
    <3> QED
      BY <2>1, <3>1, Zenon DEF PtOnce
  <2>4. CASE ptQ # <<>> /\ Head(ptQ) \notin PtAmpdu
    \* Then a frame is enqueued.
    <3>1. ptQ' = Tail(ptQ) /\ UNCHANGED ptEarly
      BY <1>3, <2>4, Zenon DEF PtWork
    <3>2. /\ \A j \in 1 .. Len(ptQ') : ptQ'[j] = ptQ[j + 1] /\ j + 1 \in 1 .. Len(ptQ) /\ j + 1 # 1
      BY <1>0, <2>4, <3>1, TailPlaces
    <3>3. \A j, k \in 1 .. Len(ptQ') : ptQ'[j] = ptQ'[k] => j = k
      <4> SUFFICES ASSUME NEW j \in 1 .. Len(ptQ'), NEW k \in 1 .. Len(ptQ'), ptQ'[j] = ptQ'[k]
                   PROVE  j = k
        OBVIOUS
      <4>1. j + 1 = k + 1
        BY <3>2 DEF PtOnce
      <4> QED
        BY <4>1
    <3> QED
      BY <2>1, <3>1, <3>2, <3>3 DEF PtOnce
  <2> QED
    BY <2>2, <2>3, <2>4
<1>4. CASE PtFlushTake
  <2>1. UNCHANGED <<hpFresh, ptNew, ptQ>>
    BY <1>4, Zenon DEF PtFlushTake
  <2>2. CASE ptEarly # <<>> /\ ptCarry' = Head(ptEarly) /\ ptEarly' = Tail(ptEarly)
    <3>1. /\ Len(ptEarly) \in Nat \ {0} /\ ptCarry' = ptEarly[1] /\ 1 \in 1 .. Len(ptEarly)
          /\ \A j \in 1 .. Len(ptEarly') :
               ptEarly'[j] = ptEarly[j + 1] /\ j + 1 \in 1 .. Len(ptEarly) /\ j + 1 # 1
      BY <1>0, <2>2, TailPlaces
    <3>2. \A j, k \in 1 .. Len(ptEarly') : ptEarly'[j] = ptEarly'[k] => j = k
      <4> SUFFICES ASSUME NEW j \in 1 .. Len(ptEarly'), NEW k \in 1 .. Len(ptEarly'),
                          ptEarly'[j] = ptEarly'[k]
                   PROVE  j = k
        OBVIOUS
      <4>1. j + 1 = k + 1
        BY <3>1 DEF PtOnce
      <4> QED
        BY <4>1
    <3>3. /\ ptCarry' \in hpFresh \ ptNew
          /\ \A j \in 1 .. Len(ptQ) : ptQ[j] # ptCarry'
          /\ \A k \in 1 .. Len(ptEarly') : ptEarly'[k] # ptCarry'
      BY <3>1 DEF PtOnce
    <3> QED
      BY <2>1, <3>1, <3>2, <3>3 DEF PtOnce
  <2>3. CASE UNCHANGED <<ptCarry, ptEarly>>
    BY <2>1, <2>3, Zenon DEF PtOnce
  <2> QED
    BY <1>4, <2>2, <2>3, Zenon DEF PtFlushTake
<1>5. CASE PtHci /\ (HpStays \/ HpLoses(hpTask.q))
  <2>1. UNCHANGED <<hpFresh, ptNew, ptQ, ptEarly, ptCarry>>
    BY <1>5, Zenon DEF PtHci, HpStays, HpLoses, ptTask
  <2> QED
    BY <2>1, Zenon DEF PtOnce
<1>6. CASE \/ PtAck \/ PtWake \/ PtCheck \/ PtClear \/ PtFlow \/ PtControl \/ PtChip
           \/ UNCHANGED ptVars
  <2>1. UNCHANGED <<hpFresh, ptNew, ptQ, ptEarly, ptCarry>>
    BY <1>6, Zenon DEF PtAck, PtWake, PtCheck, PtClear, PtFlow, FcStep,
       PtControl, HpControl, PtChip, HpChipSends, ptVars, hpVars, hpFrameVars, ptTask
  <2> QED
    BY <2>1, Zenon DEF PtOnce
<1>7. CASE PtFlushSend /\ HpStays
  <2>1. UNCHANGED <<hpFresh, ptNew, ptQ, ptEarly>> /\ ptCarry' = NoFrame
    BY <1>7, Zenon DEF PtFlushSend, HpStays
  <2> QED
    BY <2>1 DEF PtOnce
<1> QED
  BY <1>1, <1>2, <1>3, <1>4, <1>5, <1>6, <1>7, PtMoves, Zenon DEF PtNext, PtTxTask

LEMMA PtOnceInit == PtInit => PtOnce
<1> SUFFICES ASSUME PtInit PROVE PtOnce
  OBVIOUS
<1>1. /\ hpFresh = HpFrames /\ ptNew = HpFrames /\ ptQ = <<>> /\ ptEarly = <<>>
      /\ ptCarry = NoFrame
  BY Zenon DEF PtInit, HpInit
<1>2. 1 .. Len(ptQ) = {} /\ 1 .. Len(ptEarly) = {}
  BY <1>1
<1> QED
  BY <1>1, <1>2 DEF PtOnce

\* HpImplementsTxQueues: over USB too every queue keeps each frame exactly
\* once and in order, whatever the failures, put-backs, pauses and flushes of
\* ssv6xxx_hci_tx_task: each step of the program is the enqueue of a frame at
\* the tail, the transfer of a queue's first frame, or moves no frame at all.
THEOREM PollRefines == PtSpec => HpImplementsTxQueues
<1>1. PtInit => HpAbstract!QInit
  <2> SUFFICES ASSUME PtInit PROVE HpAbstract!QInit
    OBVIOUS
  <2>1. /\ hpFresh = HpFrames /\ hpQ = [i \in HpQs |-> <<>>] /\ hpHand = NoFrame
        /\ hpSent = [i \in HpQs |-> <<>>]
    BY Zenon DEF PtInit, HpInit
  <2>2. HpWaiting = [i \in HpQs |-> <<>>]
    BY <2>1 DEF HpWaiting
  <2> QED
    BY <2>1, <2>2, Zenon DEF HpAbstract!QInit
<1>2. PtTypeInv /\ PtOnce /\ [PtNext]_ptVars => [HpAbstract!QNext]_(HpAbstract!qvars)
  <2> SUFFICES ASSUME PtTypeInv, PtOnce, [PtNext]_ptVars
               PROVE  [HpAbstract!QNext]_(HpAbstract!qvars)
    OBVIOUS
  <2>0. HpFramesOK /\ HpTaskOK /\ PtTaskOK
    BY PtTypeSplit, Zenon DEF PtTypeInv
  <2>w. HpWaiting \in [HpQs -> Seq(HpFrames)]
    BY <2>0, HpWaitingType
  <2>1. CASE HpStays
    BY <2>1, Zenon DEF HpStays, HpAbstract!qvars
  <2>2. ASSUME NEW f \in HpFrames, PtGives(f)
        PROVE  HpAbstract!QNext
    <3>1. /\ HpWaiting' = [HpWaiting EXCEPT ![HpQueueOf[f]] = Append(@, f)]
          /\ hpFresh' = hpFresh \ {f} /\ UNCHANGED hpSent
      BY <2>2, Zenon DEF PtGives, HpGets
    <3>2. f \in hpFresh
      <4>1. CASE ptQ # <<>> /\ f = Head(ptQ)
        <5>1. Len(ptQ) \in Nat \ {0} /\ f = ptQ[1]
          BY <2>0, <4>1, TailPlaces DEF PtTaskOK
        <5>2. 1 \in 1 .. Len(ptQ)
          BY <5>1
        <5> QED
          BY <5>1, <5>2, Zenon DEF PtOnce
      <4>2. CASE ptCarry # NoFrame /\ f = ptCarry
        BY <4>2, Zenon DEF PtOnce
      <4> QED
        BY <2>2, <4>1, <4>2, Zenon DEF PtGives
    <3>3. HpWaiting[HpQueueOf[f]] \in Seq(HpFrames)
      BY <2>w, HpConstants
    <3> DEFINE w == HpWaiting[HpQueueOf[f]]
    <3>4. Len(w) \in Nat /\ Len(w) <= Len(w)
      BY <3>3
    <3>5. HpAbstract!InsertAt(w, Len(w), f) = Append(w, f)
      BY <3>3, InsertLast DEF HpAbstract!InsertAt
    <3>6. HpWaiting' = [HpWaiting EXCEPT ![HpQueueOf[f]] =
                          HpAbstract!InsertAt(@, Len(HpWaiting[HpQueueOf[f]]), f)]
      BY <3>1, <3>5, Zenon
    <3>7. HpAbstract!Put(f, Len(HpWaiting[HpQueueOf[f]]))
      BY <3>1, <3>2, <3>4, <3>6, Zenon DEF HpAbstract!Put
    <3> QED
      BY <3>7, Zenon DEF HpAbstract!QNext
  <2>3. ASSUME HpLoses(hpTask.q)
        PROVE  HpAbstract!QNext
    <3>1. hpTask.q \in HpQs
      BY <2>0 DEF HpTaskOK
    <3>2. HpAbstract!Send(hpTask.q)
      BY <2>3, Zenon DEF HpLoses, HpAbstract!Send
    <3> QED
      BY <3>1, <3>2, Zenon DEF HpAbstract!QNext
  <2> QED
    BY <2>1, <2>2, <2>3, PtMoves, Zenon
<1>3. PtInit => PtTypeInv /\ PtOnce
  BY PtTypeInit, PtOnceInit
<1>4. PtTypeInv /\ PtOnce /\ [PtNext]_ptVars => PtTypeInv' /\ PtOnce'
  BY PtTypeStep, PtOnceStep
<1> QED
  BY <1>1, <1>2, <1>3, <1>4, PTL DEF PtSpec, HpImplementsTxQueues, HpAbstract!QSpec

(* Flow control.  While no two calls of ssv6200_tx_flow_control overlap, one *)
(* context at most is inside it; what it has told mac80211 is ahead of       *)
(* flow_ctrl_status by the bit it is about to store; and a queue that is     *)
(* stopped has its backlog, or the call that is to wake it has begun.        *)

FcOne == \A c, d \in FcContexts : c # d => FcIdle(c) \/ FcIdle(d)
FcAgrees ==
  /\ (\A c \in FcContexts : fc[c].at \in {"none", "test"}) => fcStopped = fcBits
  /\ \A c \in FcContexts :
       fc[c].at \in {"load", "store"} =>
         fcStopped = IF fc[c].stop THEN fcBits \cup {fc[c].ac} ELSE fcBits \ {fc[c].ac}
  /\ \A c \in FcContexts : fc[c].at = "store" => fc[c].val = fcBits
FcPending(i) == \E c \in FcContexts : fc[c].at = "test" /\ ~fc[c].stop /\ fc[c].ac = i
FcWoken == \A i \in fcStopped : PtBacklog(i) \/ FcPending(i)
FcInv == ~fcClash => FcOne /\ FcAgrees /\ FcWoken

\* A call begins, or the queue's length gives no reason for one; the backlog
\* may fall below its bound only for a queue that the call is to wake.
LEMMA FcCallKept ==
  ASSUME FcOK, FcInv, NEW c \in FcContexts, NEW i \in HpQs, NEW stop \in BOOLEAN,
         NEW condition, FcCall(c, i, stop, condition), FcIdle(c),
         UNCHANGED <<fcBits, fcStopped>>,
         \A j \in ACs : PtBacklog(j) => PtBacklog(j)' \/ (j = i /\ ~stop /\ condition)
  PROVE  FcInv'
<1> SUFFICES ASSUME ~fcClash' PROVE FcOne' /\ FcAgrees' /\ FcWoken'
  BY DEF FcInv
<1>0. fcStopped \subseteq ACs /\ fc \in [FcContexts -> FcCalls]
  BY Zenon DEF FcOK
<1>1. CASE condition /\ FcControlled(i)
  <2>1. /\ fc' = [fc EXCEPT ![c] = [at |-> "test", ac |-> i, stop |-> stop, val |-> {}]]
        /\ fcClash' = (fcClash \/ \E d \in FcContexts \ {c} : ~FcIdle(d))
    BY <1>1, Zenon DEF FcCall
  <2>2. ~fcClash /\ \A d \in FcContexts \ {c} : fc[d].at = "none"
    BY <2>1, Zenon DEF FcIdle
  <2>3. /\ fc'[c].at = "test" /\ fc'[c].stop = stop /\ fc'[c].ac = i
        /\ \A d \in FcContexts \ {c} : fc'[d] = fc[d]
    BY <1>0, <2>1
  <2>4. \A d \in FcContexts : fc[d].at = "none"
    BY <2>2, Zenon DEF FcIdle
  <2>5. fcStopped = fcBits /\ \A j \in fcStopped : PtBacklog(j)
    BY <2>2, <2>4 DEF FcInv, FcAgrees, FcWoken, FcPending
  <2>6. FcOne'
    BY <2>2, <2>3 DEF FcOne, FcIdle
  <2>7. \A d \in FcContexts : fc'[d].at \in {"none", "test"}
    BY <2>2, <2>3, Zenon
  <2>8. FcAgrees'
    BY <2>5, <2>7 DEF FcAgrees
  <2>9. ASSUME NEW j \in fcStopped' PROVE PtBacklog(j)' \/ FcPending(j)'
    <3>1. j \in ACs /\ PtBacklog(j)
      BY <1>0, <2>5, <2>9
    <3>2. CASE j = i /\ ~stop
      BY <2>3, <3>2 DEF FcPending
    <3> QED
      BY <3>1, <3>2, Zenon
  <2> QED
    BY <2>6, <2>8, <2>9, Zenon DEF FcWoken
<1>2. CASE ~(condition /\ FcControlled(i))
  <2>1. UNCHANGED <<fc, fcClash>>
    BY <1>2, Zenon DEF FcCall
  <2>2. FcOne /\ FcAgrees /\ FcWoken
    BY <2>1, Zenon DEF FcInv
  <2>3. FcOne' /\ FcAgrees'
    BY <2>1, <2>2 DEF FcOne, FcAgrees, FcIdle
  <2>4. ASSUME NEW j \in fcStopped' PROVE PtBacklog(j)' \/ FcPending(j)'
    <3>1. j \in ACs /\ (PtBacklog(j) \/ FcPending(j))
      BY <1>0, <2>2, <2>4 DEF FcWoken
    <3>2. CASE FcPending(j)
      BY <2>1, <3>2 DEF FcPending
    <3>3. CASE PtBacklog(j)
      BY <1>2, <3>1, <3>3, Zenon DEF FcControlled
    <3> QED
      BY <3>1, <3>2, <3>3, Zenon
  <2> QED
    BY <2>3, <2>4, Zenon DEF FcWoken
<1> QED
  BY <1>1, <1>2, Zenon

LEMMA FcKept ==
  ASSUME FcOK, FcInv, UNCHANGED <<fcBits, fcStopped, fc, fcClash>>,
         \A j \in ACs : PtBacklog(j) => PtBacklog(j)'
  PROVE  FcInv'
<1> SUFFICES ASSUME ~fcClash' PROVE FcOne' /\ FcAgrees' /\ FcWoken'
  BY DEF FcInv
<1>1. FcOne /\ FcAgrees /\ FcWoken /\ fcStopped \subseteq ACs
  BY Zenon DEF FcInv, FcOK
<1>2. FcOne' /\ FcAgrees'
  BY <1>1 DEF FcOne, FcAgrees, FcIdle
<1>3. ASSUME NEW j \in fcStopped' PROVE PtBacklog(j)' \/ FcPending(j)'
  <2>1. j \in ACs /\ (PtBacklog(j) \/ FcPending(j))
    BY <1>1, <1>3 DEF FcWoken
  <2>2. CASE FcPending(j)
    BY <2>2 DEF FcPending
  <2> QED
    BY <2>1, <2>2, Zenon
<1> QED
  BY <1>2, <1>3, Zenon DEF FcWoken

\* The steps of a call: the test, the load and the store of flow_ctrl_status.
LEMMA FcStepKept ==
  ASSUME FcOK, FcInv, NEW c \in FcContexts,
         FcTest(c, PtBacklog(fc[c].ac)) \/ FcLoad(c) \/ FcStore(c),
         \A j \in ACs : PtBacklog(j) => PtBacklog(j)'
  PROVE  FcInv'
<1> SUFFICES ASSUME ~fcClash' PROVE FcOne' /\ FcAgrees' /\ FcWoken'
  BY DEF FcInv
<1> DEFINE a == fc[c].ac
           stop == fc[c].stop
<1>0. /\ fcStopped \subseteq ACs /\ fcBits \subseteq ACs /\ fc \in [FcContexts -> FcCalls]
      /\ a \in ACs /\ stop \in BOOLEAN
  BY DEF FcOK, FcCalls
<1>1. ~fcClash
  BY Zenon DEF FcTest, FcLoad, FcStore
<1>2. fc[c].at \in {"test", "load", "store"}
  BY Zenon DEF FcTest, FcLoad, FcStore
<1>3. FcOne /\ FcAgrees /\ FcWoken
  BY <1>1, Zenon DEF FcInv
<1>4. \A d \in FcContexts \ {c} : fc[d].at = "none" /\ fc'[d] = fc[d]
  <2>1. \A d \in FcContexts \ {c} : fc'[d] = fc[d]
    BY FcStepType
  <2>2. \A d \in FcContexts \ {c} : fc[d].at = "none"
    BY <1>2, <1>3 DEF FcOne, FcIdle
  <2> QED
    BY <2>1, <2>2
<1>5. FcOne'
  BY <1>4 DEF FcOne, FcIdle
<1>6. ASSUME NEW j \in fcStopped, fc[c].at # "test" \/ stop \/ a # j
      PROVE  PtBacklog(j)'
  <2>1. ~FcPending(j)
    BY <1>4, <1>6 DEF FcPending
  <2> QED
    BY <1>0, <1>3, <2>1, Zenon DEF FcWoken
<1>7. CASE FcTest(c, PtBacklog(fc[c].ac))
  <2> DEFINE act == (a \in fcBits) # stop
  <2>1. /\ fc' = [fc EXCEPT ![c] = IF act THEN [@ EXCEPT !.at = "load"] ELSE NoCall]
        /\ fcStopped' = IF ~act THEN fcStopped
                        ELSE IF stop THEN fcStopped \cup {a} ELSE fcStopped \ {a}
        /\ fcClash' = (fcClash \/ (act /\ stop /\ ~PtBacklog(a)))
        /\ UNCHANGED fcBits
    BY <1>7, Zenon DEF FcTest
  <2>2. fc[c].at = "test"
    BY <1>7, Zenon DEF FcTest
  <2>3. fcStopped = fcBits
    BY <1>3, <1>4, <2>2, Zenon DEF FcAgrees
  <2> HIDE DEF act, a, stop
  <2>4. CASE act
    <3>1. fc'[c].at = "load" /\ fc'[c].ac = a /\ fc'[c].stop = stop
      BY <1>0, <2>1, <2>4 DEF FcCalls, a, stop
    <3>2. FcAgrees'
      BY <1>4, <2>1, <2>3, <2>4, <3>1 DEF FcAgrees
    <3>3. ASSUME NEW j \in fcStopped' PROVE PtBacklog(j)'
      <4>1. CASE j = a
        <5>1. stop
          BY <2>1, <2>4, <3>3, <4>1
        <5> QED
          BY <1>0, <2>1, <2>4, <4>1, <5>1, Zenon
      <4>2. CASE j # a
        <5>1. j \in fcStopped
          BY <2>1, <3>3, <4>2
        <5> QED
          BY <1>6, <4>2, <5>1, Zenon
      <4> QED
        BY <4>1, <4>2
    <3> QED
      BY <1>5, <3>2, <3>3, Zenon DEF FcWoken
  <2>5. CASE ~act
    <3>1. fc'[c].at = "none" /\ fcStopped' = fcStopped
      BY <1>0, <2>1, <2>5 DEF NoCall
    <3>2. FcAgrees'
      BY <1>4, <2>1, <2>3, <3>1 DEF FcAgrees
    <3>3. ASSUME NEW j \in fcStopped' PROVE PtBacklog(j)'
      <4>1. j \in fcStopped /\ (stop \/ a # j)
        BY <1>0, <2>3, <2>5, <3>1, <3>3 DEF act
      <4> QED
        BY <1>6, <4>1, Zenon
    <3> QED
      BY <1>5, <3>2, <3>3, Zenon DEF FcWoken
  <2> QED
    BY <2>4, <2>5
<1>8. CASE FcLoad(c)
  <2>1. /\ fc[c].at = "load"
        /\ fc' = [fc EXCEPT ![c].at = "store", ![c].val = fcBits]
        /\ UNCHANGED <<fcBits, fcStopped, fcClash>>
    BY <1>8, Zenon DEF FcLoad
  <2>2. fc'[c].at = "store" /\ fc'[c].ac = a /\ fc'[c].stop = stop /\ fc'[c].val = fcBits
    BY <1>0, <2>1 DEF FcCalls
  <2>3. FcAgrees'
    <3>1. \A d \in FcContexts : d # c => fc'[d].at \notin {"load", "store"}
      BY <1>3, <1>4, <2>1
    <3>2. fcStopped = IF stop THEN fcBits \cup {a} ELSE fcBits \ {a}
      BY <1>3, <1>4, <2>1 DEF FcAgrees
    <3> QED
      BY <1>0, <2>1, <2>2, <3>1, <3>2 DEF FcAgrees
  <2>4. \A j \in fcStopped' : PtBacklog(j)'
    BY <1>6, <2>1, Zenon
  <2> QED
    BY <1>5, <2>3, <2>4, Zenon DEF FcWoken
<1>9. CASE FcStore(c)
  <2>1. /\ fc[c].at = "store"
        /\ fcBits' = IF fc[c].stop THEN fc[c].val \cup {fc[c].ac} ELSE fc[c].val \ {fc[c].ac}
        /\ fc' = [fc EXCEPT ![c] = NoCall]
        /\ UNCHANGED <<fcStopped, fcClash>>
    BY <1>9, Zenon DEF FcStore
  <2>2. fc[c].val = fcBits /\ fcStopped = IF stop THEN fcBits \cup {a} ELSE fcBits \ {a}
    BY <1>3, <2>1, Zenon DEF FcAgrees
  <2>3. fcStopped' = fcBits'
    BY <2>1, <2>2, Zenon
  <2>4. fc'[c].at = "none"
    BY <1>0, <2>1 DEF NoCall
  <2>5. FcAgrees'
    BY <1>4, <2>3, <2>4 DEF FcAgrees
  <2>6. \A j \in fcStopped' : PtBacklog(j)'
    BY <1>6, <2>1, Zenon
  <2> QED
    BY <1>5, <2>5, <2>6, Zenon DEF FcWoken
<1> QED
  BY <1>7, <1>8, <1>9, Zenon

LEMMA HpWaitingTypeNext ==
  ASSUME HpFramesOK'
  PROVE  HpWaiting' \in [HpQs -> Seq(HpFrames)]
<1>1. ASSUME NEW i \in HpQs
      PROVE  (IF hpHand' # NoFrame /\ hpTask'.q = i THEN <<hpHand'>> \o hpQ'[i] ELSE hpQ'[i])
               \in Seq(HpFrames)
  <2>1. hpQ'[i] \in Seq(HpFrames)
    BY DEF HpFramesOK
  <2>2. CASE hpHand' # NoFrame
    <3>1. hpHand' \in HpFrames
      BY <2>2 DEF HpFramesOK
    <3> QED
      BY <2>1, <3>1, ConsProperties
  <2> QED
    BY <2>1, <2>2
<1> QED
  BY <1>1 DEF HpWaiting

\* A backlog stays one as long as neither of its queues gets shorter.
LEMMA BacklogGrows ==
  ASSUME PtTypeInv, [PtNext]_ptVars, NEW j \in ACs, PtBacklog(j),
         Len(HpWaiting'[j]) >= Len(HpWaiting[j]), Len(ptEarly') >= Len(ptEarly)
  PROVE  PtBacklog(j)'
<1>1. /\ Len(HpWaiting[j]) \in Nat /\ Len(HpWaiting'[j]) \in Nat
      /\ Len(ptEarly) \in Nat /\ Len(ptEarly') \in Nat
  <2>1. HpFramesOK /\ HpFramesOK' /\ PtTaskOK /\ PtTaskOK' /\ j \in HpQs
    BY PtMoves, PtTaskType, PtTypeSplit, HpConstants DEF PtTypeInv
  <2>2. HpWaiting \in [HpQs -> Seq(HpFrames)] /\ HpWaiting' \in [HpQs -> Seq(HpFrames)]
    BY <2>1, HpWaitingType, HpWaitingTypeNext
  <2>3. ptEarly \in Seq(PtAmpdu) /\ ptEarly' \in Seq(PtAmpdu)
    BY <2>1 DEF PtTaskOK
  <2>4. HpWaiting[j] \in Seq(HpFrames) /\ HpWaiting'[j] \in Seq(HpFrames)
    BY <2>1, <2>2
  <2> QED
    BY <2>3, <2>4, LenProperties
<1>2. HpResume \in Int /\ PtLower \in Int
  BY HpAssumption, PtAssumption
<1> DEFINE carries == \E f \in PtAmpdu : HpQueueOf[f] = j
<1>3. \/ Len(HpWaiting[j]) >= HpResume
      \/ carries /\ Len(ptEarly) > PtLower
  BY <1>1, <1>2, PtAssumption DEF PtBacklog, PtEarlyOf
<1> HIDE DEF carries
<1>4. \/ Len(HpWaiting'[j]) >= HpResume
      \/ carries /\ Len(ptEarly') > PtLower
  BY <1>1, <1>2, <1>3
<1> USE DEF carries
<1> QED
  BY <1>4 DEF PtBacklog, PtEarlyOf

LEMMA FcInvStep ==
  ASSUME PtTypeInv, FcInv, [PtNext]_ptVars
  PROVE  FcInv'
<1>0. FcOK /\ PtTaskOK /\ HpTaskOK /\ HpFramesOK /\ HpHandInv
  BY PtTypeSplit, Zenon DEF PtTypeInv
<1>q. \A f \in HpFrames : HpQueueOf[f] \in HpQs
  BY HpConstants
<1>t. "tx" \in FcContexts /\ "hci" \in FcContexts /\ ACs \subseteq HpQs
  BY HpConstants DEF FcContexts
<1>w. HpWaiting \in [HpQs -> Seq(HpFrames)] /\ ptEarly \in Seq(PtAmpdu) /\ PtAmpdu \subseteq HpFrames
  BY <1>0, HpWaitingType, HpConstants DEF PtTaskOK
<1>e. Len(ptEarly) \in Nat /\ \A j \in ACs : Len(HpWaiting[j]) \in Nat
  <2>1. \A j \in ACs : HpWaiting[j] \in Seq(HpFrames)
    BY <1>t, <1>w
  <2> QED
    BY <1>w, <2>1, LenProperties
\* The frame that is enqueued makes its queue longer.
<1>g. ASSUME NEW f \in HpFrames, HpGets(f), UNCHANGED ptEarly, NEW j \in ACs, PtBacklog(j)
      PROVE  PtBacklog(j)'
  <2>1. HpWaiting' = [HpWaiting EXCEPT ![HpQueueOf[f]] = Append(@, f)]
    BY <1>g, Zenon DEF HpGets
  <2>2. HpWaiting[j] \in Seq(HpFrames)
    BY <1>t, <1>w
  <2>3. Len(Append(HpWaiting[j], f)) = Len(HpWaiting[j]) + 1
    BY <2>2, AppendProperties
  <2>4. HpWaiting'[j] = Append(HpWaiting[j], f) \/ HpWaiting'[j] = HpWaiting[j]
    BY <1>t, <1>w, <2>1
  <2>5. Len(HpWaiting'[j]) >= Len(HpWaiting[j]) /\ Len(ptEarly') >= Len(ptEarly)
    BY <1>e, <1>g, <2>3, <2>4
  <2> QED
    BY <1>g, <2>5, BacklogGrows
<1>s. ASSUME HpWaiting' = HpWaiting, UNCHANGED ptEarly, NEW j \in ACs, PtBacklog(j)
      PROVE  PtBacklog(j)'
  <2>1. Len(HpWaiting'[j]) >= Len(HpWaiting[j]) /\ Len(ptEarly') >= Len(ptEarly)
    BY <1>e, <1>s
  <2> QED
    BY <1>s, <2>1, BacklogGrows
<1>1. CASE PtWork
  <2>1. UNCHANGED <<fcBits, fcStopped, hpSent, hpDropped, hpHand, hpTask>> /\ FcIdle("tx")
    BY <1>1, Zenon DEF PtWork, HpRest
  <2>2. CASE ptQ = <<>>
    <3>1. UNCHANGED <<hpQ, hpFresh, fc, fcClash, ptEarly>>
      BY <1>1, <2>2, Zenon DEF PtWork
    <3>2. HpWaiting' = HpWaiting
      BY <1>0, <2>1, <3>1, HpQueuesStay, Zenon DEF HpStays
    <3> QED
      BY <1>0, <1>s, <2>1, <3>1, <3>2, FcKept, Zenon
  <2>3. CASE ptQ # <<>> /\ Head(ptQ) \in PtAmpdu
    <3>1. /\ ptEarly' = Append(ptEarly, Head(ptQ)) /\ UNCHANGED <<hpQ, hpFresh>>
          /\ FcCall("tx", HpQueueOf[Head(ptQ)], TRUE, Len(ptEarly) + 1 >= PtUpper)
      BY <1>1, <2>3, Zenon DEF PtWork
    <3>2. HpWaiting' = HpWaiting
      BY <1>0, <2>1, <3>1, HpQueuesStay, Zenon DEF HpStays
    <3>3. Len(ptEarly') = Len(ptEarly) + 1
      BY <1>w, <2>3, <3>1, AppendProperties
    <3>4. ASSUME NEW j \in ACs, PtBacklog(j) PROVE PtBacklog(j)'
      <4>1. Len(HpWaiting'[j]) >= Len(HpWaiting[j]) /\ Len(ptEarly') >= Len(ptEarly)
        BY <1>e, <3>2, <3>3
      <4> QED
        BY <3>4, <4>1, BacklogGrows
    <3>5. HpQueueOf[Head(ptQ)] \in HpQs
      BY <1>q, <1>w, <2>3
    <3> QED
      BY <1>0, <1>t, <2>1, <3>1, <3>4, <3>5, FcCallKept, Zenon
  <2>4. CASE ptQ # <<>> /\ Head(ptQ) \notin PtAmpdu
    <3>1. HpEnqueue(Head(ptQ), FALSE, TRUE) /\ UNCHANGED ptEarly
      BY <1>1, <2>4, Zenon DEF PtWork
    <3>2. Head(ptQ) \in HpFrames
      BY <1>0, <2>4, PutBackHead DEF PtTaskOK
    <3>3. HpGets(Head(ptQ))
      BY <1>0, <2>1, <3>1, <3>2, HpEnqueueMoves
    <3>4. \E condition : FcCall("tx", HpQueueOf[Head(ptQ)], TRUE, condition)
      BY <3>1, Zenon DEF HpEnqueue
    <3> QED
      BY <1>0, <1>g, <1>q, <1>t, <2>1, <3>1, <3>2, <3>3, <3>4, FcCallKept, Zenon
  <2> QED
    BY <2>2, <2>3, <2>4
<1>2. CASE PtFlushSend
  <2>1. /\ UNCHANGED <<fcBits, fcStopped, hpSent, hpDropped, hpHand, hpTask, ptEarly>>
        /\ FcIdle("tx") /\ ptCarry # NoFrame /\ HpEnqueue(ptCarry, FALSE, FALSE)
    BY <1>2, Zenon DEF PtFlushSend, HpRest
  <2>2. ptCarry \in HpFrames
    BY <1>0, <2>1, HpConstants, Zenon DEF PtTaskOK
  <2>3. HpGets(ptCarry)
    BY <1>0, <2>1, <2>2, HpEnqueueMoves
  <2>4. \E condition : FcCall("tx", HpQueueOf[ptCarry], TRUE, condition)
    BY <2>1, Zenon DEF HpEnqueue
  <2> QED
    BY <1>0, <1>g, <1>q, <1>t, <2>1, <2>2, <2>3, <2>4, FcCallKept, Zenon
<1>3. CASE PtFlushTake
  <2>1. UNCHANGED <<fcBits, fcStopped, hpSent, hpDropped, hpHand, hpTask, hpQ, hpFresh>>
        /\ FcIdle("tx")
    BY <1>3, Zenon DEF PtFlushTake, HpRest
  <2>2. HpWaiting' = HpWaiting
    BY <1>0, <2>1, HpQueuesStay, Zenon DEF HpStays
  <2>3. CASE ~(ptEarly # <<>> /\ Cardinality(PtOut) < PtWindow)
    <3>1. UNCHANGED <<ptEarly, fc, fcClash>>
      BY <1>3, <2>3, Zenon DEF PtFlushTake
    <3> QED
      BY <1>0, <1>s, <2>1, <2>2, <3>1, FcKept, Zenon
  <2>4. CASE ptEarly # <<>> /\ Cardinality(PtOut) < PtWindow
    <3> DEFINE i == HpQueueOf[Head(ptEarly)]
               condition == PtEarlyDrained(Len(ptEarly) - 1)
    <3>1. /\ ptEarly' = Tail(ptEarly) /\ FcCall("tx", i, FALSE, condition)
      BY <1>3, <2>4, Zenon DEF PtFlushTake
    <3>2. Head(ptEarly) \in PtAmpdu /\ Len(ptEarly') = Len(ptEarly) - 1
      BY <1>w, <2>4, <3>1, PutBackHead, TailPlaces
    <3>3. i \in HpQs /\ \A f \in PtAmpdu : HpQueueOf[f] = i
      BY <1>q, <1>w, <3>2, PtAssumption
    <3>4. PtLower \in Int /\ HpResume \in Int
      BY HpAssumption, PtAssumption
    <3> HIDE DEF i, condition
    <3>5. ASSUME NEW j \in ACs, PtBacklog(j) PROVE PtBacklog(j)' \/ (j = i /\ ~FALSE /\ condition)
      <4>1. CASE Len(HpWaiting[j]) >= HpResume
        BY <2>2, <4>1, Zenon DEF PtBacklog
      <4>2. CASE ~(Len(HpWaiting[j]) >= HpResume)
        <5>1. PtEarlyOf(j) > PtLower
          BY <3>5, <4>2, Zenon DEF PtBacklog
        <5>2. \E f \in PtAmpdu : HpQueueOf[f] = j
          BY <5>1, PtAssumption DEF PtEarlyOf
        <5>3. j = i
          BY <3>3, <5>2
        <5>4. CASE condition
          BY <5>3, <5>4
        <5>5. CASE ~condition
          <6>1. Len(ptEarly') > PtLower
            BY <1>e, <3>2, <3>4, <5>5 DEF condition, PtEarlyDrained
          <6>2. PtEarlyOf(j)' = Len(ptEarly')
            BY <5>2 DEF PtEarlyOf
          <6> QED
            BY <6>1, <6>2, Zenon DEF PtBacklog
        <5> QED
          BY <5>4, <5>5
      <4> QED
        BY <4>1, <4>2
    <3> QED
      BY <1>0, <1>t, <2>1, <3>1, <3>3, <3>5, FcCallKept
  <2> QED
    BY <2>3, <2>4
<1>4. CASE PtFlow
  <2>1. PICK c \in FcContexts : /\ FcStep(c, PtBacklog(fc[c].ac))
                                /\ UNCHANGED <<ptNew, ptQ, ptEarly, ptAcked, ptTask>>
    BY <1>4, Zenon DEF PtFlow
  <2>2. /\ UNCHANGED <<hpFresh, hpQ, hpSent, hpDropped, hpHand, hpTask>>
        /\ FcTest(c, PtBacklog(fc[c].ac)) \/ FcLoad(c) \/ FcStore(c)
    BY <2>1, Zenon DEF FcStep, hpFrameVars
  <2>3. HpWaiting' = HpWaiting
    BY <1>0, <2>2, HpQueuesStay, Zenon DEF HpStays
  <2>4. \A j \in ACs : PtBacklog(j) => PtBacklog(j)'
    BY <1>s, <2>1, <2>3, Zenon
  <2> QED
    BY <1>0, <2>2, <2>4, FcStepKept
<1>5. CASE PtHci
  <2>1. HpThread /\ UNCHANGED ptEarly
    BY <1>5, Zenon DEF PtHci
  <2>2. CASE HpSend
    <3> DEFINE i == hpTask.q
               condition == Len(hpQ[i]) < HpResume
    <3>1. /\ hpHand # NoFrame /\ hpHand' = NoFrame /\ UNCHANGED <<hpQ, fcBits, fcStopped>>
          /\ FcCall("hci", i, FALSE, condition)
      BY <2>2, Zenon DEF HpSend
    <3>2. i \in HpQs /\ FcIdle("hci")
      BY <1>0, <3>1 DEF HpTaskOK, HpHandInv
    <3> HIDE DEF i, condition
    <3>3. \A j \in HpQs : HpWaiting'[j] = hpQ[j]
      BY <3>1 DEF HpWaiting
    <3>4. \A j \in HpQs : j # i => HpWaiting[j] = hpQ[j]
      BY DEF HpWaiting, i
    <3>5. hpQ[i] \in Seq(HpFrames) /\ Len(hpQ[i]) \in Nat /\ HpResume \in Int
      BY <1>0, <3>2, LenProperties, HpAssumption DEF HpFramesOK
    <3>6. ASSUME NEW j \in ACs, PtBacklog(j) PROVE PtBacklog(j)' \/ (j = i /\ ~FALSE /\ condition)
      <4>1. CASE j # i
        <5>1. HpWaiting'[j] = HpWaiting[j]
          BY <1>t, <3>3, <3>4, <4>1
        <5>2. Len(HpWaiting'[j]) >= Len(HpWaiting[j]) /\ Len(ptEarly') >= Len(ptEarly)
          BY <1>e, <2>1, <5>1
        <5> QED
          BY <3>6, <5>2, BacklogGrows
      <4>2. CASE j = i /\ ~condition
        <5>1. Len(HpWaiting'[j]) >= HpResume
          BY <3>2, <3>3, <3>5, <4>2 DEF condition
        <5> QED
          BY <5>1, Zenon DEF PtBacklog
      <4> QED
        BY <4>1, <4>2
    <3> QED
      BY <1>0, <1>t, <3>1, <3>2, <3>6, FcCallKept
  <2>3. CASE ~HpSend
    <3>1. UNCHANGED <<fcBits, fcStopped, fc, fcClash>>
      BY <2>1, <2>3, Zenon DEF HpThread, HpGivesUp, HpBegin, HpHandler, HpDequeue, HpNoPage,
         HpSendFails, HpAfter, HpReturn, fcVars
    <3>2. HpWaiting' = HpWaiting
      BY <2>1, <2>3, HpMoves, Zenon DEF HpStays
    <3> QED
      BY <1>0, <1>s, <2>1, <3>1, <3>2, FcKept, Zenon
  <2> QED
    BY <2>2, <2>3
<1>6. CASE \/ PtArrive \/ PtAck \/ PtWake \/ PtCheck \/ PtClear \/ PtControl \/ PtChip
           \/ UNCHANGED ptVars
  <2>1. UNCHANGED <<fcBits, fcStopped, fc, fcClash, hpFresh, hpQ, hpSent, hpDropped, hpHand,
                    hpTask, ptEarly>>
    BY <1>6, Zenon DEF PtArrive, PtAck, PtWake, PtCheck, PtClear, PtControl, PtChip,
       HpControl, HpChipSends, HpRest, ptVars, hpVars, fcVars, hpFrameVars
  <2>2. HpWaiting' = HpWaiting
    BY <1>0, <2>1, HpQueuesStay, Zenon DEF HpStays
  <2> QED
    BY <1>0, <1>s, <2>1, <2>2, FcKept, Zenon
<1> QED
  BY <1>1, <1>2, <1>3, <1>4, <1>5, <1>6, Zenon DEF PtNext, PtTxTask

\* FcStopNeeded: between the calls of ssv6200_tx_flow_control, and as long as
\* none of them overlapped another or came too late, flow_ctrl_status agrees
\* with what mac80211 was told, and a queue that is stopped has a backlog
\* whose decrease will wake it.  The bit of an AC is one for the HCI queue
\* and for the A-MPDUs that wait; that neither of the two loses the wakeup of
\* the other is what the invariant is about.
THEOREM StopIsNeeded == PtSpec => []FcStopNeeded
<1>1. PtInit => FcInv
  <2> SUFFICES ASSUME PtInit PROVE FcInv
    OBVIOUS
  <2>1. fcBits = {} /\ fcStopped = {} /\ fc = [c \in FcContexts |-> NoCall]
    BY Zenon DEF PtInit, HpInit
  <2>2. \A c \in FcContexts : fc[c].at = "none"
    BY <2>1 DEF NoCall
  <2> QED
    BY <2>1, <2>2 DEF FcInv, FcOne, FcAgrees, FcWoken, FcIdle
<1>2. PtTypeInv /\ FcInv /\ [PtNext]_ptVars => FcInv'
  BY FcInvStep
<1>3. FcInv => FcStopNeeded
  BY DEF FcInv, FcAgrees, FcWoken, FcPending, FcIdle, FcStopNeeded
<1> QED
  BY <1>1, <1>2, <1>3, PtTypeInit, PtTypeStep, PTL DEF PtSpec
=============================================================================
