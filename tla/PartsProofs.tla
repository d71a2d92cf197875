---------------------------- MODULE PartsProofs -----------------------------
(***************************************************************************)
(* Safety properties of the parts that run by themselves: ApBcast, FwLoad, *)
(* CryptoPipe, BaBitmap and RxSplit, for every value of their constants    *)
(* and bounds.  Those of the USB interface are in UsbProofs.  The end of   *)
(* the module puts the parts together, as MCParts runs them.               *)
(***************************************************************************)
EXTENDS MCParts, UsbProofs
-----------------------------------------------------------------------------
(* ApBcast                                                                 *)

\* The bit that announces frames passes from aid0_bit_set to beacon_buf, and
\* from there to the chip unless it refused a beacon; tx_work is queued only
\* while it is set, and not while stop_work is about to take it back.
AbInv ==
  /\ abTx \/ abWork = "tx" => abAid0
  /\ abWork = "stop" => ~abTx
  /\ abVif => abBuf = abAid0
  /\ abRefused = 0 => abAir = abBuf
  /\ abRefused \in Nat

LEMMA AbBeaconChange ==
  ASSUME AbInv, NEW bit \in BOOLEAN, AbChangeBeacon(bit)
  PROVE  /\ abVif => abBuf' = bit
         /\ abRefused' = 0 => abAir' = abBuf'
         /\ abRefused' \in Nat
  BY DEF AbInv, AbChangeBeacon, AbSetBeacon

\* A beacon that is set again, or for the first time: beacon_buf follows
\* aid0_bit_set at once, the chip unless it refuses.
LEMMA AbBeaconSet ==
  ASSUME AbInv, AbSetBeacon(abAid0), abBuf' = abAid0
  PROVE  /\ abRefused' = 0 => abAir' = abBuf'
         /\ abRefused' \in Nat
  BY DEF AbInv, AbSetBeacon

LEMMA AbStep ==
  ASSUME AbInv, [AbNextStep]_abVars
  PROVE  AbInv'
<1>1. CASE AbStartWork
  <2>1. CASE abAid0
    <3>1. abTx' = abTx /\ UNCHANGED <<abWork, abVif, abBeacon>>
      BY <1>1, <2>1, Zenon DEF AbStartWork, abThread, abIface
    <3> QED
      BY <3>1 DEF AbInv, abBeacon
  <2>2. CASE ~abAid0
    <3>1. /\ abWork = "none" /\ abAid0' = TRUE /\ AbChangeBeacon(TRUE)
          /\ UNCHANGED <<abWork, abVif>>
      BY <1>1, <2>2, Zenon DEF AbStartWork, abThread, abIface, AbAnnounced
    <3> QED
      BY <3>1, AbBeaconChange DEF AbInv
  <2> QED
    BY <2>1, <2>2
<1>2. CASE AbStopEnd
  <2>1. /\ abWork = "stop" /\ abWork' = "none" /\ abAid0' = FALSE /\ AbChangeBeacon(FALSE)
        /\ UNCHANGED <<abTx, abVif>>
    BY <1>2, Zenon DEF AbStopEnd, abItems, abIface
  <2> QED
    BY <2>1, AbBeaconChange DEF AbInv
<1>3. CASE AbTxBlocked \/ AbTxBegin \/ AbTxOne \/ AbStopBegin \/ AbCancelTx
  <2>1. UNCHANGED <<abVif, abBeacon>>
    BY <1>3, Zenon DEF AbTxBlocked, AbTxBegin, AbTxOne, AbStopBegin, AbCancelTx, abIface
  <2>2. abTx' \/ abWork' = "tx" => abAid0
    BY <1>3 DEF AbInv, AbTxBlocked, AbTxBegin, AbTxOne, AbStopBegin, AbCancelTx, abThread
  <2>3. abWork' = "stop" => ~abTx'
    BY <1>3 DEF AbInv, AbTxBlocked, AbTxBegin, AbTxOne, AbStopBegin, AbCancelTx, abThread
  <2> QED
    BY <2>1, <2>2, <2>3 DEF AbInv, abBeacon
<1>4. CASE AbSetTim \/ AbAdd \/ AbBeaconRelease
  <2>1. UNCHANGED <<abTx, abWork, abAid0>> /\ (abVif' => abBuf' = abAid0)
    BY <1>4, Zenon DEF AbSetTim, AbAdd, AbBeaconRelease, abItems, abThread
  <2>2. (abRefused' = 0 => abAir' = abBuf') /\ abRefused' \in Nat
    <3>1. CASE AbSetTim \/ AbAdd
      BY <3>1, AbBeaconSet, Zenon DEF AbSetTim, AbAdd
    <3>2. CASE AbBeaconRelease
      BY <3>2 DEF AbInv, AbBeaconRelease
    <3> QED
      BY <1>4, <3>1, <3>2
  <2> QED
    BY <2>1, <2>2 DEF AbInv
<1>5. CASE \/ AbSend \/ AbSleep \/ AbAwake \/ AbRelease
           \/ AbCancelStart \/ AbCancelStop \/ AbFlush \/ UNCHANGED abVars
  <2>1. UNCHANGED <<abTx, abWork, abVif, abBeacon>>
    BY <1>5, Zenon DEF AbSend, AbSleep, AbAwake, AbRelease, AbCancelStart, AbCancelStop,
       AbFlush, abVars, abItems, abThread, abIface
  <2> QED
    BY <2>1 DEF AbInv, abBeacon
<1> QED
  BY <1>1, <1>2, <1>3, <1>4, <1>5, Zenon DEF AbNextStep, AbWorkStep, AbRemoval

\* AbTold: frames are sent after a DTIM only when the beacon has announced
\* them, whatever is added, removed, woken or cancelled between the three work
\* items, unless the chip refused a beacon (src/smac/ap.c).
THEOREM BroadcastAnnounced == AbSpec => []AbTold
<1>1. AbInit => AbInv
  <2>1. 0 \in Nat /\ "none" # "tx" /\ "none" # "stop"
    OBVIOUS
  <2> QED
    BY <2>1, Zenon DEF AbInit, AbInv
<1>2. AbInv /\ [AbNextStep]_abVars => AbInv'
  BY AbStep
<1>3. AbInv => AbTold
  BY DEF AbInv, AbTold
<1> QED
  BY <1>1, <1>2, <1>3, PTL DEF AbSpec
\* What AbTypeOK says of the flags, of the queue, of the thread and of the
\* counters; and a round of tx_work ends before abLoop passes AbBurst.
AbFlagTypes ==
  /\ abUp \in BOOLEAN /\ abVif \in BOOLEAN /\ abAsleep \in BOOLEAN
  /\ abStart \in BOOLEAN /\ abStop \in BOOLEAN /\ abTx \in BOOLEAN
  /\ abAid0 \in BOOLEAN /\ abBuf \in BOOLEAN /\ abAir \in BOOLEAN /\ abLeft \in BOOLEAN
  /\ abRel \in {"none", "start", "stop", "flush", "tx", "beacon"}
AbQueueTypes ==
  abQueue \in Seq(1 .. AbFrames) /\ Len(abQueue) <= AbMaxQueue /\ abNext \in 1 .. AbFrames + 1
AbThreadTypes ==
  /\ abWork \in {"none", "tx", "stop"} /\ abLoop \in 0 .. AbBurst
  /\ abWork = "tx" => abLoop < AbBurst
  /\ abBlocked \in 0 .. AbMaxBlocked
AbCountTypes ==
  abAps \in 0 .. AbMaxAps /\ abRefused \in 0 .. AbMaxRefused /\ abNotes \in 0 .. AbMaxNotes
AbTypeInv == AbFlagTypes /\ AbQueueTypes /\ AbThreadTypes /\ AbCountTypes

LEMMA AbQueueStep ==
  ASSUME AbAssumption, AbQueueTypes, [AbNextStep]_abVars
  PROVE  AbQueueTypes'
<1>0. /\ abQueue \in Seq(1 .. AbFrames) /\ Len(abQueue) <= AbMaxQueue
      /\ abNext \in 1 .. AbFrames + 1 /\ AbFrames \in Nat /\ AbMaxQueue \in Nat \ {0}
  BY DEF AbQueueTypes, AbAssumption
<1>1. CASE AbSend
  <2>1. abNext <= AbFrames /\ abNext' = abNext + 1 /\ (abQueue' = AbEnqueued(abNext) \/ abQueue' = abQueue)
    BY <1>1, Zenon DEF AbSend
  <2>2. abNext \in 1 .. AbFrames /\ abNext' \in 1 .. AbFrames + 1
    BY <1>0, <2>1
  <2>3. AbEnqueued(abNext) \in Seq(1 .. AbFrames) /\ Len(AbEnqueued(abNext)) <= AbMaxQueue
    <3>1. CASE Len(abQueue) >= AbMaxQueue
      <4>1. abQueue # <<>> /\ AbEnqueued(abNext) = Append(Tail(abQueue), abNext)
        BY <1>0, <3>1 DEF AbEnqueued
      <4>2. Tail(abQueue) \in Seq(1 .. AbFrames) /\ Len(Tail(abQueue)) = Len(abQueue) - 1
        BY <1>0, <4>1
      <4> QED
        BY <1>0, <2>2, <4>1, <4>2
    <3>2. CASE ~(Len(abQueue) >= AbMaxQueue)
      <4>1. AbEnqueued(abNext) = Append(abQueue, abNext)
        BY <3>2, Zenon DEF AbEnqueued
      <4> QED
        BY <1>0, <2>2, <3>2, <4>1
    <3> QED
      BY <3>1, <3>2
  <2> QED
    BY <1>0, <2>1, <2>2, <2>3, Zenon DEF AbQueueTypes
<1>2. CASE AbTxBlocked \/ AbFlush
  <2>1. (abQueue' = <<>> \/ abQueue' = abQueue) /\ abNext' = abNext
    BY <1>2, Zenon DEF AbTxBlocked, AbFlush
  <2>2. <<>> \in Seq(1 .. AbFrames) /\ Len(<<>>) <= AbMaxQueue
    BY <1>0
  <2> QED
    BY <1>0, <2>1, <2>2, Zenon DEF AbQueueTypes
<1>3. CASE AbTxOne
  <2>1. (abQueue' = abQueue \/ (abQueue # <<>> /\ abQueue' = Tail(abQueue))) /\ abNext' = abNext
    BY <1>3, Zenon DEF AbTxOne
  <2>2. abQueue # <<>> => /\ Tail(abQueue) \in Seq(1 .. AbFrames)
                          /\ Len(Tail(abQueue)) <= AbMaxQueue
    BY <1>0
  <2> QED
    BY <1>0, <2>1, <2>2, Zenon DEF AbQueueTypes
<1>4. CASE \/ AbSleep \/ AbAwake \/ AbStartWork \/ AbTxBegin \/ AbStopBegin \/ AbStopEnd
           \/ AbSetTim \/ AbAdd \/ AbRelease
  <2>1. abQueue' = abQueue /\ abNext' = abNext
    BY <1>4, Zenon DEF AbSleep, AbAwake, AbStartWork, AbTxBegin, AbStopBegin, AbStopEnd, AbSetTim,
       AbAdd, AbRelease
  <2> QED
    BY <2>1, Zenon DEF AbQueueTypes
<1>5. CASE AbCancelStart \/ AbCancelStop \/ AbCancelTx \/ AbBeaconRelease \/ UNCHANGED abVars
  <2>1. abQueue' = abQueue /\ abNext' = abNext
    BY <1>5, Zenon DEF AbCancelStart, AbCancelStop, AbCancelTx, AbBeaconRelease, abVars
  <2> QED
    BY <2>1, Zenon DEF AbQueueTypes
<1> QED
  BY <1>1, <1>2, <1>3, <1>4, <1>5, Zenon DEF AbNextStep, AbWorkStep, AbRemoval

LEMMA AbCountStep ==
  ASSUME AbAssumption, AbCountTypes, [AbNextStep]_abVars
  PROVE  AbCountTypes'
<1>0. /\ abAps \in 0 .. AbMaxAps /\ abRefused \in 0 .. AbMaxRefused /\ abNotes \in 0 .. AbMaxNotes
      /\ AbMaxAps \in Nat /\ AbMaxRefused \in Nat /\ AbMaxNotes \in Nat
  BY DEF AbCountTypes, AbAssumption
<1>1. /\ abAps' = abAps \/ (abAps < AbMaxAps /\ abAps' = abAps + 1)
      /\ abRefused' = abRefused \/ (abRefused < AbMaxRefused /\ abRefused' = abRefused + 1)
      /\ abNotes' = abNotes \/ (abNotes < AbMaxNotes /\ abNotes' = abNotes + 1)
  <2>1. CASE AbSend \/ AbSleep \/ AbAwake
    BY <2>1, Zenon DEF AbSend, AbSleep, AbAwake, abIface, abBeacon
  <2>2. CASE AbStartWork
    BY <2>2, Zenon DEF AbStartWork, AbChangeBeacon, AbSetBeacon, abIface, abBeacon
  <2>3. CASE AbTxBlocked \/ AbTxBegin \/ AbTxOne \/ AbStopBegin
    BY <2>3, Zenon DEF AbTxBlocked, AbTxBegin, AbTxOne, AbStopBegin, abIface, abBeacon
  <2>4. CASE AbStopEnd
    BY <2>4, Zenon DEF AbStopEnd, AbChangeBeacon, AbSetBeacon, abIface
  <2>5. CASE AbSetTim \/ AbAdd
    BY <2>5, Zenon DEF AbSetTim, AbAdd, AbSetBeacon, abIface
  <2>6. CASE AbRelease \/ AbRemoval
    BY <2>6, Zenon DEF AbRelease, AbRemoval, AbCancelStart, AbCancelStop, AbFlush, AbCancelTx,
       AbBeaconRelease, abBeacon
  <2>7. CASE UNCHANGED abVars
    BY <2>7, Zenon DEF abVars, abIface, abBeacon
  <2> QED
    BY <2>1, <2>2, <2>3, <2>4, <2>5, <2>6, <2>7, Zenon DEF AbNextStep, AbWorkStep
<1> QED
  BY <1>0, <1>1 DEF AbCountTypes

LEMMA AbThreadStep ==
  ASSUME AbAssumption, AbThreadTypes, [AbNextStep]_abVars
  PROVE  AbThreadTypes'
<1>0. /\ abWork \in {"none", "tx", "stop"} /\ abLoop \in 0 .. AbBurst
      /\ abWork = "tx" => abLoop < AbBurst
      /\ abBlocked \in 0 .. AbMaxBlocked
      /\ AbBurst \in Nat \ {0} /\ AbMaxBlocked \in Nat
  BY DEF AbThreadTypes, AbAssumption
<1>1. CASE AbTxBlocked
  <2>1. /\ abWork' = abWork /\ abLoop' = abLoop
        /\ abBlocked' = 0 \/ (~(abBlocked >= AbMaxBlocked) /\ abBlocked' = abBlocked + 1)
    BY <1>1, Zenon DEF AbTxBlocked
  <2> QED
    BY <1>0, <2>1 DEF AbThreadTypes
<1>2. CASE AbTxBegin
  <2>1. abWork' = "tx" /\ abLoop' = 0 /\ abBlocked' = 0
    BY <1>2, Zenon DEF AbTxBegin
  <2> QED
    BY <1>0, <2>1 DEF AbThreadTypes
<1>3. CASE AbTxOne
  <2>1. /\ abWork = "tx" /\ abBlocked' = abBlocked
        /\ \/ abWork' = "none" /\ abLoop' = abLoop
           \/ abWork' = "none" /\ abLoop' = abLoop + 1
           \/ abWork' = abWork /\ abLoop' = abLoop + 1 /\ abLoop' # AbBurst
    BY <1>3, Zenon DEF AbTxOne
  <2> QED
    BY <1>0, <2>1 DEF AbThreadTypes
<1>4. CASE AbStopBegin \/ AbStopEnd
  <2>1. /\ abWork' = abWork \/ abWork' = "stop" \/ abWork' = "none"
        /\ abLoop' = abLoop /\ abBlocked' = abBlocked
    BY <1>4, Zenon DEF AbStopBegin, AbStopEnd
  <2> QED
    BY <1>0, <2>1 DEF AbThreadTypes
<1>5. CASE \/ AbSend \/ AbSleep \/ AbAwake \/ AbStartWork \/ AbSetTim \/ AbAdd \/ AbRelease
           \/ AbRemoval \/ UNCHANGED abVars
  <2>1. abThread' = abThread
    BY <1>5, Zenon DEF AbSend, AbSleep, AbAwake, AbStartWork, AbSetTim, AbAdd, AbRelease, AbRemoval,
       AbCancelStart, AbCancelStop, AbFlush, AbCancelTx, AbBeaconRelease, abVars
  <2>2. abWork' = abWork /\ abLoop' = abLoop /\ abBlocked' = abBlocked
    BY <2>1 DEF abThread
  <2> QED
    BY <2>2, Zenon DEF AbThreadTypes
<1> QED
  BY <1>1, <1>2, <1>3, <1>4, <1>5, Zenon DEF AbNextStep, AbWorkStep

LEMMA AbBeaconFlags ==
  ASSUME abBuf \in BOOLEAN, abAir \in BOOLEAN, NEW bit \in BOOLEAN, AbChangeBeacon(bit)
  PROVE  abBuf' \in BOOLEAN /\ abAir' \in BOOLEAN
  BY Zenon DEF AbChangeBeacon, AbSetBeacon

LEMMA AbFlagStep ==
  ASSUME AbFlagTypes, [AbNextStep]_abVars
  PROVE  AbFlagTypes'
<1>0. /\ abUp \in BOOLEAN /\ abVif \in BOOLEAN /\ abAsleep \in BOOLEAN
      /\ abStart \in BOOLEAN /\ abStop \in BOOLEAN /\ abTx \in BOOLEAN
      /\ abAid0 \in BOOLEAN /\ abBuf \in BOOLEAN /\ abAir \in BOOLEAN /\ abLeft \in BOOLEAN
      /\ abRel \in {"none", "start", "stop", "flush", "tx", "beacon"}
  BY Zenon DEF AbFlagTypes
<1>1. CASE AbSend \/ AbSleep \/ AbAwake \/ AbTxBlocked \/ AbTxBegin \/ AbTxOne \/ AbStopBegin
  <2>1. CASE AbSend \/ AbSleep \/ AbAwake
    <3>1. /\ abIface' = abIface /\ abBeacon' = abBeacon /\ abStop' = abStop /\ abTx' = abTx
          /\ abAsleep' \in BOOLEAN /\ abStart' \in BOOLEAN
      BY <1>0, <2>1, Zenon DEF AbSend, AbSleep, AbAwake, abItems
    <3> QED
      BY <1>0, <3>1, Zenon DEF AbFlagTypes, abIface, abBeacon
  <2>2. CASE AbTxBlocked \/ AbTxBegin \/ AbTxOne \/ AbStopBegin
    <3>1. /\ abIface' = abIface /\ abBeacon' = abBeacon /\ abAsleep' = abAsleep /\ abStart' = abStart
          /\ abStop' \in BOOLEAN /\ abTx' \in BOOLEAN
      BY <1>0, <2>2, Zenon DEF AbTxBlocked, AbTxBegin, AbTxOne, AbStopBegin
    <3> QED
      BY <1>0, <3>1, Zenon DEF AbFlagTypes, abIface, abBeacon
  <2> QED
    BY <1>1, <2>1, <2>2, Zenon
<1>2. CASE AbStartWork
  <2>1. /\ abIface' = abIface /\ abAsleep' = abAsleep /\ abStop' = abStop /\ abStart' = FALSE
        /\ \/ abTx' = abTx /\ abBeacon' = abBeacon
           \/ abTx' = TRUE /\ abAid0' = TRUE /\ AbChangeBeacon(TRUE)
    BY <1>2, Zenon DEF AbStartWork, AbAnnounced
  <2>2. abTx' \in BOOLEAN /\ abAid0' \in BOOLEAN /\ abBuf' \in BOOLEAN /\ abAir' \in BOOLEAN
    BY <1>0, <2>1, AbBeaconFlags, Zenon DEF abBeacon
  <2> QED
    BY <1>0, <2>1, <2>2, Zenon DEF AbFlagTypes, abIface
<1>3. CASE AbStopEnd
  <2>1. /\ abIface' = abIface /\ abAsleep' = abAsleep /\ abItems' = abItems
        /\ abAid0' = FALSE /\ AbChangeBeacon(FALSE)
    BY <1>3, Zenon DEF AbStopEnd
  <2>2. abBuf' \in BOOLEAN /\ abAir' \in BOOLEAN
    BY <1>0, <2>1, AbBeaconFlags, Zenon
  <2> QED
    BY <1>0, <2>1, <2>2, Zenon DEF AbFlagTypes, abIface, abItems
<1>4. CASE AbSetTim
  BY <1>0, <1>4, Zenon DEF AbFlagTypes, AbSetTim, AbSetBeacon, abIface, abItems
<1>5. CASE AbAdd
  BY <1>0, <1>5, Zenon DEF AbFlagTypes, AbAdd, AbSetBeacon, abItems
<1>6. CASE AbRelease
  BY <1>0, <1>6, Zenon DEF AbFlagTypes, AbRelease, abItems, abBeacon
<1>7. CASE AbCancelStart \/ AbCancelStop \/ AbFlush \/ AbCancelTx
  <2>1. /\ UNCHANGED <<abUp, abVif, abAps, abLeft, abAsleep>> /\ abBeacon' = abBeacon
        /\ abStart' \in BOOLEAN /\ abStop' \in BOOLEAN /\ abTx' \in BOOLEAN
        /\ abRel' \in {"stop", "flush", "tx", "beacon"}
    BY <1>0, <1>7 DEF AbCancelStart, AbCancelStop, AbFlush, AbCancelTx, abItems
  <2> QED
    BY <1>0, <2>1 DEF AbFlagTypes, abBeacon
<1>8. CASE AbBeaconRelease
  BY <1>0, <1>8, Zenon DEF AbFlagTypes, AbBeaconRelease, abItems
<1>9. CASE UNCHANGED abVars
  BY <1>0, <1>9, Zenon DEF AbFlagTypes, abVars, abIface, abItems, abBeacon
<1> QED
  BY <1>1, <1>2, <1>3, <1>4, <1>5, <1>6, <1>7, <1>8, <1>9, Zenon DEF AbNextStep, AbWorkStep, AbRemoval

LEMMA AbTypeSplit ==
  ASSUME AbTypeInv
  PROVE  AbTypeOK
  BY Zenon DEF AbTypeInv, AbFlagTypes, AbQueueTypes, AbThreadTypes, AbCountTypes, AbTypeOK

LEMMA AbTypeStart == AbInit => AbTypeInv
<1> SUFFICES ASSUME AbInit PROVE AbTypeInv
  OBVIOUS
<1>1. AbFlagTypes
  BY DEF AbInit, AbFlagTypes
<1>2. AbQueueTypes
  BY AbAssumption DEF AbInit, AbQueueTypes, AbAssumption
<1>3. AbThreadTypes
  BY AbAssumption DEF AbInit, AbThreadTypes, AbAssumption
<1>4. AbCountTypes
  BY AbAssumption DEF AbInit, AbCountTypes, AbAssumption
<1> QED
  BY <1>1, <1>2, <1>3, <1>4, Zenon DEF AbTypeInv

LEMMA AbTypeStep ==
  ASSUME AbTypeInv, [AbNextStep]_abVars
  PROVE  AbTypeInv'
  BY AbAssumption, AbFlagStep, AbQueueStep, AbThreadStep, AbCountStep, Zenon DEF AbTypeInv

\* The queue of broadcast frames, the burst and the retries stay within the
\* bounds of the driver (SSV6200_MAX_BCAST_QUEUE_LEN,
\* SSV6200_ID_MANAGER_QUEUE and queue_block_cnt in src/smac/ap.c).
THEOREM BroadcastTypes == AbSpec => []AbTypeOK
<1>1. AbInit => AbTypeInv
  BY AbTypeStart
<1>2. AbTypeInv /\ [AbNextStep]_abVars => AbTypeInv'
  BY AbTypeStep
<1>3. AbTypeInv => AbTypeOK
  BY AbTypeSplit, Zenon
<1> QED
  BY <1>1, <1>2, <1>3, PTL DEF AbSpec
-----------------------------------------------------------------------------
(* FwLoad                                                                  *)

\* What FwTypeOK says of everything but the chip's memory.
FwNumbers ==
  /\ fwLeft \in 0 .. FwAttempts /\ fwPos \in 0 .. FwBlocks + 1 /\ fwAddr \in 0 .. FwBlocks
  /\ fwFolds \in 0 .. FwAttempts /\ fwTotal \in 0 .. FwBlocks + 1
  /\ fwEvents \in 0 .. FwMaxFaults /\ fwBefore \in 0 .. FwMaxFaults
FwFlags ==
  /\ fwVia \in {"openfile", "request"} /\ fwUsb \in BOOLEAN /\ fwLast \in BOOLEAN
  /\ fwPc \in {"begin", "attempt", "block", "tail", "start", "check", "done"}
  /\ fwRes \in BOOLEAN /\ fwRet \in BOOLEAN /\ fwBuffer \in BOOLEAN
FwScalars == FwNumbers /\ FwFlags

\* An attempt folds the checksum of a file once more; an image in memory has
\* its checksum from the start.
FwCounts ==
  /\ fwBefore <= fwEvents /\ fwAddr <= fwPos
  /\ fwPc # "done" => fwLeft >= 1
  /\ fwVia = "openfile" => fwTotal = fwPos
  /\ fwVia = "openfile" /\ fwPc # "done"
     => fwFolds = (FwAttempts - fwLeft) + IF fwPc \in {"start", "check"} THEN 1 ELSE 0
  /\ fwVia = "request" /\ fwPc \notin {"begin", "done"}
     => fwSum = 1 .. FwSize /\ fwFolds = 1 /\ fwTotal = FwSize

FwTypeInv == FwTypeOK /\ FwCounts

LEMMA FwTypeSplit ==
  FwTypeOK <=> /\ FwScalars /\ fwMem \in [1 .. FwBlocks + 1 -> 0 .. FwPad]
               /\ fwSum \subseteq 1 .. FwPad /\ fwClean \subseteq 1 .. FwAttempts
  BY Zenon DEF FwTypeOK, FwScalars, FwNumbers, FwFlags

LEMMA FwSizes ==
         /\ FwBlocks \in Nat \ {0} /\ FwAttempts \in Nat \ {0} /\ FwMaxFaults \in Nat
         /\ FwSize = IF fwLast THEN FwBlocks + 1 ELSE FwBlocks
         /\ FwSize \in Nat \ {0} /\ FwSize \in 0 .. FwPad /\ FwPad = FwBlocks + 3
         /\ FwBad = FwBlocks + 2 /\ FwEmpty = 0
  BY FwAssumption DEF FwSize, FwPad, FwBad, FwEmpty

\* A block that is written lands at fwAddr, whole or damaged, or nothing is
\* written and ret is set; only a failure does either.
LEMMA FwWriteFacts ==
  ASSUME FwTypeOK, NEW b \in 0 .. FwPad, FwWrite(b)
  PROVE  /\ fwMem' \in [1 .. FwBlocks + 1 -> 0 .. FwPad] /\ fwRet' \in BOOLEAN
         /\ \A a \in 1 .. FwBlocks + 1 : a # fwAddr + 1 => fwMem'[a] = fwMem[a]
         /\ fwRet' => fwMem' = fwMem
         /\ ~fwRet' => fwMem'[fwAddr + 1] \in {b, FwBad}
         /\ fwEvents' = fwEvents => ~fwRet' /\ fwMem'[fwAddr + 1] = b
         /\ fwEvents' \in {fwEvents, fwEvents + 1} /\ fwEvents' \in 0 .. FwMaxFaults
<1>1. /\ fwMem \in [1 .. FwBlocks + 1 -> 0 .. FwPad] /\ fwEvents \in 0 .. FwMaxFaults
      /\ fwAddr + 1 \in 1 .. FwBlocks + 1 /\ FwBad \in 0 .. FwPad /\ FwMaxFaults \in Nat
  <2>1. fwMem \in [1 .. FwBlocks + 1 -> 0 .. FwPad] /\ FwNumbers
    BY FwTypeSplit, Zenon DEF FwScalars
  <2>2. fwEvents \in 0 .. FwMaxFaults /\ fwAddr \in 0 .. FwBlocks
    BY <2>1 DEF FwNumbers
  <2> QED
    BY <2>1, <2>2, FwSizes
<1>2. CASE FwNoFault /\ fwMem' = [fwMem EXCEPT ![fwAddr + 1] = b] /\ fwRet' = FALSE
  <2>1. /\ fwMem' \in [1 .. FwBlocks + 1 -> 0 .. FwPad] /\ fwMem'[fwAddr + 1] = b
        /\ \A a \in 1 .. FwBlocks + 1 : a # fwAddr + 1 => fwMem'[a] = fwMem[a]
    BY <1>1, <1>2
  <2>2. fwEvents' = fwEvents
    BY <1>2 DEF FwNoFault
  <2> QED
    BY <1>1, <1>2, <2>1, <2>2
<1>3. CASE FwFault("corrupt") /\ fwMem' = [fwMem EXCEPT ![fwAddr + 1] = FwBad] /\ fwRet' = FALSE
  <2>1. /\ fwMem' \in [1 .. FwBlocks + 1 -> 0 .. FwPad] /\ fwMem'[fwAddr + 1] = FwBad
        /\ \A a \in 1 .. FwBlocks + 1 : a # fwAddr + 1 => fwMem'[a] = fwMem[a]
    BY <1>1, <1>3
  <2>2. fwEvents' = fwEvents + 1 /\ fwEvents' \in 0 .. FwMaxFaults
    BY <1>1, <1>3 DEF FwFault
  <2>3. fwEvents' # fwEvents
    BY <1>1, <2>2
  <2> QED
    BY <1>3, <2>1, <2>2, <2>3, Zenon
<1>4. CASE FwFault("load") /\ UNCHANGED fwMem /\ fwRet' = TRUE
  BY <1>1, <1>4 DEF FwFault
<1> QED
  BY <1>2, <1>3, <1>4, Zenon DEF FwWrite

\* A step that leaves the checksum, the memory and the history of attempts.
LEMMA FwTypeEasy ==
  ASSUME FwTypeOK, UNCHANGED <<fwMem, fwSum, fwClean>>, FwScalars'
  PROVE  FwTypeOK'
  BY FwTypeSplit, Zenon DEF FwTypeOK, FwScalars, FwNumbers, FwFlags

LEMMA FwFaultFacts ==
  ASSUME FwScalars, NEW k, FwFault(k) \/ FwNoFault
  PROVE  /\ fwEvents' \in 0 .. FwMaxFaults /\ fwEvents <= fwEvents'
         /\ FwFault(k) => fwEvents' = fwEvents + 1
  BY FwSizes DEF FwFault, FwNoFault, FwScalars, FwNumbers

LEMMA FwTypeInit == FwInit => FwTypeInv
<1> SUFFICES ASSUME FwInit PROVE FwTypeInv
  OBVIOUS
<1>1. FwScalars
  <2>1. FwFlags
    BY Zenon DEF FwInit, FwFlags
  <2>2. FwNumbers
    BY FwAssumption DEF FwInit, FwNumbers
  <2> QED
    BY <2>1, <2>2 DEF FwScalars
<1>2. FwTypeOK
  BY <1>1, FwSizes, FwTypeSplit DEF FwInit
<1>3. FwCounts
  BY <1>1, FwSizes DEF FwInit, FwCounts
<1> QED
  BY <1>2, <1>3 DEF FwTypeInv

LEMMA FwTypeStep ==
  ASSUME FwTypeInv, [FwNextStep]_fwVars
  PROVE  FwTypeInv'
<1>0. /\ FwTypeOK /\ FwScalars /\ FwCounts
      /\ fwMem \in [1 .. FwBlocks + 1 -> 0 .. FwPad] /\ fwSum \subseteq 1 .. FwPad
      /\ fwClean \subseteq 1 .. FwAttempts
  BY FwTypeSplit DEF FwTypeInv
<1>c. FwCounts
  BY <1>0
<1>v. fwVia \in {"openfile", "request"}
  BY <1>0, Zenon DEF FwScalars, FwFlags
<1>n. FwNumbers
  BY <1>0, Zenon DEF FwScalars
<1>s. /\ FwBlocks \in Nat \ {0} /\ FwAttempts \in Nat \ {0} /\ FwMaxFaults \in Nat
      /\ FwSize = IF fwLast THEN FwBlocks + 1 ELSE FwBlocks
      /\ FwPad = FwBlocks + 3
  BY FwSizes
<1>1. CASE FwBegin
  <2>1. /\ fwPc = "begin" /\ UNCHANGED <<fwVia, fwUsb, fwLast, fwLeft, fwPos, fwAddr, fwMem,
                                         fwBefore, fwClean>>
        /\ \/ /\ FwFault("file") \/ FwFault("memory")
              /\ fwPc' = "done" /\ fwRet' \in BOOLEAN
              /\ UNCHANGED <<fwBuffer, fwSum, fwFolds, fwTotal, fwRes>>
           \/ /\ FwNoFault /\ fwPc' = "attempt" /\ fwBuffer' = TRUE /\ UNCHANGED <<fwRet, fwRes>>
              /\ IF fwVia = "request"
                 THEN fwSum' = 1 .. FwSize /\ fwFolds' = 1 /\ fwTotal' = FwSize
                 ELSE UNCHANGED <<fwSum, fwFolds, fwTotal>>
    BY <1>1, Zenon DEF FwBegin, FwOut, fwInput, fwHist, fwHost
  <2>2. fwEvents' \in 0 .. FwMaxFaults /\ fwEvents <= fwEvents'
    BY <1>0, <2>1, FwFaultFacts, Zenon
  <2>3. FwScalars'
    <3>1. FwFlags'
      BY <1>0, <2>1, <2>2, Zenon DEF FwScalars, FwFlags
    <3>2. FwNumbers'
      BY <1>s, <1>n, <2>1, <2>2 DEF FwNumbers
    <3> QED
      BY <3>1, <3>2 DEF FwScalars
  <2>4. fwSum' \subseteq 1 .. FwPad
    <3>1. 1 .. FwSize \subseteq 1 .. FwPad
      BY <1>s
    <3>2. fwSum' = 1 .. FwSize \/ fwSum' = fwSum
      BY <2>1, Zenon
    <3> QED
      BY <1>0, <3>1, <3>2, Zenon
  <2>5. FwTypeOK'
    BY <1>0, <2>1, <2>3, <2>4, Zenon DEF FwTypeOK, FwScalars, FwNumbers, FwFlags
  <2>6. FwSize' = FwSize
    BY <2>1, Zenon DEF FwSize
  <2>7. FwCounts'
    BY <1>s, <1>n, <1>c, <1>v, <2>1, <2>2, <2>3, <2>6 DEF FwNumbers, FwCounts
  <2> QED
    BY <2>5, <2>7 DEF FwTypeInv
<1>2. CASE FwAttempt
  <2>1. /\ fwPc = "attempt" /\ fwBefore' = fwEvents
        /\ UNCHANGED <<fwVia, fwUsb, fwLast, fwLeft, fwMem, fwSum, fwFolds, fwTotal, fwRes,
                       fwBuffer, fwClean>>
        /\ \/ /\ FwFault("mcu") /\ fwPc' = "done" /\ fwRet' = TRUE /\ UNCHANGED <<fwPos, fwAddr>>
           \/ /\ FwNoFault /\ fwPc' = "block" /\ fwRet' = (fwRet /\ fwUsb)
              /\ IF FwRewind THEN fwPos' = 0 /\ fwAddr' = 0 ELSE UNCHANGED <<fwPos, fwAddr>>
    BY <1>2, Zenon DEF FwAttempt, FwOut, fwInput, fwHost
  <2>2. fwEvents' \in 0 .. FwMaxFaults /\ fwEvents <= fwEvents'
    BY <1>0, <2>1, FwFaultFacts, Zenon
  <2>3. FwScalars'
    <3>1. FwFlags'
      BY <1>0, <2>1, <2>2, Zenon DEF FwScalars, FwFlags
    <3>2. FwNumbers'
      BY <1>s, <1>n, <2>1, <2>2 DEF FwNumbers
    <3> QED
      BY <3>1, <3>2 DEF FwScalars
  <2>5. FwTypeOK'
    BY <2>1, <2>3, <1>0, FwTypeEasy, Zenon
  <2>6. FwSize' = FwSize
    BY <2>1, Zenon DEF FwSize
  <2>7. FwCounts'
    BY <1>s, <1>n, <1>c, <1>v, <2>1, <2>2, <2>3, <2>6 DEF FwNumbers, FwCounts, FwRewind
  <2> QED
    BY <2>5, <2>7 DEF FwTypeInv
<1>3. CASE FwBlock
  <2>1. /\ fwPc = "block" /\ FwMore /\ FwWrite(fwPos + 1) /\ fwPos' = fwPos + 1
        /\ fwAddr' = IF fwRet' THEN fwAddr ELSE fwAddr + 1
        /\ fwPc' = IF fwRet' THEN "tail" ELSE "block"
        /\ IF fwVia = "request" THEN UNCHANGED <<fwSum, fwFolds, fwTotal, fwRes>>
           ELSE /\ fwTotal' = fwTotal + 1
                /\ fwSum' = IF fwRet' THEN fwSum ELSE fwSum \cup {fwPos + 1}
                /\ UNCHANGED <<fwFolds, fwRes>>
        /\ UNCHANGED <<fwVia, fwUsb, fwLast, fwLeft, fwBuffer, fwBefore, fwClean>>
    BY <1>3, Zenon DEF FwBlock, fwInput, fwHist, fwHost
  <2>2. fwPos < FwBlocks /\ fwPos \in Nat /\ fwAddr < FwBlocks /\ fwPos + 1 \in 0 .. FwPad
        /\ fwPos + 1 \in 1 .. FwPad
    BY <1>s, <1>n, <1>c, <1>v, <2>1 DEF FwMore, FwNumbers, FwCounts
  <2>3. /\ fwMem' \in [1 .. FwBlocks + 1 -> 0 .. FwPad] /\ fwRet' \in BOOLEAN
        /\ fwEvents' \in {fwEvents, fwEvents + 1} /\ fwEvents' \in 0 .. FwMaxFaults
    BY <1>0, <2>1, <2>2, FwWriteFacts, Zenon
  <2>4. FwScalars'
    <3>1. FwFlags'
      BY <1>0, <2>1, <2>2, <2>3, Zenon DEF FwScalars, FwFlags
    <3>2. FwNumbers'
      BY <1>s, <1>n, <1>c, <1>v, <2>1, <2>2, <2>3 DEF FwNumbers, FwCounts
    <3> QED
      BY <3>1, <3>2 DEF FwScalars
  <2>5. fwSum' \subseteq 1 .. FwPad
    BY <1>0, <2>1, <2>2, Zenon
  <2>6. FwTypeOK'
    BY <1>0, <2>1, <2>3, <2>4, <2>5, Zenon DEF FwTypeOK, FwScalars, FwNumbers, FwFlags
  <2>7. FwSize' = FwSize
    BY <2>1, Zenon DEF FwSize
  <2>8. FwCounts'
    BY <1>s, <1>n, <1>c, <1>v, <2>1, <2>2, <2>3, <2>4, <2>7 DEF FwNumbers, FwCounts
  <2> QED
    BY <2>6, <2>8 DEF FwTypeInv
<1>4. CASE FwBlocksDone
  <2>1. /\ fwPc = "block" /\ fwPc' = "tail"
        /\ IF fwVia = "openfile" /\ fwLast /\ fwPos = FwBlocks
           THEN fwPos' = fwPos + 1 /\ fwTotal' = fwTotal + 1 /\ fwRes' = TRUE
           ELSE UNCHANGED <<fwPos, fwTotal, fwRes>>
        /\ UNCHANGED <<fwVia, fwUsb, fwLast, fwLeft, fwAddr, fwMem, fwSum, fwFolds, fwRet,
                       fwBuffer, fwEvents, fwBefore, fwClean>>
    BY <1>4, Zenon DEF FwBlocksDone, fwInput, fwHist
  <2>2. FwScalars'
    <3>1. FwFlags'
      BY <1>0, <2>1, Zenon DEF FwScalars, FwFlags
    <3>2. FwNumbers'
      BY <1>s, <1>n, <1>c, <1>v, <2>1 DEF FwNumbers, FwCounts
    <3> QED
      BY <3>1, <3>2 DEF FwScalars
  <2>3. FwTypeOK'
    BY <2>1, <2>2, <1>0, FwTypeEasy, Zenon
  <2>4. FwSize' = FwSize
    BY <2>1, Zenon DEF FwSize
  <2>5. FwCounts'
    BY <1>s, <1>n, <1>c, <1>v, <2>1, <2>2, <2>4 DEF FwNumbers, FwCounts
  <2> QED
    BY <2>3, <2>5 DEF FwTypeInv
<1>5. CASE FwTail
  <2> DEFINE b == IF FwSize \in fwSum THEN FwPad ELSE FwSize
  <2>1. /\ fwPc = "tail"
        /\ UNCHANGED <<fwVia, fwUsb, fwLast, fwLeft, fwPos, fwAddr, fwTotal, fwRes, fwBuffer,
                       fwBefore, fwClean>>
    BY <1>5, Zenon DEF FwTail, fwInput, fwHist
  <2>2. CASE fwVia = "request"
    <3>1. /\ IF fwLast THEN FwWrite(FwSize) ELSE FwNoFault /\ UNCHANGED <<fwMem, fwRet>>
          /\ fwPc' \in {"done", "start"} /\ UNCHANGED <<fwSum, fwFolds>>
      BY <1>5, <2>2, Zenon DEF FwTail
    <3>2. /\ fwMem' \in [1 .. FwBlocks + 1 -> 0 .. FwPad] /\ fwRet' \in BOOLEAN
          /\ fwEvents <= fwEvents' /\ fwEvents' \in 0 .. FwMaxFaults
      <4>1. CASE fwLast
        <5>1. FwSize \in 0 .. FwPad
          BY FwSizes
        <5>2. /\ fwMem' \in [1 .. FwBlocks + 1 -> 0 .. FwPad] /\ fwRet' \in BOOLEAN
              /\ fwEvents' \in {fwEvents, fwEvents + 1} /\ fwEvents' \in 0 .. FwMaxFaults
          BY <1>0, <3>1, <4>1, <5>1, FwWriteFacts, Zenon
        <5> QED
          BY <1>n, <5>2 DEF FwNumbers
      <4>2. CASE ~fwLast
        <5>1. UNCHANGED <<fwMem, fwRet, fwEvents>>
          BY <3>1, <4>2, Zenon DEF FwNoFault
        <5>2. fwRet \in BOOLEAN
          BY <1>0, Zenon DEF FwScalars, FwFlags
        <5> QED
          BY <1>0, <1>n, <5>1, <5>2 DEF FwNumbers
      <4> QED
        BY <4>1, <4>2
    <3>3. FwScalars'
      <4>1. FwFlags'
        BY <1>0, <2>1, <3>1, <3>2, Zenon DEF FwScalars, FwFlags
      <4>2. FwNumbers'
        BY <1>s, <1>n, <2>1, <3>1, <3>2 DEF FwNumbers
      <4> QED
        BY <4>1, <4>2 DEF FwScalars
    <3>4. FwTypeOK'
      BY <1>0, <2>1, <3>1, <3>2, <3>3, Zenon DEF FwTypeOK, FwScalars, FwNumbers, FwFlags
    <3>5. FwSize' = FwSize
      BY <2>1, Zenon DEF FwSize
    <3>6. FwCounts'
      BY <1>s, <1>n, <1>c, <1>v, <2>1, <2>2, <3>1, <3>2, <3>3, <3>5 DEF FwNumbers, FwCounts
    <3> QED
      BY <3>4, <3>6 DEF FwTypeInv
  <2>3. CASE fwVia # "request"
    <3>1. /\ IF fwRes THEN FwWrite(b) ELSE FwNoFault /\ UNCHANGED <<fwMem, fwRet>>
          /\ fwSum' = fwSum \cup IF fwRes THEN {b} ELSE {}
          /\ fwFolds' = fwFolds + 1 /\ fwPc' = "start"
      BY <1>5, <2>3, Zenon DEF FwTail
    <3>2. b \in 0 .. FwPad /\ b \in 1 .. FwPad
      BY <1>s, <1>n, <1>0, FwSizes DEF FwScalars
    <3> HIDE DEF b
    <3>3. /\ fwMem' \in [1 .. FwBlocks + 1 -> 0 .. FwPad] /\ fwRet' \in BOOLEAN
          /\ fwEvents <= fwEvents' /\ fwEvents' \in 0 .. FwMaxFaults
      <4>1. CASE fwRes
        <5>1. /\ fwMem' \in [1 .. FwBlocks + 1 -> 0 .. FwPad] /\ fwRet' \in BOOLEAN
              /\ fwEvents' \in {fwEvents, fwEvents + 1} /\ fwEvents' \in 0 .. FwMaxFaults
          BY <1>0, <3>1, <3>2, <4>1, FwWriteFacts, Zenon
        <5> QED
          BY <1>n, <5>1 DEF FwNumbers
      <4>2. CASE ~fwRes
        <5>1. UNCHANGED <<fwMem, fwRet, fwEvents>>
          BY <3>1, <4>2, Zenon DEF FwNoFault
        <5>2. fwRet \in BOOLEAN
          BY <1>0, Zenon DEF FwScalars, FwFlags
        <5> QED
          BY <1>0, <1>n, <5>1, <5>2 DEF FwNumbers
      <4> QED
        BY <4>1, <4>2
    <3>4. FwScalars'
      <4>1. FwFlags'
        BY <1>0, <2>1, <2>3, <3>1, <3>3, Zenon DEF FwScalars, FwFlags
      <4>2. FwNumbers'
        BY <1>s, <1>n, <1>c, <1>v, <2>1, <2>3, <3>1, <3>3 DEF FwNumbers, FwCounts
      <4> QED
        BY <4>1, <4>2 DEF FwScalars
    <3>5. fwSum' \subseteq 1 .. FwPad
      BY <1>0, <3>1, <3>2, Zenon
    <3>6. FwTypeOK'
      BY <1>0, <2>1, <3>3, <3>4, <3>5, Zenon DEF FwTypeOK, FwScalars, FwNumbers, FwFlags
    <3>7. FwSize' = FwSize
      BY <2>1, Zenon DEF FwSize
    <3>8. FwCounts'
      BY <1>s, <1>n, <1>c, <1>v, <2>1, <2>3, <3>1, <3>3, <3>4, <3>7 DEF FwNumbers, FwCounts
    <3> QED
      BY <3>6, <3>8 DEF FwTypeInv
  <2> QED
    BY <2>2, <2>3
<1>6. CASE FwStart
  <2>1. /\ fwPc = "start"
        /\ UNCHANGED <<fwVia, fwUsb, fwLast, fwPos, fwAddr, fwMem, fwSum, fwFolds, fwTotal,
                       fwBuffer, fwBefore, fwClean>>
        /\ fwRes' \in {FALSE, fwRes}
        /\ \/ /\ FwNoFault /\ fwLeft' = fwLeft - 1 /\ fwRet' = TRUE
              /\ fwPc' = IF fwLeft = 1 THEN "done" ELSE "attempt"
           \/ FwFault("mcu") /\ fwPc' = "done" /\ fwRet' = TRUE /\ UNCHANGED fwLeft
           \/ FwNoFault /\ fwPc' = "check" /\ UNCHANGED <<fwLeft, fwRet>>
    BY <1>6, Zenon DEF FwStart, FwAgain, FwOut, fwInput, fwHist
  <2>2. fwEvents' \in 0 .. FwMaxFaults /\ fwEvents <= fwEvents'
    BY <1>0, <2>1, FwFaultFacts, Zenon
  <2>3. FwScalars'
    <3>1. FwFlags'
      BY <1>0, <2>1, <2>2, Zenon DEF FwScalars, FwFlags
    <3>2. FwNumbers'
      BY <1>s, <1>n, <1>c, <1>v, <2>1, <2>2 DEF FwNumbers, FwCounts
    <3> QED
      BY <3>1, <3>2 DEF FwScalars
  <2>4. FwTypeOK'
    BY <2>1, <2>3, <1>0, FwTypeEasy, Zenon
  <2>5. FwSize' = FwSize
    BY <2>1, Zenon DEF FwSize
  <2>6. FwCounts'
    BY <1>s, <1>n, <1>c, <1>v, <2>1, <2>2, <2>3, <2>5 DEF FwNumbers, FwCounts
  <2> QED
    BY <2>4, <2>6 DEF FwTypeInv
<1>7. CASE FwCheck
  <2>1. /\ fwPc = "check"
        /\ UNCHANGED <<fwVia, fwUsb, fwLast, fwPos, fwAddr, fwMem, fwSum, fwFolds, fwTotal,
                       fwRes, fwBuffer, fwEvents, fwBefore>>
        /\ \/ fwPc' = "done" /\ fwRet' = FALSE /\ UNCHANGED fwLeft
           \/ /\ fwLeft' = fwLeft - 1 /\ fwRet' = TRUE
              /\ fwPc' = IF fwLeft = 1 THEN "done" ELSE "attempt"
        /\ fwClean' \subseteq fwClean \cup {FwAttempts - fwLeft + 1}
    BY <1>7 DEF FwCheck, FwAgain, FwOut, fwInput, fwHost
  <2>2. fwLeft \in 1 .. FwAttempts
    BY <1>s, <1>n, <1>c, <1>v, <2>1 DEF FwNumbers, FwCounts
  <2>3. FwScalars'
    <3>1. FwFlags'
      BY <1>0, <2>1, <2>2, Zenon DEF FwScalars, FwFlags
    <3>2. FwNumbers'
      BY <1>s, <1>n, <2>1, <2>2 DEF FwNumbers
    <3> QED
      BY <3>1, <3>2 DEF FwScalars
  <2>4. fwClean' \subseteq 1 .. FwAttempts
    <3>1. FwAttempts - fwLeft + 1 \in 1 .. FwAttempts
      BY <1>s, <1>n, <1>0, <2>2
    <3> QED
      BY <1>0, <2>1, <3>1, Zenon
  <2>5. FwTypeOK'
    BY <1>0, <2>1, <2>3, <2>4, Zenon DEF FwTypeOK, FwScalars, FwNumbers, FwFlags
  <2>6. FwSize' = FwSize
    BY <2>1, Zenon DEF FwSize
  <2>7. FwCounts'
    BY <1>s, <1>n, <1>c, <1>v, <2>1, <2>2, <2>3, <2>6 DEF FwNumbers, FwCounts
  <2> QED
    BY <2>5, <2>7 DEF FwTypeInv
<1>8. CASE UNCHANGED fwVars
  <2>1. UNCHANGED <<fwVia, fwUsb, fwLast, fwPc, fwLeft, fwPos, fwAddr, fwMem, fwSum, fwFolds,
                    fwTotal, fwRes, fwRet, fwBuffer, fwEvents, fwBefore, fwClean>>
    BY <1>8, Zenon DEF fwVars, fwInput, fwHost, fwHist
  <2> QED
    BY <2>1 DEF FwTypeInv, FwTypeOK, FwCounts, FwSize, FwPad
<1> QED
  BY <1>1, <1>2, <1>3, <1>4, <1>5, <1>6, <1>7, <1>8, Zenon DEF FwNextStep

\* FwTypeOK: positions, addresses and counts of the download stay in range:
\* no block is written past the image's place in the chip, whatever failed
\* and however many attempts were made.
THEOREM FirmwareTypes == FwSpec => []FwTypeOK
<1>1. FwInit => FwTypeInv
  BY FwTypeInit
<1>2. FwTypeInv /\ [FwNextStep]_fwVars => FwTypeInv'
  BY FwTypeStep
<1>3. FwTypeInv => FwTypeOK
  BY DEF FwTypeInv
<1> QED
  BY <1>1, <1>2, <1>3, PTL DEF FwSpec

\* Nothing failed in this attempt so far.
FwGood == fwEvents = fwBefore

\* An attempt that begins where the image begins: of a file, only the first.
FwFresh == fwVia = "request" \/ fwLeft = FwAttempts

\* The chip has the first n blocks.
FwHas(n) == \A a \in 1 .. n : fwMem[a] = a

\* The only block that may be out of place is the last one, which is written
\* where a block before it was refused.
FwPlaced == \A a \in 1 .. FwBlocks + 1 : fwMem[a] \in {FwEmpty, a, FwBad, FwSize}

\* A file whose blocks cannot all be written is left with ret set and the
\* rest of it unread.
FwAtRest == fwVia = "openfile" => fwPos = 0 /\ fwAddr = 0 /\ fwSum = {} /\ ~fwRes /\ ~fwRet
FwAtBlock ==
  /\ fwAddr = fwPos /\ fwPos <= FwBlocks
  /\ fwVia = "openfile" => fwSum = 1 .. fwPos /\ ~fwRes /\ ~fwRet
  /\ FwGood => FwHas(fwPos) /\ (fwPos > 0 => ~fwRet)
FwAtTail ==
  /\ \/ fwVia = "request"
     \/ fwRet /\ ~fwRes
     \/ fwAddr = FwBlocks /\ fwSum = 1 .. FwBlocks /\ (fwRes <=> fwLast) /\ fwPos = FwSize
  /\ FwGood => fwAddr = FwBlocks /\ FwHas(FwBlocks) /\ ~fwRet
FwAtStart ==
  /\ fwRet \/ (fwSum = 1 .. FwSize /\ fwTotal = FwSize)
  /\ FwGood => FwHas(FwSize) /\ ~fwRet
FwAtCheck ==
  /\ fwSum = 1 .. FwSize /\ fwTotal = FwSize
  /\ FwGood => FwHas(FwSize)

FwWhich == IF fwVia = "openfile" THEN {1} ELSE 1 .. FwAttempts

FwInv ==
  /\ FwFresh /\ fwPc # "done" => FwPlaced
  /\ FwFresh /\ fwPc \in {"begin", "attempt"} => FwAtRest
  /\ FwFresh /\ fwPc = "block" => FwAtBlock
  /\ FwFresh /\ fwPc = "tail" => FwAtTail
  /\ FwFresh /\ fwPc = "start" => FwAtStart
  /\ FwFresh /\ fwPc = "check" => FwAtCheck
  /\ fwPc # "done" \/ fwRet => fwClean \cap FwWhich = {}
  /\ fwPc = "begin" => ~fwBuffer
  /\ FwLoadedRight

\* When the checksums agree, every block is there and so in its place.
LEMMA FwAgreement ==
  ASSUME FwPlaced, fwSum = 1 .. FwSize, fwTotal = FwSize, FwAgrees
  PROVE  FwHas(FwSize)
<1>1. FwSize \in {FwBlocks, FwBlocks + 1} /\ FwBlocks \in Nat /\ FwBad = FwBlocks + 2 /\ FwEmpty = 0
  BY FwSizes
<1>2. {fwMem[a] : a \in 1 .. FwSize} = 1 .. FwSize
  BY DEF FwAgrees
<1>3. ASSUME NEW a \in 1 .. FwSize PROVE fwMem[a] \in {a, FwSize}
  <2>1. fwMem[a] \in 1 .. FwSize
    BY <1>2
  <2>2. fwMem[a] \in {FwEmpty, a, FwBad, FwSize}
    BY <1>1 DEF FwPlaced
  <2> QED
    BY <1>1, <2>1, <2>2
<1>4. ASSUME NEW b \in 1 .. FwSize PROVE fwMem[b] = b
  <2>1. PICK a \in 1 .. FwSize : fwMem[a] = b
    BY <1>2
  <2>2. CASE b = FwSize
    BY <1>3, <2>2
  <2>3. CASE b # FwSize
    BY <1>3, <2>1, <2>3
  <2> QED
    BY <2>2, <2>3
<1> QED
  BY <1>4 DEF FwHas

\* The converse: a chip that has the image agrees.
LEMMA FwImageAgrees ==
  ASSUME FwHas(FwSize), fwSum = 1 .. FwSize, fwTotal = FwSize, fwFolds = 1
  PROVE  FwAgrees
<1>1. FwSize \in Nat
  BY FwSizes
<1>2. Cardinality(1 .. FwSize) = FwSize
  BY <1>1, FS_Interval
<1>3. {fwMem[a] : a \in 1 .. FwSize} = 1 .. FwSize
  BY DEF FwHas
<1> QED
  BY <1>2, <1>3 DEF FwAgrees

LEMMA FwPlacedWrite ==
  ASSUME FwTypeOK, FwPlaced, NEW b \in 0 .. FwPad, FwWrite(b), b = fwAddr + 1 \/ b = FwSize,
         UNCHANGED fwLast
  PROVE  FwPlaced'
<1>1. FwSize' = FwSize /\ FwBad' = FwBad /\ FwEmpty' = FwEmpty
  BY Zenon DEF FwSize, FwBad, FwEmpty
<1>2. ASSUME NEW a \in 1 .. FwBlocks + 1 PROVE fwMem'[a] \in {FwEmpty, a, FwBad, FwSize}
  <2>1. fwMem[a] \in {FwEmpty, a, FwBad, FwSize}
    BY DEF FwPlaced
  <2>2. CASE a # fwAddr + 1 \/ fwRet'
    BY <2>1, <2>2, FwWriteFacts, Zenon
  <2>3. CASE a = fwAddr + 1 /\ ~fwRet'
    <3>1. fwMem'[a] \in {b, FwBad}
      BY <2>3, FwWriteFacts, Zenon
    <3> QED
      BY <2>3, <3>1
  <2> QED
    BY <2>2, <2>3, Zenon
<1> QED
  BY <1>1, <1>2 DEF FwPlaced

\* One more block, without a failure.
LEMMA FwHasWrite ==
  ASSUME FwTypeOK, NEW n \in 0 .. FwBlocks, fwAddr = n, FwHas(n), FwWrite(n + 1),
         UNCHANGED fwEvents
  PROVE  ~fwRet' /\ FwHas(n + 1)'
<1>1. FwBlocks \in Nat /\ FwPad = FwBlocks + 3
  BY FwSizes
<1>2. n + 1 \in 0 .. FwPad
  BY <1>1
<1>3. /\ ~fwRet' /\ fwMem'[n + 1] = n + 1
      /\ \A a \in 1 .. FwBlocks + 1 : a # n + 1 => fwMem'[a] = fwMem[a]
  BY <1>2, FwWriteFacts, Zenon
<1>4. ASSUME NEW a \in 1 .. n + 1 PROVE fwMem'[a] = a
  BY <1>1, <1>3 DEF FwHas
<1> QED
  BY <1>3, <1>4 DEF FwHas

\* What the invariant asks of a step, by where it leads.
LEMMA FwInvTo ==
  ASSUME FwInv, fwPc # "done", UNCHANGED <<fwVia, fwClean>>,
         fwPc' \in {"attempt", "block", "tail", "start", "check", "done"},
         fwPc' = "done" => fwRet' \/ ~fwBuffer' \/ FwHas(FwSize)',
         FwFresh' /\ fwPc' # "done" => FwPlaced',
         FwFresh' /\ fwPc' = "attempt" => FwAtRest',
         FwFresh' /\ fwPc' = "block" => FwAtBlock',
         FwFresh' /\ fwPc' = "tail" => FwAtTail',
         FwFresh' /\ fwPc' = "start" => FwAtStart',
         FwFresh' /\ fwPc' = "check" => FwAtCheck'
  PROVE  FwInv'
<1>1. FwWhich' = FwWhich /\ fwClean \cap FwWhich = {}
  BY Zenon DEF FwWhich, FwInv
<1>2. FwLoadedRight'
  BY Zenon DEF FwLoadedRight, FwHas
<1>3. fwPc' # "begin"
  OBVIOUS
<1>4. fwClean' \cap FwWhich' = {}
  BY <1>1, Zenon
<1> QED
  BY <1>2, <1>3, <1>4, Zenon DEF FwInv

\* An attempt ends: an image in memory has the next one from its start.
LEMMA FwAgainTo ==
  ASSUME FwTypeInv, FwFresh /\ fwPc # "done" => FwPlaced, fwPc # "done",
         UNCHANGED <<fwVia, fwLast, fwMem>>, fwLeft' = fwLeft - 1
  PROVE  FwFresh' => FwPlaced' /\ FwAtRest'
<1>1. fwLeft \in 0 .. FwAttempts /\ FwAttempts \in Nat
  BY FwTypeSplit, FwSizes, Zenon DEF FwTypeInv, FwScalars, FwNumbers
<1>2. fwLeft' # FwAttempts
  BY <1>1
<1>3. FwFresh' => fwVia = "request"
  BY <1>2, Zenon DEF FwFresh
<1>4. FwSize' = FwSize /\ FwBad' = FwBad /\ FwEmpty' = FwEmpty
  BY Zenon DEF FwSize, FwBad, FwEmpty
<1>5. FwFresh' => FwPlaced'
  BY <1>3, <1>4 DEF FwFresh, FwPlaced
<1>6. FwFresh' => FwAtRest'
  BY <1>3 DEF FwAtRest
<1> QED
  BY <1>5, <1>6

LEMMA FwInvStep ==
  ASSUME FwTypeInv, FwInv, [FwNextStep]_fwVars
  PROVE  FwInv'
<1>0. FwTypeOK /\ FwScalars /\ FwCounts /\ FwNumbers
  BY FwTypeSplit, Zenon DEF FwTypeInv, FwScalars
<1>s. /\ FwBlocks \in Nat \ {0} /\ FwAttempts \in Nat \ {0}
      /\ FwSize = IF fwLast THEN FwBlocks + 1 ELSE FwBlocks
      /\ FwSize \in 0 .. FwPad
  BY FwSizes
<1>v. fwVia \in {"openfile", "request"} /\ fwLast \in BOOLEAN
  BY <1>0, Zenon DEF FwScalars, FwFlags
<1>n. /\ fwLeft \in 0 .. FwAttempts /\ fwPos \in Nat /\ fwAddr \in 0 .. FwBlocks
      /\ fwEvents \in Nat /\ fwBefore \in Nat /\ fwBefore <= fwEvents
  BY <1>0 DEF FwNumbers, FwCounts
<1>p. fwPc # "done" => (FwFresh => FwPlaced)
  BY DEF FwInv
\* Names whose meaning depends on the kind of image only.
<1>l. UNCHANGED fwLast => FwSize' = FwSize /\ FwBad' = FwBad /\ FwEmpty' = FwEmpty
  <2> SUFFICES ASSUME UNCHANGED fwLast
               PROVE  FwSize' = FwSize /\ FwBad' = FwBad /\ FwEmpty' = FwEmpty
    OBVIOUS
  <2> QED
    BY Zenon DEF FwSize, FwBad, FwEmpty
<1>m. UNCHANGED <<fwLast, fwMem>> => (FwPlaced' <=> FwPlaced)
  BY <1>l DEF FwPlaced
<1>f. UNCHANGED <<fwVia, fwLeft>> => (FwFresh' <=> FwFresh)
  BY DEF FwFresh
<1>h. ASSUME NEW n, UNCHANGED fwMem PROVE FwHas(n)' <=> FwHas(n)
  BY <1>h DEF FwHas
<1>1. CASE FwBegin
  <2>1. /\ fwPc = "begin" /\ UNCHANGED <<fwVia, fwLast, fwLeft, fwPos, fwAddr, fwMem, fwClean>>
        /\ \/ fwPc' = "done" /\ fwRet' = TRUE
           \/ fwPc' = "done" /\ fwRet' = FALSE /\ UNCHANGED fwBuffer
           \/ /\ fwPc' = "attempt" /\ UNCHANGED <<fwRet, fwRes>>
              /\ fwVia # "request" => UNCHANGED fwSum
    BY <1>1, Zenon DEF FwBegin, FwOut, fwInput, fwHist
  <2>2. FwFresh' => FwPlaced'
    BY <1>f, <1>m, <1>p, <2>1
  <2>3. FwFresh' /\ fwPc' = "attempt" => FwAtRest'
    <3>1. FwFresh => FwAtRest
      BY <2>1 DEF FwInv
    <3> QED
      BY <1>f, <2>1, <3>1 DEF FwAtRest
  <2>4. ~fwBuffer
    BY <2>1 DEF FwInv
  <2> QED
    BY <2>1, <2>2, <2>3, <2>4, FwInvTo
<1>2. CASE FwAttempt
  <2>1. /\ fwPc = "attempt" /\ fwBefore' = fwEvents
        /\ UNCHANGED <<fwVia, fwLast, fwLeft, fwMem, fwSum, fwRes, fwClean>>
        /\ \/ fwPc' = "done" /\ fwRet' = TRUE
           \/ /\ fwPc' = "block" /\ fwRet' = (fwRet /\ fwUsb)
              /\ IF fwVia = "request" THEN fwPos' = 0 /\ fwAddr' = 0
                 ELSE UNCHANGED <<fwPos, fwAddr>>
    BY <1>2, Zenon DEF FwAttempt, FwOut, FwRewind, fwInput, fwHost
  <2>2. FwFresh' => FwPlaced'
    BY <1>f, <1>m, <1>p, <2>1
  <2>3. FwFresh' /\ fwPc' = "block" => FwAtBlock'
    <3> SUFFICES ASSUME FwFresh', fwPc' = "block" PROVE FwAtBlock'
      OBVIOUS
    <3>1. FwAtRest
      BY <1>f, <2>1 DEF FwInv
    <3>2. /\ fwPos' = 0 /\ fwAddr' = 0
          /\ fwVia' = "openfile" => fwSum' = {} /\ ~fwRes' /\ ~fwRet'
      BY <1>v, <2>1, <3>1 DEF FwAtRest
    <3>3. 1 .. 0 = {} /\ 0 <= FwBlocks /\ FwHas(0)'
      BY <1>s DEF FwHas
    <3>4. ASSUME NEW n, n = fwPos' PROVE FwHas(n)' /\ n = 0
      BY <3>2, <3>3, <3>4
    <3>5. FwHas(fwPos)'
      BY <3>4
    <3>6. ~(fwPos' > 0) /\ fwPos' <= FwBlocks /\ 1 .. fwPos' = {}
      BY <3>2, <3>3
    <3> QED
      BY <3>2, <3>5, <3>6 DEF FwAtBlock
  <2> QED
    BY <2>1, <2>2, <2>3, FwInvTo
<1>3. CASE FwBlock
  <2>1. /\ fwPc = "block" /\ FwWrite(fwPos + 1) /\ fwPos' = fwPos + 1 /\ fwPos < FwBlocks
        /\ fwAddr' = IF fwRet' THEN fwAddr ELSE fwAddr + 1
        /\ fwPc' = IF fwRet' THEN "tail" ELSE "block"
        /\ fwVia # "request" => /\ fwSum' = IF fwRet' THEN fwSum ELSE fwSum \cup {fwPos + 1}
                                /\ UNCHANGED fwRes
        /\ UNCHANGED <<fwVia, fwLast, fwLeft, fwBefore, fwClean>>
    BY <1>3, Zenon DEF FwBlock, FwMore, fwInput, fwHist, fwHost
  <2>2. /\ fwRet' \in BOOLEAN /\ fwEvents' \in {fwEvents, fwEvents + 1}
        /\ fwEvents' = fwEvents => ~fwRet'
    <3>1. fwPos + 1 \in 0 .. FwPad
      BY <1>n, <1>s, <2>1, FwSizes
    <3> QED
      BY <1>0, <2>1, <3>1, FwWriteFacts, Zenon
  <2>3. FwGood' => UNCHANGED fwEvents /\ FwGood
    BY <1>n, <2>1, <2>2 DEF FwGood
  <2>4. FwFresh => FwAtBlock
    BY <2>1 DEF FwInv
  <2>5. FwFresh' => FwPlaced'
    <3> SUFFICES ASSUME FwFresh' PROVE FwPlaced'
      OBVIOUS
    <3>1. FwPlaced /\ fwPos + 1 = fwAddr + 1 /\ fwPos + 1 \in 0 .. FwPad
      BY <1>f, <1>n, <1>p, <1>s, <2>1, <2>4, FwSizes DEF FwAtBlock
    <3> QED
      BY <1>0, <2>1, <3>1, FwPlacedWrite
  <2>6. FwFresh' /\ fwPc' = "block" => FwAtBlock'
    <3> SUFFICES ASSUME FwFresh', fwPc' = "block" PROVE FwAtBlock'
      OBVIOUS
    <3>1. FwAtBlock /\ ~fwRet'
      BY <1>f, <2>1, <2>2, <2>4
    <3>2. fwAddr' = fwPos' /\ fwPos' <= FwBlocks
      BY <1>n, <1>s, <2>1, <3>1 DEF FwAtBlock
    <3>3. fwVia' = "openfile" => fwSum' = 1 .. fwPos' /\ ~fwRes'
      <4>1. (1 .. fwPos) \cup {fwPos + 1} = 1 .. fwPos + 1
        BY <1>n
      <4> QED
        BY <2>1, <3>1, <4>1 DEF FwAtBlock
    <3>4. ASSUME FwGood' PROVE FwHas(fwPos)'
      <4>1. fwPos \in 0 .. FwBlocks /\ fwAddr = fwPos /\ FwHas(fwPos)
        BY <1>n, <2>1, <2>3, <3>1, <3>4 DEF FwAtBlock
      <4>2. ASSUME NEW n, n = fwPos PROVE FwHas(n + 1)'
        BY <1>0, <2>1, <2>3, <3>4, <4>1, <4>2, FwHasWrite
      <4>3. ASSUME NEW n, n = fwPos' PROVE FwHas(n)'
        BY <2>1, <4>2, <4>3
      <4> QED
        BY <4>3
    <3> QED
      BY <3>1, <3>2, <3>3, <3>4 DEF FwAtBlock
  <2>7. FwFresh' /\ fwPc' = "tail" => FwAtTail'
    <3> SUFFICES ASSUME FwFresh', fwPc' = "tail" PROVE FwAtTail'
      OBVIOUS
    <3>1. FwAtBlock /\ fwRet'
      BY <1>f, <2>1, <2>2, <2>4
    <3>2. ~FwGood'
      BY <2>2, <2>3, <3>1
    <3>3. fwVia' = "request" \/ ~fwRes'
      BY <1>v, <2>1, <3>1 DEF FwAtBlock
    <3> QED
      BY <3>1, <3>2, <3>3 DEF FwAtTail
  <2> QED
    BY <2>1, <2>5, <2>6, <2>7, FwInvTo
<1>4. CASE FwBlocksDone
  <2>1. /\ fwPc = "block" /\ fwPc' = "tail" /\ ~(fwPos < FwBlocks)
        /\ IF fwVia = "openfile" /\ fwLast /\ fwPos = FwBlocks
           THEN fwPos' = fwPos + 1 /\ fwRes' = TRUE
           ELSE UNCHANGED <<fwPos, fwRes>>
        /\ UNCHANGED <<fwVia, fwLast, fwLeft, fwAddr, fwMem, fwSum, fwRet, fwEvents, fwBefore,
                       fwClean>>
    BY <1>4, Zenon DEF FwBlocksDone, FwMore, fwInput, fwHist
  <2>2. FwFresh' => FwPlaced'
    BY <1>f, <1>m, <1>p, <2>1
  <2>3. FwFresh' => FwAtTail'
    <3> SUFFICES ASSUME FwFresh' PROVE FwAtTail'
      OBVIOUS
    <3>1. FwAtBlock
      BY <1>f, <2>1 DEF FwInv
    <3>2. fwPos = FwBlocks /\ fwAddr = FwBlocks /\ FwBlocks > 0
      BY <1>n, <1>s, <2>1, <3>1 DEF FwAtBlock
    <3>3. FwGood' => fwAddr' = FwBlocks /\ FwHas(FwBlocks)' /\ ~fwRet'
      BY <1>h, <2>1, <3>1, <3>2 DEF FwAtBlock, FwGood
    <3>4. ASSUME fwVia # "request"
          PROVE  /\ fwAddr' = FwBlocks /\ fwSum' = 1 .. FwBlocks /\ (fwRes' <=> fwLast')
                 /\ fwPos' = FwSize'
      <4>1. fwVia = "openfile" /\ fwSum = 1 .. FwBlocks /\ ~fwRes
        BY <1>v, <3>1, <3>2, <3>4 DEF FwAtBlock
      <4>2. CASE fwLast
        BY <1>l, <1>s, <2>1, <3>2, <4>1, <4>2
      <4>3. CASE ~fwLast
        BY <1>l, <1>s, <2>1, <3>2, <4>1, <4>3
      <4> QED
        BY <4>2, <4>3
    <3> QED
      BY <2>1, <3>3, <3>4 DEF FwAtTail
  <2> QED
    BY <2>1, <2>2, <2>3, FwInvTo
<1>5. CASE FwTail
  <2> DEFINE b == IF FwSize \in fwSum THEN FwPad ELSE FwSize
  <2>1. /\ fwPc = "tail"
        /\ UNCHANGED <<fwVia, fwLast, fwLeft, fwPos, fwAddr, fwTotal, fwRes, fwBefore, fwClean>>
    BY <1>5, Zenon DEF FwTail, fwInput, fwHist
  <2>2. FwFresh => FwAtTail /\ FwPlaced
    BY <2>1 DEF FwInv
  <2>3. CASE fwVia = "request"
    <3>1. /\ IF fwLast THEN FwWrite(FwSize) ELSE FwNoFault /\ UNCHANGED <<fwMem, fwRet>>
          /\ fwPc' = IF fwLast /\ fwRet' THEN "done" ELSE "start"
          /\ UNCHANGED fwSum
      BY <1>5, <2>3, Zenon DEF FwTail
    <3>2. FwAtTail /\ FwPlaced /\ fwSum = 1 .. FwSize /\ fwTotal = FwSize
      BY <1>0, <2>1, <2>2, <2>3 DEF FwFresh, FwCounts
    <3>3. FwPlaced'
      <4>1. CASE fwLast
        BY <1>0, <1>s, <2>1, <3>1, <3>2, <4>1, FwPlacedWrite
      <4>2. CASE ~fwLast
        BY <1>m, <2>1, <3>1, <3>2, <4>2
      <4> QED
        BY <4>1, <4>2
    <3>4. ASSUME FwGood' PROVE FwHas(FwSize)' /\ ~fwRet'
      <4>1. CASE fwLast
        <5>1. fwEvents' \in {fwEvents, fwEvents + 1}
          BY <1>0, <1>s, <3>1, <4>1, FwWriteFacts, Zenon
        <5>2. UNCHANGED fwEvents /\ FwGood
          BY <1>n, <2>1, <3>4, <5>1 DEF FwGood
        <5>3. fwAddr = FwBlocks /\ FwHas(FwBlocks) /\ FwSize = FwBlocks + 1 /\ FwBlocks \in 0 .. FwBlocks
          BY <1>s, <3>2, <4>1, <5>2 DEF FwAtTail
        <5>4. ~fwRet' /\ FwHas(FwBlocks + 1)'
          BY <1>0, <3>1, <4>1, <5>2, <5>3, FwHasWrite
        <5>5. ASSUME NEW n, n = FwSize' PROVE FwHas(n)'
          BY <1>l, <2>1, <5>3, <5>4, <5>5
        <5> QED
          BY <5>4, <5>5
      <4>2. CASE ~fwLast
        <5>1. UNCHANGED <<fwMem, fwRet, fwEvents>>
          BY <3>1, <4>2, Zenon DEF FwNoFault
        <5>2. FwHas(FwBlocks) /\ ~fwRet /\ FwSize = FwBlocks
          BY <1>s, <2>1, <3>2, <3>4, <4>2, <5>1 DEF FwAtTail, FwGood
        <5>3. ASSUME NEW n, n = FwSize' PROVE FwHas(n)'
          BY <1>h, <1>l, <2>1, <5>1, <5>2, <5>3
        <5> QED
          BY <5>1, <5>2, <5>3
      <4> QED
        BY <4>1, <4>2
    <3>5. FwAtStart'
      BY <1>l, <2>1, <3>1, <3>2, <3>4 DEF FwAtStart
    <3>6. fwPc' = "done" => fwRet'
      BY <3>1
    <3>7. fwPc' \in {"start", "done"}
      BY <3>1
    <3> QED
      BY <2>1, <3>3, <3>5, <3>6, <3>7, FwInvTo
  <2>4. CASE fwVia # "request"
    <3>1. /\ IF fwRes THEN FwWrite(b) ELSE FwNoFault /\ UNCHANGED <<fwMem, fwRet>>
          /\ fwSum' = fwSum \cup IF fwRes THEN {b} ELSE {}
          /\ fwPc' = "start"
      BY <1>5, <2>4, Zenon DEF FwTail
    <3>2. FwFresh' => FwPlaced' /\ FwAtStart'
      <4> SUFFICES ASSUME FwFresh' PROVE FwPlaced' /\ FwAtStart'
        OBVIOUS
      <4>1. FwAtTail /\ FwPlaced
        BY <1>f, <2>1, <2>2
      <4>2. CASE fwRet /\ ~fwRes
        <5>1. UNCHANGED <<fwMem, fwRet, fwEvents>>
          BY <3>1, <4>2, Zenon DEF FwNoFault
        <5>2. ~FwGood'
          BY <2>1, <4>1, <4>2, <5>1 DEF FwAtTail, FwGood
        <5> QED
          BY <1>m, <2>1, <4>1, <4>2, <5>1, <5>2 DEF FwAtStart
      <4>3. CASE ~(fwRet /\ ~fwRes)
        <5>1. fwAddr = FwBlocks /\ fwSum = 1 .. FwBlocks /\ (fwRes <=> fwLast) /\ fwPos = FwSize
          BY <2>4, <4>1, <4>3 DEF FwAtTail
        <5>2. fwTotal' = FwSize'
          BY <1>0, <1>l, <1>v, <2>1, <2>4, <5>1 DEF FwCounts
        <5>3. CASE fwRes
          <6>1. FwSize = FwBlocks + 1 /\ b = FwSize /\ FwBlocks \in 0 .. FwBlocks
            BY <1>s, <5>1, <5>3
          <6>2. FwWrite(FwSize) /\ fwSum' = 1 .. FwSize'
            <7>1. (1 .. FwBlocks) \cup {FwBlocks + 1} = 1 .. FwBlocks + 1
              BY <1>s
            <7> QED
              BY <1>l, <2>1, <3>1, <5>1, <5>3, <6>1, <7>1
          <6>3. FwPlaced'
            BY <1>0, <1>s, <2>1, <4>1, <6>2, FwPlacedWrite
          <6>4. ASSUME FwGood' PROVE FwHas(FwSize)' /\ ~fwRet'
            <7>1. fwEvents' \in {fwEvents, fwEvents + 1}
              BY <1>0, <1>s, <6>2, FwWriteFacts, Zenon
            <7>2. UNCHANGED fwEvents /\ FwGood
              BY <1>n, <2>1, <6>4, <7>1 DEF FwGood
            <7>3. FwHas(FwBlocks)
              BY <4>1, <7>2 DEF FwAtTail
            <7>4. ~fwRet' /\ FwHas(FwBlocks + 1)'
              BY <1>0, <5>1, <6>1, <6>2, <7>2, <7>3, FwHasWrite
            <7>5. ASSUME NEW n, n = FwSize' PROVE FwHas(n)'
              BY <1>l, <2>1, <6>1, <7>4, <7>5
            <7> QED
              BY <7>4, <7>5
          <6> QED
            BY <5>2, <6>2, <6>3, <6>4 DEF FwAtStart
        <5>4. CASE ~fwRes
          <6>1. UNCHANGED <<fwMem, fwRet, fwEvents, fwSum>> /\ FwSize = FwBlocks
            BY <1>s, <3>1, <5>1, <5>4 DEF FwNoFault
          <6>2. ASSUME FwGood' PROVE FwHas(FwSize)' /\ ~fwRet'
            <7>1. FwHas(FwSize) /\ ~fwRet
              BY <2>1, <4>1, <6>1, <6>2 DEF FwAtTail, FwGood
            <7>2. ASSUME NEW n, n = FwSize' PROVE FwHas(n)'
              BY <1>h, <1>l, <2>1, <6>1, <7>1, <7>2
            <7> QED
              BY <6>1, <7>1, <7>2
          <6> QED
            BY <1>l, <1>m, <2>1, <4>1, <5>1, <5>2, <6>1, <6>2 DEF FwAtStart
        <5> QED
          BY <5>3, <5>4
      <4> QED
        BY <4>2, <4>3
    <3> QED
      BY <2>1, <3>1, <3>2, FwInvTo
  <2> QED
    BY <2>3, <2>4
<1>6. CASE FwStart
  <2>1. /\ fwPc = "start"
        /\ UNCHANGED <<fwVia, fwLast, fwMem, fwSum, fwTotal, fwBefore, fwClean>>
        /\ \/ /\ fwLeft' = fwLeft - 1 /\ fwRet' = TRUE
              /\ fwPc' = IF fwLeft = 1 THEN "done" ELSE "attempt"
           \/ fwPc' = "done" /\ fwRet' = TRUE
           \/ ~fwRet /\ FwNoFault /\ fwPc' = "check" /\ UNCHANGED <<fwLeft, fwRet>>
    BY <1>6, Zenon DEF FwStart, FwAgain, FwOut, fwInput, fwHist
  <2>2. FwFresh => FwAtStart
    BY <2>1 DEF FwInv
  <2>3. CASE fwPc' = "attempt" /\ fwLeft' = fwLeft - 1
    BY <1>p, <2>1, <2>3, FwAgainTo, FwInvTo
  <2>4. CASE fwPc' = "done" /\ fwRet' = TRUE
    BY <2>1, <2>4, FwInvTo
  <2>5. CASE ~fwRet /\ FwNoFault /\ fwPc' = "check" /\ UNCHANGED <<fwLeft, fwRet>>
    <3>1. FwFresh' => FwPlaced'
      BY <1>f, <1>m, <1>p, <2>1, <2>5
    <3>2. FwFresh' => FwAtCheck'
      <4> SUFFICES ASSUME FwFresh' PROVE FwAtCheck'
        OBVIOUS
      <4>1. FwAtStart /\ UNCHANGED fwEvents
        BY <1>f, <2>1, <2>2, <2>5 DEF FwNoFault
      <4>2. ASSUME FwGood', NEW n, n = FwSize' PROVE FwHas(n)'
        BY <1>h, <1>l, <2>1, <4>1, <4>2 DEF FwAtStart, FwGood
      <4> QED
        BY <1>l, <2>1, <2>5, <4>1, <4>2 DEF FwAtStart, FwAtCheck
    <3> QED
      BY <2>1, <2>5, <3>1, <3>2, FwInvTo
  <2> QED
    BY <2>1, <2>3, <2>4, <2>5
<1>7. CASE FwCheck
  <2>1. /\ fwPc = "check"
        /\ UNCHANGED <<fwVia, fwLast, fwMem, fwSum, fwTotal, fwFolds, fwBuffer, fwEvents, fwBefore>>
        /\ IF FwAgrees THEN fwPc' = "done" /\ fwRet' = FALSE
           ELSE /\ fwLeft' = fwLeft - 1 /\ fwRet' = TRUE
                /\ fwPc' = IF fwLeft = 1 THEN "done" ELSE "attempt"
        /\ fwClean' = IF fwEvents = fwBefore THEN fwClean \cup {FwAttempts - fwLeft + 1}
                      ELSE fwClean
    BY <1>7, Zenon DEF FwCheck, FwAgain, FwOut, fwInput, fwHost
  <2>2. FwFresh => FwAtCheck /\ FwPlaced
    BY <2>1 DEF FwInv
  <2>3. fwLeft >= 1 /\ (fwVia = "openfile" => fwFolds = (FwAttempts - fwLeft) + 1)
        /\ (fwVia = "request" => fwFolds = 1)
    BY <1>0, <2>1 DEF FwCounts
  \* A file is right or not at all after the first attempt.
  <2>4. ~FwFresh => fwFolds # 1 /\ fwVia = "openfile" /\ FwAttempts - fwLeft + 1 # 1
    BY <1>n, <1>s, <1>v, <2>3 DEF FwFresh
  <2>5. FwFresh => fwFolds = 1
    BY <1>n, <1>s, <1>v, <2>3 DEF FwFresh
  <2>6. CASE FwAgrees
    <3>1. FwFresh
      BY <2>4, <2>6 DEF FwAgrees
    <3>2. FwHas(FwSize)
      BY <2>2, <2>6, <3>1, FwAgreement DEF FwAtCheck
    <3>3. FwLoadedRight'
      BY <1>l, <2>1, <3>2 DEF FwLoadedRight, FwHas
    <3>4. fwPc' = "done" /\ ~fwRet'
      BY <2>1, <2>6
    <3> QED
      BY <3>3, <3>4, Zenon DEF FwInv
  <2>7. CASE ~FwAgrees
    <3>1. fwClean' \cap FwWhich' = {}
      <4>1. FwWhich' = FwWhich /\ fwClean \cap FwWhich = {}
        BY <2>1 DEF FwWhich, FwInv
      <4>2. CASE fwEvents = fwBefore
        <5>1. ~FwFresh
          BY <2>2, <2>5, <2>7, <4>2, FwImageAgrees DEF FwAtCheck, FwGood
        <5>2. FwWhich = {1} /\ FwAttempts - fwLeft + 1 \notin {1}
          BY <2>4, <5>1 DEF FwWhich
        <5>3. fwClean' = fwClean \cup {FwAttempts - fwLeft + 1}
          BY <2>1, <4>2
        <5> QED
          BY <4>1, <5>2, <5>3, Zenon
      <4>3. CASE fwEvents # fwBefore
        BY <2>1, <4>1, <4>3
      <4> QED
        BY <4>2, <4>3
    <3>2. FwFresh' => FwPlaced' /\ FwAtRest'
      BY <1>p, <2>1, <2>7, FwAgainTo
    <3>3. fwPc' \in {"attempt", "done"} /\ fwRet'
      BY <2>1, <2>7
    <3>4. FwLoadedRight'
      BY <3>3 DEF FwLoadedRight
    <3> QED
      BY <3>1, <3>2, <3>3, <3>4 DEF FwInv
  <2> QED
    BY <2>6, <2>7
<1>8. CASE UNCHANGED fwVars
  <2>1. UNCHANGED <<fwVia, fwUsb, fwLast, fwPc, fwLeft, fwPos, fwAddr, fwMem, fwSum, fwFolds,
                    fwTotal, fwRes, fwRet, fwBuffer, fwEvents, fwBefore, fwClean>>
    BY <1>8, Zenon DEF fwVars, fwInput, fwHost, fwHist
  <2>2. /\ FwWhich' = FwWhich
        /\ FwGood' <=> FwGood
        /\ FwAtRest' <=> FwAtRest
        /\ FwLoadedRight' <=> FwLoadedRight
    BY <2>1, <1>l DEF FwAtRest, FwWhich, FwGood, FwLoadedRight
  <2>3. FwAtBlock' <=> FwAtBlock
    BY <2>1, <2>2 DEF FwAtBlock, FwHas
  <2>4. FwAtTail' <=> FwAtTail
    BY <1>l, <2>1, <2>2, Zenon DEF FwAtTail, FwHas
  <2>5. FwHas(FwSize)' <=> FwHas(FwSize)
    BY <1>l, <2>1 DEF FwHas
  <2>6. FwAtStart' <=> FwAtStart
    BY <1>l, <2>1, <2>2, <2>5, Zenon DEF FwAtStart
  <2>7. FwAtCheck' <=> FwAtCheck
    BY <1>l, <2>1, <2>2, <2>5, Zenon DEF FwAtCheck
  <2>8. (FwFresh' <=> FwFresh) /\ (FwPlaced' <=> FwPlaced)
    BY <1>f, <1>m, <2>1
  <2> QED
    BY <2>1, <2>2, <2>3, <2>4, <2>6, <2>7, <2>8, Zenon DEF FwInv
<1> QED
  BY <1>1, <1>2, <1>3, <1>4, <1>5, <1>6, <1>7, <1>8, Zenon DEF FwNextStep

LEMMA FwInvInit == FwInit => FwInv
<1> SUFFICES ASSUME FwInit PROVE FwInv
  OBVIOUS
<1>1. /\ fwPc = "begin" /\ fwPos = 0 /\ fwAddr = 0 /\ fwSum = {} /\ ~fwRes /\ ~fwRet /\ ~fwBuffer
      /\ fwClean = {} /\ fwMem = [a \in 1 .. FwBlocks + 1 |-> FwEmpty]
  BY Zenon DEF FwInit
<1>2. FwAtRest /\ FwPlaced
  BY <1>1 DEF FwAtRest, FwPlaced
<1>3. FwLoadedRight
  BY <1>1 DEF FwLoadedRight
<1> QED
  BY <1>1, <1>2, <1>3 DEF FwInv

\* FwLoadedRight: a download that reports success, and had its buffer, left
\* every block of the image in its place in the chip, for images of every
\* length, every number of attempts and every failure of a block
\* (ssv6xxx_hci_load_firmware_openfile and _request of src/hci/ssv_hci.c).
THEOREM FirmwareIsRight == FwSpec => []FwLoadedRight
<1>1. FwInit => FwTypeInv /\ FwInv
  BY FwTypeInit, FwInvInit
<1>2. FwTypeInv /\ FwInv /\ [FwNextStep]_fwVars => (FwTypeInv /\ FwInv)'
  BY FwTypeStep, FwInvStep
<1>3. FwInv => FwLoadedRight
  BY DEF FwInv
<1> QED
  BY <1>1, <1>2, <1>3, PTL DEF FwSpec

\* FwRetryWorks: an attempt that nothing went wrong in makes the download
\* succeed, whatever the attempts before it left in the chip, for an image in
\* memory; for a file this is true of the first attempt.
THEOREM FirmwareRetryWorks == FwSpec => []FwRetryWorks
<1>1. FwInit => FwTypeInv /\ FwInv
  BY FwTypeInit, FwInvInit
<1>2. FwTypeInv /\ FwInv /\ [FwNextStep]_fwVars => (FwTypeInv /\ FwInv)'
  BY FwTypeStep, FwInvStep
<1>3. FwInv => FwRetryWorks
  BY DEF FwInv, FwWhich, FwRetryWorks
<1> QED
  BY <1>1, <1>2, <1>3, PTL DEF FwSpec
-----------------------------------------------------------------------------
(* CryptoPipe                                                              *)

LEMMA CpReadyIs ==
  ASSUME CpAssumption, CpTypeOK
  PROVE  \E n \in 0 .. Len(cpCrypted) : CpReady = SubSeq(cpCrypted, 1, n)
<1> DEFINE K == {k \in 0 .. Len(cpCrypted) :
                   \A j \in 1 .. k : cpSt[cpCrypted[j]] = "done"}
           L == K \ {0}
<1>1. Len(cpCrypted) \in Nat
  BY LenProperties, Zenon DEF CpTypeOK
<1>2. \E k \in K : \A j \in K : k >= j
  <2>1. CASE L = {}
    <3>1. 0 \in K /\ \A j \in K : 0 >= j
      BY <1>1, <2>1
    <3> QED
      BY <3>1, Zenon
  <2>2. CASE L # {}
    <3>1. L \in SUBSET (1 .. Len(cpCrypted))
      BY <1>1
    <3>2. PICK k \in L : \A j \in L : j <= k
      BY <1>1, <2>2, <3>1, GreatestIndex, Zenon
    <3>3. \A j \in K : k >= j
      BY <1>1, <3>1, <3>2
    <3> QED
      BY <3>3
  <2> QED
    BY <2>1, <2>2
<1>3. Max(K) \in K
  BY <1>2, Zenon DEF Max
<1>4. CpReady = SubSeq(cpCrypted, 1, Max(K))
  BY Zenon DEF CpReady
<1> QED
  BY <1>3, <1>4, Zenon

\* What is taken out of the queues.
LEMMA CpQueueFacts ==
  ASSUME CpAssumption, CpTypeOK
  PROVE  /\ CpReady \in Seq(1 .. CpPackets)
         /\ \A R : /\ Without(cpPre, R) \in Seq(1 .. CpPackets)
                   /\ ToSet(Without(cpPre, R)) \subseteq ToSet(cpPre) \ R
                   /\ Without(cpCrypted, R) \in Seq(1 .. CpPackets)
                   /\ ToSet(Without(cpCrypted, R)) \subseteq ToSet(cpCrypted) \ R
                   /\ Only(CpReady, R) \in Seq(1 .. CpPackets)
                   /\ ToSet(Only(CpReady, R)) \subseteq ToSet(CpReady) \cap R
<1>1. cpPre \in Seq(1 .. CpPackets) /\ cpCrypted \in Seq(1 .. CpPackets)
  BY Zenon DEF CpTypeOK
<1>2. PICK n \in 0 .. Len(cpCrypted) : CpReady = SubSeq(cpCrypted, 1, n)
  BY CpReadyIs, Zenon
<1>3. CpReady \in Seq(1 .. CpPackets)
  BY <1>1, <1>2, PartsOfSeq, Zenon
<1> QED
  BY <1>1, <1>3, WithoutMembers, OnlyMembers, Zenon

CpWorks(w) == cpPc[w] \in {"crypt", "unlink"}

\* A task in the middle of its work has a packet, and the cleaner counts the
\* tasks from 1.
CpHands ==
  /\ \A w \in CpTasks : CpWorks(w) => cpHand[w] \in 1 .. CpPackets
  /\ cpClean.at = "scan" => cpClean.k # 0
CpTypeInv == CpTypeOK /\ CpHands

\* Types.
LEMMA CpTypeStep ==
  ASSUME CpAssumption, CpTypeOK, CpHands, [CpNextStep]_cpVars
  PROVE  CpTypeOK'
<1>0. CpAssumption /\ CpTypeOK
  OBVIOUS
<1>a. /\ \A w \in CpTasks : CpWorks(w) => cpHand[w] \in 1 .. CpPackets
      /\ cpClean.at = "scan" => cpClean.k # 0
  BY Zenon DEF CpHands
<1> USE DEF CpTypeOK, CpAssumption
<1> DEFINE P == 1 .. CpPackets
<1>1. CASE CpArrive
  <2>1. /\ cpNext <= CpPackets /\ cpPre' = Append(cpPre, cpNext) /\ cpNext' = cpNext + 1
        /\ cpPc' = [w \in CpTasks |-> IF w \in CpChosen(cpNext) /\ cpPc[w] = "asleep"
                                      THEN "wait" ELSE cpPc[w]]
        /\ UNCHANGED <<cpCrypted, cpSt, cpHand, cpRunning, cpEnds, cpCleaner, cpEvents>>
    BY <1>1, Zenon DEF CpArrive, CpWake
  <2>2. cpNext \in P /\ cpNext' \in 1 .. CpPackets + 1
    BY <2>1
  <2>3. cpPre' \in Seq(P)
    BY <2>1, <2>2, AppendMembers, Zenon
  <2>4. cpPc' \in [CpTasks -> CpPcs]
    BY <2>1, Zenon DEF CpPcs
  <2> QED
    BY <2>1, <2>2, <2>3, <2>4, Zenon DEF cpEnds, cpCleaner
<1>2. CASE CpArrivePlain
  <2>1. /\ cpNext <= CpPackets /\ cpTx' = Append(cpTx, cpNext) /\ cpNext' = cpNext + 1
        /\ UNCHANGED <<cpQueues, cpTask, cpRx, cpFreed, cpLeaked, cpCleaner, cpEvents>>
    BY <1>2, Zenon DEF CpArrivePlain
  <2>2. cpNext \in P /\ cpNext' \in 1 .. CpPackets + 1
    BY <2>1
  <2>3. cpTx' \in Seq(P)
    BY <2>1, <2>2, AppendMembers, Zenon
  <2> QED
    BY <2>1, <2>2, <2>3, Zenon DEF cpQueues, cpTask, cpCleaner
<1>3. CASE CpArriveStrange
  <2>1. /\ cpNext <= CpPackets /\ cpLeaked' = cpLeaked \cup {cpNext} /\ cpNext' = cpNext + 1
        /\ cpEvents' = cpEvents + 1
        /\ UNCHANGED <<cpQueues, cpTask, cpTx, cpRx, cpFreed, cpCleaner>>
    BY <1>3, Zenon DEF CpArriveStrange, CpFault
  <2>2. cpNext \in P /\ cpNext' \in 1 .. CpPackets + 1 /\ cpEvents' \in Nat
    BY <2>1
  <2>3. cpLeaked' \subseteq P
    BY <2>1, <2>2, Zenon
  <2> QED
    BY <2>1, <2>2, <2>3, Zenon DEF cpQueues, cpTask, cpCleaner
<1>4. ASSUME NEW w \in CpTasks, CpTop(w) PROVE CpTypeOK'
  <2>1. /\ \E at \in CpPcs : CpGoto(w, at)
        /\ cpRunning' \in {cpRunning, cpRunning \ {w}}
        /\ UNCHANGED <<cpNext, cpQueues, cpHand, cpEnds, cpCleaner, cpEvents>>
    BY <1>4, Zenon DEF CpTop, CpPcs
  <2>2. cpPc' \in [CpTasks -> CpPcs] /\ cpRunning' \subseteq CpTasks
    BY <2>1 DEF CpGoto
  <2> QED
    BY <2>1, <2>2, Zenon DEF cpQueues, cpEnds, cpCleaner
<1>5. ASSUME NEW w \in CpTasks, CpWait(w) PROVE CpTypeOK'
  <2>1. /\ \E at \in CpPcs : CpGoto(w, at)
        /\ UNCHANGED <<cpNext, cpQueues, cpHand, cpRunning, cpEnds, cpCleaner, cpEvents>>
    BY <1>5, Zenon DEF CpWait, CpPcs
  <2>2. cpPc' \in [CpTasks -> CpPcs]
    BY <2>1 DEF CpGoto
  <2> QED
    BY <2>1, <2>2, Zenon DEF cpQueues, cpEnds, cpCleaner
<1>6. ASSUME NEW w \in CpTasks, CpTimeout(w) PROVE CpTypeOK'
  <2>1. /\ CpGoto(w, "woken") /\ cpEvents' = cpEvents + 1
        /\ cpSlipped' \in {cpSlipped, cpSlipped \cup {w}}
        /\ UNCHANGED <<cpNext, cpQueues, cpHand, cpRunning, cpEnds, cpPaused, cpClean>>
    BY <1>6, Zenon DEF CpTimeout, CpFault
  <2>2. cpPc' \in [CpTasks -> CpPcs] /\ cpSlipped' \subseteq CpTasks /\ cpEvents' \in Nat
    BY <2>1 DEF CpGoto, CpPcs
  <2> QED
    BY <2>1, <2>2, Zenon DEF cpQueues, cpEnds
<1>7. ASSUME NEW w \in CpTasks, CpWoken(w) PROVE CpTypeOK'
  <2>1. /\ CpGoto(w, "take") /\ cpRunning' = cpRunning \cup {w}
        /\ UNCHANGED <<cpNext, cpQueues, cpHand, cpEnds, cpCleaner, cpEvents>>
    BY <1>7, Zenon DEF CpWoken
  <2>2. cpPc' \in [CpTasks -> CpPcs] /\ cpRunning' \subseteq CpTasks
    BY <2>1 DEF CpGoto, CpPcs
  <2> QED
    BY <2>1, <2>2, Zenon DEF cpQueues, cpEnds, cpCleaner
<1>8. ASSUME NEW w \in CpTasks, CpTake(w) PROVE CpTypeOK'
  <2>1. /\ \E at \in CpPcs : CpGoto(w, at)
        /\ \/ UNCHANGED <<cpPre, cpCrypted, cpHand>>
           \/ /\ cpPre # <<>> /\ cpHand' = [cpHand EXCEPT ![w] = Head(cpPre)]
              /\ cpCrypted' = Append(cpCrypted, Head(cpPre)) /\ cpPre' = Tail(cpPre)
        /\ UNCHANGED <<cpNext, cpSt, cpRunning, cpEnds, cpCleaner, cpEvents>>
    BY <1>8, Zenon DEF CpTake, CpPcs
  <2>2. cpPc' \in [CpTasks -> CpPcs]
    BY <2>1 DEF CpGoto
  <2>3. CASE UNCHANGED <<cpPre, cpCrypted, cpHand>>
    BY <2>1, <2>2, <2>3, Zenon DEF cpEnds, cpCleaner
  <2>4. CASE /\ cpPre # <<>> /\ cpHand' = [cpHand EXCEPT ![w] = Head(cpPre)]
             /\ cpCrypted' = Append(cpCrypted, Head(cpPre)) /\ cpPre' = Tail(cpPre)
    <3>1. Head(cpPre) \in P /\ cpPre' \in Seq(P)
      BY <2>4, TailMembers, Zenon
    <3>2. cpCrypted' \in Seq(P)
      BY <2>4, <3>1, AppendMembers, Zenon
    <3>3. Head(cpPre) \in 0 .. CpPackets
      BY <3>1
    <3>4. cpHand' \in [CpTasks -> 0 .. CpPackets]
      BY <2>4, <3>3, Zenon
    <3> QED
      BY <2>1, <2>2, <3>1, <3>2, <3>4, Zenon DEF cpEnds, cpCleaner
  <2> QED
    BY <2>1, <2>3, <2>4
<1>9. ASSUME NEW w \in CpTasks, CpCrypt(w) PROVE CpTypeOK'
  <2>1. /\ CpGoto(w, "drain") /\ cpSt' = [cpSt EXCEPT ![cpHand[w]] = "done"]
        /\ cpHand' = [cpHand EXCEPT ![w] = CpNone]
        /\ UNCHANGED <<cpNext, cpPre, cpCrypted, cpRunning, cpEnds, cpCleaner, cpEvents>>
    BY <1>9, Zenon DEF CpCrypt
  <2>2. cpPc' \in [CpTasks -> CpPcs] /\ cpSt' \in [P -> {"pre", "done", "fail"}]
    BY <2>1 DEF CpGoto, CpPcs
  <2>3. cpHand' \in [CpTasks -> 0 .. CpPackets]
    BY <2>1 DEF CpNone
  <2> QED
    BY <2>1, <2>2, <2>3, Zenon DEF cpEnds, cpCleaner
<1>10. ASSUME NEW w \in CpTasks, CpCryptFails(w) PROVE CpTypeOK'
  <2>1. /\ CpGoto(w, "unlink") /\ cpSt' = [cpSt EXCEPT ![cpHand[w]] = "fail"]
        /\ cpEvents' = cpEvents + 1
        /\ UNCHANGED <<cpNext, cpPre, cpCrypted, cpHand, cpRunning, cpEnds, cpCleaner>>
    BY <1>10, Zenon DEF CpCryptFails, CpFault
  <2>2. /\ cpPc' \in [CpTasks -> CpPcs] /\ cpSt' \in [P -> {"pre", "done", "fail"}]
        /\ cpEvents' \in Nat
    <3>1. cpPc' \in [CpTasks -> CpPcs]
      BY <2>1 DEF CpGoto, CpPcs
    <3>2. cpSt' \in [P -> {"pre", "done", "fail"}]
      BY <2>1, Zenon
    <3>3. cpEvents' \in Nat
      BY <2>1
    <3> QED
      BY <3>1, <3>2, <3>3
  <2> QED
    BY <2>1, <2>2, Zenon DEF cpEnds, cpCleaner
<1>11. ASSUME NEW w \in CpTasks, CpUnlink(w) PROVE CpTypeOK'
  <2>1. /\ CpGoto(w, "drain") /\ cpCrypted' = Without(cpCrypted, {cpHand[w]})
        /\ cpFreed' = cpFreed \cup {cpHand[w]}
        /\ cpHand' = [cpHand EXCEPT ![w] = CpNone]
        /\ UNCHANGED <<cpNext, cpPre, cpSt, cpRunning, cpTx, cpRx, cpLeaked, cpCleaner, cpEvents>>
    BY <1>11, Zenon DEF CpUnlink, CpAfterFailure
  <2>a. cpHand[w] \in P
    BY <1>11, <1>a, Zenon DEF CpUnlink, CpAt, CpWorks
  <2>2. cpPc' \in [CpTasks -> CpPcs] /\ cpHand' \in [CpTasks -> 0 .. CpPackets]
    BY <2>1 DEF CpGoto, CpPcs, CpNone
  <2>3. cpCrypted' \in Seq(P) /\ cpFreed' \subseteq P
    BY <1>0, <2>a, <2>1, CpQueueFacts, Zenon
  <2> QED
    BY <2>1, <2>2, <2>3, Zenon DEF cpCleaner
<1>12. ASSUME NEW w \in CpTasks, CpDrain(w) PROVE CpTypeOK'
  <2>1. /\ CpGoto(w, "top") /\ cpCrypted' = Without(cpCrypted, ToSet(CpReady))
        /\ cpTx' = cpTx \o Only(CpReady, CpOfKind("enc"))
        /\ cpRx' = cpRx \o Only(CpReady, CpOfKind("dec"))
        /\ UNCHANGED <<cpNext, cpPre, cpSt, cpHand, cpRunning, cpFreed, cpLeaked, cpCleaner,
                       cpEvents>>
    BY <1>12, Zenon DEF CpDrain
  <2>2. cpPc' \in [CpTasks -> CpPcs]
    BY <2>1 DEF CpGoto, CpPcs
  <2>3. CpReady \in Seq(P)
    BY <1>0, CpQueueFacts, Zenon
  <2>a. /\ Without(cpCrypted, ToSet(CpReady)) \in Seq(P)
        /\ Only(CpReady, CpOfKind("enc")) \in Seq(P)
        /\ Only(CpReady, CpOfKind("dec")) \in Seq(P)
    BY <1>0, CpQueueFacts, Zenon
  <2>b. cpTx \o Only(CpReady, CpOfKind("enc")) \in Seq(P)
    BY <2>a, ConcatMembers, Zenon
  <2>c. cpRx \o Only(CpReady, CpOfKind("dec")) \in Seq(P)
    BY <2>a, ConcatMembers, Zenon
  <2>4. cpCrypted' \in Seq(P) /\ cpTx' \in Seq(P) /\ cpRx' \in Seq(P)
    BY <2>1, <2>a, <2>b, <2>c, Zenon
  <2> QED
    BY <2>1, <2>2, <2>4, Zenon DEF cpCleaner
<1>13. CASE CpCleanBegin
  <2>1. /\ \E cpu \in CpTasks : cpClean' = [at |-> "scan", cpu |-> cpu, k |-> 1]
        /\ cpPaused' = TRUE
        /\ UNCHANGED <<cpNext, cpQueues, cpTask, cpEnds, cpSlipped, cpEvents>>
    BY <1>13, Zenon DEF CpCleanBegin
  <2>2. cpClean' \in [at : {"idle", "scan", "over"}, cpu : 0 .. CpWorkers, k : 0 .. CpWorkers + 1]
    BY <2>1 DEF CpTasks
  <2>3. cpPaused' \in BOOLEAN
    BY <2>1, Zenon
  <2> QED
    BY <2>1, <2>2, <2>3, Zenon DEF cpQueues, cpTask, cpEnds
<1>14. CASE CpCleanScan
  <2>1. /\ cpClean.k <= CpWorkers
        /\ \/ cpClean' = [cpClean EXCEPT !.k = 1]
           \/ cpClean' = [cpClean EXCEPT !.k = @ + 1]
        /\ cpSlipped' \in {cpSlipped, cpSlipped \cup {cpClean.k}}
        /\ UNCHANGED <<cpNext, cpQueues, cpTask, cpEnds, cpPaused, cpEvents>>
    BY <1>14, Zenon DEF CpCleanScan
  <2>a. cpClean.k # 0 /\ cpClean.k \in 0 .. CpWorkers + 1
    BY <1>14, <1>0, <1>a, Zenon DEF CpCleanScan
  <2>2. cpClean.k \in CpTasks
    BY <2>1, <2>a DEF CpTasks
  <2>3. cpClean' \in [at : {"idle", "scan", "over"}, cpu : 0 .. CpWorkers, k : 0 .. CpWorkers + 1]
    <3>1. 1 \in 0 .. CpWorkers + 1 /\ cpClean.k + 1 \in 0 .. CpWorkers + 1
      BY <2>1, <2>a, CpAssumption
    <3>2. \E j \in 0 .. CpWorkers + 1 : cpClean' = [cpClean EXCEPT !.k = j]
      BY <2>1, <3>1, Zenon
    <3> QED
      BY <3>2
  <2>4. cpSlipped' \subseteq CpTasks
    BY <2>1, <2>2, Zenon
  <2> QED
    BY <2>1, <2>3, <2>4, Zenon DEF cpQueues, cpTask, cpEnds
<1>15. CASE CpCleanRemove
  <2>1. /\ cpPre' = Without(cpPre, CpStation \cap (ToSet(cpPre) \cup ToSet(cpCrypted)))
        /\ cpCrypted' = Without(cpCrypted, CpStation \cap (ToSet(cpPre) \cup ToSet(cpCrypted)))
        /\ cpFreed' = cpFreed \cup (CpStation \cap (ToSet(cpPre) \cup ToSet(cpCrypted)))
        /\ cpPaused' = FALSE /\ CpWake(CpTasks) /\ cpClean' = [cpClean EXCEPT !.at = "over"]
        /\ UNCHANGED <<cpNext, cpSt, cpHand, cpRunning, cpTx, cpRx, cpLeaked, cpSlipped, cpEvents>>
    BY <1>15, Zenon DEF CpCleanRemove
  <2>2. cpPre' \in Seq(P) /\ cpCrypted' \in Seq(P) /\ cpFreed' \subseteq P
    BY <1>0, <2>1, CpQueueFacts, Zenon
  <2>3. cpPc' \in [CpTasks -> CpPcs]
    BY <2>1, Zenon DEF CpWake, CpPcs
  <2>4. cpClean' \in [at : {"idle", "scan", "over"}, cpu : 0 .. CpWorkers, k : 0 .. CpWorkers + 1]
    BY <2>1
  <2>5. cpPaused' \in BOOLEAN
    BY <2>1, Zenon
  <2> QED
    BY <2>1, <2>2, <2>3, <2>4, <2>5, Zenon
<1>16. CASE UNCHANGED cpVars
  BY <1>16, Zenon DEF cpVars, cpQueues, cpTask, cpEnds, cpCleaner
<1>17. ASSUME NEW w \in CpTasks, CpRun(w) \/ CpTimeout(w) PROVE CpTypeOK'
  BY <1>17, <1>4, <1>5, <1>6, <1>7, <1>8, <1>9, <1>10, <1>11, <1>12, Zenon DEF CpRun
<1> QED
  BY <1>0, <1>1, <1>2, <1>3, <1>13, <1>14, <1>15, <1>16, <1>17, Zenon DEF CpNextStep

\* A packet is in one place.  What a task has in hand was numbered before
\* all that waits in preprocess_q, two tasks have not the same packet, and
\* what was freed waits nowhere.
CpPlaces ==
  /\ \A w \in CpTasks : ~CpWorks(w) => cpHand[w] = CpNone
  /\ \A w \in CpTasks : cpHand[w] < cpNext
  /\ \A v, w \in CpTasks : CpWorks(v) /\ CpWorks(w) /\ v # w => cpHand[v] # cpHand[w]
  /\ \A p \in ToSet(cpPre) : p < cpNext /\ p \notin cpFreed
  /\ \A p \in ToSet(cpPre) : \A w \in CpTasks : cpHand[w] < p
  /\ \A p \in ToSet(cpCrypted) : p < cpNext
  /\ \A p \in cpFreed : p < cpNext

\* A task between its wait and its next one has running set; and while the
\* cleaner looks at the tasks, those it has passed sleep, or slipped.
CpWatch ==
  /\ \A w \in CpTasks : cpPc[w] \in {"top", "take", "crypt", "unlink", "drain"} => w \in cpRunning
  /\ cpClean.at = "scan" =>
       /\ cpPaused
       /\ \A w \in CpTasks : w < cpClean.k /\ cpPc[w] \notin {"wait", "asleep"} => w \in cpSlipped
CpOwnInv == CpHands /\ CpPlaces /\ CpWatch /\ CpFreedInHand

LEMMA SeqOfSub ==
  ASSUME NEW n \in Nat, NEW s \in Seq(1 .. n)
  PROVE  s \in Seq(Nat)
  OBVIOUS

LEMMA CpTypes ==
  ASSUME CpAssumption, CpTypeOK
  PROVE  /\ CpPackets \in Nat /\ CpWorkers \in Nat /\ cpNext \in 1 .. CpPackets + 1
         /\ cpPre \in Seq(1 .. CpPackets) /\ cpCrypted \in Seq(1 .. CpPackets)
         /\ cpPc \in [CpTasks -> CpPcs] /\ cpHand \in [CpTasks -> 0 .. CpPackets]
         /\ cpRunning \subseteq CpTasks /\ cpFreed \subseteq 1 .. CpPackets
         /\ cpSlipped \subseteq CpTasks /\ CpStation \subseteq 1 .. CpPackets
         /\ ToSet(cpPre) \subseteq 1 .. CpPackets /\ ToSet(cpCrypted) \subseteq 1 .. CpPackets
         /\ cpClean \in [at : {"idle", "scan", "over"}, cpu : 0 .. CpWorkers,
                         k : 0 .. CpWorkers + 1]
<1>1. cpPre \in Seq(1 .. CpPackets) /\ cpCrypted \in Seq(1 .. CpPackets)
  BY Zenon DEF CpTypeOK
<1>2. ToSet(cpPre) \subseteq 1 .. CpPackets /\ ToSet(cpCrypted) \subseteq 1 .. CpPackets
  BY <1>1 DEF ToSet
<1>3. CpWorkers \in Nat
  BY DEF CpAssumption
<1> QED
  BY <1>1, <1>2, <1>3, Zenon DEF CpAssumption, CpTypeOK

\* Places after a step in which no task gets a packet.
LEMMA CpPlacesTo ==
  ASSUME CpAssumption, CpTypeOK, CpPlaces,
         \A v \in CpTasks : /\ CpWorks(v)' => CpWorks(v) /\ cpHand'[v] = cpHand[v]
                            /\ ~CpWorks(v)' => cpHand'[v] = CpNone,
         cpNext' \in Nat, cpNext <= cpNext',
         \A p \in ToSet(cpPre') : /\ p \in ToSet(cpPre) \/ (p = cpNext /\ p < cpNext')
                                  /\ p \notin cpFreed',
         ToSet(cpCrypted') \subseteq ToSet(cpCrypted),
         \A p \in cpFreed' : p < cpNext'
  PROVE  CpPlaces'
<1>1. /\ CpPackets \in Nat /\ cpNext \in 1 .. CpPackets + 1
      /\ cpHand \in [CpTasks -> 0 .. CpPackets]
      /\ ToSet(cpPre) \subseteq 1 .. CpPackets /\ ToSet(cpCrypted) \subseteq 1 .. CpPackets
  BY CpTypes, Zenon
<1>a. \A w \in CpTasks : cpHand[w] \in 0 .. CpPackets
  BY <1>1, Zenon
<1>2. \A w \in CpTasks : ~CpWorks(w)' => cpHand'[w] = CpNone
  BY Zenon
<1>3. \A w \in CpTasks : cpHand'[w] < cpNext'
  BY <1>1, <1>a DEF CpPlaces, CpNone
<1>4. \A v, w \in CpTasks : CpWorks(v)' /\ CpWorks(w)' /\ v # w => cpHand'[v] # cpHand'[w]
  BY Zenon DEF CpPlaces
<1>5. \A p \in ToSet(cpPre') : p < cpNext' /\ p \notin cpFreed'
  BY <1>1 DEF CpPlaces
<1>6. ASSUME NEW p \in ToSet(cpPre'), NEW w \in CpTasks PROVE cpHand'[w] < p
  <2>1. p \in ToSet(cpPre) \/ p = cpNext
    BY <1>6
  <2>2. cpHand[w] < p
    BY <1>6, <2>1 DEF CpPlaces
  <2>3. p \in 1 .. CpPackets + 1
    BY <1>1, <2>1
  <2>4. cpHand'[w] = cpHand[w] \/ cpHand'[w] = 0
    BY <1>6 DEF CpNone
  <2> QED
    BY <1>1, <2>2, <2>3, <2>4
<1>7. \A p \in ToSet(cpCrypted') : p < cpNext'
  BY <1>1 DEF CpPlaces
<1> QED
  BY <1>2, <1>3, <1>4, <1>5, <1>6, <1>7, Zenon DEF CpPlaces, CpWorks

\* No step of a task, of the cleaner or of a new packet disturbs them.
LEMMA CpOwnStep ==
  ASSUME CpAssumption, CpTypeOK, CpOwnInv, Rising(cpPre), [CpNextStep]_cpVars
  PROVE  CpOwnInv'
<1>1. /\ CpPackets \in Nat /\ CpWorkers \in Nat /\ cpNext \in 1 .. CpPackets + 1
      /\ cpPc \in [CpTasks -> CpPcs] /\ cpHand \in [CpTasks -> 0 .. CpPackets]
      /\ cpRunning \subseteq CpTasks /\ cpFreed \subseteq 1 .. CpPackets
      /\ cpSlipped \subseteq CpTasks /\ CpStation \subseteq 1 .. CpPackets
      /\ cpClean \in [at : {"idle", "scan", "over"}, cpu : 0 .. CpWorkers,
                         k : 0 .. CpWorkers + 1]
      /\ ToSet(cpPre) \subseteq 1 .. CpPackets /\ ToSet(cpCrypted) \subseteq 1 .. CpPackets
      /\ cpPre \in Seq(1 .. CpPackets) /\ cpCrypted \in Seq(1 .. CpPackets)
  BY CpTypes, Zenon
<1>0. CpAssumption /\ CpTypeOK /\ [CpNextStep]_cpVars
  OBVIOUS
<1>s. cpPre \in Seq(1 .. CpPackets) /\ cpCrypted \in Seq(1 .. CpPackets)
  BY <1>1
<1>o. Rising(cpPre) /\ cpPre \in Seq(Nat)
  BY <1>1, SeqOfSub, Zenon
<1>i. CpHands /\ CpPlaces /\ CpWatch /\ CpFreedInHand
  BY Zenon DEF CpOwnInv
<1> USE DEF CpHands, CpPlaces, CpWatch, CpFreedInHand, CpWorks, CpPcs, CpNone
<1>a. CASE CpArrive
  <2>1. /\ cpNext <= CpPackets /\ cpPre' = Append(cpPre, cpNext) /\ cpNext' = cpNext + 1
        /\ cpPc' = [w \in CpTasks |-> IF w \in CpChosen(cpNext) /\ cpPc[w] = "asleep"
                                      THEN "wait" ELSE cpPc[w]]
        /\ UNCHANGED <<cpCrypted, cpHand, cpRunning, cpFreed, cpPaused, cpClean, cpSlipped>>
    BY <1>a, Zenon DEF CpArrive, CpWake, cpEnds, cpCleaner
  <2>2. cpNext \in 1 .. CpPackets
    BY <1>1, <2>1
  <2>a. /\ Append(cpPre, cpNext) \in Seq(1 .. CpPackets)
        /\ ToSet(Append(cpPre, cpNext)) = ToSet(cpPre) \cup {cpNext}
    BY <1>s, <2>2, AppendMembers
  <2>3. ToSet(cpPre') = ToSet(cpPre) \cup {cpNext}
    BY <2>1, <2>a
  <2>4. \A w \in CpTasks : \/ cpPc'[w] = cpPc[w]
                           \/ cpPc'[w] = "wait" /\ cpPc[w] = "asleep"
    BY <2>1, Zenon
  <2>5. CpHands'
    BY <1>i, <2>1, <2>4
  <2>6. CpPlaces'
    <3>1. \A v \in CpTasks : /\ CpWorks(v)' => CpWorks(v) /\ cpHand'[v] = cpHand[v]
                             /\ ~CpWorks(v)' => cpHand'[v] = CpNone
      BY <1>i, <2>1, <2>4
    <3>2. cpNext' \in Nat /\ cpNext <= cpNext' /\ cpNext < cpNext'
      BY <1>1, <2>1
    <3>3. cpNext \notin cpFreed
      BY <1>1, <1>i
    <3>4. \A p \in ToSet(cpPre') : /\ p \in ToSet(cpPre) \/ (p = cpNext /\ p < cpNext')
                                   /\ p \notin cpFreed'
      BY <1>i, <2>1, <2>3, <3>2, <3>3
    <3>5. \A p \in cpFreed' : p < cpNext'
      BY <1>1, <1>i, <2>1
    <3>6. ToSet(cpCrypted') \subseteq ToSet(cpCrypted)
      BY <2>1
    <3> QED
      BY <1>0, <1>i, <3>1, <3>2, <3>4, <3>5, <3>6, CpPlacesTo, Zenon
  <2>7. CpWatch'
    BY <1>i, <2>1, <2>4
  <2>8. CpFreedInHand'
    BY <1>i, <2>1
  <2> QED
    BY <2>5, <2>6, <2>7, <2>8, Zenon DEF CpOwnInv
<1>b. CASE CpArrivePlain \/ CpArriveStrange
  <2>1. /\ cpNext' = cpNext + 1
        /\ UNCHANGED <<cpPre, cpCrypted, cpHand, cpRunning, cpPc, cpFreed, cpPaused, cpClean,
                       cpSlipped>>
    BY <1>b, Zenon DEF CpArrivePlain, CpArriveStrange, cpQueues, cpTask, cpEnds, cpCleaner
  <2>5. CpHands'
    BY <1>i, <2>1
  <2>6. CpPlaces'
    <3>1. \A v \in CpTasks : /\ CpWorks(v)' => CpWorks(v) /\ cpHand'[v] = cpHand[v]
                             /\ ~CpWorks(v)' => cpHand'[v] = CpNone
      BY <1>1, <1>i, <2>1
    <3>2. cpNext' \in Nat /\ cpNext <= cpNext'
      BY <1>1, <2>1
    <3>5. ToSet(cpCrypted') \subseteq ToSet(cpCrypted)
      BY <2>1
    <3>3. \A p \in ToSet(cpPre') : p \in ToSet(cpPre) /\ p \notin cpFreed'
      BY <1>1, <1>i, <2>1
    <3>4. \A p \in cpFreed' : p < cpNext'
      BY <1>1, <1>i, <2>1
    <3> QED
      BY <1>0, <1>i, <3>1, <3>2, <3>3, <3>4, <3>5, CpPlacesTo, Zenon
  <2>7. CpWatch'
    BY <1>i, <2>1
  <2>8. CpFreedInHand'
    BY <1>i, <2>1
  <2> QED
    BY <2>5, <2>6, <2>7, <2>8, Zenon DEF CpOwnInv
<1>c. ASSUME NEW w \in CpTasks, CpTop(w) PROVE CpOwnInv'
  <2>1. /\ cpPc[w] = "top"
        /\ \/ cpPc' = [cpPc EXCEPT ![w] = "wait"] /\ cpRunning' = cpRunning \ {w}
           \/ cpPc' = [cpPc EXCEPT ![w] = "take"] /\ cpRunning' = cpRunning
        /\ UNCHANGED <<cpNext, cpPre, cpCrypted, cpHand, cpFreed, cpPaused, cpClean, cpSlipped>>
    BY <1>c, Zenon DEF CpTop, CpAt, CpGoto, cpQueues, cpEnds, cpCleaner
  <2>5. CpHands'
    BY <1>1, <1>i, <2>1
  <2>6. CpPlaces'
    <3>1. \A v \in CpTasks : /\ CpWorks(v)' => CpWorks(v) /\ cpHand'[v] = cpHand[v]
                             /\ ~CpWorks(v)' => cpHand'[v] = CpNone
      BY <1>1, <1>i, <2>1
    <3>2. cpNext' \in Nat /\ cpNext <= cpNext'
      BY <1>1, <2>1
    <3>5. ToSet(cpCrypted') \subseteq ToSet(cpCrypted)
      BY <2>1
    <3>3. \A p \in ToSet(cpPre') : p \in ToSet(cpPre) /\ p \notin cpFreed'
      BY <1>1, <1>i, <2>1
    <3>4. \A p \in cpFreed' : p < cpNext'
      BY <1>1, <1>i, <2>1
    <3> QED
      BY <1>0, <1>i, <3>1, <3>2, <3>3, <3>4, <3>5, CpPlacesTo, Zenon
  <2>7. CpWatch'
    <3>1. \A v \in CpTasks \ {w} : cpPc'[v] = cpPc[v] /\ (v \in cpRunning' <=> v \in cpRunning)
      BY <1>1, <2>1
    <3>2. \/ cpPc'[w] = "take" /\ cpPc[w] = "top" /\ cpRunning' = cpRunning
          \/ cpPc'[w] \in {"wait", "asleep"}
          \/ cpPc'[w] = "woken" /\ ~cpPaused
      BY <1>1, <2>1
    <3>3. UNCHANGED <<cpPaused, cpClean, cpSlipped>>
      BY <2>1
    <3> QED
      BY <1>i, <3>1, <3>2, <3>3
  <2>8. CpFreedInHand'
    BY <1>i, <2>1
  <2> QED
    BY <2>5, <2>6, <2>7, <2>8, Zenon DEF CpOwnInv
<1>d. ASSUME NEW w \in CpTasks, CpWait(w) PROVE CpOwnInv'
  <2>1. /\ cpPc[w] = "wait"
        /\ \/ cpPc' = [cpPc EXCEPT ![w] = "woken"] /\ ~cpPaused
           \/ cpPc' = [cpPc EXCEPT ![w] = "asleep"]
        /\ UNCHANGED <<cpNext, cpPre, cpCrypted, cpHand, cpRunning, cpFreed, cpPaused, cpClean,
                       cpSlipped>>
    BY <1>d, Zenon DEF CpWait, CpAt, CpGoto, cpQueues, cpEnds, cpCleaner
  <2>5. CpHands'
    BY <1>1, <1>i, <2>1
  <2>6. CpPlaces'
    <3>1. \A v \in CpTasks : /\ CpWorks(v)' => CpWorks(v) /\ cpHand'[v] = cpHand[v]
                             /\ ~CpWorks(v)' => cpHand'[v] = CpNone
      BY <1>1, <1>i, <2>1
    <3>2. cpNext' \in Nat /\ cpNext <= cpNext'
      BY <1>1, <2>1
    <3>5. ToSet(cpCrypted') \subseteq ToSet(cpCrypted)
      BY <2>1
    <3>3. \A p \in ToSet(cpPre') : p \in ToSet(cpPre) /\ p \notin cpFreed'
      BY <1>1, <1>i, <2>1
    <3>4. \A p \in cpFreed' : p < cpNext'
      BY <1>1, <1>i, <2>1
    <3> QED
      BY <1>0, <1>i, <3>1, <3>2, <3>3, <3>4, <3>5, CpPlacesTo, Zenon
  <2>7. CpWatch'
    <3>1. \A v \in CpTasks \ {w} : cpPc'[v] = cpPc[v] /\ (v \in cpRunning' <=> v \in cpRunning)
      BY <1>1, <2>1
    <3>2. \/ cpPc'[w] = "take" /\ cpPc[w] = "top" /\ cpRunning' = cpRunning
          \/ cpPc'[w] \in {"wait", "asleep"}
          \/ cpPc'[w] = "woken" /\ ~cpPaused
      BY <1>1, <2>1
    <3>3. UNCHANGED <<cpPaused, cpClean, cpSlipped>>
      BY <2>1
    <3> QED
      BY <1>i, <3>1, <3>2, <3>3
  <2>8. CpFreedInHand'
    BY <1>i, <2>1
  <2> QED
    BY <2>5, <2>6, <2>7, <2>8, Zenon DEF CpOwnInv
<1>e. ASSUME NEW w \in CpTasks, CpTimeout(w) PROVE CpOwnInv'
  <2>1. /\ cpPc[w] = "asleep" /\ cpPc' = [cpPc EXCEPT ![w] = "woken"]
        /\ cpSlipped' = IF cpPaused THEN cpSlipped \cup {w} ELSE cpSlipped
        /\ UNCHANGED <<cpNext, cpPre, cpCrypted, cpHand, cpRunning, cpFreed, cpPaused, cpClean>>
    BY <1>e, Zenon DEF CpTimeout, CpAt, CpGoto, cpQueues, cpEnds
  <2>5. CpHands'
    BY <1>1, <1>i, <2>1
  <2>6. CpPlaces'
    <3>1. \A v \in CpTasks : /\ CpWorks(v)' => CpWorks(v) /\ cpHand'[v] = cpHand[v]
                             /\ ~CpWorks(v)' => cpHand'[v] = CpNone
      BY <1>1, <1>i, <2>1
    <3>2. cpNext' \in Nat /\ cpNext <= cpNext'
      BY <1>1, <2>1
    <3>5. ToSet(cpCrypted') \subseteq ToSet(cpCrypted)
      BY <2>1
    <3>3. \A p \in ToSet(cpPre') : p \in ToSet(cpPre) /\ p \notin cpFreed'
      BY <1>1, <1>i, <2>1
    <3>4. \A p \in cpFreed' : p < cpNext'
      BY <1>1, <1>i, <2>1
    <3> QED
      BY <1>0, <1>i, <3>1, <3>2, <3>3, <3>4, <3>5, CpPlacesTo, Zenon
  <2>7. CpWatch'
    BY <1>1, <1>i, <2>1
  <2>8. CpFreedInHand'
    BY <1>i, <2>1
  <2> QED
    BY <2>5, <2>6, <2>7, <2>8, Zenon DEF CpOwnInv
<1>f. ASSUME NEW w \in CpTasks, CpWoken(w) PROVE CpOwnInv'
  <2>1. /\ cpPc[w] = "woken" /\ cpPc' = [cpPc EXCEPT ![w] = "take"]
        /\ cpRunning' = cpRunning \cup {w}
        /\ UNCHANGED <<cpNext, cpPre, cpCrypted, cpHand, cpFreed, cpPaused, cpClean, cpSlipped>>
    BY <1>f, Zenon DEF CpWoken, CpAt, CpGoto, cpQueues, cpEnds, cpCleaner
  <2>5. CpHands'
    BY <1>1, <1>i, <2>1
  <2>6. CpPlaces'
    <3>1. \A v \in CpTasks : /\ CpWorks(v)' => CpWorks(v) /\ cpHand'[v] = cpHand[v]
                             /\ ~CpWorks(v)' => cpHand'[v] = CpNone
      BY <1>1, <1>i, <2>1
    <3>2. cpNext' \in Nat /\ cpNext <= cpNext'
      BY <1>1, <2>1
    <3>5. ToSet(cpCrypted') \subseteq ToSet(cpCrypted)
      BY <2>1
    <3>3. \A p \in ToSet(cpPre') : p \in ToSet(cpPre) /\ p \notin cpFreed'
      BY <1>1, <1>i, <2>1
    <3>4. \A p \in cpFreed' : p < cpNext'
      BY <1>1, <1>i, <2>1
    <3> QED
      BY <1>0, <1>i, <3>1, <3>2, <3>3, <3>4, <3>5, CpPlacesTo, Zenon
  <2>7. CpWatch'
    BY <1>1, <1>i, <2>1
  <2>8. CpFreedInHand'
    BY <1>i, <2>1
  <2> QED
    BY <2>5, <2>6, <2>7, <2>8, Zenon DEF CpOwnInv
<1>g. ASSUME NEW w \in CpTasks, CpTake(w) PROVE CpOwnInv'
  <2>1. /\ cpPc[w] = "take"
        /\ \/ cpPc' = [cpPc EXCEPT ![w] = "drain"] /\ UNCHANGED <<cpPre, cpCrypted, cpHand>>
           \/ /\ cpPre # <<>> /\ cpHand' = [cpHand EXCEPT ![w] = Head(cpPre)]
              /\ cpCrypted' = Append(cpCrypted, Head(cpPre)) /\ cpPre' = Tail(cpPre)
              /\ cpPc' = [cpPc EXCEPT ![w] = "crypt"]
        /\ UNCHANGED <<cpNext, cpRunning, cpFreed, cpPaused, cpClean, cpSlipped>>
    BY <1>g, Zenon DEF CpTake, CpAt, CpGoto, cpQueues, cpEnds, cpCleaner
  <2>2. CASE cpPc' = [cpPc EXCEPT ![w] = "drain"] /\ UNCHANGED <<cpPre, cpCrypted, cpHand>>
    <3>5. CpHands'
      BY <1>1, <1>i, <2>1, <2>2
    <3>6. CpPlaces'
      <4>1. \A v \in CpTasks : /\ CpWorks(v)' => CpWorks(v) /\ cpHand'[v] = cpHand[v]
                               /\ ~CpWorks(v)' => cpHand'[v] = CpNone
        BY <1>1, <1>i, <2>1, <2>2
      <4>2. cpNext' \in Nat /\ cpNext <= cpNext'
        BY <1>1, <2>1
      <4>5. ToSet(cpCrypted') \subseteq ToSet(cpCrypted)
        BY <2>2
      <4>3. \A p \in ToSet(cpPre') : p \in ToSet(cpPre) /\ p \notin cpFreed'
        BY <1>1, <1>i, <2>1, <2>2
      <4>4. \A p \in cpFreed' : p < cpNext'
        BY <1>1, <1>i, <2>1, <2>2
      <4> QED
        BY <1>0, <1>i, <4>1, <4>2, <4>3, <4>4, <4>5, CpPlacesTo, Zenon
    <3>7. CpWatch'
      BY <1>1, <1>i, <2>1, <2>2
    <3>8. CpFreedInHand'
      BY <1>i, <2>1, <2>2
    <3> QED
      BY <3>5, <3>6, <3>7, <3>8, Zenon DEF CpOwnInv
  <2>3. CASE /\ cpPre # <<>> /\ cpHand' = [cpHand EXCEPT ![w] = Head(cpPre)]
             /\ cpCrypted' = Append(cpCrypted, Head(cpPre)) /\ cpPre' = Tail(cpPre)
             /\ cpPc' = [cpPc EXCEPT ![w] = "crypt"]
    <3> DEFINE a == Head(cpPre)
    <3>1. /\ a \in 1 .. CpPackets /\ a \in ToSet(cpPre)
          /\ ToSet(cpPre) = ToSet(cpPre') \cup {a}
      BY <1>1, <2>3, TailMembers, Zenon
    <3>a. /\ Append(cpCrypted, a) \in Seq(1 .. CpPackets)
          /\ ToSet(Append(cpCrypted, a)) = ToSet(cpCrypted) \cup {a}
      BY <1>s, <3>1, AppendMembers
    <3>2. ToSet(cpCrypted') = ToSet(cpCrypted) \cup {a}
      BY <2>3, <3>a
    <3>3. \A p \in ToSet(cpPre') : a < p
      BY <1>1, <1>o, <2>3, TailRising, Zenon
    <3>4. cpHand' = [cpHand EXCEPT ![w] = a]
      BY <2>3, Zenon
    <3> HIDE DEF a
    <3>b. \A v \in CpTasks : /\ cpHand'[v] = IF v = w THEN a ELSE cpHand[v]
                             /\ CpWorks(v)' <=> (v = w \/ CpWorks(v))
      BY <1>1, <2>3, <3>4
    <3>c. UNCHANGED <<cpNext, cpFreed, cpClean>>
      BY <2>1
    <3>5. CpHands'
      BY <1>i, <3>1, <3>b, <3>c
    <3>6. CpPlaces'
      <4>1. \A v \in CpTasks : ~CpWorks(v)' => cpHand'[v] = CpNone
        BY <1>i, <3>b
      <4>2. \A v \in CpTasks : cpHand'[v] < cpNext'
        BY <1>i, <3>1, <3>b, <3>c
      <4>3. \A v \in CpTasks : cpHand[v] # a
        BY <1>1, <1>i, <3>1
      <4>4. \A u, v \in CpTasks : CpWorks(u)' /\ CpWorks(v)' /\ u # v => cpHand'[u] # cpHand'[v]
        BY <1>i, <3>b, <4>3
      <4>5. \A p \in ToSet(cpPre') : p \in ToSet(cpPre) /\ a < p
        BY <3>1, <3>3, Zenon
      <4>6. \A p \in ToSet(cpPre') : p < cpNext' /\ p \notin cpFreed'
        BY <1>i, <3>c, <4>5
      <4>7. \A p \in ToSet(cpPre') : \A v \in CpTasks : cpHand'[v] < p
        BY <1>i, <3>b, <4>5
      <4>8. \A p \in ToSet(cpCrypted') : p < cpNext'
        BY <1>i, <3>1, <3>2, <3>c
      <4>9. \A p \in cpFreed' : p < cpNext'
        BY <1>i, <3>c
      <4> QED
        BY <4>1, <4>2, <4>4, <4>6, <4>7, <4>8, <4>9, Zenon DEF CpPlaces
    <3>7. CpWatch'
      BY <1>1, <1>i, <2>1, <2>3
    <3>8. CpFreedInHand'
      BY <1>1, <1>i, <2>1, <3>1, <3>4
    <3> QED
      BY <3>5, <3>6, <3>7, <3>8, Zenon DEF CpOwnInv
  <2> QED
    BY <2>1, <2>2, <2>3
<1>h. ASSUME NEW w \in CpTasks, CpCrypt(w) PROVE CpOwnInv'
  <2>1. /\ cpPc[w] = "crypt" /\ cpPc' = [cpPc EXCEPT ![w] = "drain"]
        /\ cpHand' = [cpHand EXCEPT ![w] = CpNone]
        /\ UNCHANGED <<cpNext, cpPre, cpCrypted, cpRunning, cpFreed, cpPaused, cpClean, cpSlipped>>
    BY <1>h, Zenon DEF CpCrypt, CpAt, CpGoto, cpEnds, cpCleaner
  <2>5. CpHands'
    BY <1>1, <1>i, <2>1
  <2>6. CpPlaces'
    <3>1. \A v \in CpTasks : /\ CpWorks(v)' => CpWorks(v) /\ cpHand'[v] = cpHand[v]
                             /\ ~CpWorks(v)' => cpHand'[v] = CpNone
      BY <1>1, <1>i, <2>1
    <3>2. cpNext' \in Nat /\ cpNext <= cpNext'
      BY <1>1, <2>1
    <3>5. ToSet(cpCrypted') \subseteq ToSet(cpCrypted)
      BY <2>1
    <3>3. \A p \in ToSet(cpPre') : p \in ToSet(cpPre) /\ p \notin cpFreed'
      BY <1>1, <1>i, <2>1
    <3>4. \A p \in cpFreed' : p < cpNext'
      BY <1>1, <1>i, <2>1
    <3> QED
      BY <1>0, <1>i, <3>1, <3>2, <3>3, <3>4, <3>5, CpPlacesTo, Zenon
  <2>7. CpWatch'
    BY <1>1, <1>i, <2>1
  <2>8. CpFreedInHand'
    BY <1>1, <1>i, <2>1
  <2> QED
    BY <2>5, <2>6, <2>7, <2>8, Zenon DEF CpOwnInv
<1>j. ASSUME NEW w \in CpTasks, CpCryptFails(w) PROVE CpOwnInv'
  <2>1. /\ cpPc[w] = "crypt" /\ cpPc' = [cpPc EXCEPT ![w] = "unlink"]
        /\ UNCHANGED <<cpNext, cpPre, cpCrypted, cpHand, cpRunning, cpFreed, cpPaused, cpClean,
                       cpSlipped>>
    BY <1>j, Zenon DEF CpCryptFails, CpAt, CpGoto, cpEnds, cpCleaner
  <2>5. CpHands'
    BY <1>1, <1>i, <2>1
  <2>6. CpPlaces'
    <3>1. \A v \in CpTasks : /\ CpWorks(v)' => CpWorks(v) /\ cpHand'[v] = cpHand[v]
                             /\ ~CpWorks(v)' => cpHand'[v] = CpNone
      BY <1>1, <1>i, <2>1
    <3>2. cpNext' \in Nat /\ cpNext <= cpNext'
      BY <1>1, <2>1
    <3>5. ToSet(cpCrypted') \subseteq ToSet(cpCrypted)
      BY <2>1
    <3>3. \A p \in ToSet(cpPre') : p \in ToSet(cpPre) /\ p \notin cpFreed'
      BY <1>1, <1>i, <2>1
    <3>4. \A p \in cpFreed' : p < cpNext'
      BY <1>1, <1>i, <2>1
    <3> QED
      BY <1>0, <1>i, <3>1, <3>2, <3>3, <3>4, <3>5, CpPlacesTo, Zenon
  <2>7. CpWatch'
    BY <1>1, <1>i, <2>1
  <2>8. CpFreedInHand'
    BY <1>1, <1>i, <2>1
  <2> QED
    BY <2>5, <2>6, <2>7, <2>8, Zenon DEF CpOwnInv
<1>k. ASSUME NEW w \in CpTasks, CpUnlink(w) PROVE CpOwnInv'
  <2>1. /\ cpPc[w] = "unlink" /\ cpPc' = [cpPc EXCEPT ![w] = "drain"]
        /\ cpCrypted' = Without(cpCrypted, {cpHand[w]})
        /\ cpFreed' = cpFreed \cup {cpHand[w]}
        /\ cpHand' = [cpHand EXCEPT ![w] = CpNone]
        /\ UNCHANGED <<cpNext, cpPre, cpRunning, cpPaused, cpClean, cpSlipped>>
    BY <1>k, Zenon DEF CpUnlink, CpAfterFailure, CpAt, CpGoto, cpCleaner
  <2>2. ToSet(cpCrypted') \subseteq ToSet(cpCrypted)
    BY <1>0, <2>1, CpQueueFacts, Zenon
  <2>5. CpHands'
    BY <1>1, <1>i, <2>1
  <2>6. CpPlaces'
    <3>1. \A v \in CpTasks : /\ CpWorks(v)' => CpWorks(v) /\ cpHand'[v] = cpHand[v]
                             /\ ~CpWorks(v)' => cpHand'[v] = CpNone
      BY <1>1, <1>i, <2>1, <2>2
    <3>2. cpNext' \in Nat /\ cpNext <= cpNext'
      BY <1>1, <2>1
    <3>5. ToSet(cpCrypted') \subseteq ToSet(cpCrypted)
      BY <2>2
    <3>3. \A p \in ToSet(cpPre') : p \in ToSet(cpPre) /\ p \notin cpFreed'
      BY <1>1, <1>i, <2>1, <2>2
    <3>4. \A p \in cpFreed' : p < cpNext'
      BY <1>1, <1>i, <2>1, <2>2
    <3> QED
      BY <1>0, <1>i, <3>1, <3>2, <3>3, <3>4, <3>5, CpPlacesTo, Zenon
  <2>7. CpWatch'
    BY <1>1, <1>i, <2>1
  <2>8. CpFreedInHand'
    BY <1>1, <1>i, <2>1
  <2> QED
    BY <2>5, <2>6, <2>7, <2>8, Zenon DEF CpOwnInv
<1>l. ASSUME NEW w \in CpTasks, CpDrain(w) PROVE CpOwnInv'
  <2>1. /\ cpPc[w] = "drain" /\ cpPc' = [cpPc EXCEPT ![w] = "top"]
        /\ cpCrypted' = Without(cpCrypted, ToSet(CpReady))
        /\ UNCHANGED <<cpNext, cpPre, cpHand, cpRunning, cpFreed, cpPaused, cpClean, cpSlipped>>
    BY <1>l, Zenon DEF CpDrain, CpAt, CpGoto, cpCleaner
  <2>2. ToSet(cpCrypted') \subseteq ToSet(cpCrypted)
    BY <1>0, <2>1, CpQueueFacts, Zenon
  <2>5. CpHands'
    BY <1>1, <1>i, <2>1
  <2>6. CpPlaces'
    <3>1. \A v \in CpTasks : /\ CpWorks(v)' => CpWorks(v) /\ cpHand'[v] = cpHand[v]
                             /\ ~CpWorks(v)' => cpHand'[v] = CpNone
      BY <1>1, <1>i, <2>1, <2>2
    <3>2. cpNext' \in Nat /\ cpNext <= cpNext'
      BY <1>1, <2>1
    <3>5. ToSet(cpCrypted') \subseteq ToSet(cpCrypted)
      BY <2>2
    <3>3. \A p \in ToSet(cpPre') : p \in ToSet(cpPre) /\ p \notin cpFreed'
      BY <1>1, <1>i, <2>1, <2>2
    <3>4. \A p \in cpFreed' : p < cpNext'
      BY <1>1, <1>i, <2>1, <2>2
    <3> QED
      BY <1>0, <1>i, <3>1, <3>2, <3>3, <3>4, <3>5, CpPlacesTo, Zenon
  <2>7. CpWatch'
    BY <1>1, <1>i, <2>1
  <2>8. CpFreedInHand'
    BY <1>1, <1>i, <2>1
  <2> QED
    BY <2>5, <2>6, <2>7, <2>8, Zenon DEF CpOwnInv
<1>m. CASE CpCleanBegin
  <2>1. /\ cpPaused' = TRUE /\ \E cpu \in CpTasks : cpClean' = [at |-> "scan", cpu |-> cpu, k |-> 1]
        /\ UNCHANGED <<cpNext, cpPre, cpCrypted, cpPc, cpHand, cpRunning, cpFreed, cpSlipped>>
    BY <1>m, Zenon DEF CpCleanBegin, cpQueues, cpTask, cpEnds
  <2>2. cpClean'.k = 1
    BY <2>1
  <2>5. CpHands'
    BY <1>i, <2>1, <2>2
  <2>6. CpPlaces'
    <3>1. \A v \in CpTasks : /\ CpWorks(v)' => CpWorks(v) /\ cpHand'[v] = cpHand[v]
                             /\ ~CpWorks(v)' => cpHand'[v] = CpNone
      BY <1>1, <1>i, <2>1
    <3>2. cpNext' \in Nat /\ cpNext <= cpNext'
      BY <1>1, <2>1
    <3>5. ToSet(cpCrypted') \subseteq ToSet(cpCrypted)
      BY <2>1
    <3>3. \A p \in ToSet(cpPre') : p \in ToSet(cpPre) /\ p \notin cpFreed'
      BY <1>1, <1>i, <2>1
    <3>4. \A p \in cpFreed' : p < cpNext'
      BY <1>1, <1>i, <2>1
    <3> QED
      BY <1>0, <1>i, <3>1, <3>2, <3>3, <3>4, <3>5, CpPlacesTo, Zenon
  <2>7. CpWatch'
    BY <1>i, <2>1, <2>2 DEF CpTasks
  <2>8. CpFreedInHand'
    BY <1>i, <2>1
  <2> QED
    BY <2>5, <2>6, <2>7, <2>8, Zenon DEF CpOwnInv
<1>n. CASE CpCleanScan
  <2>0. cpClean.at = "scan" /\ cpClean.k <= CpWorkers
    BY <1>n, Zenon DEF CpCleanScan
  <2>1. /\ UNCHANGED <<cpNext, cpPre, cpCrypted, cpPc, cpHand, cpRunning, cpFreed, cpPaused>>
        /\ \/ cpClean' = [cpClean EXCEPT !.k = 1] /\ cpSlipped' = cpSlipped
           \/ /\ cpClean' = [cpClean EXCEPT !.k = @ + 1]
              /\ ~CpMustWait(cpClean.k)
              /\ cpSlipped' = IF \/ CpAt(cpClean.k, "woken")
                                 \/ cpClean.k = cpClean.cpu /\ cpClean.k \in cpRunning
                              THEN cpSlipped \cup {cpClean.k} ELSE cpSlipped
    BY <1>n, Zenon DEF CpCleanScan, cpQueues, cpTask, cpEnds
  <2>2. cpClean.k \in CpTasks
    BY <1>1, <1>i, <2>0 DEF CpTasks
  <2>3. cpClean'.at = "scan" /\ (cpClean'.k = 1 \/ cpClean'.k = cpClean.k + 1)
    BY <1>1, <2>0, <2>1
  <2>4. cpSlipped \subseteq cpSlipped'
    BY <2>1, Zenon
  <2>5. CpHands'
    BY <1>1, <1>i, <2>1, <2>3
  <2>6. CpPlaces'
    <3>1. \A v \in CpTasks : /\ CpWorks(v)' => CpWorks(v) /\ cpHand'[v] = cpHand[v]
                             /\ ~CpWorks(v)' => cpHand'[v] = CpNone
      BY <1>1, <1>i, <2>1
    <3>2. cpNext' \in Nat /\ cpNext <= cpNext'
      BY <1>1, <2>1
    <3>5. ToSet(cpCrypted') \subseteq ToSet(cpCrypted)
      BY <2>1
    <3>3. \A p \in ToSet(cpPre') : p \in ToSet(cpPre) /\ p \notin cpFreed'
      BY <1>1, <1>i, <2>1
    <3>4. \A p \in cpFreed' : p < cpNext'
      BY <1>1, <1>i, <2>1
    <3> QED
      BY <1>0, <1>i, <3>1, <3>2, <3>3, <3>4, <3>5, CpPlacesTo, Zenon
  <2>7. ASSUME NEW v \in CpTasks, v < cpClean'.k, cpPc[v] \notin {"wait", "asleep"}
        PROVE  v \in cpSlipped'
    <3>1. CASE v < cpClean.k
      BY <1>i, <2>0, <2>4, <2>7, <3>1
    <3>2. CASE ~(v < cpClean.k)
      <4>1. v = cpClean.k /\ cpClean'.k = cpClean.k + 1
        BY <1>1, <2>2, <2>3, <2>7, <3>2 DEF CpTasks
      <4>2. /\ ~CpMustWait(v)
            /\ cpSlipped' = IF CpAt(v, "woken") \/ (v = cpClean.cpu /\ v \in cpRunning)
                            THEN cpSlipped \cup {v} ELSE cpSlipped
        <5>1. cpClean'.k # 1
          BY <1>1, <1>i, <2>0, <4>1
        <5>2. cpClean' # [cpClean EXCEPT !.k = 1]
          BY <1>1, <5>1
        <5>3. cpClean.k = v
          BY <4>1
        <5> QED
          BY <2>1, <5>2, <5>3, Zenon
      <4>3. cpPc[v] = "woken" \/ v \in cpRunning
        BY <1>1, <1>i, <2>7
      <4> QED
        BY <4>2, <4>3 DEF CpMustWait, CpAt
    <3> QED
      BY <3>1, <3>2
  <2>8. CpWatch'
    BY <1>i, <2>0, <2>1, <2>3, <2>7
  <2>9. CpFreedInHand'
    BY <1>i, <2>1, <2>4
  <2> QED
    BY <2>5, <2>6, <2>8, <2>9, Zenon DEF CpOwnInv
<1>p. CASE CpCleanRemove
  <2> DEFINE mine == CpStation \cap (ToSet(cpPre) \cup ToSet(cpCrypted))
  <2>1. /\ cpClean.at = "scan" /\ cpClean.k > CpWorkers
        /\ cpPre' = Without(cpPre, mine) /\ cpCrypted' = Without(cpCrypted, mine)
        /\ cpFreed' = cpFreed \cup mine
        /\ cpPc' = [w \in CpTasks |-> IF w \in CpTasks /\ cpPc[w] = "asleep"
                                      THEN "wait" ELSE cpPc[w]]
        /\ cpClean' = [cpClean EXCEPT !.at = "over"]
        /\ UNCHANGED <<cpNext, cpHand, cpRunning, cpSlipped>>
    BY <1>p, Zenon DEF CpCleanRemove, CpWake
  <2>3. mine \subseteq ToSet(cpPre) \cup ToSet(cpCrypted)
    OBVIOUS
  <2> HIDE DEF mine
  <2>b. /\ ToSet(Without(cpPre, mine)) \subseteq ToSet(cpPre) \ mine
        /\ ToSet(Without(cpCrypted, mine)) \subseteq ToSet(cpCrypted) \ mine
    BY <1>0, CpQueueFacts, Zenon
  <2>2. ToSet(cpPre') \subseteq ToSet(cpPre) \ mine /\ ToSet(cpCrypted') \subseteq ToSet(cpCrypted)
    BY <2>1, <2>b
  <2>4. \A v \in CpTasks : \/ cpPc'[v] = cpPc[v]
                           \/ cpPc'[v] = "wait" /\ cpPc[v] = "asleep"
    BY <2>1, Zenon
  <2>a. cpClean'.at = "over"
    BY <1>1, <2>1
  <2>5. CpHands'
    BY <1>1, <1>i, <2>1, <2>4, <2>a
  <2>6. CpPlaces'
    <3>1. \A v \in CpTasks : /\ CpWorks(v)' => CpWorks(v) /\ cpHand'[v] = cpHand[v]
                             /\ ~CpWorks(v)' => cpHand'[v] = CpNone
      BY <1>1, <1>i, <2>1, <2>2, <2>3, <2>4
    <3>2. cpNext' \in Nat /\ cpNext <= cpNext'
      BY <1>1, <2>1
    <3>5. ToSet(cpCrypted') \subseteq ToSet(cpCrypted)
      BY <2>2
    <3>3. \A p \in ToSet(cpPre') : p \in ToSet(cpPre) /\ p \notin cpFreed'
      BY <1>1, <1>i, <2>1, <2>2, <2>3, <2>4
    <3>4. \A p \in cpFreed' : p < cpNext'
      BY <1>1, <1>i, <2>1, <2>2, <2>3, <2>4
    <3> QED
      BY <1>0, <1>i, <3>1, <3>2, <3>3, <3>4, <3>5, CpPlacesTo, Zenon
  <2>7. CpWatch'
    BY <1>1, <1>i, <2>1, <2>4, <2>a
  <2>8. CpFreedInHand'
    <3>1. \A v \in CpTasks : v < cpClean.k
      BY <1>1, <2>1 DEF CpTasks
    <3>2. \A v \in CpTasks : CpWorks(v) => v \in cpSlipped
      BY <1>i, <2>1, <3>1
    <3> QED
      BY <1>i, <2>1, <3>2
  <2> QED
    BY <2>5, <2>6, <2>7, <2>8, Zenon DEF CpOwnInv
<1>q. CASE UNCHANGED cpVars
  <2>1. UNCHANGED <<cpNext, cpPre, cpCrypted, cpPc, cpHand, cpRunning, cpFreed, cpPaused, cpClean,
                    cpSlipped>>
    BY <1>q, Zenon DEF cpVars, cpQueues, cpTask, cpEnds, cpCleaner
  <2> QED
    BY <1>i, <2>1 DEF CpOwnInv
<1>r. ASSUME NEW w \in CpTasks, CpRun(w) \/ CpTimeout(w) PROVE CpOwnInv'
  BY <1>r, <1>c, <1>d, <1>e, <1>f, <1>g, <1>h, <1>j, <1>k, <1>l, Zenon DEF CpRun
<1> QED
  BY <1>0, <1>a, <1>b, <1>m, <1>n, <1>p, <1>q, <1>r, Zenon DEF CpNextStep

\* What has left the pipeline is in order, and came before all that is in
\* it; what is in crypted_q came before all that is in preprocess_q.
CpGone == (ToSet(cpTx) \cap CpOfKind("enc")) \cup ToSet(cpRx)
CpOrderInv ==
  /\ Rising(cpPre) /\ Rising(cpCrypted)
  /\ \A p \in ToSet(cpCrypted), q \in ToSet(cpPre) : p < q
  /\ \A p \in CpGone : p < cpNext /\ \A q \in ToSet(cpCrypted) \cup ToSet(cpPre) : p < q
  /\ RisingIn(cpTx, CpOfKind("enc")) /\ RisingIn(cpRx, 1 .. CpPackets)

LEMMA CpOrderTo ==
  ASSUME CpOrderInv, Rising(cpPre'), Rising(cpCrypted'),
         ToSet(cpPre') \subseteq ToSet(cpPre), ToSet(cpCrypted') \subseteq ToSet(cpCrypted),
         UNCHANGED <<cpNext, cpTx, cpRx>>
  PROVE  CpOrderInv'
  BY Zenon DEF CpOrderInv, CpGone

LEMMA CpOrderStep ==
  ASSUME CpAssumption, CpTypeOK, CpPlaces, CpOrderInv, [CpNextStep]_cpVars
  PROVE  CpOrderInv'
<1>0. CpAssumption /\ CpTypeOK /\ CpOrderInv
  OBVIOUS
<1> DEFINE P == 1 .. CpPackets
           enc == CpOfKind("enc")
           dec == CpOfKind("dec")
<1>1. /\ cpPre \in Seq(P) /\ cpCrypted \in Seq(P) /\ cpTx \in Seq(P) /\ cpRx \in Seq(P)
  BY Zenon DEF CpTypeOK
<1>2. CpPackets \in Nat /\ cpNext \in 1 .. CpPackets + 1
  BY CpTypes, Zenon
<1>3. cpPre \in Seq(Nat) /\ cpCrypted \in Seq(Nat)
  BY <1>1, <1>2, SeqOfSub, Zenon
<1>4. /\ Rising(cpPre) /\ Rising(cpCrypted)
      /\ \A p \in ToSet(cpCrypted), q \in ToSet(cpPre) : p < q
      /\ \A p \in CpGone : p < cpNext /\ \A q \in ToSet(cpCrypted) \cup ToSet(cpPre) : p < q
      /\ RisingIn(cpTx, enc) /\ RisingIn(cpRx, P)
  BY Zenon DEF CpOrderInv
<1>5. /\ \A p \in ToSet(cpPre) : p < cpNext
      /\ \A p \in ToSet(cpCrypted) : p < cpNext
  BY Zenon DEF CpPlaces
<1>6. CpGone \subseteq Int /\ cpNext \in Int
  <2>1. ToSet(cpTx) \subseteq P /\ ToSet(cpRx) \subseteq P
    BY <1>1 DEF ToSet
  <2> QED
    BY <1>2, <2>1 DEF CpGone
<1>k. \A s \in Seq(P) : \A e \in P :
        Append(s, e) \in Seq(P) /\ ToSet(Append(s, e)) = ToSet(s) \cup {e}
  BY AppendMembers, Zenon
<1>7. /\ \A s \in Seq(P) : \A e \in P : ToSet(Append(s, e)) = ToSet(s) \cup {e}
      /\ \A s \in Seq(P) : s # <<>> =>
           /\ Tail(s) \in Seq(P) /\ Head(s) \in P /\ Head(s) \in ToSet(s)
           /\ ToSet(s) = ToSet(Tail(s)) \cup {Head(s)}
  BY <1>k, TailMembers, Zenon
<1> HIDE DEF P
<1>a. CASE CpArrive
  <2>1. /\ cpNext <= CpPackets /\ cpPre' = Append(cpPre, cpNext) /\ cpNext' = cpNext + 1
        /\ UNCHANGED <<cpCrypted, cpTx, cpRx>>
    BY <1>a, Zenon DEF CpArrive, cpEnds
  <2>2. cpNext \in P /\ cpNext \in Nat
    BY <1>2, <2>1 DEF P
  <2>4. ToSet(cpPre') = ToSet(cpPre) \cup {cpNext}
    BY <1>1, <1>7, <2>1, <2>2, Zenon
  <2>5. Rising(cpPre')
    BY <1>3, <1>4, <1>5, <2>1, <2>2, AppendRising, Zenon
  <2>6. Rising(cpCrypted') /\ \A p \in ToSet(cpCrypted'), q \in ToSet(cpPre') : p < q
    BY <1>4, <1>5, <2>1, <2>4
  <2>7. CpGone' = CpGone
    BY <2>1, Zenon DEF CpGone
  <2>8. \A p \in CpGone : p < cpNext + 1
    BY <1>4, <1>6
  <2>9. \A p \in CpGone' : p < cpNext' /\ \A q \in ToSet(cpCrypted') \cup ToSet(cpPre') : p < q
    BY <1>4, <2>1, <2>4, <2>7, <2>8, Zenon
  <2> QED
    BY <1>4, <2>1, <2>5, <2>6, <2>9, Zenon DEF CpOrderInv
<1>b. CASE CpArrivePlain
  <2>1. /\ cpNext <= CpPackets /\ CpKind[cpNext] = "plain"
        /\ cpTx' = Append(cpTx, cpNext) /\ cpNext' = cpNext + 1
        /\ UNCHANGED <<cpPre, cpCrypted, cpRx>>
    BY <1>b, Zenon DEF CpArrivePlain, cpQueues
  <2>2. cpNext \in P /\ cpNext \notin enc
    BY <1>2, <2>1 DEF CpOfKind, P
  <2>3. RisingIn(cpTx', enc)
    BY <1>1, <1>4, <2>1, <2>2, AppendRisingIn, Zenon
  <2>4. ToSet(Append(cpTx, cpNext)) = ToSet(cpTx) \cup {cpNext}
    BY <1>1, <1>7, <2>2, Zenon
  <2>5. CpGone' \subseteq CpGone
    BY <2>1, <2>2, <2>4 DEF CpGone
  <2>6. \A p \in CpGone : p < cpNext + 1
    BY <1>4, <1>6
  <2>7. \A p \in CpGone' : p < cpNext' /\ \A q \in ToSet(cpCrypted') \cup ToSet(cpPre') : p < q
    BY <1>4, <2>1, <2>5, <2>6, Zenon
  <2> QED
    BY <1>4, <2>1, <2>3, <2>7, Zenon DEF CpOrderInv
<1>c. CASE CpArriveStrange
  <2>1. cpNext' = cpNext + 1 /\ UNCHANGED <<cpPre, cpCrypted, cpTx, cpRx>>
    BY <1>c, Zenon DEF CpArriveStrange, cpQueues
  <2>2. CpGone' = CpGone
    BY <2>1, Zenon DEF CpGone
  <2>3. \A p \in CpGone : p < cpNext + 1
    BY <1>4, <1>6
  <2>4. \A p \in CpGone' : p < cpNext' /\ \A q \in ToSet(cpCrypted') \cup ToSet(cpPre') : p < q
    BY <1>4, <2>1, <2>2, <2>3, Zenon
  <2> QED
    BY <1>4, <2>1, <2>4, Zenon DEF CpOrderInv
<1>d. CASE UNCHANGED <<cpNext, cpPre, cpCrypted, cpTx, cpRx>>
  BY <1>0, <1>4, <1>d, CpOrderTo, Zenon
<1>e. ASSUME NEW w \in CpTasks, CpTake(w) PROVE CpOrderInv'
  <2>1. /\ \/ UNCHANGED <<cpPre, cpCrypted>>
           \/ /\ cpPre # <<>> /\ cpCrypted' = Append(cpCrypted, Head(cpPre))
              /\ cpPre' = Tail(cpPre)
        /\ UNCHANGED <<cpNext, cpTx, cpRx>>
    BY <1>e, Zenon DEF CpTake, cpEnds
  <2>2. CASE UNCHANGED <<cpPre, cpCrypted>>
    BY <1>d, <2>1, <2>2, Zenon
  <2>3. CASE /\ cpPre # <<>> /\ cpCrypted' = Append(cpCrypted, Head(cpPre))
             /\ cpPre' = Tail(cpPre)
    <3> DEFINE a == Head(cpPre)
    <3>1. a \in P /\ a \in ToSet(cpPre) /\ ToSet(cpPre) = ToSet(cpPre') \cup {a}
      BY <1>1, <1>7, <2>3, Zenon
    <3>2. ToSet(cpCrypted') = ToSet(cpCrypted) \cup {a}
      BY <1>1, <1>7, <2>3, <3>1, Zenon
    <3>3. Rising(cpPre') /\ \A p \in ToSet(cpPre') : a < p
      BY <1>3, <1>4, <2>3, TailRising, Zenon
    <3>4. a \in Nat
      BY <1>2, <3>1 DEF P
    <3>5. Rising(cpCrypted')
      BY <1>3, <1>4, <2>3, <3>1, <3>4, AppendRising, Zenon
    <3> HIDE DEF a
    <3>6. \A p \in ToSet(cpCrypted'), q \in ToSet(cpPre') : p < q
      BY <1>4, <3>1, <3>2, <3>3, Zenon
    <3>7. CpGone' = CpGone
      BY <2>1, Zenon DEF CpGone
    <3>8. \A p \in CpGone' : p < cpNext' /\ \A q \in ToSet(cpCrypted') \cup ToSet(cpPre') : p < q
      BY <1>4, <2>1, <3>1, <3>2, <3>7, Zenon
    <3> QED
      BY <1>4, <2>1, <3>3, <3>5, <3>6, <3>8, Zenon DEF CpOrderInv
  <2> QED
    BY <2>1, <2>2, <2>3
<1>f. ASSUME NEW w \in CpTasks, CpUnlink(w) PROVE CpOrderInv'
  <2>1. /\ \E R : cpCrypted' = Without(cpCrypted, R)
        /\ UNCHANGED <<cpNext, cpPre, cpTx, cpRx>>
    BY <1>f, Zenon DEF CpUnlink
  <2>2. Rising(cpCrypted')
    BY <1>3, <1>4, <2>1, OnlyRising, Zenon
  <2>3. ToSet(cpCrypted') \subseteq ToSet(cpCrypted)
    BY <1>0, <2>1, CpQueueFacts, Zenon
  <2> QED
    BY <1>0, <1>4, <2>1, <2>2, <2>3, CpOrderTo, Zenon
<1>g. CASE CpCleanRemove
  <2>1. /\ \E R : cpCrypted' = Without(cpCrypted, R) /\ cpPre' = Without(cpPre, R)
        /\ UNCHANGED <<cpNext, cpTx, cpRx>>
    BY <1>g, Zenon DEF CpCleanRemove
  <2>2. Rising(cpCrypted') /\ Rising(cpPre')
    BY <1>3, <1>4, <2>1, OnlyRising, Zenon
  <2>3. ToSet(cpCrypted') \subseteq ToSet(cpCrypted) /\ ToSet(cpPre') \subseteq ToSet(cpPre)
    BY <1>0, <2>1, CpQueueFacts, Zenon
  <2> QED
    BY <1>0, <1>4, <2>1, <2>2, <2>3, CpOrderTo, Zenon
<1>h. ASSUME NEW w \in CpTasks, CpDrain(w) PROVE CpOrderInv'
  <2> DEFINE out == CpReady
             tx == Only(out, enc)
             rx == Only(out, dec)
  <2>1. /\ cpCrypted' = Without(cpCrypted, ToSet(out))
        /\ cpTx' = cpTx \o tx /\ cpRx' = cpRx \o rx
        /\ UNCHANGED <<cpNext, cpPre>>
    BY <1>h, Zenon DEF CpDrain
  <2>2. PICK n \in 0 .. Len(cpCrypted) : out = SubSeq(cpCrypted, 1, n)
    BY <1>0, CpReadyIs, Zenon
  <2>3. /\ out \in Seq(Nat) /\ Rising(out) /\ ToSet(out) \subseteq ToSet(cpCrypted)
        /\ \A p \in ToSet(out), q \in ToSet(cpCrypted) \ ToSet(out) : p < q
    BY <1>3, <1>4, <2>2, FirstOfRising, Zenon
  <2>4. /\ tx \in Seq(P) /\ ToSet(tx) \subseteq ToSet(out) \cap enc
        /\ rx \in Seq(P) /\ ToSet(rx) \subseteq ToSet(out)
        /\ ToSet(Without(cpCrypted, ToSet(out))) \subseteq ToSet(cpCrypted) \ ToSet(out)
    BY <1>0, CpQueueFacts, Zenon DEF P
  <2>5. Rising(tx) /\ Rising(rx) /\ Rising(Without(cpCrypted, ToSet(out)))
    BY <1>3, <1>4, <2>3, OnlyRising, Zenon
  <2> HIDE DEF out, tx, rx
  <2>6. ToSet(cpCrypted') \subseteq ToSet(cpCrypted) \ ToSet(out) /\ Rising(cpCrypted')
    BY <2>1, <2>4, <2>5, Zenon
  <2>7. P \subseteq Nat
    BY <1>2 DEF P
  <2>8. \A p \in ToSet(cpTx) \cap enc, q \in ToSet(tx) : p < q
    BY <1>4, <2>3, <2>4 DEF CpGone
  <2>9. \A p \in ToSet(cpRx) \cap P, q \in ToSet(rx) : p < q
    BY <1>4, <2>3, <2>4 DEF CpGone
  <2>10. RisingIn(cpTx', enc) /\ RisingIn(cpRx', P)
    BY <1>1, <1>4, <2>1, <2>4, <2>5, <2>7, <2>8, <2>9, ConcatRisingIn, Zenon
  <2>11. \A s, t \in Seq(P) : s \o t \in Seq(P) /\ ToSet(s \o t) = ToSet(s) \cup ToSet(t)
    BY ConcatMembers, Zenon
  <2>12. ToSet(cpTx') = ToSet(cpTx) \cup ToSet(tx) /\ ToSet(cpRx') = ToSet(cpRx) \cup ToSet(rx)
    BY <1>1, <2>1, <2>4, <2>11, Zenon
  <2>13. CpGone' \subseteq CpGone \cup ToSet(out)
    BY <2>4, <2>12, Zenon DEF CpGone
  <2>14. \A p \in ToSet(out) : p < cpNext /\ \A q \in ToSet(cpCrypted') \cup ToSet(cpPre') : p < q
    BY <1>4, <1>5, <2>1, <2>3, <2>6, Zenon
  <2>15. \A p \in CpGone : p < cpNext /\ \A q \in ToSet(cpCrypted') \cup ToSet(cpPre') : p < q
    BY <1>4, <2>1, <2>6, Zenon
  <2>16. \A p \in CpGone' : p < cpNext' /\ \A q \in ToSet(cpCrypted') \cup ToSet(cpPre') : p < q
    BY <2>1, <2>13, <2>14, <2>15, Zenon
  <2>17. Rising(cpPre') /\ \A p \in ToSet(cpCrypted'), q \in ToSet(cpPre') : p < q
    BY <1>4, <2>1, <2>6, Zenon
  <2> QED
    BY <2>6, <2>10, <2>16, <2>17, Zenon DEF CpOrderInv, P
<1>i. ASSUME NEW w \in CpTasks, CpRun(w) \/ CpTimeout(w) PROVE CpOrderInv'
  <2>1. CASE CpTake(w) \/ CpUnlink(w) \/ CpDrain(w)
    BY <1>e, <1>f, <1>h, <2>1, Zenon
  <2>2. CASE ~(CpTake(w) \/ CpUnlink(w) \/ CpDrain(w))
    <3>1. UNCHANGED <<cpNext, cpPre, cpCrypted, cpTx, cpRx>>
      BY <1>i, <2>2, Zenon DEF CpRun, CpTop, CpWait, CpWoken, CpCrypt, CpCryptFails, CpTimeout,
         cpQueues, cpEnds
    <3> QED
      BY <1>d, <3>1, Zenon
  <2> QED
    BY <2>1, <2>2
<1>j. CASE CpCleanBegin \/ CpCleanScan \/ UNCHANGED cpVars
  <2>1. UNCHANGED <<cpNext, cpPre, cpCrypted, cpTx, cpRx>>
    BY <1>j, Zenon DEF CpCleanBegin, CpCleanScan, cpVars, cpQueues, cpEnds
  <2> QED
    BY <1>d, <2>1, Zenon
<1> QED
  BY <1>a, <1>b, <1>c, <1>g, <1>i, <1>j, Zenon DEF CpNextStep

\* The pipeline starts empty.
LEMMA CpAtStart ==
  ASSUME CpAssumption, CpInit
  PROVE  CpTypeOK /\ CpOwnInv /\ CpOrderInv
<1>1. /\ cpNext = 1 /\ cpPre = <<>> /\ cpCrypted = <<>> /\ cpTx = <<>> /\ cpRx = <<>>
      /\ cpSt = [p \in 1 .. CpPackets |-> "pre"]
      /\ cpPc = [w \in CpTasks |-> "asleep"] /\ cpHand = [w \in CpTasks |-> CpNone]
      /\ cpRunning = {} /\ cpPaused = FALSE /\ cpClean = [at |-> "idle", cpu |-> 0, k |-> 0]
      /\ cpFreed = {} /\ cpLeaked = {} /\ cpSlipped = {} /\ cpEvents = 0
  BY Zenon DEF CpInit
<1>2. CpPackets \in Nat /\ CpWorkers \in Nat
  BY DEF CpAssumption
<1>3. CpTypeOK
  <2>1. /\ cpNext \in 1 .. CpPackets + 1 /\ 0 \in 0 .. CpPackets
        /\ cpClean \in [at : {"idle", "scan", "over"}, cpu : 0 .. CpWorkers,
                         k : 0 .. CpWorkers + 1]
    BY <1>1, <1>2
  <2>2. \A S : <<>> \in Seq(S)
    OBVIOUS
  <2>3. /\ cpPre \in Seq(1 .. CpPackets) /\ cpCrypted \in Seq(1 .. CpPackets)
        /\ cpTx \in Seq(1 .. CpPackets) /\ cpRx \in Seq(1 .. CpPackets)
    BY <1>1, <2>2, Zenon
  <2>4. cpPc \in [CpTasks -> CpPcs] /\ cpSt \in [1 .. CpPackets -> {"pre", "done", "fail"}]
    BY <1>1 DEF CpPcs
  <2>5. cpHand \in [CpTasks -> 0 .. CpPackets]
    BY <1>1, <2>1, Zenon DEF CpNone
  <2>6. cpPaused \in BOOLEAN /\ cpEvents \in Nat
    BY <1>1
  <2> QED
    BY <1>1, <2>1, <2>3, <2>4, <2>5, <2>6, Zenon DEF CpTypeOK
<1>4. \A w \in CpTasks : cpPc[w] = "asleep" /\ cpHand[w] = 0
  BY <1>1 DEF CpNone
<1>5. ToSet(cpPre) = {} /\ ToSet(cpCrypted) = {} /\ ToSet(cpTx) = {} /\ ToSet(cpRx) = {}
  BY <1>1 DEF ToSet
<1>6. CpHands /\ CpWatch /\ CpFreedInHand
  BY <1>1, <1>4 DEF CpHands, CpWatch, CpFreedInHand, CpWorks
<1>7. CpPlaces
  BY <1>1, <1>4, <1>5 DEF CpPlaces, CpWorks, CpNone
<1>8. CpOrderInv
  <2>1. Len(<<>>) = 0
    OBVIOUS
  <2> QED
    BY <1>1, <1>5, <2>1 DEF CpOrderInv, CpGone, Rising, RisingIn
<1> QED
  BY <1>3, <1>6, <1>7, <1>8 DEF CpOwnInv

LEMMA CpInvStep ==
  ASSUME CpAssumption, CpTypeOK, CpOwnInv, CpOrderInv, [CpNextStep]_cpVars
  PROVE  CpTypeOK' /\ CpOwnInv' /\ CpOrderInv'
<1>1. CpHands /\ CpPlaces /\ Rising(cpPre)
  BY Zenon DEF CpOwnInv, CpOrderInv
<1> QED
  BY <1>1, CpTypeStep, CpOwnStep, CpOrderStep, Zenon

\* CpFreedInHand: for every number of tasks and packets, whatever fails and
\* whenever the station is removed, _clean_up_crypto_skb (src/smac/dev.c)
\* frees a packet a task works on only if that task slipped past
\* _stop_crypto_task.
THEOREM FreedOnlyIfSlipped == CpSpec => []CpFreedInHand
<1>1. CpInit => CpTypeOK /\ CpOwnInv /\ CpOrderInv
  BY CpAssumption, CpAtStart
<1>2. CpTypeOK /\ CpOwnInv /\ CpOrderInv /\ [CpNextStep]_cpVars
      => (CpTypeOK /\ CpOwnInv /\ CpOrderInv)'
  BY CpAssumption, CpInvStep
<1>3. CpOwnInv => CpFreedInHand
  BY DEF CpOwnInv
<1> QED
  BY <1>1, <1>2, <1>3, PTL DEF CpSpec

\* CpInOrder: packets that go through the pipeline leave it in the order they
\* came, for every number of encrypt tasks that work at once and every
\* failure among them (ssv6xxx_encrypt_task).
THEOREM EncryptedInOrder == CpSpec => []CpInOrder
<1>1. CpInit => CpTypeOK /\ CpOwnInv /\ CpOrderInv
  BY CpAssumption, CpAtStart
<1>2. CpTypeOK /\ CpOwnInv /\ CpOrderInv /\ [CpNextStep]_cpVars
      => (CpTypeOK /\ CpOwnInv /\ CpOrderInv)'
  BY CpAssumption, CpInvStep
<1>3. CpTypeOK /\ CpOrderInv => CpInOrder
  <2> SUFFICES ASSUME CpTypeOK, CpOrderInv PROVE CpInOrder
    OBVIOUS
  <2>1. RisingIn(cpTx, CpOfKind("enc")) /\ RisingIn(cpRx, 1 .. CpPackets)
    BY Zenon DEF CpOrderInv
  <2>2. cpRx \in Seq(1 .. CpPackets)
    BY Zenon DEF CpTypeOK
  <2>3. \A j \in 1 .. Len(cpRx) : cpRx[j] \in 1 .. CpPackets
    BY <2>2, ElementOfSeq, Zenon
  <2>4. \A j, k \in 1 .. Len(cpRx) : j < k => cpRx[j] < cpRx[k]
    BY <2>1, <2>3 DEF RisingIn
  <2> QED
    BY <2>1, <2>4, Zenon DEF CpInOrder, RisingIn
<1> QED
  BY <1>1, <1>2, <1>3, PTL DEF CpSpec
-----------------------------------------------------------------------------
(* BaBitmap: for every size of the map, every number of sequence numbers   *)
(* and every A-MPDU the walker reads the bitmap exactly as its definition  *)
(* says, and never outside its two words.                                  *)


\* The frames of an A-MPDU are sequence numbers, each less than W after
\* those before it.
Spread(s) ==
  /\ s \in Seq(Ssn) /\ Len(s) >= 1
  /\ \A j, k \in 1 .. Len(s) : j < k => Gap(s[j], s[k]) \in 1 .. W - 1

LEMMA WrapKeepsGap ==
  ASSUME NEW a \in Ssn, NEW x \in 0 .. W - 1, NEW y \in 0 .. W - 1, x < y
  PROVE  Gap(Wrap(a + x), Wrap(a + y)) = y - x
<1>1. CASE a + y < MaxSsn
  BY <1>1, BitmapAssumption DEF Wrap, Gap, Ssn
<1>2. CASE a + x < MaxSsn /\ a + y >= MaxSsn
  BY <1>2, BitmapAssumption DEF Wrap, Gap, Ssn
<1>3. CASE a + x >= MaxSsn
  BY <1>3, BitmapAssumption DEF Wrap, Gap, Ssn
<1> QED
  BY <1>1, <1>2, <1>3, BitmapAssumption DEF Ssn

LEMMA AmpduIsSpread == ASSUME NEW s \in Ampdus PROVE Spread(s)
<1>1. PICK n \in 1 .. MaxLen : s \in Ampdu(n)
  BY DEF Ampdus
<1>2. PICK a \in Ssn, d \in [1 .. n -> 0 .. W - 1] :
        /\ \A j, k \in 1 .. n : j < k => d[j] < d[k]
        /\ s = [k \in 1 .. n |-> Wrap(a + d[k])]
  BY <1>1 DEF Ampdu
<1>3. n \in Nat /\ n >= 1
  BY <1>1, BitmapAssumption
<1>4. \A k \in 1 .. n : s[k] = Wrap(a + d[k]) /\ s[k] \in Ssn
  BY <1>2, <1>3, BitmapAssumption DEF Wrap, Ssn
<1>5. s \in Seq(Ssn) /\ Len(s) = n
  BY <1>2, <1>3, <1>4
<1>6. ASSUME NEW j \in 1 .. n, NEW k \in 1 .. n, j < k
      PROVE  Gap(s[j], s[k]) \in 1 .. W - 1
  <2>1. d[j] \in 0 .. W - 1 /\ d[k] \in 0 .. W - 1 /\ d[j] < d[k]
    BY <1>2, <1>6
  <2>2. Gap(Wrap(a + d[j]), Wrap(a + d[k])) = d[k] - d[j]
    BY <2>1, WrapKeepsGap
  <2> QED
    BY <1>4, <2>1, <2>2, BitmapAssumption
<1> QED
  BY <1>3, <1>5, <1>6 DEF Spread
-----------------------------------------------------------------------------
(* Where the walker is.                                                    *)

PlaceType == [found : BOOLEAN, word : Nat, bit : Nat]

\* c is the place of a frame at distance dist from start.
Right(c, dist) ==
  /\ c.found <=> dist < W
  /\ c.found => \/ c.word = 0 /\ c.bit = dist /\ c.bit < WordLen
                \/ c.word = 1 /\ c.bit + WordLen = dist /\ c.bit < WordLen

\* A place that is not found has left the map for good.
Past(c) == ~c.found => c.word >= 1 /\ (c.word >= 2 \/ c.bit >= WordLen)

Now == IF i < Len(ssns) THEN i + 1 ELSE i

\* Before a frame was found the indices are computed afresh; afterwards they
\* follow the distance from start.
WalkInv ==
  /\ start \in Ssn /\ Spread(ssns)
  /\ i \in 0 .. Len(ssns) /\ first \in BOOLEAN /\ cur \in PlaceType
  /\ acks \in Seq(BOOLEAN) /\ Len(acks) = i
  /\ Right(cur, Gap(start, ssns[Now]))
  /\ IF first THEN Past(cur) /\ \E p \in 1 .. Now : Gap(start, ssns[p]) < W
     ELSE ~cur.found
  /\ WalkIsExact

\* Between two frames of one A-MPDU the distance from start grows by their gap,
\* once it has been less than W.
LEMMA GapsAdd ==
  ASSUME NEW s \in Ssn, NEW x \in Ssn, NEW y \in Ssn, NEW z \in Ssn,
         x = y \/ Gap(x, y) \in 1 .. W - 1,
         Gap(y, z) \in 1 .. W - 1, Gap(x, z) \in 1 .. W - 1, Gap(s, x) < W
  PROVE  /\ Gap(s, y) \in Nat /\ Gap(s, z) \in Nat
         /\ Gap(s, z) = Gap(s, y) + Gap(y, z)
  BY BitmapAssumption DEF Gap, Ssn

\* ssv6xxx_ssn_to_bit_idx finds exactly the frames inside the map, at their bit.
LEMMA SsnToBitIdxIsExact ==
  ASSUME NEW s \in Ssn, NEW ssn \in Ssn, NEW c \in PlaceType,
         NEW r, r = SsnToBitIdx(s, ssn, c)
  PROVE  r \in PlaceType /\ Right(r, Gap(s, ssn))
<1>1. CASE ssn >= s /\ ssn - s >= W
  <2>1. r = NotFound(c)
    BY <1>1 DEF SsnToBitIdx
  <2>2. r.found = FALSE /\ r \in PlaceType
    BY <2>1 DEF NotFound, PlaceType
  <2>3. Gap(s, ssn) >= W /\ Gap(s, ssn) \in Nat /\ W \in Nat
    BY <1>1, BitmapAssumption DEF Gap, Ssn
  <2> QED
    BY <2>2, <2>3 DEF Right
<1>2. CASE ssn < s /\ s - ssn <= MaxSsn - W
  <2>1. r = [found |-> FALSE, word |-> 0, bit |-> 0]
    BY <1>2, BitmapAssumption DEF SsnToBitIdx, Ssn
  <2>2. r.found = FALSE /\ r \in PlaceType
    BY <2>1 DEF PlaceType
  <2>3. Gap(s, ssn) >= W /\ Gap(s, ssn) \in Nat /\ W \in Nat
    BY <1>2, BitmapAssumption DEF Gap, Ssn
  <2> QED
    BY <2>2, <2>3 DEF Right
<1>3. CASE ~(ssn >= s /\ ssn - s >= W) /\ ~(ssn < s /\ s - ssn <= MaxSsn - W)
  <2> DEFINE n == Gap(s, ssn)
  <2>1. n \in Nat /\ n < W
    BY <1>3, BitmapAssumption DEF Gap, Ssn
  <2>2. r = Place(n, 0)
    BY <1>3, BitmapAssumption DEF SsnToBitIdx, Gap, Ssn
  <2> HIDE DEF n
  <2>3. r \in PlaceType /\ Right(r, n)
    BY <2>1, <2>2, BitmapAssumption DEF Place, Right, PlaceType
  <2> QED
    BY <2>3 DEF n
<1> QED
  BY <1>1, <1>2, <1>3

\* ssv6xxx_inc_bit_idx and the check after it: from the place c of a frame at
\* distance dist, to that of a frame g further.
LEMMA PlaceFollows ==
  ASSUME NEW c \in PlaceType, NEW dist \in Nat, NEW g \in 1 .. W - 1,
         Right(c, dist), Past(c)
  PROVE  LET r == Checked(Place(c.bit + g, c.word))
         IN  r \in PlaceType /\ Right(r, dist + g) /\ Past(r)
<1> DEFINE r == Checked(Place(c.bit + g, c.word))
<1>1. /\ W \in Nat /\ WordLen \in Nat /\ W = 2 * WordLen /\ WordLen > 0
      /\ c.word \in Nat /\ c.bit \in Nat /\ c.found \in BOOLEAN
  BY BitmapAssumption DEF PlaceType
<1>2. PICK n, q : n \in Nat /\ n = c.bit + g /\ q = Place(n, c.word) /\ r = Checked(q)
  BY <1>1
<1> SUFFICES r \in PlaceType /\ Right(r, dist + g) /\ Past(r)
  OBVIOUS
<1> HIDE DEF r
<1>3. /\ q.found = TRUE /\ q.word \in Nat /\ q.bit \in Nat
      /\ \/ n >= WordLen /\ q.word = c.word + 1 /\ q.bit = n - WordLen
         \/ n < WordLen /\ q.word = c.word /\ q.bit = n
      /\ q \in PlaceType
  <2>1. CASE n >= WordLen
    BY <1>1, <1>2, <2>1 DEF Place, PlaceType
  <2>2. CASE ~(n >= WordLen)
    BY <1>1, <1>2, <2>2 DEF Place, PlaceType
  <2> QED
    BY <2>1, <2>2
<1>4. CASE InMap(q)
  <2>1. r = q
    BY <1>2, <1>4 DEF Checked
  <2>2. dist + g < W
    BY <1>1, <1>2, <1>3, <1>4 DEF InMap, Right, Past
  <2>3. \/ q.word = 0 /\ q.bit = dist + g /\ q.bit < WordLen
        \/ q.word = 1 /\ q.bit + WordLen = dist + g /\ q.bit < WordLen
    BY <1>1, <1>2, <1>3, <1>4 DEF InMap, Right, Past
  <2> QED
    BY <1>3, <2>1, <2>2, <2>3 DEF Right, Past
<1>5. CASE ~InMap(q)
  <2>1. r.found = FALSE /\ r.word = q.word /\ r.bit = q.bit /\ r \in PlaceType
    BY <1>2, <1>3, <1>5 DEF Checked, NotFound, PlaceType
  <2>2. ~(dist + g < W)
    BY <1>1, <1>2, <1>3, <1>5 DEF InMap, Right, Past
  <2>3. q.word >= 1 /\ (q.word >= 2 \/ q.bit >= WordLen)
    BY <1>1, <1>2, <1>3, <1>5 DEF InMap, Right, Past
  <2> QED
    BY <2>1, <2>2, <2>3 DEF Right, Past
<1> QED
  BY <1>4, <1>5
-----------------------------------------------------------------------------
\* One turn of the loop: from the place of a frame to that of the next.
LEMMA NextPlace ==
  ASSUME WalkInv, i < Len(ssns), i + 1 # Len(ssns), Step
  PROVE  /\ cur' \in PlaceType /\ first' \in BOOLEAN
         /\ Right(cur', Gap(start, ssns[i + 2]))
         /\ IF first' THEN Past(cur') /\ \E p \in 1 .. i + 2 : Gap(start, ssns[p]) < W
            ELSE ~cur'.found
  <1> DEFINE a == ssns[i + 1]
             b == ssns[i + 2]
  <1>1. /\ i + 2 \in 1 .. Len(ssns) /\ i + 1 \in 1 .. Len(ssns) /\ i \in Nat
        /\ start \in Ssn /\ a \in Ssn /\ b \in Ssn
        /\ cur \in PlaceType /\ Right(cur, Gap(start, a)) /\ first \in BOOLEAN
    BY DEF WalkInv, Now, Spread
  <1>2. CASE ~first
    <2>1. cur' = SsnToBitIdx(start, b, cur) /\ first' = cur'.found
      <3>1. cur' = SsnToBitIdx(start, b, cur) /\ first' = (first \/ cur'.found)
        BY <1>2 DEF Step
      <3>2. cur' \in PlaceType
        BY <1>1, <3>1, SsnToBitIdxIsExact
      <3> QED
        BY <1>2, <3>1, <3>2 DEF PlaceType
    <2>2. cur' \in PlaceType /\ Right(cur', Gap(start, b))
      BY <1>1, <2>1, SsnToBitIdxIsExact
    <2>3. first' => Gap(start, b) < W
      BY <2>1, <2>2 DEF Right
    <2> QED
      BY <1>1, <2>1, <2>2, <2>3 DEF PlaceType, Past
  <1>3. CASE first
    <2>1. cur' = Checked(IncBitIdx(a, b, cur)) /\ first' = TRUE
      BY <1>3, <1>1 DEF Step
    <2>2. PICK p \in 1 .. i + 1 : Gap(start, ssns[p]) < W
      BY <1>3, <1>1 DEF WalkInv, Now
    <2>3. /\ ssns[p] \in Ssn /\ Gap(a, b) \in 1 .. W - 1
          /\ Gap(ssns[p], b) \in 1 .. W - 1
          /\ ssns[p] = a \/ Gap(ssns[p], a) \in 1 .. W - 1
      <3> DEFINE Apart(j, k) == Gap(ssns[j], ssns[k]) \in 1 .. W - 1
      <3>1. \A j, k \in 1 .. Len(ssns) : j < k => Apart(j, k)
        BY Zenon DEF WalkInv, Spread
      <3>2. /\ p \in 1 .. Len(ssns) /\ p < i + 2 /\ (p = i + 1 \/ p < i + 1)
            /\ i + 1 < i + 2
        BY <1>1, <2>2
      <3>3. ssns[p] \in Ssn
        BY <3>2 DEF WalkInv, Spread
      <3> HIDE DEF Apart
      <3>4. Apart(i + 1, i + 2) /\ Apart(p, i + 2)
        BY <1>1, <3>1, <3>2, Zenon
      <3>5. p = i + 1 \/ Apart(p, i + 1)
        BY <1>1, <3>1, <3>2, Zenon
      <3> QED
        BY <3>3, <3>4, <3>5, Zenon DEF Apart
    <2>4. /\ Gap(start, a) \in Nat /\ Gap(start, b) \in Nat
          /\ Gap(start, b) = Gap(start, a) + Gap(a, b)
      BY <1>1, <2>2, <2>3, GapsAdd
    <2>5. IncBitIdx(a, b, cur) = Place(cur.bit + Gap(a, b), cur.word)
      <3>1. ~(a > b /\ a - b < MaxSsn - W)
        <4>1. Gap(a, b) < W /\ a \in Int /\ b \in Int /\ W \in Nat /\ MaxSsn \in Nat
          <5>1. W \in Nat /\ MaxSsn \in Nat
            BY BitmapAssumption
          <5> DEFINE g == Gap(a, b)
          <5>2. g \in 1 .. W - 1
            BY <2>3, Zenon
          <5> HIDE DEF g
          <5>3. g < W
            BY <5>1, <5>2
          <5>4. a \in Int /\ b \in Int
            BY <1>1, <5>1 DEF Ssn
          <5> QED
            BY <5>1, <5>3, <5>4, Zenon DEF g
        <4> HIDE DEF a, b
        <4> QED
          BY <4>1 DEF Gap
      <3>2. (IF a > b THEN MaxSsn - (a - b) ELSE b - a) = Gap(a, b)
        BY <1>1, BitmapAssumption DEF Gap, Ssn
      <3> QED
        BY <3>1, <3>2 DEF IncBitIdx
    <2>6. Past(cur)
      BY <1>3 DEF WalkInv
    <2>7. cur' \in PlaceType /\ Right(cur', Gap(start, b)) /\ Past(cur')
      <3>1. cur' = Checked(Place(cur.bit + Gap(a, b), cur.word))
        BY <2>1, <2>5
      <3>2. cur' \in PlaceType /\ Right(cur', Gap(start, a) + Gap(a, b)) /\ Past(cur')
        <4> DEFINE dist == Gap(start, a)
                   g == Gap(a, b)
        <4>1. dist \in Nat /\ g \in 1 .. W - 1 /\ Right(cur, dist)
          BY <1>1, <2>3, <2>4
        <4> HIDE DEF dist, g
        <4>2. LET r == Checked(Place(cur.bit + g, cur.word))
              IN  r \in PlaceType /\ Right(r, dist + g) /\ Past(r)
          BY <1>1, <2>6, <4>1, PlaceFollows
        <4> QED
          BY <3>1, <4>2 DEF dist, g
      <3> QED
        BY <2>4, <3>2
    <2>8. \E k \in 1 .. i + 2 : Gap(start, ssns[k]) < W
      BY <1>1, <2>2
    <2> QED
      BY <2>1, <2>7, <2>8
  <1> QED
    BY <1>1, <1>2, <1>3

\* What a frame's place says of it is what the definition says.
LEMMA BitSetIsAcked ==
  ASSUME WalkInv, i < Len(ssns)
  PROVE  BitSet \in BOOLEAN /\ (BitSet <=> IsAcked(ssns[i + 1]))
  <1>1. /\ Right(cur, Gap(start, ssns[i + 1])) /\ WordLen \in Nat
        /\ cur.word \in Nat /\ cur.bit \in Nat /\ cur.found \in BOOLEAN
    BY BitmapAssumption DEF WalkInv, Now, PlaceType
  <1>2. cur.found => cur.word * WordLen + cur.bit = Gap(start, ssns[i + 1])
    <2>1. CASE cur.word = 0
      BY <2>1, <1>1 DEF Right
    <2>2. CASE cur.word = 1
      BY <2>2, <1>1 DEF Right
    <2> QED
      BY <2>1, <2>2, <1>1 DEF Right
  <1>3. cur.found <=> Gap(start, ssns[i + 1]) < W
    BY <1>1 DEF Right
  <1> QED
    BY <1>2, <1>3 DEF BitSet, IsAcked
-----------------------------------------------------------------------------
LEMMA WalkInit == Init => WalkInv
  <1> SUFFICES ASSUME Init PROVE WalkInv
    OBVIOUS
  <1>1. Spread(ssns) /\ start \in Ssn /\ i = 0 /\ acks = <<>> /\ first = cur.found
    BY AmpduIsSpread DEF Init
  <1>2. ssns[1] \in Ssn /\ Len(ssns) \in Nat /\ Len(ssns) >= 1 /\ Now = 1
    BY <1>1 DEF Spread, Now
  <1>3. Unset \in PlaceType
    BY BitmapAssumption DEF Unset, PlaceType
  <1>4. cur \in PlaceType /\ Right(cur, Gap(start, ssns[1]))
    BY <1>1, <1>2, <1>3, SsnToBitIdxIsExact DEF Init
  <1>5. first => Gap(start, ssns[1]) < W
    BY <1>1, <1>4 DEF Right
  <1> QED
    BY <1>1, <1>2, <1>4, <1>5 DEF WalkInv, WalkIsExact, Past, PlaceType

LEMMA WalkStep == WalkInv /\ [Next]_vars => WalkInv'
  <1> SUFFICES ASSUME WalkInv, [Next]_vars PROVE WalkInv'
    OBVIOUS
  <1>1. CASE Step
    <2>1. /\ i < Len(ssns) /\ i \in Nat /\ Len(ssns) \in Nat /\ i' = i + 1
          /\ start' = start /\ ssns' = ssns /\ bits' = bits
          /\ acks' = Append(acks, BitSet) /\ acks \in Seq(BOOLEAN) /\ Len(acks) = i
      BY <1>1 DEF Step, input, WalkInv, Spread
    <2>2. BitSet \in BOOLEAN /\ (BitSet <=> IsAcked(ssns[i + 1]))
      BY <2>1, BitSetIsAcked
    <2>3. acks' \in Seq(BOOLEAN) /\ Len(acks') = i'
      BY <2>1, <2>2
    <2>4. WalkIsExact'
      BY <2>1, <2>2 DEF WalkIsExact, WalkInv, IsAcked
    <2>5. i' \in 0 .. Len(ssns') /\ start' \in Ssn /\ Spread(ssns')
      BY <2>1 DEF WalkInv
    <2>6. CASE i + 1 = Len(ssns)
      <3>1. cur' = cur /\ first' = first /\ Now' = Now /\ Now = i + 1
        BY <1>1, <2>1, <2>6 DEF Step, Now
      <3> QED
        BY <2>1, <2>3, <2>4, <2>5, <3>1 DEF WalkInv
    <2>7. CASE i + 1 # Len(ssns)
      <3>1. Now' = i + 2
        BY <2>1, <2>7 DEF Now
      <3>2. /\ cur' \in PlaceType /\ first' \in BOOLEAN
            /\ Right(cur', Gap(start, ssns[i + 2]))
            /\ IF first' THEN Past(cur') /\ \E p \in 1 .. i + 2 : Gap(start, ssns[p]) < W
               ELSE ~cur'.found
        BY <1>1, <2>1, <2>7, NextPlace
      <3> QED
        BY <2>1, <2>3, <2>4, <2>5, <3>1, <3>2 DEF WalkInv
    <2> QED
      BY <2>6, <2>7
  <1>2. CASE UNCHANGED vars
    BY <1>2 DEF vars, WalkInv, Now, WalkIsExact, IsAcked
  <1> QED
    BY <1>1, <1>2 DEF Next

\* The walker marks a frame as acknowledged exactly when its bit is set.
THEOREM WalkerReadsTheBitmap == Spec => []WalkIsExact
  <1>1. WalkInv => WalkIsExact
    BY DEF WalkInv
  <1> QED
    BY <1>1, WalkInit, WalkStep, PTL DEF Spec

\* The walker never indexes sn_bit_map out of its two words.
THEOREM WalkerStaysInTheBitmap == Spec => []IndexInMap
  <1>1. WalkInv => IndexInMap
    BY BitmapAssumption DEF WalkInv, IndexInMap, PlaceType, Right, InMap
  <1> QED
    BY <1>1, WalkInit, WalkStep, PTL DEF Spec
-----------------------------------------------------------------------------
(* RxSplit: where the frames begin                                         *)

\* The places of the frames, as a function of their lengths.
StartsFrom(L) ==
  CHOOSE s : s = [k \in 1 .. Len(L) + 1 |-> IF k = 1 THEN 0 ELSE s[k - 1] + L[k - 1]]

LEMMA SumsExist ==
  ASSUME NEW L \in Seq(Nat), NEW m \in 0 .. Len(L)
  PROVE  \E s \in [1 .. m + 1 -> Nat] :
           s = [k \in 1 .. m + 1 |-> IF k = 1 THEN 0 ELSE s[k - 1] + L[k - 1]]
<1> DEFINE Is(s, j) == s = [k \in 1 .. j + 1 |-> IF k = 1 THEN 0 ELSE s[k - 1] + L[k - 1]]
           Has(j) == \E s \in [1 .. j + 1 -> Nat] : Is(s, j)
           Bad == {j \in 0 .. Len(L) : ~Has(j)}
<1>1. Has(0)
  <2> DEFINE s == [k \in 1 .. 0 + 1 |-> 0]
  <2>1. s \in [1 .. 0 + 1 -> Nat] /\ \A k \in 1 .. 0 + 1 : k = 1
    OBVIOUS
  <2>2. Is(s, 0)
    BY <2>1
  <2> QED
    BY <2>1, <2>2, Zenon
<1>2. ASSUME NEW j \in 0 .. Len(L), j > 0, Has(j - 1) PROVE Has(j)
  <2>1. PICK t \in [1 .. (j - 1) + 1 -> Nat] : Is(t, j - 1)
    BY <1>2
  <2> DEFINE s == [k \in 1 .. j + 1 |-> IF k = 1 THEN 0 ELSE t[k - 1] + L[k - 1]]
  <2>2. j \in 1 .. Len(L) /\ (j - 1) + 1 = j /\ Len(L) \in Nat
    BY <1>2
  <2>3. s \in [1 .. j + 1 -> Nat]
    <3>1. t \in [1 .. j -> Nat] /\ L \in [1 .. Len(L) -> Nat]
      BY <2>1, <2>2
    <3>2. \A k \in 1 .. j + 1 : k # 1 => t[k - 1] \in Nat /\ L[k - 1] \in Nat
      BY <3>1, <2>2
    <3>3. \A k \in 1 .. j + 1 : (IF k = 1 THEN 0 ELSE t[k - 1] + L[k - 1]) \in Nat
      BY <3>2
    <3> QED
      BY <3>3
  <2>4. \A k \in 1 .. j : s[k] = t[k]
    BY <2>1, <2>2
  <2>5. \A k \in 1 .. j + 1 : k # 1 => s[k - 1] = t[k - 1]
    <3> HIDE DEF s
    <3>1. \A k \in 1 .. j + 1 : k # 1 => k - 1 \in 1 .. j
      BY <2>2
    <3> QED
      BY <2>4, <3>1
  <2>6. \A k \in 1 .. j + 1 : (IF k = 1 THEN 0 ELSE t[k - 1] + L[k - 1])
                             = (IF k = 1 THEN 0 ELSE s[k - 1] + L[k - 1])
    <3> HIDE DEF s
    <3> QED
      BY <2>5, Zenon
  <2>7. Is(s, j)
    BY <2>6, Zenon
  <2> QED
    BY <2>3, <2>7, Zenon
<1>3. Bad = {}
  <2>1. SUFFICES ASSUME Bad # {} PROVE FALSE
    OBVIOUS
  <2>2. Len(L) \in Nat /\ Bad \in SUBSET (0 .. Len(L))
    OBVIOUS
  <2>3. PICK j \in Bad : \A l \in Bad : j <= l
    BY <2>1, <2>2, LeastNumber, Zenon
  <2> HIDE DEF Has
  <2>4. j \in 0 .. Len(L) /\ ~Has(j) /\ j # 0
    BY <1>1
  <2>5. j - 1 \in 0 .. Len(L) /\ j - 1 \notin Bad
    BY <2>3, <2>4
  <2> QED
    BY <1>2, <2>4, <2>5
<1> QED
  BY <1>3, Zenon

LEMMA StartsFromIs ==
  ASSUME NEW L \in Seq(Nat)
  PROVE  /\ StartsFrom(L) \in [1 .. Len(L) + 1 -> Nat]
         /\ StartsFrom(L)[1] = 0
         /\ \A k \in 1 .. Len(L) : StartsFrom(L)[k + 1] = StartsFrom(L)[k] + L[k]
<1> DEFINE n == Len(L)
           Is(s) == s = [k \in 1 .. n + 1 |-> IF k = 1 THEN 0 ELSE s[k - 1] + L[k - 1]]
<1>1. n \in Nat /\ n \in 0 .. n
  OBVIOUS
<1>2. PICK t \in [1 .. n + 1 -> Nat] : Is(t)
  BY <1>1, SumsExist, Zenon
<1>3. Is(StartsFrom(L))
  BY <1>2, Zenon DEF StartsFrom
<1> DEFINE s == StartsFrom(L)
<1> HIDE DEF s
<1>4. s = [k \in 1 .. n + 1 |-> IF k = 1 THEN 0 ELSE s[k - 1] + L[k - 1]]
  BY <1>3 DEF s
<1>5. s[1] = 0 /\ \A k \in 1 .. n : s[k + 1] = s[k] + L[k]
  <2>1. \A k \in 1 .. n + 1 : s[k] = IF k = 1 THEN 0 ELSE s[k - 1] + L[k - 1]
    <3> DEFINE e(k) == IF k = 1 THEN 0 ELSE s[k - 1] + L[k - 1]
               T == [k \in 1 .. n + 1 |-> e(k)]
    <3>1. s = T
      BY <1>4
    <3> HIDE DEF e
    <3>2. \A k \in 1 .. n + 1 : T[k] = e(k)
      OBVIOUS
    <3> HIDE DEF T
    <3>3. \A k \in 1 .. n + 1 : s[k] = e(k)
      BY <3>1, <3>2
    <3> QED
      BY <3>3 DEF e
  <2>2. \A k \in 1 .. n : k + 1 \in 1 .. n + 1 /\ k + 1 # 1 /\ (k + 1) - 1 = k
    BY <1>1
  <2>3. \A k \in 1 .. n : s[k + 1] = s[k] + L[k]
    <3>1. TAKE k \in 1 .. n
    <3>2. s[k + 1] = s[(k + 1) - 1] + L[(k + 1) - 1]
      BY <2>1, <2>2, Zenon
    <3>3. (k + 1) - 1 = k
      BY <2>2
    <3> QED
      BY <3>2, <3>3, Zenon
  <2>4. 1 \in 1 .. n + 1
    BY <1>1
  <2> QED
    BY <2>1, <2>3, <2>4, Zenon
<1>6. \A k \in 1 .. n + 1 : s[k] \in Nat
  <2> DEFINE Bad == {k \in 1 .. n + 1 : s[k] \notin Nat}
  <2>1. Bad = {}
    <3>1. SUFFICES ASSUME Bad # {} PROVE FALSE
      OBVIOUS
    <3>2. n + 1 \in Nat /\ Bad \in SUBSET (0 .. n + 1)
      BY <1>1
    <3>3. PICK j \in Bad : \A l \in Bad : j <= l
      BY <3>1, <3>2, LeastNumber, Zenon
    <3>4. j \in 1 .. n + 1 /\ j # 1 /\ s[j] \notin Nat
      BY <1>5
    <3>5. j - 1 \in 1 .. n /\ s[j - 1] \in Nat
      BY <1>1, <3>3, <3>4
    <3>6. s[j] = s[j - 1] + L[j - 1] /\ L[j - 1] \in Nat
      BY <1>1, <1>5, <3>4, <3>5
    <3> QED
      BY <3>4, <3>5, <3>6
  <2> QED
    BY <2>1
<1>7. s \in [1 .. n + 1 -> Nat]
  BY <1>4, <1>6
<1> QED
  BY <1>5, <1>7, Zenon DEF s

LEMMA RxStartsAre == RxStarts = StartsFrom(rxLens)
  BY Zenon DEF RxStarts, StartsFrom

LEMMA RxStartsPrime == RxStarts' = StartsFrom(rxLens')
  BY Zenon DEF RxStarts, StartsFrom
-----------------------------------------------------------------------------
(* The walks over an aggregate                                             *)

\* A walk is at a frame or behind them all, and only padding is passed over.
RxInPlace ==
  \/ \E k \in 1 .. Len(rxLens) + 1 : rxOffset = RxStarts[k]
  \/ rxTail.size = 1 /\ rxOffset = RxTotal
RxPeeks ==
  /\ rxAt = rxOffset /\ rxData = 0 /\ rxOut = <<>> /\ rxTrouble = 0
  /\ RxInPlace
RxSplits ==
  \E k \in 1 .. Len(rxLens) :
    /\ rxOffset = RxStarts[k] /\ rxAt = RxStarts[k] /\ rxData = RxStarts[k]
    /\ Len(rxOut) = k - 1
RxCounts(m) == Len(rxOut) >= m /\ \A j \in 1 .. m : rxOut[j] = j
RxInv ==
  /\ RxTypeOK
  /\ rxPc = "peek" => RxPeeks
  /\ rxPc # "peek" => RxNextLength
  /\ rxPc = "split" /\ rxTrouble = 0 => RxSplits
  /\ rxTrouble = 0 => /\ Len(rxOut) <= Len(rxLens) /\ RxCounts(Len(rxOut))
                      /\ rxPc = "done" => Len(rxOut) = Len(rxLens)
  /\ rxTrouble > 0 => rxTrouble \in 1 .. Len(rxLens) /\ RxCounts(rxTrouble - 1)
  /\ rxData <= rxAt /\ rxAt <= rxOffset

RxInputOK ==
  /\ rxLens \in Seq(RxLens) /\ Len(rxLens) \in 1 .. RxMaxLen /\ rxTail \in RxTails

LEMMA RxSizes ==
  ASSUME RxAssumption, RxInputOK
  PROVE  /\ RxHeader \in Nat /\ RxHeader > 1 /\ RxMaxLen \in Nat /\ RxMaxNext \in Nat
         /\ Len(rxLens) \in Nat /\ Len(rxLens) >= 1 /\ Len(rxLens) <= RxMaxLen
         /\ rxLens \in Seq(Nat)
         /\ \A k \in 1 .. Len(rxLens) : rxLens[k] \in Nat /\ rxLens[k] > RxHeader
         /\ rxTail.size \in Nat /\ rxTail.next \in Nat
         /\ rxTail.size \in {0, 1} \/ rxTail.size >= RxHeader
         /\ rxTail.next = 0 \/ rxTail.next > rxTail.size
<1>1. RxLens \subseteq Nat /\ \A m \in RxLens : m \in Nat /\ m > RxHeader
  BY DEF RxAssumption
<1>2. \A k \in 1 .. Len(rxLens) : rxLens[k] \in RxLens
  BY DEF RxInputOK
<1>3. rxTail \in [size : Nat, next : Nat] /\ rxTail \in RxTails
  BY DEF RxAssumption, RxInputOK
<1>4. rxLens \in Seq(Nat)
  <2>1. rxLens \in Seq(RxLens)
    BY Zenon DEF RxInputOK
  <2> QED
    BY <1>1, <2>1, SeqMonotonic, Zenon
<1>5. /\ rxTail.size \in {0, 1} \/ rxTail.size >= RxHeader
      /\ rxTail.next = 0 \/ rxTail.next > rxTail.size
  BY <1>3, Zenon DEF RxAssumption
<1>6. rxTail.size \in Nat /\ rxTail.next \in Nat
  BY <1>3
<1>7. /\ RxHeader \in Nat /\ RxHeader > 1 /\ RxMaxLen \in Nat /\ RxMaxNext \in Nat
      /\ Len(rxLens) \in Nat /\ Len(rxLens) >= 1 /\ Len(rxLens) <= RxMaxLen
  BY DEF RxAssumption, RxInputOK
<1>8. \A k \in 1 .. Len(rxLens) : rxLens[k] \in Nat /\ rxLens[k] > RxHeader
  BY <1>1, <1>2, Zenon
<1> QED
  BY <1>4, <1>5, <1>6, <1>7, <1>8, Zenon

\* The frames lie one behind the other.
LEMMA RxPlaces ==
  ASSUME RxAssumption, RxInputOK
  PROVE  /\ RxStarts[1] = 0
         /\ \A k \in 1 .. Len(rxLens) + 1 : RxStarts[k] \in Nat
         /\ \A k \in 1 .. Len(rxLens) : RxStarts[k + 1] = RxStarts[k] + rxLens[k]
         /\ \A j \in 1 .. Len(rxLens) : \A k \in 1 .. Len(rxLens) + 1 :
              j < k => RxStarts[j] + rxLens[j] <= RxStarts[k]
<1> DEFINE n == Len(rxLens)
           S == RxStarts
<1>0. n \in Nat /\ rxLens \in Seq(Nat) /\ \A k \in 1 .. n : rxLens[k] \in Nat
  BY RxSizes, Zenon
<1>1. /\ S \in [1 .. n + 1 -> Nat] /\ S[1] = 0
      /\ \A k \in 1 .. n : S[k + 1] = S[k] + rxLens[k]
  BY <1>0, StartsFromIs, RxStartsAre, Zenon
<1> HIDE DEF n, S
<1>2. \A k \in 1 .. n + 1 : S[k] \in Nat
  BY <1>1
<1>3. ASSUME NEW j \in 1 .. n
      PROVE  \A k \in 1 .. n + 1 : j < k => S[j] + rxLens[j] <= S[k]
  <2> DEFINE Bad == {k \in 1 .. n + 1 : j < k /\ ~(S[j] + rxLens[j] <= S[k])}
  <2>1. SUFFICES ASSUME Bad # {} PROVE FALSE
    OBVIOUS
  <2>2. n + 1 \in Nat /\ Bad \in SUBSET (0 .. n + 1)
    BY <1>0
  <2>3. PICK k \in Bad : \A l \in Bad : k <= l
    BY <2>1, <2>2, LeastNumber, Zenon
  <2>4. k \in 1 .. n + 1 /\ j < k /\ ~(S[j] + rxLens[j] <= S[k])
    OBVIOUS
  <2>5. k - 1 \in 1 .. n /\ k - 1 \in 1 .. n + 1 /\ k - 1 \notin Bad /\ (k - 1) + 1 = k
    BY <1>0, <2>3, <2>4
  <2>6. S[k] = S[k - 1] + rxLens[k - 1]
    BY <1>1, <2>5
  <2>7. k - 1 # j
    BY <1>0, <1>2, <2>4, <2>5, <2>6
  <2>8. j < k - 1
    BY <1>0, <2>4, <2>7
  <2>9. S[j] + rxLens[j] <= S[k - 1]
    BY <2>5, <2>8
  <2>10. S[j] \in Nat /\ S[k - 1] \in Nat /\ rxLens[j] \in Nat /\ rxLens[k - 1] \in Nat /\ S[k] \in Nat
    BY <1>0, <1>2, <2>4, <2>5
  <2> HIDE DEF Bad
  <2> QED
    BY <2>4, <2>6, <2>9, <2>10
<1> QED
  BY <1>1, <1>2, <1>3, Zenon DEF n, S

\* What is read at the place of a frame, and behind the last.
LEMMA RxReads ==
  ASSUME RxAssumption, RxInputOK
  PROVE  /\ RxEnd = RxStarts[Len(rxLens) + 1] /\ RxEnd \in Nat
         /\ RxTotal = RxEnd + rxTail.size /\ RxTotal \in Nat
         /\ \A k \in 1 .. Len(rxLens) : RxFrameAt(RxStarts[k]) = {k}
         /\ \A k \in 1 .. Len(rxLens) : RxJmp(RxStarts[k]) = {rxLens[k]}
         /\ rxTail.size >= RxHeader => RxJmp(RxEnd) = {rxTail.next}
         /\ \A p : RxJmp(p) \subseteq Nat
         /\ \A p : RxFrameAt(p) \subseteq 1 .. Len(rxLens)
<1> DEFINE n == Len(rxLens)
           S == RxStarts
<1>0. /\ n \in Nat /\ n >= 1 /\ RxHeader \in Nat /\ RxHeader > 1
      /\ \A k \in 1 .. n : rxLens[k] \in Nat /\ rxLens[k] > RxHeader
      /\ rxTail.size \in Nat /\ rxTail.next \in Nat
  BY RxSizes, Zenon
<1>1. /\ \A k \in 1 .. n + 1 : S[k] \in Nat
      /\ \A j \in 1 .. n : \A k \in 1 .. n + 1 : j < k => S[j] + rxLens[j] <= S[k]
  BY RxPlaces, Zenon
<1>2. \A p : RxFrameAt(p) = {k \in 1 .. n : S[k] = p}
  BY DEF RxFrameAt, RxStart
<1>3. RxEnd = S[n + 1] /\ RxTotal = RxEnd + rxTail.size
  BY DEF RxEnd, RxStart, RxTotal
<1> HIDE DEF n, S
<1>4. RxEnd \in Nat /\ RxTotal \in Nat
  BY <1>0, <1>1, <1>3
<1>5. \A j \in 1 .. n : \A k \in 1 .. n + 1 : j < k => S[j] < S[k]
  <2>1. TAKE j \in 1 .. n
  <2>2. TAKE k \in 1 .. n + 1
  <2>3. S[j] \in Nat /\ S[k] \in Nat /\ rxLens[j] \in Nat /\ rxLens[j] > 0
    BY <1>0, <1>1
  <2> QED
    BY <1>1, <2>3
<1>6. \A j, k \in 1 .. n : S[j] = S[k] => j = k
  <2>1. TAKE j, k \in 1 .. n
  <2>2. S[j] \in Nat /\ S[k] \in Nat /\ j \in 1 .. n + 1 /\ k \in 1 .. n + 1
    BY <1>0, <1>1
  <2>3. (j < k => S[j] < S[k]) /\ (k < j => S[k] < S[j])
    BY <1>5, <2>2
  <2> QED
    BY <1>0, <2>2, <2>3
<1>7. \A k \in 1 .. n : RxFrameAt(S[k]) = {k}
  BY <1>2, <1>6
<1>8. RxFrameAt(RxEnd) = {}
  <2>1. \A k \in 1 .. n : S[k] # S[n + 1]
    BY <1>0, <1>1, <1>5
  <2> QED
    BY <1>2, <1>3, <2>1
<1>9. \A k \in 1 .. n : RxJmp(S[k]) = {rxLens[k]}
  BY <1>7 DEF RxJmp
<1>10. rxTail.size >= RxHeader => RxJmp(RxEnd) = {rxTail.next}
  BY <1>8 DEF RxJmp
<1>11. ASSUME NEW p PROVE RxJmp(p) \subseteq Nat
  <2>1. {rxLens[k] : k \in RxFrameAt(p)} \subseteq Nat
    BY <1>0, <1>2
  <2>2. RxNoise \subseteq Nat /\ {rxTail.next} \subseteq Nat
    BY <1>0 DEF RxAssumption
  <2> QED
    BY <2>1, <2>2, Zenon DEF RxJmp
<1>12. \A p : RxFrameAt(p) \subseteq 1 .. n
  BY <1>2
<1> QED
  BY <1>3, <1>4, <1>7, <1>9, <1>10, <1>11, <1>12, Zenon DEF n, S

\* The frame that is due at the place of frame k is k.
LEMMA RxDueIs ==
  ASSUME RxAssumption, RxInputOK, NEW k \in 1 .. Len(rxLens), rxOffset = RxStarts[k]
  PROVE  RxDue = k
<1> DEFINE n == Len(rxLens)
           S == RxStarts
<1>0. n \in Nat /\ \A j \in 1 .. n : rxLens[j] \in Nat /\ rxLens[j] > RxHeader /\ RxHeader \in Nat
  BY RxSizes, Zenon
<1>1. /\ \A j \in 1 .. n + 1 : S[j] \in Nat
      /\ \A j \in 1 .. n : \A l \in 1 .. n + 1 : j < l => S[j] + rxLens[j] <= S[l]
  BY RxPlaces, Zenon
<1>2. RxDue = Cardinality({j \in 1 .. n : S[j] <= S[k]})
  BY DEF RxDue, RxStart
<1> HIDE DEF n, S
<1>3. \A j \in 1 .. n : S[j] <= S[k] <=> j <= k
  <2>0. TAKE j \in 1 .. n
  <2>1. k \in 1 .. n /\ k \in 1 .. n + 1 /\ j \in 1 .. n + 1
    BY <1>0 DEF n
  <2>2. S[j] \in Nat /\ S[k] \in Nat /\ rxLens[j] \in Nat /\ rxLens[k] \in Nat /\ rxLens[k] > 0
        /\ rxLens[j] > 0
    BY <1>0, <1>1, <2>1
  <2>3. (j < k => S[j] + rxLens[j] <= S[k]) /\ (k < j => S[k] + rxLens[k] <= S[j])
    BY <1>1, <2>1
  <2> QED
    BY <1>0, <2>1, <2>2, <2>3
<1>4. {j \in 1 .. n : S[j] <= S[k]} = 1 .. k
  BY <1>0, <1>3 DEF n
<1>5. k \in Nat
  OBVIOUS
<1>6. Cardinality(1 .. k) = k
  BY <1>5, FS_Interval
<1> QED
  BY <1>2, <1>4, <1>6

LEMMA RxInputKept ==
  ASSUME UNCHANGED rxInput
  PROVE  /\ rxLens' = rxLens /\ rxTail' = rxTail /\ RxStarts' = RxStarts
         /\ RxTotal' = RxTotal
<1>1. rxLens' = rxLens /\ rxTail' = rxTail
  BY DEF rxInput
<1>2. RxStarts' = RxStarts
  BY <1>1 DEF RxStarts
<1> QED
  BY <1>1, <1>2 DEF RxTotal, RxEnd, RxStart

LEMMA RxInitially ==
  ASSUME RxAssumption, RxInit
  PROVE  RxInv
<1>1. /\ rxPc = "peek" /\ rxNext = 0 /\ rxOffset = 0 /\ rxAt = 0 /\ rxData = 0
      /\ rxOut = <<>> /\ rxTrouble = 0 /\ rxTail \in RxTails
  BY Zenon DEF RxInit
<1>2. PICK m \in 1 .. RxMaxLen : rxLens \in [1 .. m -> RxLens]
  BY Zenon DEF RxInit
<1>3. RxInputOK
  <2>1. m \in Nat /\ RxMaxLen \in Nat
    BY DEF RxAssumption
  <2>2. rxLens \in Seq(RxLens) /\ Len(rxLens) = m
    BY <1>2, <2>1
  <2> QED
    BY <1>1, <2>2 DEF RxInputOK
<1>4. RxTotal \in Nat /\ RxMaxNext \in Nat /\ RxMaxLen \in Nat /\ Len(rxLens) \in Nat
  BY <1>3, RxReads, RxSizes, Zenon
<1>5. RxTypeOK
  BY <1>1, <1>3, <1>4 DEF RxTypeOK, RxInputOK
<1>6. RxInPlace
  <2>1. RxStarts[1] = 0 /\ 1 \in 1 .. Len(rxLens) + 1
    BY <1>3, <1>4, RxPlaces
  <2> QED
    BY <1>1, <2>1, Zenon DEF RxInPlace
<1> QED
  BY <1>1, <1>4, <1>5, <1>6 DEF RxInv, RxPeeks, RxCounts

\* The split begins at the first frame.
LEMMA RxTurns ==
  ASSUME RxAssumption, RxInputOK, RxTypeOK, UNCHANGED <<rxInput, rxData, rxOut, rxTrouble>>,
         RxPeeks, NEW m \in 0 .. RxMaxNext, RxPeekReturn(m),
         rxTail.size # 1 => m = IF rxTail.size = 0 \/ rxTail.next > RxMaxNext THEN 0 ELSE rxTail.next
  PROVE  RxInv'
<1>1. /\ rxPc' = "split" /\ rxOffset' = 0 /\ rxAt' = 0 /\ rxNext' = m
      /\ rxData' = 0 /\ rxOut' = <<>> /\ rxTrouble' = 0
  BY DEF RxPeekReturn, RxPeeks
<1>2. /\ rxLens' = rxLens /\ rxTail' = rxTail /\ RxStarts' = RxStarts
      /\ RxTotal' = RxTotal
  BY RxInputKept
<1>3. RxTotal \in Nat /\ RxMaxNext \in Nat /\ RxMaxLen \in Nat /\ Len(rxLens) \in Nat /\ Len(rxLens) >= 1
  BY RxReads, RxSizes, Zenon
<1>4. RxTypeOK'
  BY <1>1, <1>2, <1>3 DEF RxTypeOK
<1>5. RxNextLength'
  BY <1>1, <1>2 DEF RxNextLength
<1>6. RxSplits'
  <2>1. RxStarts[1] = 0 /\ 1 \in 1 .. Len(rxLens) /\ Len(<<>>) = 1 - 1
    BY <1>3, RxPlaces
  <2> QED
    BY <1>1, <1>2, <2>1, Zenon DEF RxSplits
<1> QED
  BY <1>1, <1>2, <1>3, <1>4, <1>5, <1>6 DEF RxInv, RxCounts

LEMMA RxPeekKeeps ==
  ASSUME RxAssumption, RxInv, RxPeek
  PROVE  RxInv'
<1> DEFINE n == Len(rxLens)
<1>1. /\ rxPc = "peek" /\ RxPeeks /\ RxTypeOK /\ RxInPlace /\ rxAt = rxOffset
      /\ UNCHANGED <<rxInput, rxData, rxOut, rxTrouble>>
  BY DEF RxInv, RxPeek, RxPeeks
<1>2. RxInputOK
  BY <1>1 DEF RxTypeOK, RxInputOK
<1>3. /\ rxLens' = rxLens /\ rxTail' = rxTail /\ RxStarts' = RxStarts
      /\ RxTotal' = RxTotal
  BY <1>1, RxInputKept
<1>4. /\ RxHeader \in Nat /\ RxHeader > 1 /\ RxMaxNext \in Nat /\ n \in Nat /\ n >= 1
      /\ \A k \in 1 .. n : rxLens[k] \in Nat /\ rxLens[k] > RxHeader
      /\ rxTail.size \in Nat /\ rxTail.next \in Nat
      /\ rxTail.size \in {0, 1} \/ rxTail.size >= RxHeader
      /\ rxTail.next = 0 \/ rxTail.next > rxTail.size
  BY <1>2, RxSizes, Zenon
<1>5. /\ RxEnd = RxStarts[n + 1] /\ RxEnd \in Nat
      /\ RxTotal = RxEnd + rxTail.size /\ RxTotal \in Nat
      /\ \A k \in 1 .. n : RxJmp(RxStarts[k]) = {rxLens[k]}
      /\ rxTail.size >= RxHeader => RxJmp(RxEnd) = {rxTail.next}
      /\ RxJmp(rxAt) \subseteq Nat
  BY <1>2, RxReads, Zenon
<1>6. /\ \A k \in 1 .. n + 1 : RxStarts[k] \in Nat
      /\ \A k \in 1 .. n : RxStarts[k + 1] = RxStarts[k] + rxLens[k]
      /\ \A j \in 1 .. n : \A k \in 1 .. n + 1 : j < k => RxStarts[j] + rxLens[j] <= RxStarts[k]
  BY <1>2, RxPlaces, Zenon
<1> HIDE DEF n
<1>7. \/ \E k \in 1 .. n : rxOffset = RxStarts[k]
      \/ rxOffset = RxEnd
      \/ rxTail.size = 1 /\ rxOffset = RxTotal
  <2>1. \A k \in 1 .. n + 1 : k \in 1 .. n \/ k = n + 1
    BY <1>4
  <2> QED
    BY <1>1, <1>5, <2>1, Zenon DEF RxInPlace, n
<1>8. rxOffset \in Nat
  BY <1>1, <1>5 DEF RxTypeOK
<1>9. ASSUME NEW k \in 1 .. n, rxOffset = RxStarts[k]
      PROVE  /\ RxJmp(rxAt) = {rxLens[k]} /\ rxLens[k] > 0 /\ rxLens[k] \in Nat
             /\ rxOffset + rxLens[k] <= RxTotal
             /\ k + 1 \in 1 .. n + 1 /\ rxOffset + rxLens[k] = RxStarts[k + 1]
  <2>1. n + 1 \in 1 .. n + 1 /\ k < n + 1 /\ k + 1 \in 1 .. n + 1
    BY <1>4
  <2>2. RxStarts[k] + rxLens[k] <= RxEnd
    BY <1>5, <1>6, <2>1
  <2>3. rxLens[k] > 0 /\ rxLens[k] \in Nat /\ RxStarts[k] \in Nat
    BY <1>4, <1>8, <1>9
  <2> QED
    BY <1>1, <1>4, <1>5, <1>6, <1>9, <2>1, <2>2, <2>3
<1>10. CASE rxOffset >= RxTotal
  <2>1. RxPeekReturn(0)
    BY <1>10, Zenon DEF RxPeek
  <2>2. \A k \in 1 .. n : rxOffset # RxStarts[k]
    BY <1>5, <1>8, <1>9, <1>10
  <2>3. rxTail.size # 1 => rxTail.size = 0
    BY <1>4, <1>5, <1>7, <1>10, <2>2
  <2>4. 0 \in 0 .. RxMaxNext
    BY <1>4
  <2> QED
    BY <1>1, <1>2, <2>1, <2>3, <2>4, RxTurns
<1>11. ASSUME rxOffset < RxTotal, NEW jmp \in RxJmp(rxAt), jmp = 0 \/ RxOver(jmp),
              RxPeekReturn(IF jmp <= RxMaxNext THEN jmp ELSE 0)
       PROVE  RxInv'
  <2>1. jmp \in Nat
    BY <1>5
  <2>2. \A k \in 1 .. n : rxOffset # RxStarts[k]
    BY <1>5, <1>8, <1>9, <1>11 DEF RxOver
  <2>3. rxTail.size # 1 => rxTail.size # 0 /\ jmp = rxTail.next
    BY <1>1, <1>4, <1>5, <1>7, <1>11, <2>2
  <2>4. PICK m : m = IF jmp <= RxMaxNext THEN jmp ELSE 0
    OBVIOUS
  <2>5. m \in 0 .. RxMaxNext
    BY <1>4, <2>1, <2>4
  <2>6. rxTail.size # 1 => m = IF rxTail.size = 0 \/ rxTail.next > RxMaxNext THEN 0 ELSE rxTail.next
    BY <1>4, <2>1, <2>3, <2>4
  <2> QED
    BY <1>1, <1>2, <1>11, <2>4, <2>5, <2>6, RxTurns, Zenon
<1>12. ASSUME rxOffset < RxTotal, NEW jmp \in RxJmp(rxAt), jmp # 0, ~RxOver(jmp),
              rxOffset' = rxOffset + jmp, rxAt' = rxAt + jmp, UNCHANGED <<rxPc, rxNext>>
       PROVE  RxInv'
  <2>1. jmp \in Nat /\ rxOffset + jmp <= RxTotal
    BY <1>5, <1>8, <1>12 DEF RxOver
  <2>2. RxInPlace'
    <3>1. CASE \E k \in 1 .. n : rxOffset = RxStarts[k]
      <4>1. PICK k \in 1 .. n : rxOffset = RxStarts[k]
        BY <3>1
      <4>2. rxOffset' = RxStarts'[k + 1] /\ k + 1 \in 1 .. Len(rxLens') + 1
        BY <1>3, <1>9, <1>12, <4>1 DEF n
      <4> QED
        BY <4>2, Zenon DEF RxInPlace
    <3>2. CASE ~\E k \in 1 .. n : rxOffset = RxStarts[k]
      <4>1. rxOffset = RxEnd
        BY <1>7, <1>8, <1>12, <3>2
      <4>2. rxTail.size = 1
        BY <1>1, <1>4, <1>5, <1>12, <2>1, <4>1
      <4>3. rxOffset' = RxTotal
        BY <1>5, <1>12, <2>1, <4>1, <4>2
      <4> QED
        BY <1>3, <4>2, <4>3, Zenon DEF RxInPlace
    <3> QED
      BY <3>1, <3>2
  <2>3. /\ rxPc' = "peek" /\ rxNext' = rxNext /\ rxAt' = rxOffset' /\ rxData' = 0 /\ rxOut' = <<>>
        /\ rxTrouble' = 0
    BY <1>1, <1>12 DEF RxPeeks
  <2>4. rxOffset' \in 0 .. RxTotal /\ 0 \in 0 .. RxTotal
    BY <1>5, <1>8, <1>12, <2>1
  <2>5. RxTypeOK'
    BY <1>1, <1>3, <2>3, <2>4 DEF RxTypeOK
  <2>6. 0 <= rxAt' /\ rxAt' <= rxOffset' /\ 0 <= Len(rxLens)
    BY <1>4, <1>5, <2>3, <2>4 DEF n
  <2> QED
    BY <1>3, <2>2, <2>3, <2>5, <2>6 DEF RxInv, RxPeeks, RxCounts
<1>13. rxOffset >= RxTotal \/ rxOffset < RxTotal
  BY <1>5, <1>8
<1>14. CASE rxOffset < RxTotal
  <2>1. ~(rxOffset >= RxTotal)
    BY <1>5, <1>8, <1>14
  <2>2. PICK jmp \in RxJmp(rxAt) :
          IF jmp = 0 \/ RxOver(jmp)
          THEN RxPeekReturn(IF jmp <= RxMaxNext THEN jmp ELSE 0)
          ELSE rxOffset' = rxOffset + jmp /\ rxAt' = rxAt + jmp /\ UNCHANGED <<rxPc, rxNext>>
    BY <2>1, Zenon DEF RxPeek
  <2> QED
    BY <1>11, <1>12, <1>14, <2>2, Zenon
<1> QED
  BY <1>10, <1>13, <1>14

\* At most one frame is handed on; at the place of a frame, that one.
LEMMA RxHandShape ==
  ASSUME RxAssumption, RxInputOK, NEW p, RxHand(p)
  PROVE  /\ rxOut' = rxOut \/ \E x \in 0 .. RxMaxLen : rxOut' = Append(rxOut, x)
         /\ \A k \in 1 .. Len(rxLens) : p = RxStarts[k] => rxOut' = Append(rxOut, k)
<1>1. /\ \A q : RxFrameAt(q) \subseteq 1 .. Len(rxLens)
      /\ \A k \in 1 .. Len(rxLens) : RxFrameAt(RxStarts[k]) = {k}
  BY RxReads, Zenon
<1>2. 0 \in 0 .. RxMaxLen /\ \A k \in 1 .. Len(rxLens) : k \in 0 .. RxMaxLen
  BY RxSizes
<1>3. \/ \E k \in RxFrameAt(p) : rxOut' = Append(rxOut, k)
      \/ RxFrameAt(p) = {} /\ (rxOut' = rxOut \/ rxOut' = Append(rxOut, 0))
  BY DEF RxHand
<1>4. \A k \in RxFrameAt(p) : k \in 0 .. RxMaxLen
  BY <1>1, <1>2
<1>5. rxOut' = rxOut \/ \E x \in 0 .. RxMaxLen : rxOut' = Append(rxOut, x)
  BY <1>2, <1>3, <1>4, Zenon
<1>6. ASSUME NEW k \in 1 .. Len(rxLens), p = RxStarts[k] PROVE rxOut' = Append(rxOut, k)
  <2>1. RxFrameAt(p) = {k}
    BY <1>1, <1>6, Zenon
  <2> QED
    BY <1>3, <2>1
<1> QED
  BY <1>5, <1>6, Zenon

\* What was handed on stays.
LEMMA RxOutGrows ==
  ASSUME RxAssumption, RxTypeOK,
         rxOut' = rxOut \/ \E x \in 0 .. RxMaxLen : rxOut' = Append(rxOut, x)
  PROVE  /\ rxOut' \in Seq(0 .. RxMaxLen) /\ Len(rxOut') \in Nat /\ Len(rxOut) \in Nat
         /\ Len(rxOut') >= Len(rxOut)
         /\ \A j \in 1 .. Len(rxOut) : rxOut'[j] = rxOut[j]
<1>1. rxOut \in Seq(0 .. RxMaxLen)
  BY DEF RxTypeOK
<1>2. CASE rxOut' = rxOut
  BY <1>1, <1>2
<1>3. ASSUME NEW x \in 0 .. RxMaxLen, rxOut' = Append(rxOut, x)
      PROVE  /\ rxOut' \in Seq(0 .. RxMaxLen) /\ Len(rxOut') \in Nat /\ Len(rxOut) \in Nat
             /\ Len(rxOut') >= Len(rxOut)
             /\ \A j \in 1 .. Len(rxOut) : rxOut'[j] = rxOut[j]
  BY <1>1, <1>3
<1> QED
  BY <1>2, <1>3

\* A turn of the loop leaves what follows from where it leaves the places.
LEMMA RxTurnEnds ==
  ASSUME RxAssumption, RxTypeOK, RxNextLength, rxPc = "split", UNCHANGED <<rxInput, rxNext>>,
         rxPc' \in {"split", "done"},
         rxOffset' \in 0 .. RxTotal, rxAt' \in Nat, rxData' \in Nat,
         rxData' <= rxAt', rxAt' <= rxOffset',
         rxOut' \in Seq(0 .. RxMaxLen), rxTrouble' \in 0 .. Len(rxLens),
         rxTrouble' = 0 => /\ rxPc' = "split" => RxSplits'
                           /\ Len(rxOut') <= Len(rxLens) /\ RxCounts(Len(rxOut))'
                           /\ rxPc' = "done" => Len(rxOut') = Len(rxLens),
         rxTrouble' > 0 => RxCounts(rxTrouble - 1)'
  PROVE  RxInv'
<1>1. RxInputOK
  BY DEF RxTypeOK, RxInputOK
<1>2. /\ rxLens' = rxLens /\ rxTail' = rxTail /\ RxStarts' = RxStarts
      /\ RxTotal' = RxTotal /\ rxNext' = rxNext
  BY RxInputKept
<1>3. RxTotal \in Nat /\ RxMaxLen \in Nat /\ Len(rxLens) \in Nat /\ Len(rxLens) <= RxMaxLen
  BY <1>1, RxReads, RxSizes, Zenon
<1>4. RxTypeOK'
  <2>1. rxAt' \in 0 .. RxTotal /\ rxData' \in 0 .. RxTotal /\ rxTrouble' \in 0 .. RxMaxLen
    BY <1>3
  <2>2. rxPc' \in {"peek", "split", "done"}
    OBVIOUS
  <2> QED
    BY <1>2, <2>1, <2>2 DEF RxTypeOK
<1>5. rxPc' # "peek" /\ rxPc # "peek"
  OBVIOUS
<1>6. RxNextLength'
  BY <1>2, <1>5, Zenon DEF RxNextLength
<1>7. rxTrouble' > 0 => rxTrouble' \in 1 .. Len(rxLens')
  BY <1>2, <1>3
<1> QED
  BY <1>2, <1>4, <1>5, <1>6, <1>7, Zenon DEF RxInv

\* Up to the first trouble, the walk is at frame k, and k is handed on.
LEMMA RxSplitGood ==
  ASSUME RxAssumption, RxInv, RxSplitOne, rxTrouble = 0
  PROVE  RxInv'
<1> DEFINE n == Len(rxLens)
<1>1. /\ rxPc = "split" /\ RxTypeOK /\ RxNextLength /\ RxSplits
      /\ UNCHANGED <<rxInput, rxNext>>
      /\ RxCounts(Len(rxOut))
  BY DEF RxInv, RxSplitOne
<1>2. RxInputOK
  BY <1>1 DEF RxTypeOK, RxInputOK
<1>3. /\ rxLens' = rxLens /\ RxStarts' = RxStarts /\ RxTotal' = RxTotal
  BY <1>1, RxInputKept
<1>4. /\ RxHeader \in Nat /\ RxHeader > 1 /\ RxMaxLen \in Nat /\ n \in Nat /\ n >= 1 /\ n <= RxMaxLen
      /\ \A k \in 1 .. n : rxLens[k] \in Nat /\ rxLens[k] > RxHeader
      /\ rxTail.size \in Nat /\ rxTail.next \in Nat
      /\ rxTail.size \in {0, 1} \/ rxTail.size >= RxHeader
      /\ rxTail.next = 0 \/ rxTail.next > rxTail.size
  BY <1>2, RxSizes, Zenon
<1>5. /\ RxEnd = RxStarts[n + 1] /\ RxEnd \in Nat
      /\ RxTotal = RxEnd + rxTail.size /\ RxTotal \in Nat
      /\ \A k \in 1 .. n : RxJmp(RxStarts[k]) = {rxLens[k]}
      /\ rxTail.size >= RxHeader => RxJmp(RxEnd) = {rxTail.next}
      /\ \A p : RxJmp(p) \subseteq Nat
  BY <1>2, RxReads, Zenon
<1>6. /\ \A k \in 1 .. n + 1 : RxStarts[k] \in Nat
      /\ \A k \in 1 .. n : RxStarts[k + 1] = RxStarts[k] + rxLens[k]
      /\ \A j \in 1 .. n : \A k \in 1 .. n + 1 : j < k => RxStarts[j] + rxLens[j] <= RxStarts[k]
  BY <1>2, RxPlaces, Zenon
<1>7. PICK k \in 1 .. n : /\ rxOffset = RxStarts[k] /\ rxAt = RxStarts[k] /\ rxData = RxStarts[k]
                          /\ Len(rxOut) = k - 1
  BY <1>1, Zenon DEF RxSplits
<1>8. RxDue = k
  BY <1>2, <1>7, RxDueIs
<1> HIDE DEF n
<1>9. PICK next \in RxJmp(RxStarts[k] + rxLens[k]) :
        IF RxIsLast(rxLens[k], next) THEN RxLast(rxLens[k])
        ELSE RxNoMemory(rxLens[k]) \/ RxCopy(rxLens[k])
  <2>1. PICK jmp \in RxJmp(rxAt) : \E next \in RxJmp(rxAt + jmp) :
          IF RxIsLast(jmp, next) THEN RxLast(jmp) ELSE RxNoMemory(jmp) \/ RxCopy(jmp)
    BY Zenon DEF RxSplitOne
  <2>2. jmp = rxLens[k] /\ rxAt = RxStarts[k]
    BY <1>5, <1>7, <2>1
  <2> QED
    BY <2>1, <2>2, Zenon
<1>10. /\ rxLens[k] \in Nat /\ rxLens[k] > RxHeader /\ RxStarts[k] \in Nat /\ next \in Nat
       /\ RxStarts[k] + rxLens[k] = RxStarts[k + 1] /\ k + 1 \in 1 .. n + 1
       /\ n + 1 \in 1 .. n + 1 /\ k < n + 1 /\ RxStarts[k] + rxLens[k] <= RxEnd
  BY <1>4, <1>5, <1>6, <1>9
<1>11. RxStarts[k] + rxLens[k] <= RxTotal
  BY <1>4, <1>5, <1>10
<1>12. rxOut \in Seq(0 .. RxMaxLen) /\ \A j \in 1 .. k - 1 : rxOut[j] = j
  BY <1>1, <1>7 DEF RxTypeOK, RxCounts
<1>13. k \in 0 .. RxMaxLen /\ k \in Nat
  BY <1>4
<1>14. ASSUME rxOut' = Append(rxOut, k)
       PROVE  /\ rxOut' \in Seq(0 .. RxMaxLen) /\ Len(rxOut') = k
              /\ RxCounts(Len(rxOut))'
  <2>1. rxOut' \in Seq(0 .. RxMaxLen) /\ Len(rxOut') = k
    BY <1>7, <1>12, <1>13, <1>14
  <2>2. \A j \in 1 .. k : rxOut'[j] = j
    BY <1>7, <1>12, <1>13, <1>14
  <2> QED
    BY <1>13, <2>1, <2>2 DEF RxCounts
<1>15. ASSUME rxTrouble' = k, rxOut' = rxOut, rxPc' \in {"split", "done"},
              rxOffset' \in 0 .. RxTotal, rxAt' \in Nat, rxData' \in Nat,
              rxData' <= rxAt', rxAt' <= rxOffset'
       PROVE  RxInv'
  <2>1. RxCounts(rxTrouble - 1)'
    BY <1>7, <1>12, <1>13, <1>15 DEF RxCounts
  <2>2. rxTrouble' \in 0 .. n /\ rxTrouble' # 0
    BY <1>4, <1>15
  <2>3. rxOut' \in Seq(0 .. RxMaxLen)
    BY <1>12, <1>15
  <2> QED
    BY <1>1, <1>15, <2>1, <2>2, <2>3, RxTurnEnds, Zenon DEF n
<1>16. CASE k = n
  <2>1. RxIsLast(rxLens[k], next)
    <3>1. RxStarts[k] + rxLens[k] = RxEnd
      BY <1>5, <1>10, <1>16
    <3>2. rxTail.size >= RxHeader => next = rxTail.next
      BY <1>5, <1>9, <3>1
    <3>3. rxOffset + rxLens[k] = RxEnd
      BY <1>7, <3>1, Zenon
    <3>4. \/ RxEnd = RxTotal - 1
          \/ next = 0
          \/ RxEnd + next > RxTotal
      <4>1. RxEnd \in Nat /\ next \in Nat /\ RxTotal = RxEnd + rxTail.size /\ rxTail.size \in Nat
        BY <1>4, <1>5, <1>10, Zenon
      <4>2. CASE rxTail.size = 0
        BY <4>1, <4>2
      <4>3. CASE rxTail.size = 1
        BY <4>1, <4>3
      <4>4. CASE rxTail.size >= RxHeader
        BY <1>4, <3>2, <4>1, <4>4
      <4> QED
        BY <1>4, <4>2, <4>3, <4>4
    <3> QED
      BY <3>3, <3>4, Zenon DEF RxIsLast
  <2>2. RxLast(rxLens[k])
    BY <1>9, <2>1, Zenon
  <2>3. ~(rxOffset + RxHeader > RxTotal \/ rxOffset + rxLens[k] > RxTotal)
    BY <1>4, <1>5, <1>7, <1>10, <1>11
  <2>4. RxHand(rxData) /\ rxPc' = "done" /\ UNCHANGED <<rxOffset, rxAt, rxData, rxTrouble>>
    BY <2>2, <2>3, Zenon DEF RxLast
  <2>5. rxOut' = Append(rxOut, k)
    BY <1>2, <1>7, <2>4, RxHandShape, Zenon DEF n
  <2>6. /\ rxOffset' = RxStarts[k] /\ rxAt' = RxStarts[k] /\ rxData' = RxStarts[k]
        /\ rxTrouble' = 0
    BY <1>7, <2>4
  <2>7. /\ rxOffset' \in 0 .. RxTotal /\ rxAt' \in Nat /\ rxData' \in Nat
        /\ rxData' <= rxAt' /\ rxAt' <= rxOffset' /\ rxTrouble' \in 0 .. n
        /\ ~(rxTrouble' > 0) /\ rxPc' \in {"split", "done"} /\ rxPc' # "split"
    BY <1>4, <1>5, <1>10, <1>11, <2>4, <2>6
  <2>8. Len(rxOut') <= n /\ Len(rxOut') = n
    BY <1>4, <1>14, <1>16, <2>5
  <2> QED
    BY <1>1, <1>14, <2>5, <2>7, <2>8, RxTurnEnds, Zenon DEF n
<1>17. CASE k # n
  <2>1. k + 1 \in 1 .. n
    BY <1>4, <1>17
  <2>2. /\ next = rxLens[k + 1] /\ next \in Nat /\ next > 1
        /\ RxStarts[k + 1] \in Nat /\ RxStarts[k + 1] + next <= RxEnd
    BY <1>4, <1>5, <1>6, <1>9, <1>10, <2>1
  <2>3. ~RxIsLast(rxLens[k], next)
    <3>1. rxOffset + rxLens[k] = RxStarts[k + 1]
      BY <1>7, <1>10, Zenon
    <3>2. RxStarts[k + 1] # RxTotal - 1 /\ next # 0 /\ ~(RxStarts[k + 1] + next > RxTotal)
      <4>1. /\ RxStarts[k + 1] \in Nat /\ next \in Nat /\ next > 1 /\ RxTotal \in Nat /\ RxEnd \in Nat
            /\ RxStarts[k + 1] + next <= RxEnd /\ RxTotal = RxEnd + rxTail.size /\ rxTail.size \in Nat
        BY <1>4, <1>5, <2>2, Zenon
      <4> QED
        BY <4>1
    <3> QED
      BY <3>1, <3>2, Zenon DEF RxIsLast
  <2>4. CASE RxNoMemory(rxLens[k])
    <3>1. /\ rxOffset' = RxStarts[k + 1] /\ rxAt' = RxStarts[k + 1] /\ rxData' = RxStarts[k]
          /\ rxTrouble' = k /\ rxOut' = rxOut /\ rxPc' = "split"
      BY <1>1, <1>7, <1>8, <1>10, <2>4 DEF RxNoMemory, RxMeets
    <3>2. /\ rxOffset' \in 0 .. RxTotal /\ rxAt' \in Nat /\ rxData' \in Nat
          /\ rxData' <= rxAt' /\ rxAt' <= rxOffset' /\ rxPc' \in {"split", "done"}
      BY <1>5, <1>10, <1>11, <3>1
    <3> QED
      BY <1>15, <3>1, <3>2, Zenon
  <2>5. CASE /\ RxCopy(rxLens[k])
             /\ rxLens[k] = 0 \/ rxLens[k] > RxMaxFrame \/ rxOffset + rxLens[k] > RxTotal
    <3>0. rxPc' = "done" /\ RxMeets /\ UNCHANGED <<rxOffset, rxAt, rxData, rxOut>>
      BY <2>5, Zenon DEF RxCopy
    <3>1. /\ rxOffset' = RxStarts[k] /\ rxAt' = RxStarts[k] /\ rxData' = RxStarts[k]
          /\ rxTrouble' = k /\ rxOut' = rxOut /\ rxPc' = "done"
      BY <1>7, <1>8, <3>0 DEF RxMeets
    <3>2. /\ rxOffset' \in 0 .. RxTotal /\ rxAt' \in Nat /\ rxData' \in Nat
          /\ rxData' <= rxAt' /\ rxAt' <= rxOffset' /\ rxPc' \in {"split", "done"}
      BY <1>5, <1>10, <1>11, <3>1
    <3> QED
      BY <1>15, <3>1, <3>2, Zenon
  <2>6. CASE /\ RxCopy(rxLens[k])
             /\ ~(rxLens[k] = 0 \/ rxLens[k] > RxMaxFrame \/ rxOffset + rxLens[k] > RxTotal)
    <3>0. /\ RxHand(rxAt) /\ rxData' = rxData + rxLens[k] /\ rxAt' = rxData'
          /\ rxOffset' = rxOffset + rxLens[k] /\ UNCHANGED <<rxPc, rxTrouble>>
      BY <2>6, Zenon DEF RxCopy
    <3>1. /\ rxOffset' = RxStarts[k + 1] /\ rxAt' = RxStarts[k + 1] /\ rxData' = RxStarts[k + 1]
          /\ rxTrouble' = 0 /\ rxPc' = "split"
      BY <1>1, <1>7, <1>10, <3>0
    <3>2. rxOut' = Append(rxOut, k)
      BY <1>2, <1>7, <3>0, RxHandShape, Zenon DEF n
    <3>3. Len(rxOut') = (k + 1) - 1 /\ Len(rxOut') <= n
      BY <1>4, <1>13, <1>14, <3>2
    <3>4. RxSplits'
      BY <1>3, <2>1, <3>1, <3>3, Zenon DEF RxSplits, n
    <3>5. /\ rxOffset' \in 0 .. RxTotal /\ rxAt' \in Nat /\ rxData' \in Nat
          /\ rxData' <= rxAt' /\ rxAt' <= rxOffset' /\ rxTrouble' \in 0 .. n
          /\ ~(rxTrouble' > 0) /\ rxPc' \in {"split", "done"} /\ rxPc' # "done"
      BY <1>4, <1>5, <1>10, <1>11, <3>1
    <3> QED
      BY <1>1, <1>14, <3>2, <3>3, <3>4, <3>5, RxTurnEnds, Zenon DEF n
  <2> QED
    BY <1>9, <2>3, <2>4, <2>5, <2>6, Zenon
<1> QED
  BY <1>16, <1>17

\* Behind it nothing that was handed on is lost.
LEMMA RxSplitTroubled ==
  ASSUME RxAssumption, RxInv, RxSplitOne, rxTrouble # 0
  PROVE  RxInv'
<1>1. /\ rxPc = "split" /\ RxTypeOK /\ RxNextLength
      /\ UNCHANGED <<rxInput, rxNext>> /\ rxData <= rxAt /\ rxAt <= rxOffset
  BY DEF RxInv, RxSplitOne
<1>2. RxInputOK
  BY <1>1 DEF RxTypeOK, RxInputOK
<1>3. RxTotal \in Nat /\ \A p : RxJmp(p) \subseteq Nat
  BY <1>2, RxReads, Zenon
<1>4. rxOffset \in 0 .. RxTotal /\ rxAt \in Nat /\ rxData \in Nat /\ rxTrouble \in Nat
  BY <1>1, <1>3 DEF RxTypeOK, RxAssumption
<1>5. rxTrouble > 0 /\ rxTrouble \in 1 .. Len(rxLens) /\ RxCounts(rxTrouble - 1)
  BY <1>4 DEF RxInv
<1>6. PICK jmp \in RxJmp(rxAt) : \E next \in RxJmp(rxAt + jmp) :
        IF RxIsLast(jmp, next) THEN RxLast(jmp) ELSE RxNoMemory(jmp) \/ RxCopy(jmp)
  BY Zenon DEF RxSplitOne
<1>a. PICK next \in RxJmp(rxAt + jmp) :
        IF RxIsLast(jmp, next) THEN RxLast(jmp) ELSE RxNoMemory(jmp) \/ RxCopy(jmp)
  BY <1>6
<1>7. jmp \in Nat /\ next \in Nat
  BY <1>3, <1>6, <1>a
<1>8. ASSUME rxTrouble' = rxTrouble,
             rxOut' = rxOut \/ \E x \in 0 .. RxMaxLen : rxOut' = Append(rxOut, x),
             rxPc' \in {"split", "done"},
             rxOffset' \in 0 .. RxTotal, rxAt' \in Nat, rxData' \in Nat,
             rxData' <= rxAt', rxAt' <= rxOffset'
      PROVE  RxInv'
  <2>1. /\ rxOut' \in Seq(0 .. RxMaxLen) /\ Len(rxOut') \in Nat /\ Len(rxOut) \in Nat
        /\ Len(rxOut') >= Len(rxOut)
        /\ \A j \in 1 .. Len(rxOut) : rxOut'[j] = rxOut[j]
    BY <1>1, <1>8, RxOutGrows, Zenon
  <2>2. RxCounts(rxTrouble - 1)'
    <3>1. Len(rxOut) >= rxTrouble - 1 /\ \A j \in 1 .. rxTrouble - 1 : rxOut[j] = j
      BY <1>5, Zenon DEF RxCounts
    <3>2. Len(rxOut') >= rxTrouble - 1
      BY <1>4, <2>1, <3>1
    <3>3. \A j \in 1 .. rxTrouble - 1 : j \in 1 .. Len(rxOut)
      BY <1>4, <2>1, <3>1
    <3>4. \A j \in 1 .. rxTrouble - 1 : rxOut'[j] = j
      BY <2>1, <3>1, <3>3, Zenon
    <3> QED
      BY <1>8, <3>2, <3>4, Zenon DEF RxCounts
  <2>3. rxTrouble' \in 0 .. Len(rxLens) /\ rxTrouble' # 0
    BY <1>5, <1>8
  <2> QED
    BY <1>1, <1>8, <2>1, <2>2, <2>3, RxTurnEnds, Zenon
<1>9. CASE RxIsLast(jmp, next)
  <2>1. RxLast(jmp)
    BY <1>a, <1>9, Zenon
  <2>2. /\ rxOut' = rxOut \/ RxHand(rxData)
        /\ rxPc' = "done" /\ rxTrouble' = rxTrouble
        /\ rxOffset' = rxOffset /\ rxAt' = rxAt /\ rxData' = rxData
    BY <2>1, Zenon DEF RxLast
  <2>3. rxOut' = rxOut \/ \E x \in 0 .. RxMaxLen : rxOut' = Append(rxOut, x)
    BY <1>2, <2>2, RxHandShape, Zenon
  <2> QED
    BY <1>1, <1>4, <1>8, <2>2, <2>3
<1>10. CASE ~RxIsLast(jmp, next)
  <2>1. rxOffset + jmp <= RxTotal
    BY <1>3, <1>4, <1>7, <1>10 DEF RxIsLast
  <2>2. CASE RxNoMemory(jmp)
    <3>1. /\ rxOffset' = rxOffset + jmp /\ rxAt' = rxAt + jmp /\ rxData' = rxData
          /\ rxOut' = rxOut /\ rxPc' = "split" /\ rxTrouble' = rxTrouble
      BY <1>1, <2>2 DEF RxNoMemory, RxMeets
    <3>2. /\ rxOffset' \in 0 .. RxTotal /\ rxAt' \in Nat /\ rxData' \in Nat
          /\ rxData' <= rxAt' /\ rxAt' <= rxOffset' /\ rxPc' \in {"split", "done"}
      BY <1>1, <1>3, <1>4, <1>7, <2>1, <3>1
    <3> QED
      BY <1>8, <3>1, <3>2, Zenon
  <2>3. CASE RxCopy(jmp) /\ (jmp = 0 \/ jmp > RxMaxFrame \/ rxOffset + jmp > RxTotal)
    <3>1. rxPc' = "done" /\ RxMeets /\ UNCHANGED <<rxOffset, rxAt, rxData, rxOut>>
      BY <2>3, Zenon DEF RxCopy
    <3>2. rxTrouble' = rxTrouble
      BY <3>1 DEF RxMeets
    <3> QED
      BY <1>1, <1>4, <1>8, <3>1, <3>2
  <2>4. CASE RxCopy(jmp) /\ ~(jmp = 0 \/ jmp > RxMaxFrame \/ rxOffset + jmp > RxTotal)
    <3>1. /\ RxHand(rxAt) /\ rxData' = rxData + jmp /\ rxAt' = rxData'
          /\ rxOffset' = rxOffset + jmp /\ rxPc' = rxPc /\ rxTrouble' = rxTrouble
      BY <2>4, Zenon DEF RxCopy
    <3>2. rxOut' = rxOut \/ \E x \in 0 .. RxMaxLen : rxOut' = Append(rxOut, x)
      BY <1>2, <3>1, RxHandShape, Zenon
    <3>3. /\ rxOffset' \in 0 .. RxTotal /\ rxAt' \in Nat /\ rxData' \in Nat
          /\ rxData' <= rxAt' /\ rxAt' <= rxOffset' /\ rxPc' \in {"split", "done"}
      BY <1>1, <1>3, <1>4, <1>7, <2>1, <3>1
    <3> QED
      BY <1>8, <3>1, <3>2, <3>3, Zenon
  <2> QED
    BY <1>a, <1>10, <2>2, <2>3, <2>4, Zenon
<1> QED
  BY <1>9, <1>10

LEMMA RxStep ==
  ASSUME RxAssumption, RxInv, [RxNextStep]_rxVars
  PROVE  RxInv'
<1>1. CASE UNCHANGED rxVars
  <2>1. UNCHANGED rxInput
    BY <1>1 DEF rxVars
  <2>2. /\ rxLens' = rxLens /\ rxTail' = rxTail /\ RxStarts' = RxStarts /\ RxTotal' = RxTotal
    BY <2>1, RxInputKept
  <2>3. /\ rxPc' = rxPc /\ rxNext' = rxNext /\ rxOffset' = rxOffset /\ rxAt' = rxAt
        /\ rxData' = rxData /\ rxOut' = rxOut /\ rxTrouble' = rxTrouble
    BY <1>1 DEF rxVars
  <2>4. RxTypeOK' = RxTypeOK
    BY <2>2, <2>3, Zenon DEF RxTypeOK
  <2>5. RxPeeks' = RxPeeks
    BY <2>2, <2>3, Zenon DEF RxPeeks, RxInPlace
  <2>6. RxNextLength' = RxNextLength /\ RxSplits' = RxSplits
    BY <2>2, <2>3, Zenon DEF RxNextLength, RxSplits
  <2>7. RxCounts(Len(rxOut))' = RxCounts(Len(rxOut)) /\ RxCounts(rxTrouble - 1)' = RxCounts(rxTrouble - 1)
    BY <2>3, Zenon DEF RxCounts
  <2> QED
    BY <2>2, <2>3, <2>4, <2>5, <2>6, <2>7, Zenon DEF RxInv
<1>2. CASE RxNextStep
  BY <1>2, RxPeekKeeps, RxSplitGood, RxSplitTroubled, Zenon DEF RxNextStep
<1> QED
  BY <1>1, <1>2

LEMMA RxInvImplies ==
  ASSUME RxAssumption, RxInv
  PROVE  RxTypeOK /\ RxExact
<1>1. RxTypeOK
  BY DEF RxInv
<1>2. Len(rxOut) \in Nat /\ Len(rxLens) \in Nat /\ rxTrouble \in Nat
  BY <1>1 DEF RxTypeOK, RxAssumption
<1>3. RxNextLength
  BY DEF RxInv, RxPeeks, RxNextLength
<1>4. CASE rxTrouble = 0
  <2>1. /\ Len(rxOut) <= Len(rxLens) /\ \A j \in 1 .. Len(rxOut) : rxOut[j] = j
        /\ rxPc = "done" => Len(rxOut) >= Len(rxLens)
    BY <1>2, <1>4 DEF RxInv, RxCounts
  <2> QED
    BY <1>1, <1>2, <1>3, <1>4, <2>1 DEF RxExact
<1>5. CASE rxTrouble # 0
  <2>1. /\ rxTrouble > 0 /\ Len(rxOut) >= rxTrouble - 1
        /\ \A j \in 1 .. rxTrouble - 1 : rxOut[j] = j
    BY <1>2, <1>5 DEF RxInv, RxCounts
  <2>2. \A j \in 1 .. Len(rxOut) : j <= rxTrouble - 1 => rxOut[j] = j
    BY <1>2, <2>1
  <2> QED
    BY <1>1, <1>3, <1>5, <2>1, <2>2 DEF RxExact
<1> QED
  BY <1>4, <1>5

\* The offsets of ssv6xxx_peek_next_pkt_len and _process_rx_q stay within the
\* aggregate, wherever the second lags, and what it hands on is a frame's.
THEOREM AggregateTypes == RxSpec => []RxTypeOK
<1>1. RxInit => RxInv
  BY RxAssumption, RxInitially
<1>2. RxInv /\ [RxNextStep]_rxVars => RxInv'
  BY RxAssumption, RxStep
<1>3. RxInv => RxTypeOK
  BY RxAssumption, RxInvImplies
<1> QED
  BY <1>1, <1>2, <1>3, PTL DEF RxSpec

\* _process_rx_q hands the frames of an aggregate on completely and in order,
\* up to the first that was too long or had no skb, and
\* ssv6xxx_peek_next_pkt_len reads the length of the next transfer behind the
\* last.
THEOREM AggregateIsSplit == RxSpec => []RxExact
<1>1. RxInit => RxInv
  BY RxAssumption, RxInitially
<1>2. RxInv /\ [RxNextStep]_rxVars => RxInv'
  BY RxAssumption, RxStep
<1>3. RxInv => RxExact
  BY RxAssumption, RxInvImplies
<1> QED
  BY <1>1, <1>2, <1>3, PTL DEF RxSpec
-----------------------------------------------------------------------------
(* The parts side by side, as MCParts runs them                            *)

\* A part starts as by itself, and a step of another leaves it alone.
LEMMA PartsStart ==
  ASSUME PartsInit
  PROVE  Init /\ CpInit /\ UxInit /\ UcInit /\ FwInit /\ AbInit /\ RxInit
  BY Zenon DEF PartsInit

LEMMA PartsStep ==
  ASSUME [PartsNext]_partsVars
  PROVE  /\ [CpNextStep]_cpVars /\ [UxNextStep]_uxVars /\ [UcNextStep]_ucVars
         /\ [FwNextStep]_fwVars /\ [AbNextStep]_abVars /\ [RxNextStep]_rxVars
<1>1. \/ StepBitmap \/ StepCrypto \/ StepUsbData \/ StepUsbCommand
      \/ StepFirmware \/ StepBroadcast \/ StepSplit \/ partsVars' = partsVars
  BY Zenon DEF PartsNext
<1>2. /\ CpNextStep \/ cpVars' = cpVars
      /\ UxNextStep \/ uxVars' = uxVars
      /\ UcNextStep \/ ucVars' = ucVars
  BY <1>1, Zenon DEF StepBitmap, StepCrypto, StepUsbData, StepUsbCommand, StepFirmware,
     StepBroadcast, StepSplit, partsVars
<1>3. /\ FwNextStep \/ fwVars' = fwVars
      /\ AbNextStep \/ abVars' = abVars
      /\ RxNextStep \/ rxVars' = rxVars
  BY <1>1, Zenon DEF StepBitmap, StepCrypto, StepUsbData, StepUsbCommand, StepFirmware,
     StepBroadcast, StepSplit, partsVars
<1> QED
  BY <1>2, <1>3, Zenon

\* What keeps the types of each part.
PartsTypeInv ==
  /\ CpTypeOK /\ CpOwnInv /\ CpOrderInv
  /\ UxTypeOK /\ UxInHand
  /\ UcTypeInv /\ FwTypeInv /\ AbTypeInv /\ RxInv

\* Indices, counts and places in buffers stay in range in every part: the
\* rounds of ssv6200_bcast_tx_work and queue_block_cnt (src/smac/ap.c), the
\* blocks and attempts of a firmware load, the packets of the encryption
\* pipeline, the RX buffers and command numbers of the USB interface, and the
\* walks over a received aggregate (src/smac/dev.c).
THEOREM PartsTypes == PartsSpec => []PartsTypeOK
<1>1. PartsInit => PartsTypeInv
  <2> SUFFICES ASSUME PartsInit PROVE PartsTypeInv
    OBVIOUS
  <2>1. CpTypeOK /\ CpOwnInv /\ CpOrderInv
    BY PartsStart, CpAssumption, CpAtStart, Zenon
  <2>2. UxTypeOK /\ UxInHand
    BY PartsStart, UxAtStart, Zenon
  <2>3. UcTypeInv /\ FwTypeInv
    BY PartsStart, UcTypeInit, FwTypeInit, Zenon
  <2>4. AbTypeInv
    BY PartsStart, AbTypeStart, Zenon
  <2>5. RxInv
    BY PartsStart, RxAssumption, RxInitially, Zenon
  <2> QED
    BY <2>1, <2>2, <2>3, <2>4, <2>5, Zenon DEF PartsTypeInv
<1>2. PartsTypeInv /\ [PartsNext]_partsVars => PartsTypeInv'
  <2> SUFFICES ASSUME PartsTypeInv, [PartsNext]_partsVars PROVE PartsTypeInv'
    OBVIOUS
  <2>1. /\ [CpNextStep]_cpVars /\ [UxNextStep]_uxVars /\ [UcNextStep]_ucVars
        /\ [FwNextStep]_fwVars /\ [AbNextStep]_abVars /\ [RxNextStep]_rxVars
    BY PartsStep
  <2>2. (CpTypeOK /\ CpOwnInv /\ CpOrderInv)'
    BY <2>1, CpAssumption, CpInvStep DEF PartsTypeInv
  <2>3. (UxTypeOK /\ UxInHand)'
    BY <2>1, UxTypeStep DEF PartsTypeInv
  <2>4. UcTypeInv' /\ FwTypeInv'
    BY <2>1, UcTypeStep, FwTypeStep DEF PartsTypeInv
  <2>5. AbTypeInv'
    BY <2>1, AbTypeStep DEF PartsTypeInv
  <2>6. RxInv'
    BY <2>1, RxAssumption, RxStep DEF PartsTypeInv
  <2> QED
    BY <2>2, <2>3, <2>4, <2>5, <2>6, Zenon DEF PartsTypeInv
<1>3. PartsTypeInv => PartsTypeOK
  BY AbTypeSplit, RxAssumption, RxInvImplies, Zenon
     DEF PartsTypeInv, PartsTypeOK, UcTypeInv, FwTypeInv
<1> QED
  BY <1>1, <1>2, <1>3, PTL DEF PartsSpec
=============================================================================
