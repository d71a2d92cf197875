----------------------------- MODULE UsbProofs ------------------------------
(***************************************************************************)
(* Safety properties of UsbCmd and UsbRx, for every value of their         *)
(* constants and bounds.                                                   *)
(***************************************************************************)
EXTENDS UsbCmd, UsbRx, FiniteLemmas
-----------------------------------------------------------------------------
(* UsbCmd                                                                  *)

LEMMA UcNumberIs ==
  ASSUME ucSequence \in 0 .. UcSequence
  PROVE  UcNumber = (IF ucSequence = UcSequence THEN 1 ELSE ucSequence + 1)
         /\ UcNumber \in 1 .. UcSequence
<1>0. UcSequence \in Nat \ {0, 1}
  BY UcAssumption
<1>1. CASE ucSequence = UcSequence
  <2>1. UcSequence % UcSequence = 0
    BY <1>0
  <2> QED
    BY <1>0, <1>1, <2>1 DEF UcNumber
<1>2. CASE ucSequence # UcSequence
  <2>1. ucSequence % UcSequence = ucSequence
    BY <1>0, <1>2
  <2> QED
    BY <1>0, <1>2, <2>1 DEF UcNumber
<1> QED
  BY <1>1, <1>2

UcCommands == [seq : 1 .. UcSequence, of : 1 .. UcMaxCmds]
UcAnswers == [seq : 1 .. UcSequence, of : 1 .. UcMaxCmds, short : BOOLEAN]

\* A command that is being sent has a number, and has read no answer.
UcTypeInv == UcTypeOK /\ (ucPc = "send" => ucSequence # 0 /\ ucCount # 0 /\ ucTries = 0)

LEMMA UcTypeFacts ==
  ASSUME UcTypeOK
  PROVE  /\ ucChip \in Seq(UcCommands) /\ ucRsp \in Seq(UcAnswers)
         /\ ucSequence \in 0 .. UcSequence /\ ucCount \in 0 .. UcMaxCmds
         /\ ucTries \in 0 .. UcSequence - 1 /\ ucFaultsMet \in 0 .. UcMaxFaults
         /\ Len(ucChip) \in Nat /\ Len(ucRsp) \in Nat
         /\ UcSequence \in Nat \ {0, 1} /\ UcMaxCmds \in Nat /\ UcMaxFaults \in Nat
  BY UcAssumption, LenProperties, Zenon DEF UcTypeOK, UcCommands, UcAnswers

\* The scalars and the queues of answers, apart.
UcScalars ==
  /\ ucSequence \in 0 .. UcSequence /\ ucCount \in 0 .. UcMaxCmds
  /\ ucPc \in {"idle", "send", "recv"} /\ ucKind \in {"cmd", "reset"}
  /\ ucTries \in 0 .. UcSequence - 1
  /\ ucFaultsMet \in 0 .. UcMaxFaults
  /\ ucPc = "send" => ucSequence # 0 /\ ucCount # 0 /\ ucTries = 0
UcLastType == ucLast \in [ret : {"none", "ok", "error"}, of : 0 .. UcMaxCmds, short : BOOLEAN]
UcQueues == ucChip \in Seq(UcCommands) /\ ucRsp \in Seq(UcAnswers)

LEMMA UcTypeSplit ==
  /\ UcTypeInv <=> UcScalars /\ UcLastType /\ UcQueues
  /\ UcTypeInv' <=> UcScalars' /\ UcLastType' /\ UcQueues'
  BY Zenon DEF UcTypeInv, UcTypeOK, UcScalars, UcLastType, UcQueues, UcCommands, UcAnswers

LEMMA UcReturned ==
  ASSUME UcLastType, NEW ret \in {"ok", "error"}, NEW of \in 0 .. UcMaxCmds, NEW short \in BOOLEAN,
         UcReturn(ret, of, short)
  PROVE  UcLastType' /\ ucPc' = "idle"
  BY DEF UcReturn, UcLastType

\* The step to the answer at the head of the response endpoint.
LEMMA UcHeads ==
  ASSUME UcQueues
  PROVE  /\ ucRsp # <<>> => Head(ucRsp) \in UcAnswers /\ Tail(ucRsp) \in Seq(UcAnswers)
         /\ ucChip # <<>> => Head(ucChip) \in UcCommands /\ Tail(ucChip) \in Seq(UcCommands)
  BY HeadTailProperties DEF UcQueues

LEMMA UcTypeStep ==
  ASSUME UcTypeInv, [UcNextStep]_ucVars
  PROVE  UcTypeInv'
<1>0. UcScalars /\ UcLastType /\ UcQueues
  BY UcTypeSplit, Zenon
<1>1. CASE UcBegin
  <2>1. /\ ucPc = "idle" /\ ucCount < UcMaxCmds /\ ucKind' \in {"cmd", "reset"}
        /\ ucSequence' = UcNumber /\ ucCount' = ucCount + 1 /\ ucPc' = "send" /\ ucTries' = 0
        /\ UNCHANGED <<ucChip, ucRsp, ucLast, ucFaultsMet>>
    BY <1>1, Zenon DEF UcBegin
  <2>2. UcNumber \in 1 .. UcSequence
    BY <1>0, UcNumberIs DEF UcScalars
  <2>3. UcScalars'
    BY <1>0, <2>1, <2>2, UcAssumption DEF UcScalars
  <2> QED
    BY <1>0, <2>1, <2>3, UcTypeSplit DEF UcLastType, UcQueues
<1>2. CASE UcSend
  <2>1. /\ ucPc = "send" /\ ucPc' = "recv"
        /\ ucChip' = Append(ucChip, [seq |-> ucSequence, of |-> ucCount])
        /\ UNCHANGED <<ucSequence, ucCount, ucKind, ucTries, ucRsp, ucLast, ucFaultsMet>>
    BY <1>2, Zenon DEF UcSend
  <2>2. [seq |-> ucSequence, of |-> ucCount] \in UcCommands
    BY <1>0, <2>1, UcAssumption DEF UcScalars, UcCommands
  <2>3. ucChip' \in Seq(UcCommands)
    BY <1>0, <2>1, <2>2, AppendProperties DEF UcQueues
  <2>4. UcScalars'
    BY <1>0, <2>1 DEF UcScalars
  <2> QED
    BY <1>0, <2>1, <2>3, <2>4, UcTypeSplit DEF UcLastType, UcQueues
<1>3. CASE UcSendFails
  <2>1. /\ UcFault("send") /\ ucPc = "send"
        /\ \/ UcReturn("error", 0, FALSE)
           \/ ucPc' = "recv" /\ UNCHANGED ucLast
        /\ UNCHANGED <<ucSequence, ucCount, ucKind, ucTries, ucChip, ucRsp>>
    BY <1>3, Zenon DEF UcSendFails
  <2>2. 0 \in 0 .. UcMaxCmds
    BY UcAssumption
  <2>3. UcLastType' /\ ucPc' \in {"idle", "recv"}
    BY <1>0, <2>1, <2>2, UcReturned DEF UcLastType
  <2>4. UcScalars'
    BY <1>0, <2>1, <2>3, UcAssumption DEF UcScalars, UcFault
  <2> QED
    BY <1>0, <2>1, <2>3, <2>4, UcTypeSplit DEF UcQueues
<1>4. ASSUME NEW short \in BOOLEAN, UcAnswer(short) PROVE UcTypeInv'
  <2>1. /\ ucChip # <<>> /\ ucChip' = Tail(ucChip)
        /\ ucRsp' = Append(ucRsp, [seq |-> Head(ucChip).seq, of |-> Head(ucChip).of,
                                   short |-> short])
        /\ UcFault("short") \/ UNCHANGED ucFaultsMet
        /\ UNCHANGED <<ucSequence, ucCount, ucPc, ucKind, ucTries, ucLast>>
    BY <1>4, Zenon DEF UcAnswer
  <2>2. Head(ucChip) \in UcCommands /\ Tail(ucChip) \in Seq(UcCommands)
    BY <1>0, <2>1, UcHeads
  <2>3. [seq |-> Head(ucChip).seq, of |-> Head(ucChip).of, short |-> short] \in UcAnswers
    BY <2>2 DEF UcCommands, UcAnswers
  <2>4. UcQueues'
    BY <1>0, <2>1, <2>2, <2>3, AppendProperties DEF UcQueues
  <2>5. UcScalars'
    BY <1>0, <2>1, UcAssumption DEF UcScalars, UcFault
  <2> QED
    BY <1>0, <2>1, <2>4, <2>5, UcTypeSplit DEF UcLastType
<1>5. CASE UcRecv
  <2> DEFINE a == Head(ucRsp)
  <2>1. /\ ucPc = "recv" /\ ucRsp # <<>> /\ ucRsp' = Tail(ucRsp)
        /\ UNCHANGED <<ucSequence, ucCount, ucKind, ucChip, ucFaultsMet>>
        /\ \/ ucTries + 1 < UcSequence /\ ucTries' = ucTries + 1 /\ UNCHANGED <<ucPc, ucLast>>
           \/ /\ \/ UcReturn("ok", IF a.short THEN 0 ELSE a.of, a.short)
                 \/ UcReturn("error", 0, FALSE)
              /\ UNCHANGED ucTries
    BY <1>5, Zenon DEF UcRecv
  <2>2. a \in UcAnswers /\ Tail(ucRsp) \in Seq(UcAnswers)
    BY <1>0, <2>1, UcHeads
  <2>3. (IF a.short THEN 0 ELSE a.of) \in 0 .. UcMaxCmds /\ a.short \in BOOLEAN
    BY <2>2, UcAssumption DEF UcAnswers
  <2>4. UcLastType' /\ ucPc' \in {"idle", "recv"}
    <3>1. 0 \in 0 .. UcMaxCmds
      BY UcAssumption
    <3> QED
      BY <1>0, <2>1, <2>3, <3>1, UcReturned DEF UcLastType
  <2>5. UcScalars'
    BY <1>0, <2>1, <2>4, UcAssumption DEF UcScalars, UcReturn
  <2> QED
    BY <1>0, <2>1, <2>2, <2>4, <2>5, UcTypeSplit DEF UcQueues
<1>6. CASE UcRecvFails
  <2>1. /\ ucPc = "recv"
        /\ UcFault("recv") \/ UNCHANGED ucFaultsMet
        /\ UcReturn("error", 0, FALSE)
        /\ UNCHANGED <<ucSequence, ucCount, ucKind, ucTries, ucChip, ucRsp>>
    BY <1>6, Zenon DEF UcRecvFails
  <2>2. 0 \in 0 .. UcMaxCmds
    BY UcAssumption
  <2>3. UcLastType' /\ ucPc' = "idle"
    BY <1>0, <2>1, <2>2, UcReturned
  <2>4. UcScalars'
    BY <1>0, <2>1, <2>3, UcAssumption DEF UcScalars, UcFault
  <2> QED
    BY <1>0, <2>1, <2>3, <2>4, UcTypeSplit DEF UcQueues
<1>7. CASE UNCHANGED ucVars
  BY <1>7, Zenon DEF ucVars, UcTypeInv, UcTypeOK
<1> QED
  BY <1>1, <1>2, <1>3, <1>4, <1>5, <1>6, <1>7, Zenon DEF UcNextStep

LEMMA UcTypeInit == UcInit => UcTypeInv
<1> SUFFICES ASSUME UcInit PROVE UcTypeInv
  OBVIOUS
<1>1. UcScalars
  BY UcAssumption DEF UcInit, UcScalars
<1>2. UcLastType
  BY UcAssumption DEF UcInit, UcLastType, UcNothing
<1>3. UcQueues
  BY EmptySeq DEF UcInit, UcQueues
<1> QED
  BY <1>1, <1>2, <1>3, UcTypeSplit, Zenon

\* How far the command of answer a is behind shows in its number, until the
\* numbers have come round.
UcInStep(a) ==
  ucCount - a.of < UcSequence =>
    ucSequence = IF a.seq + (ucCount - a.of) <= UcSequence THEN a.seq + (ucCount - a.of)
                 ELSE a.seq + (ucCount - a.of) - UcSequence

UcBusy == IF ucPc = "idle" THEN 0 ELSE 1
UcSpent == IF ucPc = "idle" THEN 0 ELSE ucTries

\* Every command begun since that of the answer at place p, every answer
\* before it and every wrong one the present command has read cost a failure:
\* a command that ends without one takes an answer away.
UcPaid(a, p) == (ucCount - a.of) + p + UcSpent <= ucFaultsMet + UcBusy

UcSound(a, p) ==
  /\ a.seq \in 1 .. UcSequence /\ a.of \in 1 .. ucCount
  /\ ucPc = "send" => a.of < ucCount
  /\ UcInStep(a) /\ UcPaid(a, p)

UcInv ==
  /\ \A p \in 1 .. Len(ucRsp) : UcSound(ucRsp[p], p)
  /\ \A p \in 1 .. Len(ucChip) : UcSound(ucChip[p], Len(ucRsp) + p)
  /\ UcReadCurrent

\* The number of the next command, for those in step with this one.
LEMMA UcNextInStep ==
  ASSUME NEW m \in Nat \ {0, 1}, NEW n \in 0 .. m, NEW s \in 1 .. m, NEW d \in Nat,
         d < m => n = IF s + d <= m THEN s + d ELSE s + d - m
  PROVE  d + 1 < m => (IF n = m THEN 1 ELSE n + 1)
                        = IF s + (d + 1) <= m THEN s + (d + 1) ELSE s + (d + 1) - m
  OBVIOUS

\* A command is begun: every answer is one more command behind.
LEMMA UcSoundBegin ==
  ASSUME UcTypeInv, UcBegin, NEW a, NEW p \in Nat, UcSound(a, p)
  PROVE  UcSound(a, p)'
<1>1. /\ ucSequence \in 0 .. UcSequence /\ ucCount \in Nat /\ ucTries \in Nat
      /\ ucFaultsMet \in Nat /\ UcSequence \in Nat \ {0, 1}
  BY UcTypeFacts, UcAssumption DEF UcTypeInv
<1>2. /\ ucPc = "idle" /\ ucPc' = "send" /\ ucTries' = 0 /\ ucFaultsMet' = ucFaultsMet
      /\ ucCount' = ucCount + 1 /\ ucSequence' = UcNumber
  BY Zenon DEF UcBegin
<1>3. a.seq \in 1 .. UcSequence /\ a.of \in 1 .. ucCount /\ UcInStep(a)
      /\ (ucCount - a.of) + p <= ucFaultsMet
  BY <1>1, <1>2 DEF UcSound, UcPaid, UcSpent, UcBusy
<1>4. a.of \in 1 .. ucCount' /\ a.of < ucCount' /\ ucCount - a.of \in Nat
      /\ ucCount' - a.of = (ucCount - a.of) + 1
  BY <1>1, <1>2, <1>3
<1>5. UcInStep(a)'
  <2>1. ucSequence' = IF ucSequence = UcSequence THEN 1 ELSE ucSequence + 1
    BY <1>1, <1>2, UcNumberIs
  <2> DEFINE d == ucCount - a.of
             s == a.seq
  <2>2. s \in 1 .. UcSequence /\ d \in Nat
    BY <1>3, <1>4
  <2>3. d < UcSequence => ucSequence = IF s + d <= UcSequence THEN s + d ELSE s + d - UcSequence
    BY <1>3, Zenon DEF UcInStep
  <2>4. ucCount' - a.of = d + 1
    BY <1>4
  <2> HIDE DEF d, s
  <2>5. d + 1 < UcSequence => ucSequence' = IF s + (d + 1) <= UcSequence THEN s + (d + 1)
                                            ELSE s + (d + 1) - UcSequence
    BY <1>1, <2>1, <2>2, <2>3, UcNextInStep
  <2> QED
    BY <2>4, <2>5 DEF UcInStep, s
<1>6. UcPaid(a, p)'
  BY <1>1, <1>2, <1>3, <1>4 DEF UcPaid, UcSpent, UcBusy
<1> QED
  BY <1>3, <1>4, <1>5, <1>6 DEF UcSound

\* A step that begins no command leaves an answer sound if it is paid for at
\* its new place.
LEMMA UcSoundKept ==
  ASSUME UNCHANGED <<ucSequence, ucCount>>, ucPc' = "send" => ucPc = "send",
         NEW a, NEW p, NEW r, UcSound(a, p), UcPaid(a, r)'
  PROVE  UcSound(a, r)'
  BY DEF UcSound, UcInStep

\* What is paid for stays so when another failure is met.
LEMMA PaidOn ==
  \A d, p, s, z, f, g \in Nat : d + p + s <= f + z /\ f <= g => d + p + s <= g + z
  OBVIOUS

LEMMA UcInvStep ==
  ASSUME UcTypeInv, UcInv, [UcNextStep]_ucVars
  PROVE  UcInv'
<1>0. /\ ucChip \in Seq(UcCommands) /\ ucRsp \in Seq(UcAnswers)
      /\ Len(ucChip) \in Nat /\ Len(ucRsp) \in Nat /\ ucFaultsMet \in Nat /\ ucCount \in Nat
      /\ ucTries \in Nat /\ ucSequence \in 0 .. UcSequence /\ UcSequence \in Nat \ {0, 1}
  BY UcTypeFacts, UcAssumption DEF UcTypeInv
<1>a. \A p \in 1 .. Len(ucRsp) : UcSound(ucRsp[p], p)
  BY DEF UcInv
<1>b. \A p \in 1 .. Len(ucChip) : UcSound(ucChip[p], Len(ucRsp) + p)
  BY DEF UcInv
\* The queues stay as they are.
<1>c. ASSUME UNCHANGED <<ucChip, ucRsp>>, UcReadCurrent',
             \A a : \A p \in Nat : UcSound(a, p) => UcSound(a, p)'
      PROVE  UcInv'
  <2>1. \A p \in 1 .. Len(ucRsp) : UcSound(ucRsp[p], p)'
    BY <1>0, <1>a, <1>c
  <2>2. \A p \in 1 .. Len(ucChip) : UcSound(ucChip[p], Len(ucRsp) + p)'
    <3> SUFFICES ASSUME NEW p \in 1 .. Len(ucChip) PROVE UcSound(ucChip[p], Len(ucRsp) + p)'
      OBVIOUS
    <3>1. Len(ucRsp) + p \in Nat
      BY <1>0
    <3>2. UcSound(ucChip[p], Len(ucRsp) + p)
      BY <1>b
    <3> QED
      BY <1>c, <3>1, <3>2
  <2> QED
    BY <1>c, <2>1, <2>2 DEF UcInv
<1>1. CASE UcBegin
  <2>1. UNCHANGED <<ucChip, ucRsp>> /\ ucPc' = "send"
    BY <1>1, Zenon DEF UcBegin
  <2> QED
    BY <1>1, <1>c, <2>1, UcSoundBegin DEF UcReadCurrent
<1>2. CASE UcSend
  <2> DEFINE c == [seq |-> ucSequence, of |-> ucCount]
             n == Len(ucChip)
  <2>1. /\ ucPc = "send" /\ ucPc' = "recv" /\ ucChip' = Append(ucChip, c)
        /\ UNCHANGED <<ucSequence, ucCount, ucTries, ucRsp, ucFaultsMet>>
    BY <1>2, Zenon DEF UcSend
  <2>2. ucSequence \in 1 .. UcSequence /\ ucCount \in 1 .. ucCount
    BY <1>0, <2>1 DEF UcTypeInv
  <2>3. c \in UcCommands
    BY <2>2, UcTypeFacts DEF UcTypeInv, UcCommands
  <2>4. /\ ucChip' \in Seq(UcCommands) /\ Len(ucChip') = n + 1 /\ ucChip'[n + 1] = c
        /\ \A p \in 1 .. n : ucChip'[p] = ucChip[p]
    BY <1>0, <2>1, <2>3, AppendProperties
  <2>5. ASSUME NEW a, NEW p, UcSound(a, p) PROVE UcSound(a, p)'
    <3>1. UcPaid(a, p)'
      BY <2>1, <2>5 DEF UcSound, UcPaid, UcSpent, UcBusy
    <3> QED
      BY <2>1, <2>5, <3>1, UcSoundKept
  \* The last answer before it belongs to an earlier command.
  <2>6. Len(ucRsp) + n <= ucFaultsMet
    <3>1. ASSUME NEW a, NEW p \in Nat, UcSound(a, p) PROVE p <= ucFaultsMet
      <4>0. UcSpent = ucTries /\ UcBusy = 1
        BY <2>1 DEF UcSpent, UcBusy
      <4>1. a.of \in 1 .. ucCount /\ a.of < ucCount
            /\ (ucCount - a.of) + p + ucTries <= ucFaultsMet + 1
        BY <2>1, <3>1, <4>0, Zenon DEF UcSound, UcPaid
      <4> DEFINE o == a.of
      <4>2. /\ o \in 1 .. ucCount /\ o < ucCount
            /\ (ucCount - o) + p + ucTries <= ucFaultsMet + 1
        BY <4>1
      <4> HIDE DEF o
      <4> QED
        BY <1>0, <4>2
    <3>2. CASE n > 0
      <4>1. n \in 1 .. Len(ucChip) /\ Len(ucRsp) + n \in Nat
        BY <1>0, <3>2
      <4>2. UcSound(ucChip[n], Len(ucRsp) + n)
        BY <1>b, <4>1
      <4> QED
        BY <3>1, <4>1, <4>2
    <3>3. CASE n = 0 /\ Len(ucRsp) > 0
      <4>1. Len(ucRsp) \in 1 .. Len(ucRsp) /\ Len(ucRsp) + n = Len(ucRsp)
        BY <1>0, <3>3
      <4>2. UcSound(ucRsp[Len(ucRsp)], Len(ucRsp))
        BY <1>a, <4>1
      <4> QED
        BY <1>0, <3>1, <4>1, <4>2
    <3> QED
      BY <1>0, <3>2, <3>3
  <2>7. ASSUME NEW b, NEW r, b = c, r = Len(ucRsp) + (n + 1) PROVE UcSound(b, r)'
    <3>1. b.seq = ucSequence /\ b.of = ucCount /\ ucCount - ucCount = 0
      BY <1>0, <2>7
    <3>2. UcInStep(b)'
      BY <1>0, <2>1, <2>2, <3>1 DEF UcInStep
    <3>3. ucTries = 0
      BY <2>1 DEF UcTypeInv
    <3>4. UcPaid(b, r)'
      <4>1. ucPc' = "recv" /\ ucTries' = 0 /\ ucCount' - b.of = 0
            /\ r = (Len(ucRsp) + n) + 1 /\ r <= ucFaultsMet' + 1
        BY <1>0, <2>1, <2>6, <2>7, <3>1, <3>3
      <4> QED
        BY <1>0, <4>1 DEF UcPaid, UcSpent, UcBusy
    <3> QED
      BY <2>1, <2>2, <3>1, <3>2, <3>4 DEF UcSound
  <2>8. \A p \in 1 .. Len(ucRsp') : UcSound(ucRsp[p], p)'
    <3> SUFFICES ASSUME NEW p \in 1 .. Len(ucRsp') PROVE UcSound(ucRsp[p], p)'
      OBVIOUS
    <3>1. UcSound(ucRsp'[p], p)
      BY <1>a, <2>1
    <3>2. ASSUME NEW b, b = ucRsp'[p] PROVE UcSound(b, p)'
      BY <2>5, <3>1, <3>2
    <3> QED
      BY <3>2
  <2>9. \A p \in 1 .. Len(ucChip') : UcSound(ucChip[p], Len(ucRsp) + p)'
    <3> SUFFICES ASSUME NEW p \in 1 .. Len(ucChip') PROVE UcSound(ucChip[p], Len(ucRsp) + p)'
      OBVIOUS
    <3>1. CASE p = n + 1
      <4>1. ASSUME NEW b, NEW r, b = ucChip'[p], r = Len(ucRsp') + p PROVE UcSound(b, r)'
        BY <2>1, <2>4, <2>7, <3>1, <4>1
      <4> QED
        BY <4>1
    <3>2. CASE p \in 1 .. n
      <4>1. UcSound(ucChip'[p], Len(ucRsp') + p)
        BY <1>b, <2>1, <2>4, <3>2
      <4>2. ASSUME NEW b, NEW r, b = ucChip'[p], r = Len(ucRsp') + p PROVE UcSound(b, r)'
        BY <2>5, <4>1, <4>2
      <4> QED
        BY <4>2
    <3> QED
      BY <1>0, <2>4, <3>1, <3>2
  <2> QED
    BY <2>1, <2>8, <2>9 DEF UcInv, UcReadCurrent
<1>3. CASE UcSendFails
  <2>1. /\ ucPc = "send" /\ ucFaultsMet' = ucFaultsMet + 1
        /\ UNCHANGED <<ucSequence, ucCount, ucKind, ucTries, ucChip, ucRsp>>
        /\ \/ /\ ucPc' = "idle" /\ ucLast'.ret = "error"
           \/ ucPc' = "recv"
    BY <1>3 DEF UcSendFails, UcFault, UcReturn
  <2>2. ASSUME NEW a, NEW p \in Nat, UcSound(a, p) PROVE UcSound(a, p)'
    <3>0. UcSpent = ucTries /\ UcBusy = 1
      BY <2>1 DEF UcSpent, UcBusy
    <3>1. ucCount - a.of \in Nat /\ (ucCount - a.of) + p + ucTries <= ucFaultsMet + 1
      <4>1. a.of \in 1 .. ucCount /\ (ucCount - a.of) + p + ucTries <= ucFaultsMet + 1
        BY <2>2, <3>0, Zenon DEF UcSound, UcPaid
      <4> QED
        BY <1>0, <4>1
    <3>2. UcPaid(a, p)'
      BY <1>0, <2>1, <3>1 DEF UcPaid, UcSpent, UcBusy
    <3> QED
      BY <2>1, <2>2, <3>2, UcSoundKept
  <2>3. UcReadCurrent'
    BY <2>1 DEF UcReadCurrent
  <2> QED
    BY <1>c, <2>1, <2>2, <2>3
<1>4. ASSUME NEW short \in BOOLEAN, UcAnswer(short) PROVE UcInv'
  <2> DEFINE c == Head(ucChip)
             a == [seq |-> c.seq, of |-> c.of, short |-> short]
             n == Len(ucRsp)
  <2>1. /\ ucChip # <<>> /\ ucChip' = Tail(ucChip) /\ ucRsp' = Append(ucRsp, a)
        /\ ucFaultsMet' \in {ucFaultsMet, ucFaultsMet + 1}
        /\ UNCHANGED <<ucSequence, ucCount, ucPc, ucKind, ucTries, ucLast>>
    BY <1>4 DEF UcAnswer, UcFault
  <2>2. /\ Head(ucChip) = ucChip[1] /\ Len(ucChip) >= 1 /\ Tail(ucChip) \in Seq(UcCommands)
        /\ Len(Tail(ucChip)) = Len(ucChip) - 1 /\ Head(ucChip) \in UcCommands
        /\ \A p \in 1 .. Len(Tail(ucChip)) : Tail(ucChip)[p] = ucChip[p + 1]
    BY <1>0, <2>1, HeadTailProperties, EmptySeq
  <2>3. a \in UcAnswers
    BY <2>2 DEF UcAnswers, UcCommands
  <2>4. /\ Len(ucRsp') = n + 1 /\ ucRsp'[n + 1] = a
        /\ \A p \in 1 .. n : ucRsp'[p] = ucRsp[p]
    BY <1>0, <2>1, <2>3, AppendProperties
  <2>5. ASSUME NEW b, NEW p \in Nat, UcSound(b, p) PROVE UcSound(b, p)'
    <3>1. ucCount - b.of \in Nat /\ (ucCount - b.of) + p + UcSpent <= ucFaultsMet + UcBusy
          /\ UcSpent \in Nat /\ UcBusy \in Nat /\ UcSpent' = UcSpent /\ UcBusy' = UcBusy
      <4>1. b.of \in 1 .. ucCount /\ UcPaid(b, p)
        BY <2>5, Zenon DEF UcSound
      <4>2. ucCount - b.of \in Nat
        BY <1>0, <4>1
      <4>3. UcSpent \in Nat /\ UcBusy \in Nat
        BY <1>0 DEF UcSpent, UcBusy
      <4>4. UcSpent' = UcSpent /\ UcBusy' = UcBusy
        BY <2>1 DEF UcSpent, UcBusy
      <4> QED
        BY <4>1, <4>2, <4>3, <4>4, Zenon DEF UcPaid
    <3>2. UcPaid(b, p)'
      <4> DEFINE d == ucCount - b.of
                 s == UcSpent
                 z == UcBusy
      <4>1. d \in Nat /\ s \in Nat /\ z \in Nat /\ d + p + s <= ucFaultsMet + z
        BY <3>1, Zenon
      <4>2. /\ ucFaultsMet \in Nat /\ ucFaultsMet' \in Nat /\ ucFaultsMet <= ucFaultsMet'
        BY <1>0, <2>1
      <4> HIDE DEF d, s, z
      <4>3. d + p + s <= ucFaultsMet' + z
        BY <4>1, <4>2, PaidOn, Zenon
      <4> QED
        BY <2>1, <3>1, <4>3, Zenon DEF UcPaid, d, s, z
    <3> QED
      BY <2>1, <2>5, <3>2, UcSoundKept
  <2>6. ASSUME NEW b, NEW r, b = a, r = n + 1 PROVE UcSound(b, r)'
    <3>1. UcSound(c, n + 1)
      <4>1. 1 \in 1 .. Len(ucChip)
        BY <1>0, <2>2
      <4> QED
        BY <1>b, <2>2, <4>1
    <3>2. UcSound(a, n + 1)
      <4>1. a.seq = c.seq /\ a.of = c.of
        OBVIOUS
      <4> QED
        BY <3>1, <4>1, Zenon DEF UcSound, UcInStep, UcPaid
    <3> QED
      BY <1>0, <2>5, <2>6, <3>2
  <2>7. \A p \in 1 .. Len(ucRsp') : UcSound(ucRsp[p], p)'
    <3> SUFFICES ASSUME NEW p \in 1 .. Len(ucRsp') PROVE UcSound(ucRsp[p], p)'
      OBVIOUS
    <3>1. CASE p = n + 1
      <4>1. ASSUME NEW b, b = ucRsp'[p] PROVE UcSound(b, p)'
        BY <2>4, <2>6, <3>1, <4>1
      <4> QED
        BY <4>1
    <3>2. CASE p \in 1 .. n
      <4>1. UcSound(ucRsp'[p], p)
        BY <1>a, <2>4, <3>2
      <4>2. ASSUME NEW b, b = ucRsp'[p] PROVE UcSound(b, p)'
        BY <2>5, <4>1, <4>2
      <4> QED
        BY <4>2
    <3> QED
      BY <1>0, <2>4, <3>1, <3>2
  <2>8. \A p \in 1 .. Len(ucChip') : UcSound(ucChip[p], Len(ucRsp) + p)'
    <3> SUFFICES ASSUME NEW p \in 1 .. Len(ucChip') PROVE UcSound(ucChip[p], Len(ucRsp) + p)'
      OBVIOUS
    <3>1. /\ p + 1 \in 1 .. Len(ucChip) /\ ucChip'[p] = ucChip[p + 1]
          /\ n + (p + 1) = Len(ucRsp') + p /\ n + (p + 1) \in Nat
      BY <1>0, <2>1, <2>2, <2>4
    <3>2. UcSound(ucChip[p + 1], n + (p + 1))
      BY <1>b, <3>1
    <3>3. UcSound(ucChip'[p], Len(ucRsp') + p)
      BY <3>1, <3>2
    <3>4. ASSUME NEW b, NEW r, b = ucChip'[p], r = Len(ucRsp') + p PROVE UcSound(b, r)'
      BY <2>5, <3>1, <3>3, <3>4
    <3> QED
      BY <3>4
  <2>9. UcReadCurrent'
    BY <1>0, <2>1 DEF UcInv, UcReadCurrent
  <2> QED
    BY <2>7, <2>8, <2>9 DEF UcInv
<1>5. CASE UcRecv
  <2> DEFINE a == Head(ucRsp)
             n == Len(ucRsp)
             Wrong == ucKind = "cmd" /\ ~a.short /\ UcWrong(a) /\ ucTries + 1 < UcSequence
  <2>1. /\ ucPc = "recv" /\ ucRsp # <<>> /\ ucRsp' = Tail(ucRsp)
        /\ UNCHANGED <<ucSequence, ucCount, ucKind, ucChip, ucFaultsMet>>
        /\ IF Wrong THEN ucTries' = ucTries + 1 /\ UNCHANGED <<ucPc, ucLast>>
           ELSE /\ \/ UcReturn("ok", IF a.short THEN 0 ELSE a.of, a.short)
                   \/ UcReturn("error", 0, FALSE)
                /\ UNCHANGED ucTries
    BY <1>5, Zenon DEF UcRecv
  <2>2. /\ a = ucRsp[1] /\ n >= 1 /\ Tail(ucRsp) \in Seq(UcAnswers)
        /\ Len(Tail(ucRsp)) = n - 1 /\ a \in UcAnswers
        /\ \A p \in 1 .. n - 1 : Tail(ucRsp)[p] = ucRsp[p + 1]
    BY <1>0, <2>1, HeadTailProperties, EmptySeq
  <2> HIDE DEF a, Wrong
  \* Every answer is one place nearer.
  <2>3. ASSUME NEW b, NEW p \in Nat, UcSound(b, p + 1) PROVE UcSound(b, p)'
    <3>1. ucCount - b.of \in Nat /\ (ucCount - b.of) + (p + 1) + ucTries <= ucFaultsMet + 1
      <4>1. UcSpent = ucTries /\ UcBusy = 1
        BY <2>1 DEF UcSpent, UcBusy
      <4>2. b.of \in 1 .. ucCount /\ (ucCount - b.of) + (p + 1) + ucTries <= ucFaultsMet + 1
        BY <2>3, <4>1, Zenon DEF UcSound, UcPaid
      <4> QED
        BY <1>0, <4>2
    <3>2. CASE Wrong
      <4>1. ucPc' = "recv" /\ ucTries' = ucTries + 1
        BY <2>1, <3>2
      <4>2. UcPaid(b, p)'
        BY <1>0, <2>1, <3>1, <4>1 DEF UcPaid, UcSpent, UcBusy
      <4> QED
        BY <2>1, <2>3, <4>1, <4>2, UcSoundKept
    <3>3. CASE ~Wrong
      <4>1. ucPc' = "idle"
        BY <2>1, <3>3 DEF UcReturn
      <4>2. UcPaid(b, p)'
        BY <1>0, <2>1, <3>1, <4>1 DEF UcPaid, UcSpent, UcBusy
      <4> QED
        BY <2>1, <2>3, <4>1, <4>2, UcSoundKept
    <3> QED
      BY <3>2, <3>3
  <2>4. \A p \in 1 .. Len(ucRsp') : UcSound(ucRsp[p], p)'
    <3> SUFFICES ASSUME NEW p \in 1 .. Len(ucRsp') PROVE UcSound(ucRsp[p], p)'
      OBVIOUS
    <3>1. p + 1 \in 1 .. n /\ ucRsp'[p] = ucRsp[p + 1] /\ p \in Nat
      BY <1>0, <2>1, <2>2
    <3>2. UcSound(ucRsp'[p], p + 1)
      BY <1>a, <3>1
    <3>3. ASSUME NEW b, b = ucRsp'[p] PROVE UcSound(b, p)'
      BY <2>3, <3>1, <3>2, <3>3
    <3> QED
      BY <3>3
  <2>5. \A p \in 1 .. Len(ucChip') : UcSound(ucChip[p], Len(ucRsp) + p)'
    <3> SUFFICES ASSUME NEW p \in 1 .. Len(ucChip') PROVE UcSound(ucChip[p], Len(ucRsp) + p)'
      OBVIOUS
    <3>1. /\ p \in 1 .. Len(ucChip) /\ ucChip'[p] = ucChip[p]
          /\ n + p = (Len(ucRsp') + p) + 1 /\ Len(ucRsp') + p \in Nat
      BY <1>0, <2>1, <2>2
    <3>2. UcSound(ucChip'[p], (Len(ucRsp') + p) + 1)
      BY <1>b, <3>1
    <3>3. ASSUME NEW b, NEW r, b = ucChip'[p], r = Len(ucRsp') + p PROVE UcSound(b, r)'
      BY <2>3, <3>1, <3>2, <3>3
    <3> QED
      BY <3>3
  <2>6. UcReadCurrent'
    <3>1. CASE Wrong
      <4>1. ucPc' = "recv"
        BY <2>1, <3>1
      <4> QED
        BY <4>1 DEF UcReadCurrent
    \* An answer with the number of another command is as many failures late.
    <3>2. CASE ~Wrong /\ ucKind = "cmd" /\ ucFaultsMet < UcSequence
      <4>1. \/ ucLast' = [ret |-> "ok", of |-> IF a.short THEN 0 ELSE a.of, short |-> a.short]
            \/ ucLast' = [ret |-> "error", of |-> 0, short |-> FALSE]
        BY <2>1, <3>2 DEF UcReturn
      <4>2. CASE a.short
        BY <4>1, <4>2 DEF UcReadCurrent
      <4>3. CASE ~a.short
        <5>1. UcSound(a, 1)
          <6>1. 1 \in 1 .. n
            BY <1>0, <2>2
          <6> QED
            BY <1>a, <2>2, <6>1
        <5>2. /\ a.seq \in 1 .. UcSequence /\ a.of \in 1 .. ucCount
              /\ (ucCount - a.of) + 1 + ucTries <= ucFaultsMet + 1
          BY <2>1, <5>1 DEF UcSound, UcPaid, UcSpent, UcBusy
        <5> DEFINE d == ucCount - a.of
        <5>3. d \in Nat /\ d + ucTries <= ucFaultsMet /\ (d = 0 => a.of = ucCount)
          <6>1. ASSUME NEW u \in Nat, NEW o \in 1 .. u, NEW t \in Nat, NEW f \in Nat,
                       (u - o) + 1 + t <= f + 1
                PROVE  u - o \in Nat /\ (u - o) + t <= f /\ (u - o = 0 => o = u)
            BY <6>1
          <6> QED
            BY <1>0, <5>2, <6>1
        <5>4. d < UcSequence => ucSequence = IF a.seq + d <= UcSequence THEN a.seq + d
                                             ELSE a.seq + d - UcSequence
          BY <5>1, Zenon DEF UcSound, UcInStep
        <5> HIDE DEF d
        <5>5. d = 0
          <6>1. CASE a.seq = ucSequence
            <7>1. d < UcSequence /\ d \in Nat
              BY <1>0, <3>2, <5>3
            <7>2. ucSequence = IF ucSequence + d <= UcSequence THEN ucSequence + d
                               ELSE ucSequence + d - UcSequence
              BY <5>4, <6>1, <7>1
            <7>3. ASSUME NEW m \in Nat, NEW q \in 0 .. m, NEW e \in Nat, e < m,
                         q = IF q + e <= m THEN q + e ELSE q + e - m
                  PROVE  e = 0
              BY <7>3
            <7> QED
              BY <1>0, <7>1, <7>2, <7>3
          <6>2. CASE a.seq # ucSequence
            <7>1. ucTries + 1 >= UcSequence
              BY <1>0, <3>2, <4>3, <6>2 DEF Wrong, UcWrong
            <7> QED
              BY <1>0, <3>2, <5>3, <7>1
          <6> QED
            BY <6>1, <6>2
        <5>6. a.of = ucCount
          BY <5>3, <5>5
        <5> QED
          BY <2>1, <4>1, <4>3, <5>6 DEF UcReadCurrent
      <4> QED
        BY <4>2, <4>3
    <3>3. CASE ~Wrong /\ ~(ucKind = "cmd" /\ ucFaultsMet < UcSequence)
      BY <2>1, <3>3 DEF UcReadCurrent
    <3> QED
      BY <3>1, <3>2, <3>3
  <2> QED
    BY <2>4, <2>5, <2>6 DEF UcInv
<1>6. CASE UcRecvFails
  <2>1. /\ ucPc = "recv" /\ ucPc' = "idle" /\ ucRsp = <<>>
        /\ UNCHANGED <<ucSequence, ucCount, ucKind, ucTries, ucChip, ucRsp>>
        /\ ucFaultsMet' = ucFaultsMet + 1 \/ ucChip = <<>>
        /\ ucKind = "cmd" => ucLast'.ret = "error"
    BY <1>6 DEF UcRecvFails, UcFault, UcReturn
  <2>2. UcReadCurrent'
    BY <2>1 DEF UcReadCurrent
  <2>3. CASE ucFaultsMet' = ucFaultsMet + 1
    <3>1. ASSUME NEW a, NEW p \in Nat, UcSound(a, p) PROVE UcSound(a, p)'
      <4>1. ucCount - a.of \in Nat /\ (ucCount - a.of) + p + ucTries <= ucFaultsMet + 1
        BY <1>0, <2>1, <3>1 DEF UcSound, UcPaid, UcSpent, UcBusy
      <4>2. UcPaid(a, p)'
        BY <1>0, <2>1, <2>3, <4>1 DEF UcPaid, UcSpent, UcBusy
      <4> QED
        BY <2>1, <3>1, <4>2, UcSoundKept
    <3> QED
      BY <1>c, <2>1, <2>2, <3>1
  <2>4. CASE ucChip = <<>>
    <3>1. Len(ucChip') = 0 /\ Len(ucRsp') = 0
      BY <2>1, <2>4, EmptySeq
    <3> QED
      BY <2>2, <3>1 DEF UcInv
  <2> QED
    BY <2>1, <2>3, <2>4
<1>7. CASE UNCHANGED ucVars
  BY <1>7 DEF ucVars, UcInv, UcSound, UcInStep, UcPaid, UcSpent, UcBusy, UcReadCurrent
<1> QED
  BY <1>1, <1>2, <1>3, <1>4, <1>5, <1>6, <1>7, Zenon DEF UcNextStep

\* UcReadCurrent: a register value that is returned answers the command it is
\* returned for, whatever timed out before and however often the numbers
\* wrapped, as long as there were fewer failures than numbers
\* (ssv6xxx_usb_cmd of src/hwif/usb/usb.c).
THEOREM CommandReadsItsAnswer == UcSpec => []UcReadCurrent
<1>1. UcInit => UcInv
  <2> SUFFICES ASSUME UcInit PROVE UcInv
    OBVIOUS
  <2>1. Len(ucRsp) = 0 /\ Len(ucChip) = 0 /\ ucLast.ret = "none"
    BY EmptySeq DEF UcInit, UcNothing
  <2> QED
    BY <2>1 DEF UcInv, UcReadCurrent
<1>2. UcTypeInv /\ UcInv /\ [UcNextStep]_ucVars => UcTypeInv' /\ UcInv'
  BY UcTypeStep, UcInvStep
<1>3. UcInv => UcReadCurrent
  BY DEF UcInv
<1> QED
  BY <1>1, <1>2, <1>3, UcTypeInit, PTL DEF UcSpec
-----------------------------------------------------------------------------
(* UsbRx                                                                   *)

\* UxTypeOK in parts, each of what a few actions change.
UxListsType == uxBus \in Seq(UxBufs) /\ uxQueue \in Seq(UxBufs)
UxWorkerType ==
  /\ uxHand \in {UxNone} \cup UxBufs /\ uxPc \in {"idle", "loop", "has", "done"}
  /\ uxPending \in BOOLEAN
UxDataType == uxData \in [UxBufs -> 0 .. UxMaxData] /\ uxNext \in 1 .. UxMaxData + 1
UxOutType == uxOut \in Seq(0 .. UxMaxData)
UxPowerType == uxPower \in [at : {"on", "kill", "off", "submit"}, k : 0 .. UxCount + 1]
UxHistoryType == uxSwapped \in BOOLEAN /\ uxMet \subseteq UxBufs /\ uxDeaf \subseteq UxBufs
UxCountsType == uxEvents \in 0 .. UxMaxEvents /\ uxSuspends \in 0 .. UxMaxSuspends

\* The worker has a buffer just where it uses one, and suspend and resume are
\* at a buffer.
UxInHand ==
  /\ uxHand \in IF uxPc \in {"has", "done"} THEN UxBufs ELSE {UxNone}
  /\ uxPower.at \in {"kill", "submit"} => uxPower.k # 0

LEMMA UxTypeSplit ==
  UxTypeOK <=> /\ UxListsType /\ UxWorkerType /\ UxDataType /\ UxOutType /\ UxPowerType
               /\ UxHistoryType /\ UxCountsType
  BY ZenonT(60) DEF UxTypeOK, UxListsType, UxWorkerType, UxDataType, UxOutType, UxPowerType,
       UxHistoryType, UxCountsType

LEMMA UxEnqueuedType ==
  ASSUME UxTypeOK, NEW b \in UxBufs
  PROVE  UxEnqueued(b) \in Seq(UxBufs)
<1>1. \A q \in Seq(UxBufs) : \A S : Without(q, S) \in Seq(UxBufs)
  BY WithoutMembers, Zenon
<1>2. Without(uxQueue, {b}) \in Seq(UxBufs)
  BY <1>1, Zenon DEF UxTypeOK
<1>3. \A q \in Seq(UxBufs) : Append(q, b) \in Seq(UxBufs)
  OBVIOUS
<1> QED
  BY <1>2, <1>3, Zenon DEF UxEnqueued

LEMMA UxEventType ==
  ASSUME UxCountsType, UxEvent
  PROVE  UxCountsType'
  BY UxAssumption DEF UxCountsType, UxEvent

LEMMA UxSubmitType ==
  ASSUME UxTypeOK, NEW b \in UxBufs, UxSubmit(b)
  PROVE  /\ uxBus' \in Seq(UxBufs) /\ uxData' \in [UxBufs -> 0 .. UxMaxData]
         /\ uxDeaf' \subseteq UxBufs /\ UxCountsType'
<1>1. uxBus \in Seq(UxBufs) /\ uxData \in [UxBufs -> 0 .. UxMaxData]
  BY Zenon DEF UxTypeOK
<1>2. /\ uxData' = [uxData EXCEPT ![b] = 0]
      /\ uxBus' = uxBus \/ uxBus' = Append(uxBus, b)
  BY Zenon DEF UxSubmit
<1>3. 0 \in 0 .. UxMaxData
  BY UxAssumption
<1>4. Append(uxBus, b) \in Seq(UxBufs)
  BY <1>1
<1>5. uxDeaf \subseteq UxBufs /\ uxDeaf' \in {uxDeaf \ {b}, uxDeaf \cup {b}}
  BY Zenon DEF UxTypeOK, UxSubmit
<1>6. uxDeaf' \subseteq UxBufs
  BY <1>5
<1>7. UxCountsType /\ (UNCHANGED uxCounts \/ UxEvent)
  BY Zenon DEF UxTypeOK, UxCountsType, UxSubmit
<1>8. UxCountsType'
  BY <1>7, UxEventType, Zenon DEF UxCountsType, uxCounts
<1> QED
  BY <1>1, <1>2, <1>3, <1>4, <1>6, <1>8, Zenon

LEMMA UxTypeStep ==
  ASSUME UxTypeOK, UxInHand, [UxNextStep]_uxVars
  PROVE  UxTypeOK' /\ UxInHand'
<1>a. /\ UxListsType /\ UxWorkerType /\ UxDataType /\ UxOutType /\ UxPowerType
      /\ UxHistoryType /\ UxCountsType
  BY UxTypeSplit, Zenon
<1>b. (/\ UxListsType /\ UxWorkerType /\ UxDataType /\ UxOutType /\ UxPowerType
       /\ UxHistoryType /\ UxCountsType)' => UxTypeOK'
  BY UxTypeSplit, PTL
<1>c. UxCount \in Nat \ {0} /\ UxMaxData \in Nat /\ UxNone = 0 /\ UxNone \notin UxBufs
  BY UxAssumption DEF UxNone, UxBufs
<1>d. ASSUME NEW s \in Seq(UxBufs), s # <<>>
      PROVE  Head(s) \in UxBufs /\ Tail(s) \in Seq(UxBufs)
  BY <1>d, TailMembers, Zenon
<1>1. CASE UxComplete
  <2>1. /\ uxBus # <<>> /\ uxNext <= UxMaxData
        /\ uxData' = [uxData EXCEPT ![Head(uxBus)] = uxNext]
        /\ uxQueue' = UxEnqueued(Head(uxBus)) /\ uxBus' = Tail(uxBus) /\ uxNext' = uxNext + 1
        /\ uxPending' = TRUE
        /\ UNCHANGED <<uxHand, uxPc, uxOut, uxPower, uxSwapped, uxMet, uxDeaf, uxEvents,
                       uxSuspends>>
    BY <1>1, Zenon DEF UxComplete, uxCounts
  <2>2. Head(uxBus) \in UxBufs /\ Tail(uxBus) \in Seq(UxBufs)
    BY <1>a, <1>d, <2>1, Zenon DEF UxListsType
  <2>3. UxListsType'
    BY <2>1, <2>2, UxEnqueuedType, Zenon DEF UxListsType
  <2>4. uxNext \in 0 .. UxMaxData /\ uxNext + 1 \in 1 .. UxMaxData + 1
    BY <1>a, <1>c, <2>1 DEF UxDataType
  <2>5. UxDataType'
    BY <1>a, <2>1, <2>2, <2>4, Zenon DEF UxDataType
  <2>6. UxWorkerType' /\ UxOutType' /\ UxPowerType' /\ UxHistoryType' /\ UxCountsType' /\ UxInHand'
    BY <1>a, <2>1, Zenon DEF UxWorkerType, UxOutType, UxPowerType, UxHistoryType, UxCountsType,
         UxInHand
  <2> QED
    BY <1>b, <2>3, <2>5, <2>6, Zenon
<1>2. CASE UxCompleteBad
  <2>1. /\ uxBus # <<>> /\ UxEvent
        /\ uxBus' \in {Append(Tail(uxBus), Head(uxBus)), Tail(uxBus)}
        /\ uxDeaf' \in {uxDeaf, uxDeaf \cup {Head(uxBus)}}
        /\ UNCHANGED <<uxQueue, uxHand, uxPc, uxPending, uxData, uxNext, uxOut, uxPower, uxSwapped,
                       uxMet>>
    BY <1>2, Zenon DEF UxCompleteBad, uxWorker
  <2>2. Head(uxBus) \in UxBufs /\ {Append(Tail(uxBus), Head(uxBus)), Tail(uxBus)} \subseteq Seq(UxBufs)
    <3>1. \A s \in Seq(UxBufs) : \A e \in UxBufs : Append(s, e) \in Seq(UxBufs)
      OBVIOUS
    <3> QED
      BY <1>a, <1>d, <2>1, <3>1, Zenon DEF UxListsType
  <2>3. UxListsType' /\ UxCountsType'
    BY <1>a, <2>1, <2>2, UxEventType, Zenon DEF UxListsType
  <2>4. UxHistoryType'
    BY <1>a, <2>1, <2>2 DEF UxHistoryType
  <2>5. UxDataType' /\ UxWorkerType' /\ UxOutType' /\ UxPowerType' /\ UxInHand'
    BY <1>a, <2>1, Zenon DEF UxDataType, UxWorkerType, UxOutType, UxPowerType, UxInHand
  <2> QED
    BY <1>b, <2>3, <2>4, <2>5, Zenon
<1>3. CASE UxBegin
  <2>1. /\ uxPc = "idle" /\ uxPc' = "loop" /\ uxPending' = FALSE
        /\ UNCHANGED <<uxBus, uxQueue, uxHand, uxData, uxNext, uxOut, uxPower, uxSwapped, uxMet,
                       uxDeaf, uxEvents, uxSuspends>>
    BY <1>3, Zenon DEF UxBegin, uxCounts
  <2>2. UxWorkerType' /\ UxInHand'
    BY <1>a, <2>1 DEF UxWorkerType, UxInHand
  <2>3. UxListsType' /\ UxDataType' /\ UxOutType' /\ UxPowerType' /\ UxHistoryType' /\ UxCountsType'
    BY <1>a, <2>1, Zenon DEF UxListsType, UxDataType, UxOutType, UxPowerType, UxHistoryType,
         UxCountsType
  <2> QED
    BY <1>b, <2>2, <2>3, Zenon
<1>4. CASE UxTake
  <2>1. /\ uxPc = "loop"
        /\ UNCHANGED <<uxBus, uxPending, uxData, uxNext, uxOut, uxPower, uxSwapped, uxMet,
                       uxDeaf, uxEvents, uxSuspends>>
    BY <1>4, Zenon DEF UxTake, uxCounts
  <2>2. \/ uxPc' = "idle" /\ uxHand' = uxHand /\ uxQueue' = uxQueue
        \/ uxQueue # <<>> /\ uxPc' = "has" /\ uxHand' = Head(uxQueue) /\ uxQueue' = Tail(uxQueue)
    BY <1>4, Zenon DEF UxTake
  <2>3. uxQueue # <<>> => Head(uxQueue) \in UxBufs /\ Tail(uxQueue) \in Seq(UxBufs)
    BY <1>a, <1>d, Zenon DEF UxListsType
  <2>4. UxListsType'
    BY <1>a, <2>1, <2>2, <2>3, Zenon DEF UxListsType
  <2>5. UxWorkerType'
    BY <1>a, <2>1, <2>2, <2>3 DEF UxWorkerType
  <2>6. UxInHand'
    BY <2>1, <2>2, <2>3 DEF UxInHand
  <2>7. UxDataType' /\ UxOutType' /\ UxPowerType' /\ UxHistoryType' /\ UxCountsType'
    BY <1>a, <2>1, Zenon DEF UxDataType, UxOutType, UxPowerType, UxHistoryType, UxCountsType
  <2> QED
    BY <1>b, <2>4, <2>5, <2>6, <2>7, Zenon
<1>5. CASE UxPutBack
  <2>1. /\ uxPc = "has" /\ UxEvent /\ uxQueue' = UxEnqueued(uxHand)
        /\ uxSwapped' = (uxSwapped \/ uxQueue # <<>>)
        /\ uxHand' = UxNone /\ uxPc' = "idle" /\ uxPending' = TRUE
        /\ UNCHANGED <<uxBus, uxData, uxNext, uxOut, uxPower, uxMet, uxDeaf>>
    BY <1>5, Zenon DEF UxPutBack, UxBack, UxAgain
  <2>2. uxHand \in UxBufs
    BY <2>1 DEF UxInHand
  <2>3. UxListsType'
    BY <1>a, <2>1, <2>2, UxEnqueuedType, Zenon DEF UxListsType
  <2>4. UxWorkerType' /\ UxHistoryType' /\ UxInHand'
    BY <1>a, <2>1 DEF UxWorkerType, UxHistoryType, UxInHand
  <2>5. UxDataType' /\ UxOutType' /\ UxPowerType' /\ UxCountsType'
    BY <1>a, <2>1, UxEventType, Zenon DEF UxDataType, UxOutType, UxPowerType
  <2> QED
    BY <1>b, <2>3, <2>4, <2>5, Zenon
<1>6. CASE UxDeliver
  <2>1. /\ uxPc = "has" /\ uxOut' = Append(uxOut, uxData[uxHand]) /\ uxPc' = "done"
        /\ UNCHANGED <<uxBus, uxQueue, uxHand, uxPending, uxData, uxNext, uxPower, uxSwapped,
                       uxMet, uxDeaf, uxEvents, uxSuspends>>
    BY <1>6, Zenon DEF UxDeliver, uxCounts
  <2>2. uxHand \in UxBufs
    BY <2>1 DEF UxInHand
  <2>3. UxOutType'
    <3>1. uxData[uxHand] \in 0 .. UxMaxData
      BY <1>a, <2>2, Zenon DEF UxDataType
    <3>2. \A s \in Seq(0 .. UxMaxData) : \A e \in 0 .. UxMaxData :
            Append(s, e) \in Seq(0 .. UxMaxData)
      OBVIOUS
    <3> QED
      BY <1>a, <2>1, <3>1, <3>2, Zenon DEF UxOutType
  <2>4. UxWorkerType' /\ UxInHand'
    BY <1>a, <2>1 DEF UxWorkerType, UxInHand
  <2>5. UxListsType' /\ UxDataType' /\ UxPowerType' /\ UxHistoryType' /\ UxCountsType'
    BY <1>a, <2>1, Zenon DEF UxListsType, UxDataType, UxPowerType, UxHistoryType, UxCountsType
  <2> QED
    BY <1>b, <2>3, <2>4, <2>5, Zenon
<1>7. CASE UxGive
  <2>1. /\ uxPc = "done" /\ UxSubmit(uxHand) /\ uxHand' = UxNone /\ uxPc' = "loop"
        /\ UNCHANGED <<uxQueue, uxPending, uxNext, uxOut, uxPower, uxSwapped, uxMet>>
    BY <1>7, Zenon DEF UxGive
  <2>2. uxHand \in UxBufs
    BY <2>1 DEF UxInHand
  <2>3. UxListsType' /\ UxDataType' /\ UxHistoryType' /\ UxCountsType'
    BY <1>a, <2>1, <2>2, UxSubmitType, Zenon DEF UxListsType, UxDataType, UxHistoryType
  <2>4. UxWorkerType' /\ UxInHand'
    BY <1>a, <2>1 DEF UxWorkerType, UxInHand
  <2>5. UxOutType' /\ UxPowerType'
    BY <1>a, <2>1, Zenon DEF UxOutType, UxPowerType
  <2> QED
    BY <1>b, <2>3, <2>4, <2>5, Zenon
<1>8. CASE UxKill
  <2>1. /\ uxPower.at = "kill" /\ uxPower.k <= UxCount
        /\ uxBus' = Without(uxBus, {uxPower.k}) /\ uxPower' = [uxPower EXCEPT !.k = uxPower.k + 1]
        /\ UNCHANGED <<uxQueue, uxHand, uxPc, uxPending, uxData, uxNext, uxOut, uxSwapped, uxMet,
                       uxDeaf, uxEvents, uxSuspends>>
    BY <1>8, Zenon DEF UxKill, uxWorker, uxCounts
  <2>2. UxListsType'
    <3>1. \A q \in Seq(UxBufs) : \A S : Without(q, S) \in Seq(UxBufs)
      BY WithoutMembers, Zenon
    <3> QED
      BY <1>a, <2>1, <3>1, Zenon DEF UxListsType
  <2>3. UxPowerType' /\ uxPower'.k # 0
    BY <1>a, <1>c, <2>1 DEF UxPowerType
  <2>4. UxInHand'
    BY <2>1, <2>3, Zenon DEF UxInHand
  <2>5. UxDataType' /\ UxWorkerType' /\ UxOutType' /\ UxHistoryType' /\ UxCountsType'
    BY <1>a, <2>1, Zenon DEF UxDataType, UxWorkerType, UxOutType, UxHistoryType, UxCountsType
  <2> QED
    BY <1>b, <2>2, <2>3, <2>4, <2>5, Zenon
<1>9. CASE UxOff
  <2>1. /\ uxBus' = <<>> /\ uxPower' = [at |-> "off", k |-> 0]
        /\ UNCHANGED <<uxQueue, uxHand, uxPc, uxPending, uxData, uxNext, uxOut, uxSwapped, uxMet,
                       uxDeaf, uxEvents, uxSuspends>>
    BY <1>9, Zenon DEF UxOff, uxWorker, uxCounts
  <2>2. UxListsType'
    BY <1>a, <2>1 DEF UxListsType
  <2>3. UxPowerType' /\ UxInHand'
    BY <1>c, <2>1 DEF UxPowerType, UxInHand
  <2>4. UxDataType' /\ UxWorkerType' /\ UxOutType' /\ UxHistoryType' /\ UxCountsType'
    BY <1>a, <2>1, Zenon DEF UxDataType, UxWorkerType, UxOutType, UxHistoryType, UxCountsType
  <2> QED
    BY <1>b, <2>2, <2>3, <2>4, Zenon
<1>10. CASE UxSuspend
  <2>1. /\ uxSuspends < UxMaxSuspends /\ uxSuspends' = uxSuspends + 1
        /\ uxPower' = [at |-> "kill", k |-> 1]
        /\ UNCHANGED <<uxBus, uxQueue, uxHand, uxPc, uxPending, uxData, uxNext, uxOut, uxSwapped,
                       uxMet, uxDeaf, uxEvents>>
    BY <1>10, Zenon DEF UxSuspend, uxWorker
  <2>2. UxPowerType' /\ UxInHand'
    BY <1>c, <2>1 DEF UxPowerType, UxInHand
  <2>3. UxCountsType'
    BY <1>a, <2>1, UxAssumption DEF UxCountsType
  <2>4. UxListsType' /\ UxDataType' /\ UxWorkerType' /\ UxOutType' /\ UxHistoryType'
    BY <1>a, <2>1, Zenon DEF UxListsType, UxDataType, UxWorkerType, UxOutType, UxHistoryType
  <2> QED
    BY <1>b, <2>2, <2>3, <2>4, Zenon
<1>11. CASE UxResumeOne
  <2>1. /\ uxPower.at = "submit" /\ uxPower.k <= UxCount /\ UxSubmit(uxPower.k)
        /\ uxMet' = uxMet \cup ({uxPower.k} \cap (ToSet(uxQueue) \cup {uxHand}))
        /\ uxPower' = [uxPower EXCEPT !.k = uxPower.k + 1]
        /\ UNCHANGED <<uxQueue, uxHand, uxPc, uxPending, uxNext, uxOut, uxSwapped>>
    BY <1>11, Zenon DEF UxResumeOne, UxResumeTo, uxWorker
  <2>2. uxPower.k \in UxBufs
    BY <1>a, <1>c, <2>1 DEF UxPowerType, UxInHand, UxBufs
  <2>3. UxListsType' /\ UxDataType' /\ uxDeaf' \subseteq UxBufs /\ UxCountsType'
    BY <1>a, <2>1, <2>2, UxSubmitType, Zenon DEF UxListsType, UxDataType
  <2>4. UxPowerType' /\ uxPower'.k # 0
    BY <1>a, <1>c, <2>1 DEF UxPowerType
  <2>5. UxInHand'
    BY <2>1, <2>4, Zenon DEF UxInHand
  <2>6. UxHistoryType'
    BY <1>a, <2>1, <2>2, <2>3 DEF UxHistoryType
  <2>7. UxWorkerType' /\ UxOutType'
    BY <1>a, <2>1, Zenon DEF UxWorkerType, UxOutType
  <2> QED
    BY <1>b, <2>3, <2>4, <2>5, <2>6, <2>7, Zenon
<1>12. CASE UxResume \/ UxResumed
  <2>1. /\ uxPower' = [at |-> "submit", k |-> 1] \/ uxPower' = [at |-> "on", k |-> 0]
        /\ UNCHANGED <<uxBus, uxQueue, uxHand, uxPc, uxPending, uxData, uxNext, uxOut, uxSwapped,
                       uxMet, uxDeaf, uxEvents, uxSuspends>>
    BY <1>12, Zenon DEF UxResume, UxResumed, uxWorker, uxCounts
  <2>2. UxPowerType' /\ UxInHand'
    BY <1>c, <2>1 DEF UxPowerType, UxInHand
  <2>3. /\ UxListsType' /\ UxDataType' /\ UxWorkerType' /\ UxOutType' /\ UxHistoryType'
        /\ UxCountsType'
    BY <1>a, <2>1, Zenon DEF UxListsType, UxDataType, UxWorkerType, UxOutType, UxHistoryType,
         UxCountsType
  <2> QED
    BY <1>b, <2>2, <2>3, Zenon
<1>13. CASE UNCHANGED uxVars
  BY <1>13, ZenonT(60) DEF UxTypeOK, UxInHand, uxVars, uxWorker, uxCounts
<1> QED
  BY <1>1, <1>2, <1>3, <1>4, <1>5, <1>6, <1>7, <1>8, <1>9, <1>10, <1>11, <1>12, <1>13, Zenon
     DEF UxNextStep, UxWork, UxPowerStep

\* The buffers whose data are still to be delivered.
UxHolding == ToSet(uxQueue) \cup IF uxPc = "has" THEN {uxHand} ELSE {}

\* A buffer is in one place: on the bus, in the queue, or in the worker's
\* hands.
UxApart ==
  /\ NoneTwice(uxBus) /\ NoneTwice(uxQueue)
  /\ uxHand \notin ToSet(uxQueue) /\ uxHand \notin ToSet(uxBus)
  /\ ToSet(uxBus) \cap ToSet(uxQueue) = {}

UxHeld ==
  /\ \A b \in UxHolding : uxData[b] \in 1 .. uxNext - 1
  /\ \A b, c \in UxHolding : b # c => uxData[b] # uxData[c]
  /\ UxNoneLost

\* What was delivered, what the worker has, and the queue, in the chip's order.
UxSorted ==
  /\ UxOrdered
  /\ \A j \in 1 .. Len(uxOut) : \A b \in UxHolding : uxOut[j] < uxData[b]
  /\ RisingBy(uxQueue, uxData)
  /\ uxPc = "has" => \A b \in ToSet(uxQueue) : uxData[uxHand] < uxData[b]

UxInv == uxMet = {} => UxApart /\ UxHeld /\ (uxSwapped \/ UxSorted)

LEMMA UxBufLists ==
  /\ \A s \in Seq(UxBufs) : ToSet(s) \subseteq UxBufs /\ UxNone \notin ToSet(s)
  /\ UxNone \notin UxBufs
<1>1. UxNone \notin UxBufs
  BY UxAssumption DEF UxNone, UxBufs
<1>2. \A s \in Seq(UxBufs) : ToSet(s) \subseteq UxBufs
  BY LenProperties DEF ToSet
<1> QED
  BY <1>1, <1>2, Zenon

LEMMA UxWaitingIs == UxWaiting = {uxData[b] : b \in UxHolding}
  BY Zenon DEF UxWaiting, UxHolding

\* A step that delivers nothing and fills no buffer.
LEMMA UxHeldSame ==
  ASSUME UxHeld, UxHolding' = UxHolding, uxNext' = uxNext, uxOut' = uxOut,
         \A b \in UxHolding : uxData'[b] = uxData[b]
  PROVE  UxHeld'
<1>1. UxWaiting' = {uxData'[b] : b \in UxHolding'}
  BY Zenon DEF UxWaiting, UxHolding
<1>2. UxWaiting' = UxWaiting
  <2>1. \A H, f, g : (\A b \in H : f[b] = g[b]) => {f[b] : b \in H} = {g[b] : b \in H}
    OBVIOUS
  <2>2. {uxData'[b] : b \in UxHolding} = {uxData[b] : b \in UxHolding}
    BY <2>1, Zenon
  <2> QED
    BY <1>1, <2>2, UxWaitingIs, Zenon
<1>3. UxNoneLost'
  BY <1>2, Zenon DEF UxHeld, UxNoneLost
<1>4. \A b \in UxHolding' : uxData'[b] \in 1 .. uxNext' - 1
  BY Zenon DEF UxHeld
<1>5. ASSUME NEW b \in UxHolding, NEW c \in UxHolding, b # c PROVE uxData'[b] # uxData'[c]
  <2>1. uxData[b] # uxData[c]
    BY <1>5, Zenon DEF UxHeld
  <2>2. uxData'[b] = uxData[b] /\ uxData'[c] = uxData[c]
    BY Zenon
  <2> QED
    BY <2>1, <2>2
<1> QED
  BY <1>3, <1>4, <1>5, Zenon DEF UxHeld

LEMMA UxSortedSame ==
  ASSUME UxTypeOK, UxSorted, UxHolding' = UxHolding, uxOut' = uxOut, uxQueue' = uxQueue,
         uxPc' = "has" => uxPc = "has" /\ uxHand' = uxHand,
         \A b \in UxHolding : uxData'[b] = uxData[b]
  PROVE  UxSorted'
<1>1. ToSet(uxQueue) \subseteq UxHolding
  BY Zenon DEF UxHolding
<1>2. uxPc = "has" => uxHand \in UxHolding
  BY DEF UxHolding
<1>3. RisingBy(uxQueue', uxData')
  <2>1. uxQueue \in Seq(UxBufs)
    BY Zenon DEF UxTypeOK
  <2>2. RisingBy(uxQueue, uxData) /\ \A b \in ToSet(uxQueue) : uxData'[b] = uxData[b]
    BY <1>1, Zenon DEF UxSorted
  <2>3. \A f, g : RisingBy(uxQueue, f) /\ (\A b \in ToSet(uxQueue) : g[b] = f[b])
                  => RisingBy(uxQueue, g)
    BY <2>1, SameRisingBy, Zenon
  <2> QED
    BY <2>2, <2>3, Zenon
<1>4. UxOrdered'
  BY Zenon DEF UxSorted, UxOrdered
<1>5. \A j \in 1 .. Len(uxOut') : \A b \in UxHolding' : uxOut'[j] < uxData'[b]
  BY Zenon DEF UxSorted
<1>6. uxPc' = "has" => \A b \in ToSet(uxQueue') : uxData'[uxHand'] < uxData'[b]
  BY <1>1, <1>2, Zenon DEF UxSorted
<1> QED
  BY <1>3, <1>4, <1>5, <1>6, Zenon DEF UxSorted

\* Submitting a buffer that is neither queued nor in the worker's hands.
LEMMA UxSubmitApart ==
  ASSUME UxTypeOK, UxApart, NEW b \in UxBufs, UxSubmit(b), uxQueue' = uxQueue,
         b \notin ToSet(uxQueue), uxHand' \in {uxHand, UxNone}, uxHand' # b
  PROVE  UxApart' /\ \A c \in UxBufs \ {b} : uxData'[c] = uxData[c]
<1>1. /\ uxData' = [uxData EXCEPT ![b] = 0]
      /\ \/ uxBus' = uxBus
         \/ b \notin ToSet(uxBus) /\ uxBus' = Append(uxBus, b)
  BY Zenon DEF UxSubmit
<1>2. uxBus \in Seq(UxBufs) /\ uxQueue \in Seq(UxBufs) /\ uxData \in [UxBufs -> 0 .. UxMaxData]
  BY Zenon DEF UxTypeOK
<1>3. \A c \in UxBufs \ {b} : uxData'[c] = uxData[c]
  BY <1>1, <1>2
<1>4. NoneTwice(uxBus') /\ ToSet(uxBus') \subseteq ToSet(uxBus) \cup {b}
  <2>1. CASE uxBus' = uxBus
    BY <2>1, Zenon DEF UxApart
  <2>2. CASE b \notin ToSet(uxBus) /\ uxBus' = Append(uxBus, b)
    <3>1. NoneTwice(Append(uxBus, b))
      BY <1>2, <2>2, AppendNoneTwice, Zenon DEF UxApart
    <3>2. ToSet(Append(uxBus, b)) = ToSet(uxBus) \cup {b}
      BY <1>2, AppendMembers
    <3> QED
      BY <2>2, <3>1, <3>2, Zenon
  <2> QED
    BY <1>1, <2>1, <2>2, Zenon
<1>5. UxNone \notin ToSet(uxBus) /\ UxNone \notin ToSet(uxQueue)
  BY <1>2, UxBufLists, Zenon
<1>6. UxApart'
  <2>1. uxHand' \notin ToSet(uxQueue) /\ uxHand' \notin ToSet(uxBus)
    BY <1>5, Zenon DEF UxApart
  <2>2. ToSet(uxBus) \cap ToSet(uxQueue) = {}
    BY Zenon DEF UxApart
  <2>3. uxHand' \notin ToSet(uxBus') /\ ToSet(uxBus') \cap ToSet(uxQueue') = {}
    BY <1>4, <2>1, <2>2
  <2>4. NoneTwice(uxQueue') /\ uxHand' \notin ToSet(uxQueue')
    BY <2>1, Zenon DEF UxApart
  <2> QED
    BY <1>4, <2>3, <2>4, Zenon DEF UxApart
<1> QED
  BY <1>3, <1>6, Zenon

UxGood == UxApart /\ UxHeld /\ (uxSwapped \/ UxSorted)

\* A transfer is one more that waits, and behind all the others.
LEMMA UxCompleteGood ==
  ASSUME UxTypeOK, UxInHand, UxGood, UxComplete
  PROVE  UxGood'
<1> DEFINE b == Head(uxBus)
<1>1. /\ uxBus # <<>> /\ uxNext <= UxMaxData
      /\ uxData' = [uxData EXCEPT ![b] = uxNext]
      /\ uxQueue' = UxEnqueued(b) /\ uxBus' = Tail(uxBus) /\ uxNext' = uxNext + 1
      /\ UNCHANGED <<uxHand, uxPc, uxOut, uxSwapped>>
  BY Zenon DEF UxComplete
<1>2. /\ uxBus \in Seq(UxBufs) /\ uxQueue \in Seq(UxBufs) /\ uxData \in [UxBufs -> 0 .. UxMaxData]
      /\ uxNext \in 1 .. UxMaxData + 1 /\ UxMaxData \in Nat
      /\ uxOut \in Seq(0 .. UxMaxData)
  BY UxAssumption, Zenon DEF UxTypeOK
<1>3. UxApart /\ UxHeld /\ (uxSwapped \/ UxSorted)
  BY Zenon DEF UxGood
<1>4. /\ Tail(uxBus) \in Seq(UxBufs) /\ b \in UxBufs /\ b \in ToSet(uxBus)
      /\ ToSet(uxBus) = ToSet(Tail(uxBus)) \cup {b}
  BY <1>1, <1>2, TailMembers, Zenon
<1>5. NoneTwice(Tail(uxBus)) /\ b \notin ToSet(Tail(uxBus))
  BY <1>1, <1>2, <1>3, TailNoneTwice, Zenon DEF UxApart
<1> HIDE DEF b
<1>6. b \notin ToSet(uxQueue) /\ b # uxHand
  BY <1>3, <1>4, Zenon DEF UxApart
<1>7. uxQueue' = Append(uxQueue, b)
  <2>1. Without(uxQueue, {b}) = uxQueue
    BY <1>2, <1>6, WithoutAbsent, Zenon
  <2> QED
    BY <1>1, <2>1, Zenon DEF UxEnqueued
<1>8. ToSet(uxQueue') = ToSet(uxQueue) \cup {b} /\ NoneTwice(uxQueue')
  <2>1. ToSet(Append(uxQueue, b)) = ToSet(uxQueue) \cup {b}
    BY <1>2, <1>4, AppendMembers
  <2>2. NoneTwice(Append(uxQueue, b))
    BY <1>2, <1>3, <1>4, <1>6, AppendNoneTwice, Zenon DEF UxApart
  <2> QED
    BY <1>7, <2>1, <2>2, Zenon
<1>9. UxApart'
  <2>1. /\ uxHand \notin ToSet(uxQueue) /\ uxHand \notin ToSet(uxBus)
        /\ ToSet(uxBus) \cap ToSet(uxQueue) = {}
    BY <1>3, Zenon DEF UxApart
  <2>2. /\ uxHand' \notin ToSet(uxQueue') /\ uxHand' \notin ToSet(uxBus')
        /\ ToSet(uxBus') \cap ToSet(uxQueue') = {}
    BY <1>1, <1>4, <1>5, <1>6, <1>8, <2>1
  <2> QED
    BY <1>1, <1>5, <1>8, <2>2, Zenon DEF UxApart
<1>10. UxHolding' = UxHolding \cup {b} /\ b \notin UxHolding
  BY <1>1, <1>6, <1>8 DEF UxHolding
<1>11. uxData'[b] = uxNext /\ \A c \in UxHolding : uxData'[c] = uxData[c]
  <2>1. UxHolding \subseteq UxBufs
    <3>1. ToSet(uxQueue) \subseteq UxBufs
      BY <1>2, UxBufLists, Zenon
    <3>2. uxPc = "has" => uxHand \in UxBufs
      BY DEF UxInHand
    <3> QED
      BY <3>1, <3>2 DEF UxHolding
  <2> QED
    BY <1>1, <1>2, <1>4, <1>10, <2>1
<1>12. \A c \in UxHolding : uxData[c] \in 1 .. uxNext - 1
  BY <1>3, Zenon DEF UxHeld
<1>13. UxHeld'
  <2>1. \A c \in UxHolding' : uxData'[c] \in 1 .. uxNext' - 1
    BY <1>1, <1>2, <1>10, <1>11, <1>12
  <2>2. ASSUME NEW c \in UxHolding', NEW d \in UxHolding', c # d PROVE uxData'[c] # uxData'[d]
    <3>1. CASE c \in UxHolding /\ d \in UxHolding
      <4>1. uxData[c] # uxData[d]
        BY <1>3, <2>2, <3>1, Zenon DEF UxHeld
      <4> QED
        BY <1>11, <3>1, <4>1
    <3>2. CASE c = b
      BY <1>2, <1>10, <1>11, <1>12, <2>2, <3>2
    <3>3. CASE d = b
      BY <1>2, <1>10, <1>11, <1>12, <2>2, <3>3
    <3> QED
      BY <1>10, <3>1, <3>2, <3>3
  <2>3. UxWaiting' = UxWaiting \cup {uxNext}
    <3>1. UxWaiting' = {uxData'[c] : c \in UxHolding'} /\ UxWaiting = {uxData[c] : c \in UxHolding}
      BY Zenon DEF UxWaiting, UxHolding
    <3> DEFINE H == UxHolding
    <3>2. \A f, g : (\A c \in H : g[c] = f[c])
                    => {g[c] : c \in H \cup {b}} = {f[c] : c \in H} \cup {g[b]}
      OBVIOUS
    <3>3. {uxData'[c] : c \in H \cup {b}} = {uxData[c] : c \in H} \cup {uxData'[b]}
      BY <1>11, <3>2, Zenon
    <3> QED
      BY <1>10, <1>11, <3>1, <3>3, Zenon
  <2>4. UxWaiting \subseteq 1 .. uxNext - 1
    BY <1>12, UxWaitingIs
  <2>5. /\ Cardinality(UxWaiting \cup {uxNext}) = Cardinality(UxWaiting) + 1
        /\ Cardinality(UxWaiting) \in Nat
    <3>1. uxNext \in Nat /\ UxWaiting \subseteq 0 .. uxNext /\ uxNext \in 0 .. uxNext
          /\ uxNext \notin UxWaiting
      BY <1>2, <2>4
    <3> QED
      BY <3>1, OneMore, Zenon
  <2>6. UxNoneLost'
    <3>1. /\ ToSet(uxOut) \cup UxWaiting = 1 .. uxNext - 1
          /\ Len(uxOut) + Cardinality(UxWaiting) = uxNext - 1
      BY <1>3, Zenon DEF UxHeld, UxNoneLost
    <3>2. ToSet(uxOut') \cup UxWaiting' = 1 .. uxNext' - 1
      <4>1. ToSet(uxOut') = ToSet(uxOut) /\ uxNext' - 1 = uxNext
        BY <1>1, <1>2
      <4>2. 1 .. uxNext = (1 .. uxNext - 1) \cup {uxNext}
        BY <1>2
      <4> QED
        BY <2>3, <3>1, <4>1, <4>2
    <3>3. Len(uxOut') + Cardinality(UxWaiting') = uxNext' - 1
      <4>1. Len(uxOut) \in Nat /\ Len(uxOut') = Len(uxOut)
        BY <1>1, <1>2
      <4>2. Cardinality(UxWaiting') = Cardinality(UxWaiting) + 1
        BY <2>3, <2>5, Zenon
      <4> DEFINE w == Cardinality(UxWaiting)
                 v == Cardinality(UxWaiting')
      <4> HIDE DEF w, v
      <4>3. Len(uxOut) + w = uxNext - 1 /\ v = w + 1 /\ w \in Nat
        BY <2>5, <3>1, <4>2 DEF w, v
      <4>4. Len(uxOut') + v = uxNext' - 1
        BY <1>1, <1>2, <4>1, <4>3
      <4> QED
        BY <4>4 DEF v
    <3> QED
      BY <3>2, <3>3, Zenon DEF UxNoneLost
  <2> QED
    BY <2>1, <2>2, <2>6, Zenon DEF UxHeld
<1>14. ASSUME UxSorted PROVE UxSorted'
  <2>1. \A j \in 1 .. Len(uxOut) : uxOut[j] \in 1 .. uxNext - 1
    <3>1. ToSet(uxOut) \subseteq 1 .. uxNext - 1
      BY <1>3 DEF UxHeld, UxNoneLost
    <3> QED
      BY <1>2, <3>1, LenProperties DEF ToSet
  <2>2. UxOrdered'
    BY <1>1, <1>14, Zenon DEF UxSorted, UxOrdered
  <2>3. ASSUME NEW j \in 1 .. Len(uxOut), NEW c \in UxHolding' PROVE uxOut[j] < uxData'[c]
    <3>1. CASE c \in UxHolding
      BY <1>11, <1>14, <3>1, Zenon DEF UxSorted
    <3>2. CASE c = b
      BY <1>2, <1>11, <2>1, <3>2
    <3> QED
      BY <1>10, <3>1, <3>2
  <2>4. ToSet(uxQueue) \subseteq UxHolding /\ (uxPc = "has" => uxHand \in UxHolding)
    BY DEF UxHolding
  <2>5. \A c \in UxHolding : uxData'[c] = uxData[c] /\ uxData[c] < uxData'[b]
    BY <1>2, <1>11, <1>12
  <2>6. RisingBy(uxQueue', uxData')
    <3>1. /\ RisingBy(uxQueue, uxData)
          /\ \A x \in ToSet(uxQueue) : uxData'[x] = uxData[x] /\ uxData[x] < uxData'[b]
      BY <1>14, <2>4, <2>5, Zenon DEF UxSorted
    <3>2. \A f, g : RisingBy(uxQueue, f) /\ (\A x \in ToSet(uxQueue) : g[x] = f[x] /\ f[x] < g[b])
                    => RisingBy(Append(uxQueue, b), g)
      BY <1>2, <1>4, AppendRisingBy, Zenon
    <3> QED
      BY <1>7, <3>1, <3>2, Zenon
  <2>7. ASSUME uxPc' = "has", NEW c \in ToSet(uxQueue') PROVE uxData'[uxHand'] < uxData'[c]
    <3>1. uxPc = "has" /\ uxHand' = uxHand /\ uxHand \in UxHolding
      BY <1>1, <2>4, <2>7
    <3>2. CASE c \in ToSet(uxQueue)
      <4>1. uxData[uxHand] < uxData[c]
        BY <1>14, <3>1, <3>2, Zenon DEF UxSorted
      <4> QED
        BY <2>4, <2>5, <3>1, <3>2, <4>1
    <3>3. CASE c = b
      BY <2>5, <3>1, <3>3
    <3> QED
      BY <1>8, <3>2, <3>3
  <2> QED
    BY <1>1, <2>2, <2>3, <2>6, <2>7, Zenon DEF UxSorted
<1> QED
  BY <1>1, <1>3, <1>9, <1>13, <1>14, Zenon DEF UxGood

\* What is delivered was the first of those that wait.
LEMMA UxDeliverGood ==
  ASSUME UxTypeOK, UxInHand, UxGood, UxDeliver
  PROVE  UxGood'
<1> DEFINE b == uxHand
           x == uxData[uxHand]
<1>1. /\ uxPc = "has" /\ uxPc' = "done" /\ uxOut' = Append(uxOut, x)
      /\ UNCHANGED <<uxBus, uxQueue, uxHand, uxData, uxNext, uxSwapped>>
  BY Zenon DEF UxDeliver
<1>2. /\ uxQueue \in Seq(UxBufs) /\ uxData \in [UxBufs -> 0 .. UxMaxData]
      /\ uxNext \in 1 .. UxMaxData + 1 /\ UxMaxData \in Nat
      /\ uxOut \in Seq(0 .. UxMaxData)
  BY UxAssumption, Zenon DEF UxTypeOK
<1>3. UxApart /\ UxHeld /\ (uxSwapped \/ UxSorted)
  BY Zenon DEF UxGood
<1>4. UxApart'
  BY <1>1, <1>3, Zenon DEF UxApart
<1>5. UxHolding = UxHolding' \cup {b} /\ b \notin UxHolding' /\ UxHolding' = ToSet(uxQueue)
  BY <1>1, <1>3 DEF UxHolding, UxApart
<1>6. x \in 1 .. uxNext - 1 /\ x \in 0 .. UxMaxData
  <2>1. x \in 1 .. uxNext - 1
    BY <1>3, <1>5, Zenon DEF UxHeld
  <2> QED
    BY <1>2, <2>1
<1>7. \A c \in UxHolding' : uxData[c] # x /\ uxData[c] \in 1 .. uxNext - 1
  BY <1>3, <1>5, Zenon DEF UxHeld
<1> HIDE DEF b, x
<1>8. UxHeld'
  <2>1. UxWaiting' = {uxData[c] : c \in UxHolding'}
    BY <1>1, Zenon DEF UxWaiting, UxHolding
  <2>2. UxWaiting = UxWaiting' \cup {x}
    <3>1. \A H, f : {f[c] : c \in H \cup {b}} = {f[c] : c \in H} \cup {f[b]}
      OBVIOUS
    <3>2. UxWaiting = {uxData[c] : c \in UxHolding' \cup {b}}
      BY <1>5, UxWaitingIs, Zenon
    <3> QED
      BY <2>1, <3>1, <3>2, Zenon DEF b, x
  <2>3. UxWaiting' \subseteq 1 .. uxNext - 1 /\ x \notin UxWaiting'
    BY <1>7, <2>1
  <2>4. Cardinality(UxWaiting) = Cardinality(UxWaiting') + 1 /\ Cardinality(UxWaiting') \in Nat
    <3>1. uxNext \in Nat /\ UxWaiting' \subseteq 0 .. uxNext /\ x \in 0 .. uxNext
      BY <1>2, <1>6, <2>3
    <3> QED
      BY <2>2, <2>3, <3>1, OneMore, Zenon
  <2>5. /\ ToSet(uxOut) \cup UxWaiting = 1 .. uxNext - 1
        /\ Len(uxOut) + Cardinality(UxWaiting) = uxNext - 1
    BY <1>3, Zenon DEF UxHeld, UxNoneLost
  <2>6. ToSet(uxOut') = ToSet(uxOut) \cup {x} /\ Len(uxOut') = Len(uxOut) + 1 /\ Len(uxOut) \in Nat
    <3>1. ToSet(Append(uxOut, x)) = ToSet(uxOut) \cup {x}
      BY <1>2, <1>6, AppendMembers
    <3>2. Len(Append(uxOut, x)) = Len(uxOut) + 1 /\ Len(uxOut) \in Nat
      BY <1>2, AppendPlaces, <1>6
    <3> QED
      BY <1>1, <3>1, <3>2, Zenon
  <2>7. ToSet(uxOut') \cup UxWaiting' = 1 .. uxNext' - 1
    <3>1. ToSet(uxOut') \cup UxWaiting' = ToSet(uxOut) \cup UxWaiting
      BY <2>2, <2>6
    <3> QED
      BY <1>1, <2>5, <3>1, Zenon
  <2>8. Len(uxOut') + Cardinality(UxWaiting') = uxNext' - 1
    <3> DEFINE w == Cardinality(UxWaiting)
               v == Cardinality(UxWaiting')
    <3> HIDE DEF w, v
    <3>1. Len(uxOut) + w = uxNext - 1 /\ w = v + 1 /\ v \in Nat
      BY <2>4, <2>5 DEF w, v
    <3>2. Len(uxOut') + v = uxNext' - 1
      BY <1>1, <1>2, <2>6, <3>1
    <3> QED
      BY <3>2 DEF v
  <2>9. UxNoneLost'
    BY <2>7, <2>8, Zenon DEF UxNoneLost
  <2>10. \A c \in UxHolding' : uxData'[c] \in 1 .. uxNext' - 1
    BY <1>1, <1>7, Zenon
  <2>11. ASSUME NEW c \in UxHolding', NEW d \in UxHolding', c # d PROVE uxData'[c] # uxData'[d]
    <3>1. c \in UxHolding /\ d \in UxHolding
      BY <1>5
    <3> QED
      BY <1>1, <1>3, <2>11, <3>1, Zenon DEF UxHeld
  <2> QED
    BY <2>9, <2>10, <2>11, Zenon DEF UxHeld
<1>9. ASSUME UxSorted PROVE UxSorted'
  <2>1. \A c \in UxHolding' : x < uxData[c]
    BY <1>1, <1>5, <1>9, Zenon DEF UxSorted, x
  <2>2. \A j \in 1 .. Len(uxOut) : uxOut[j] < x /\ \A c \in UxHolding' : uxOut[j] < uxData[c]
    BY <1>5, <1>9, Zenon DEF UxSorted, b, x
  <2>3. /\ Len(uxOut) \in Nat /\ Len(uxOut') = Len(uxOut) + 1
        /\ \A j \in 1 .. Len(uxOut') :
             \/ j \in 1 .. Len(uxOut) /\ uxOut'[j] = uxOut[j]
             \/ j = Len(uxOut) + 1 /\ uxOut'[j] = x
    <3> DEFINE T == 0 .. UxMaxData
    <3> HIDE DEF T
    <3>1. uxOut \in Seq(T) /\ x \in T
      BY <1>2, <1>6 DEF T
    <3>2. /\ Len(uxOut) \in Nat /\ Len(Append(uxOut, x)) = Len(uxOut) + 1
          /\ \A j \in 1 .. Len(Append(uxOut, x)) :
               \/ j \in 1 .. Len(uxOut) /\ Append(uxOut, x)[j] = uxOut[j]
               \/ j = Len(uxOut) + 1 /\ Append(uxOut, x)[j] = x
      BY <3>1, AppendPlaces
    <3> QED
      BY <1>1, <3>2, Zenon
  <2>4. \A j \in 1 .. Len(uxOut') : \A c \in UxHolding' : uxOut'[j] < uxData'[c]
    BY <1>1, <2>1, <2>2, <2>3, Zenon
  <2>5. UxOrdered'
    <3>1. ASSUME NEW j \in 1 .. Len(uxOut') - 1 PROVE uxOut'[j] < uxOut'[j + 1]
      <4>1. j \in 1 .. Len(uxOut) /\ j + 1 \in 1 .. Len(uxOut') /\ j # Len(uxOut) + 1
        BY <2>3
      <4>2. uxOut'[j] = uxOut[j]
        BY <2>3, <4>1
      <4>3. CASE j + 1 = Len(uxOut) + 1
        <5>1. uxOut'[j + 1] = x
          BY <2>3, <4>1, <4>3
        <5> QED
          BY <2>2, <4>1, <4>2, <5>1
      <4>4. CASE j + 1 # Len(uxOut) + 1
        <5>1. j + 1 \in 1 .. Len(uxOut) /\ uxOut'[j + 1] = uxOut[j + 1] /\ j \in 1 .. Len(uxOut) - 1
          BY <2>3, <4>1, <4>4
        <5>2. uxOut[j] < uxOut[j + 1]
          BY <1>9, <5>1, Zenon DEF UxSorted, UxOrdered
        <5> QED
          BY <4>2, <5>1, <5>2
      <4> QED
        BY <4>3, <4>4
    <3> QED
      BY <3>1, Zenon DEF UxOrdered
  <2>6. RisingBy(uxQueue', uxData') /\ uxPc' # "has"
    BY <1>1, <1>9 DEF UxSorted
  <2> QED
    BY <2>4, <2>5, <2>6, Zenon DEF UxSorted
<1> QED
  BY <1>1, <1>3, <1>4, <1>8, <1>9, Zenon DEF UxGood

\* The first of the queue comes into the worker's hands.
LEMMA UxTakeGood ==
  ASSUME UxTypeOK, UxInHand, UxGood, UxTake
  PROVE  UxGood'
<1>1. uxPc = "loop" /\ UNCHANGED <<uxBus, uxData, uxNext, uxOut, uxSwapped>>
  BY Zenon DEF UxTake
<1>2. /\ uxBus \in Seq(UxBufs) /\ uxQueue \in Seq(UxBufs)
  BY Zenon DEF UxTypeOK
<1>3. UxApart /\ UxHeld /\ (uxSwapped \/ UxSorted)
  BY Zenon DEF UxGood
<1>4. CASE uxPc' = "idle" /\ UNCHANGED <<uxHand, uxQueue>>
  <2>1. UxHolding' = UxHolding /\ uxPc' # "has"
    BY <1>1, <1>4 DEF UxHolding
  <2>2. UxApart'
    BY <1>1, <1>3, <1>4, Zenon DEF UxApart
  <2>3. UxHeld'
    BY <1>1, <1>3, <2>1, UxHeldSame, Zenon
  <2>4. UxSorted => UxSorted'
    BY <1>1, <1>4, <2>1, UxSortedSame, Zenon
  <2> QED
    BY <1>1, <1>3, <2>2, <2>3, <2>4, Zenon DEF UxGood
<1>5. CASE /\ uxQueue # <<>>
           /\ uxPc' = "has" /\ uxHand' = Head(uxQueue) /\ uxQueue' = Tail(uxQueue)
  <2>1. /\ Tail(uxQueue) \in Seq(UxBufs) /\ Head(uxQueue) \in UxBufs
        /\ Head(uxQueue) \in ToSet(uxQueue)
        /\ ToSet(uxQueue) = ToSet(Tail(uxQueue)) \cup {Head(uxQueue)}
    BY <1>2, <1>5, TailMembers, Zenon
  <2>2. NoneTwice(Tail(uxQueue)) /\ Head(uxQueue) \notin ToSet(Tail(uxQueue))
    BY <1>2, <1>3, <1>5, TailNoneTwice, Zenon DEF UxApart
  <2>3. UxHolding' = UxHolding
    BY <1>1, <1>5, <2>1 DEF UxHolding
  <2>4. UxApart'
    <3>1. ToSet(uxBus) \cap ToSet(uxQueue) = {} /\ NoneTwice(uxBus)
      BY <1>3, Zenon DEF UxApart
    <3>2. uxHand' \notin ToSet(uxBus) /\ ToSet(uxBus) \cap ToSet(uxQueue') = {}
      BY <1>5, <2>1, <3>1
    <3> QED
      BY <1>1, <1>5, <2>2, <3>1, <3>2, Zenon DEF UxApart
  <2>5. UxHeld'
    BY <1>1, <1>3, <2>3, UxHeldSame, Zenon
  <2>6. ASSUME UxSorted PROVE UxSorted'
    <3>1. RisingBy(uxQueue, uxData)
      BY <2>6, Zenon DEF UxSorted
    <3>2. /\ RisingBy(Tail(uxQueue), uxData)
          /\ \A c \in ToSet(Tail(uxQueue)) : uxData[Head(uxQueue)] < uxData[c]
      BY <1>2, <1>5, <3>1, TailRisingBy, Zenon
    <3>3. UxOrdered'
      BY <1>1, <2>6, Zenon DEF UxSorted, UxOrdered
    <3>4. \A j \in 1 .. Len(uxOut') : \A c \in UxHolding' : uxOut'[j] < uxData'[c]
      BY <1>1, <2>3, <2>6, Zenon DEF UxSorted
    <3> QED
      BY <1>1, <1>5, <3>2, <3>3, <3>4, Zenon DEF UxSorted
  <2> QED
    BY <1>1, <1>3, <2>4, <2>5, <2>6, Zenon DEF UxGood
<1> QED
  BY <1>4, <1>5, Zenon DEF UxTake

\* The buffer in the worker's hands goes back: behind others, only if there
\* were any.
LEMMA UxPutBackGood ==
  ASSUME UxTypeOK, UxInHand, UxGood, UxPutBack
  PROVE  UxGood'
<1> DEFINE b == uxHand
<1>1. /\ uxPc = "has" /\ uxQueue' = UxEnqueued(b) /\ uxSwapped' = (uxSwapped \/ uxQueue # <<>>)
      /\ uxHand' = UxNone /\ uxPc' = "idle"
      /\ UNCHANGED <<uxBus, uxData, uxNext, uxOut>>
  BY Zenon DEF UxPutBack, UxBack
<1>2. /\ uxBus \in Seq(UxBufs) /\ uxQueue \in Seq(UxBufs)
  BY Zenon DEF UxTypeOK
<1>3. UxApart /\ UxHeld /\ (uxSwapped \/ UxSorted)
  BY Zenon DEF UxGood
<1>4. b \in UxBufs /\ UxHolding = ToSet(uxQueue) \cup {b}
  BY <1>1 DEF UxInHand, UxHolding
<1>5. b \notin ToSet(uxQueue) /\ b \notin ToSet(uxBus)
  BY <1>3, Zenon DEF UxApart
<1>6. UxNone \notin ToSet(uxBus) /\ UxNone \notin ToSet(uxQueue) /\ UxNone \notin UxBufs
  BY <1>2, UxBufLists, Zenon
<1> HIDE DEF b
<1>7. uxQueue' = Append(uxQueue, b)
  <2>1. Without(uxQueue, {b}) = uxQueue
    BY <1>2, <1>5, WithoutAbsent, Zenon
  <2> QED
    BY <1>1, <2>1, Zenon DEF UxEnqueued
<1>8. ToSet(uxQueue') = ToSet(uxQueue) \cup {b} /\ NoneTwice(uxQueue')
  <2>1. ToSet(Append(uxQueue, b)) = ToSet(uxQueue) \cup {b}
    BY <1>2, <1>4, AppendMembers
  <2>2. NoneTwice(Append(uxQueue, b))
    BY <1>2, <1>3, <1>4, <1>5, AppendNoneTwice, Zenon DEF UxApart
  <2> QED
    BY <1>7, <2>1, <2>2, Zenon
<1>9. UxHolding' = UxHolding
  BY <1>1, <1>4, <1>8 DEF UxHolding
<1>10. UxApart'
  <2>1. ToSet(uxBus) \cap ToSet(uxQueue) = {} /\ NoneTwice(uxBus)
    BY <1>3, Zenon DEF UxApart
  <2>2. uxHand' \notin ToSet(uxQueue') /\ uxHand' \notin ToSet(uxBus')
    BY <1>1, <1>4, <1>6, <1>8
  <2>3. ToSet(uxBus') \cap ToSet(uxQueue') = {}
    BY <1>1, <1>5, <1>8, <2>1
  <2> QED
    BY <1>1, <1>8, <2>1, <2>2, <2>3, Zenon DEF UxApart
<1>11. UxHeld'
  BY <1>1, <1>3, <1>9, UxHeldSame, Zenon
<1>12. ASSUME ~uxSwapped' PROVE UxSorted'
  <2>1. UxSorted /\ uxQueue = <<>>
    BY <1>1, <1>3, <1>12, Zenon
  <2>2. RisingBy(uxQueue', uxData')
    <3>1. Len(uxQueue') = 1
      BY <1>2, <1>4, <1>7, <2>1, AppendPlaces
    <3> QED
      BY <3>1 DEF RisingBy
  <2>3. UxOrdered'
    BY <1>1, <2>1, Zenon DEF UxSorted, UxOrdered
  <2>4. \A j \in 1 .. Len(uxOut') : \A c \in UxHolding' : uxOut'[j] < uxData'[c]
    BY <1>1, <1>9, <2>1, Zenon DEF UxSorted
  <2>5. uxPc' # "has"
    BY <1>1
  <2> QED
    BY <2>2, <2>3, <2>4, <2>5, Zenon DEF UxSorted
<1> QED
  BY <1>10, <1>11, <1>12, Zenon DEF UxGood

\* A step that touches neither the queue nor what is held.
LEMMA UxElseGood ==
  ASSUME UxTypeOK, UxGood, UxApart',
         UNCHANGED <<uxQueue, uxNext, uxOut, uxSwapped>>, UxHolding' = UxHolding,
         uxPc' = "has" => uxPc = "has" /\ uxHand' = uxHand,
         \A c \in UxHolding : uxData'[c] = uxData[c]
  PROVE  UxGood'
<1>1. UxHeld'
  BY UxHeldSame, Zenon DEF UxGood
<1>2. UxSorted => UxSorted'
  BY UxSortedSame, Zenon
<1> QED
  BY <1>1, <1>2, Zenon DEF UxGood

LEMMA UxInvStep ==
  ASSUME UxTypeOK, UxInHand, UxInv, [UxNextStep]_uxVars
  PROVE  UxInv'
<1> SUFFICES ASSUME uxMet' = {}
             PROVE  UxGood'
  BY Zenon DEF UxInv, UxGood
<1>a. uxMet = {} => UxGood
  BY Zenon DEF UxInv, UxGood
<1>b. /\ uxBus \in Seq(UxBufs) /\ uxQueue \in Seq(UxBufs)
  BY Zenon DEF UxTypeOK
<1>c. ToSet(uxQueue) \subseteq UxBufs /\ UxNone \notin UxBufs
  BY <1>b, UxBufLists, Zenon
<1>1. CASE UxComplete
  BY <1>1, <1>a, UxCompleteGood, Zenon DEF UxComplete
<1>2. CASE UxCompleteBad
  <2>1. /\ uxBus # <<>> /\ uxBus' \in {Append(Tail(uxBus), Head(uxBus)), Tail(uxBus)}
        /\ UNCHANGED <<uxQueue, uxHand, uxPc, uxData, uxNext, uxOut, uxSwapped, uxMet>>
    BY <1>2, Zenon DEF UxCompleteBad, uxWorker
  <2>2. UxGood /\ UxApart
    BY <1>a, <2>1, Zenon DEF UxGood
  <2> DEFINE t == Tail(uxBus)
             b == Head(uxBus)
  <2>3. t \in Seq(UxBufs) /\ b \in UxBufs /\ ToSet(uxBus) = ToSet(t) \cup {b}
    BY <1>b, <2>1, TailMembers, Zenon
  <2>4. NoneTwice(t) /\ b \notin ToSet(t)
    BY <1>b, <2>1, <2>2, TailNoneTwice, Zenon DEF UxApart
  <2> HIDE DEF t, b
  <2>5. NoneTwice(Append(t, b))
    BY <2>3, <2>4, AppendNoneTwice, Zenon
  <2>6. ToSet(Append(t, b)) = ToSet(t) \cup {b}
    BY <2>3, AppendMembers
  <2>7. NoneTwice(uxBus') /\ ToSet(uxBus') \subseteq ToSet(uxBus)
    <3>1. uxBus' = Append(t, b) \/ uxBus' = t
      BY <2>1, Zenon DEF t, b
    <3> QED
      BY <2>3, <2>4, <2>5, <2>6, <3>1
  <2>8. UxApart'
    <3>1. uxHand \notin ToSet(uxBus') /\ ToSet(uxBus') \cap ToSet(uxQueue) = {}
      BY <2>2, <2>7 DEF UxApart
    <3> QED
      BY <2>1, <2>2, <2>7, <3>1, Zenon DEF UxApart
  <2>9. UxHolding' = UxHolding
    BY <2>1, Zenon DEF UxHolding
  <2> QED
    BY <2>1, <2>2, <2>8, <2>9, UxElseGood, Zenon
<1>3. CASE UxBegin
  <2>1. /\ uxPc = "idle" /\ uxPc' = "loop"
        /\ UNCHANGED <<uxBus, uxQueue, uxHand, uxData, uxNext, uxOut, uxSwapped, uxMet>>
    BY <1>3, Zenon DEF UxBegin
  <2>2. UxGood /\ UxApart'
    BY <1>a, <2>1, Zenon DEF UxGood, UxApart
  <2>3. UxHolding' = UxHolding /\ uxPc' # "has"
    BY <2>1 DEF UxHolding
  <2> QED
    BY <2>1, <2>2, <2>3, UxElseGood, Zenon
<1>4. CASE UxTake
  BY <1>4, <1>a, UxTakeGood, Zenon DEF UxTake
<1>5. CASE UxPutBack
  BY <1>5, <1>a, UxPutBackGood, Zenon DEF UxPutBack
<1>6. CASE UxDeliver
  BY <1>6, <1>a, UxDeliverGood, Zenon DEF UxDeliver
<1>7. CASE UxGive
  <2>1. /\ uxPc = "done" /\ UxSubmit(uxHand) /\ uxHand' = UxNone /\ uxPc' = "loop"
        /\ UNCHANGED <<uxQueue, uxNext, uxOut, uxSwapped, uxMet>>
    BY <1>7, Zenon DEF UxGive
  <2>2. UxGood /\ UxApart
    BY <1>a, <2>1, Zenon DEF UxGood
  <2>3. uxHand \in UxBufs
    BY <2>1 DEF UxInHand
  <2>4. uxHand \notin ToSet(uxQueue) /\ uxHand' \in {uxHand, UxNone} /\ uxHand' # uxHand
    BY <1>c, <2>1, <2>2, <2>3 DEF UxApart
  <2>5. UxApart' /\ \A c \in UxBufs \ {uxHand} : uxData'[c] = uxData[c]
    BY <2>1, <2>2, <2>3, <2>4, UxSubmitApart, Zenon
  <2>6. UxHolding' = UxHolding /\ UxHolding = ToSet(uxQueue) /\ uxPc' # "has"
    BY <2>1 DEF UxHolding
  <2>7. \A c \in UxHolding : uxData'[c] = uxData[c]
    BY <1>c, <2>4, <2>5, <2>6
  <2> QED
    BY <2>1, <2>2, <2>5, <2>6, <2>7, UxElseGood, Zenon
<1>8. CASE UxKill \/ UxOff
  <2>1. /\ UNCHANGED <<uxQueue, uxHand, uxPc, uxData, uxNext, uxOut, uxSwapped, uxMet>>
        /\ uxBus' = Without(uxBus, {uxPower.k}) \/ uxBus' = <<>>
    BY <1>8, Zenon DEF UxKill, UxOff, uxWorker
  <2>2. UxGood /\ UxApart
    BY <1>a, <2>1, Zenon DEF UxGood
  <2>3. NoneTwice(uxBus') /\ ToSet(uxBus') \subseteq ToSet(uxBus)
    <3>1. CASE uxBus' = Without(uxBus, {uxPower.k})
      <4> DEFINE K == {uxPower.k}
      <4> HIDE DEF K
      <4>1. NoneTwice(Without(uxBus, K))
        BY <1>b, <2>2, WithoutNoneTwice, Zenon DEF UxApart
      <4>2. ToSet(Without(uxBus, K)) \subseteq ToSet(uxBus) \ K
        BY <1>b, WithoutMembers, Zenon
      <4> QED
        BY <3>1, <4>1, <4>2, Zenon DEF K
    <3>2. CASE uxBus' = <<>>
      BY <3>2 DEF NoneTwice, ToSet
    <3> QED
      BY <2>1, <3>1, <3>2
  <2>4. UxApart'
    <3>1. /\ uxHand \notin ToSet(uxBus) /\ ToSet(uxBus) \cap ToSet(uxQueue) = {}
          /\ NoneTwice(uxQueue) /\ uxHand \notin ToSet(uxQueue)
      BY <2>2, Zenon DEF UxApart
    <3>2. uxHand \notin ToSet(uxBus') /\ ToSet(uxBus') \cap ToSet(uxQueue) = {}
      BY <2>3, <3>1
    <3> QED
      BY <2>1, <2>3, <3>1, <3>2, Zenon DEF UxApart
  <2>5. UxHolding' = UxHolding
    BY <2>1, Zenon DEF UxHolding
  <2> QED
    BY <2>1, <2>2, <2>4, <2>5, UxElseGood, Zenon
<1>9. CASE UxResumeOne
  <2> DEFINE k == uxPower.k
  <2>1. /\ uxPower.at = "submit" /\ k <= UxCount /\ UxSubmit(k)
        /\ uxMet' = uxMet \cup ({k} \cap (ToSet(uxQueue) \cup {uxHand}))
        /\ UNCHANGED <<uxQueue, uxHand, uxPc, uxNext, uxOut, uxSwapped>>
    BY <1>9, Zenon DEF UxResumeOne, UxResumeTo, uxWorker
  <2>2. k \in UxBufs
    BY <2>1, UxAssumption DEF UxTypeOK, UxInHand, UxBufs
  <2> HIDE DEF k
  <2>3. uxMet = {} /\ k \notin ToSet(uxQueue) /\ k # uxHand
    BY <2>1
  <2>4. UxGood /\ UxApart
    BY <1>a, <2>3, Zenon DEF UxGood
  <2>5. UxApart' /\ \A c \in UxBufs \ {k} : uxData'[c] = uxData[c]
    BY <2>1, <2>2, <2>3, <2>4, UxSubmitApart, Zenon
  <2>6. UxHolding' = UxHolding
    BY <2>1, Zenon DEF UxHolding
  <2>7. \A c \in UxHolding : uxData'[c] = uxData[c]
    <3>1. uxPc = "has" => uxHand \in UxBufs
      BY DEF UxInHand
    <3>2. UxHolding \subseteq UxBufs \ {k}
      BY <1>c, <2>3, <3>1 DEF UxHolding
    <3> QED
      BY <2>5, <3>2, Zenon
  <2> QED
    BY <2>1, <2>4, <2>5, <2>6, <2>7, UxElseGood, Zenon
<1>10. CASE UxSuspend \/ UxResume \/ UxResumed \/ UNCHANGED uxVars
  <2>1. UNCHANGED <<uxBus, uxQueue, uxHand, uxPc, uxData, uxNext, uxOut, uxSwapped, uxMet>>
    BY <1>10, Zenon DEF UxSuspend, UxResume, UxResumed, uxVars, uxWorker
  <2>2. UxGood /\ UxApart' /\ UxHolding' = UxHolding
    BY <1>a, <2>1, Zenon DEF UxGood, UxApart, UxHolding
  <2> QED
    BY <2>1, <2>2, UxElseGood, Zenon
<1> QED
  BY <1>1, <1>2, <1>3, <1>4, <1>5, <1>6, <1>7, <1>8, <1>9, <1>10, Zenon
     DEF UxNextStep, UxWork, UxPowerStep

LEMMA UxAtStart == UxInit => UxTypeOK /\ UxInHand /\ UxInv
<1> SUFFICES ASSUME UxInit
             PROVE  UxTypeOK /\ UxInHand /\ UxInv
  OBVIOUS
<1>1. UxCount \in Nat \ {0} /\ UxMaxData \in Nat /\ UxMaxEvents \in Nat /\ UxMaxSuspends \in Nat
  BY UxAssumption, Zenon
<1>2. /\ uxBus = [b \in UxBufs |-> b] /\ uxQueue = <<>>
      /\ uxHand = UxNone /\ uxPc = "idle" /\ uxPending = FALSE
      /\ uxData = [b \in UxBufs |-> 0] /\ uxNext = 1 /\ uxOut = <<>>
      /\ uxPower = [at |-> "on", k |-> 0]
      /\ uxSwapped = FALSE /\ uxMet = {} /\ uxDeaf = {} /\ uxEvents = 0 /\ uxSuspends = 0
  BY Zenon DEF UxInit
<1>3. uxBus \in Seq(UxBufs) /\ Len(uxBus) = UxCount /\ \A b \in 1 .. UxCount : uxBus[b] = b
  BY <1>1, <1>2 DEF UxBufs
<1>4. UxTypeOK
  <2>1. UxListsType
    BY <1>2, <1>3 DEF UxListsType
  <2>2. UxDataType /\ UxOutType
    BY <1>1, <1>2 DEF UxDataType, UxOutType
  <2>3. UxWorkerType
    BY <1>2, Zenon DEF UxWorkerType
  <2>4. UxPowerType
    BY <1>1, <1>2 DEF UxPowerType
  <2>5. UxHistoryType
    <3>1. {} \subseteq UxBufs
      OBVIOUS
    <3> QED
      BY <1>2, <3>1, Zenon DEF UxHistoryType
  <2>6. UxCountsType
    BY <1>1, <1>2 DEF UxCountsType
  <2> QED
    BY <2>1, <2>2, <2>3, <2>4, <2>5, <2>6, UxTypeSplit, Zenon
<1>5. UxInHand
  BY <1>2 DEF UxInHand
<1>6. ToSet(uxQueue) = {} /\ UxHolding = {} /\ ToSet(uxOut) = {} /\ UxWaiting = {}
  BY <1>2 DEF ToSet, UxHolding, UxWaiting
<1>7. UxApart
  <2>1. NoneTwice(uxBus)
    BY <1>1, <1>3 DEF NoneTwice
  <2>2. NoneTwice(uxQueue)
    BY <1>2 DEF NoneTwice
  <2>3. uxHand \notin ToSet(uxBus)
    BY <1>2, <1>3, UxBufLists, Zenon
  <2> QED
    BY <1>6, <2>1, <2>2, <2>3, Zenon DEF UxApart
<1>8. UxHeld
  <2>1. Cardinality({}) = 0
    BY FS_EmptySet
  <2>2. Len(uxOut) + Cardinality(UxWaiting) = uxNext - 1 /\ 1 .. uxNext - 1 = {}
    BY <1>2, <1>6, <2>1
  <2>3. UxNoneLost
    BY <1>6, <2>2 DEF UxNoneLost
  <2> QED
    BY <1>6, <2>3 DEF UxHeld
<1>9. UxSorted
  BY <1>2, <1>6 DEF UxSorted, UxOrdered, RisingBy
<1> QED
  BY <1>4, <1>5, <1>7, <1>8, <1>9, Zenon DEF UxInv

\* The receive buffers neither lose, double, nor invent a transfer, whatever
\* fails and whenever the device is suspended, as long as resume meets no
\* buffer that is queued or in the worker's hands; and they keep the chip's
\* order unless a buffer was put back behind another (ssv6xxx_usb_recv_rx_work,
\* ssv_usb_resume).
THEOREM TransfersDelivered == UxSpec => []UxDelivery
<1>1. UxInit => UxTypeOK /\ UxInHand /\ UxInv
  BY UxAtStart
<1>2. UxTypeOK /\ UxInHand /\ UxInv /\ [UxNextStep]_uxVars => (UxTypeOK /\ UxInHand /\ UxInv)'
  BY UxTypeStep, UxInvStep, Zenon
<1>3. UxInv => UxDelivery
  BY Zenon DEF UxInv, UxDelivery, UxHeld, UxSorted
<1> QED
  BY <1>1, <1>2, <1>3, PTL DEF UxSpec
=============================================================================
