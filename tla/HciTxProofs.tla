----------------------------- MODULE HciTxProofs -----------------------------
(***************************************************************************)
(* Type correctness and the other safety properties of HciTx, for every    *)
(* number of queues and callers, every chip, every bound and every set of  *)
(* events.                                                                 *)
(***************************************************************************)
EXTENDS HciTx, FiniteLemmas
-----------------------------------------------------------------------------
(* Type correctness, in parts that follow the groups of variables a step   *)
(* changes or leaves alone.                                                *)

QueueType == /\ fresh \subseteq Frames /\ q \in [Queues -> Seq(Frames)]
             /\ sent \in [Queues -> Seq(Frames)] /\ dropped \subseteq Frames
PauseType == /\ txqMask \subseteq Queues /\ paused \subseteq Queues
             /\ halted \subseteq Queues /\ maskLock \in Callers \cup {None}
IrqType == /\ intMask \subseteq Ints /\ intStatus \in BOOLEAN /\ hwMask \subseteq Ints
           /\ signal \in BOOLEAN /\ claimed \in BOOLEAN
           /\ hciMutex \in Callers \cup {None, "isr"}
CtxType == /\ started \in BOOLEAN /\ pc \in [Ctx -> CallerPcs]
           /\ regval \in [Ctx \cup {"isr"} -> SUBSET Ints]
IsrRecords == [at : IsrPcs, q : Queues, left : Nat, status : SUBSET Ints,
               free : [page : Int, id : Int, out : Int], fail : BOOLEAN]
IsrType == /\ isr \in IsrRecords /\ hand \in Frames \cup {NoFrame}
           /\ reset \in BOOLEAN
ChipType == /\ chipIn \in Seq(Frames) /\ chipOut \in [Queues -> Seq(Frames)]
            /\ used \in [page : Int, id : Int] /\ rx \in BOOLEAN
LateType == late \in [Queues -> Nat]
BoundType == ops \in Nat /\ events \in Nat

LEMMA TypeParts ==
  /\ TypeOK <=> /\ QueueType /\ PauseType /\ IrqType /\ CtxType
                /\ IsrType /\ ChipType /\ LateType /\ BoundType
  /\ TypeOK' <=> /\ QueueType' /\ PauseType' /\ IrqType' /\ CtxType'
                 /\ IsrType' /\ ChipType' /\ LateType' /\ BoundType'
  BY ZenonT(60) DEF TypeOK, QueueType, PauseType, IrqType, CtxType, IsrType, ChipType,
     LateType, BoundType, IsrRecords

LEMMA FrameFacts ==
  ASSUME NEW f \in Frames
  PROVE  Pages[f] \in Nat \ {0} /\ QueueOf[f] \in Queues /\ f # NoFrame /\ f \in Nat
  BY HciAssumption

\* A part whose variables do not change keeps its type.
LEMMA Kept ==
  /\ QueueType /\ UNCHANGED queueVars => QueueType'
  /\ PauseType /\ UNCHANGED pauseVars => PauseType'
  /\ IrqType /\ UNCHANGED irqVars => IrqType'
  /\ CtxType /\ UNCHANGED <<started, pc, regval>> => CtxType'
  /\ IsrType /\ UNCHANGED isrVars => IsrType'
  /\ ChipType /\ UNCHANGED chipVars => ChipType'
  /\ LateType /\ UNCHANGED late => LateType'
  /\ BoundType /\ UNCHANGED bounds => BoundType'
<1>1. QueueType /\ UNCHANGED queueVars => QueueType'
  BY DEF QueueType, queueVars
<1>2. PauseType /\ UNCHANGED pauseVars => PauseType'
  BY DEF PauseType, pauseVars
<1>3. IrqType /\ UNCHANGED irqVars => IrqType'
  BY DEF IrqType, irqVars
<1>4. CtxType /\ UNCHANGED <<started, pc, regval>> => CtxType'
  BY DEF CtxType
<1>5. IsrType /\ UNCHANGED isrVars => IsrType'
  BY DEF IsrType, isrVars
<1>6. ChipType /\ UNCHANGED chipVars => ChipType'
  BY DEF ChipType, chipVars
<1>7. LateType /\ UNCHANGED late => LateType'
  BY DEF LateType
<1>8. BoundType /\ UNCHANGED bounds => BoundType'
  BY DEF BoundType, bounds
<1> QED
  BY <1>1, <1>2, <1>3, <1>4, <1>5, <1>6, <1>7, <1>8, Zenon

LEMMA TypeInit == Init => TypeOK
<1> SUFFICES ASSUME Init PROVE TypeOK
  OBVIOUS
<1>1. <<>> \in Seq(Frames) /\ Mgmt \in Queues /\ 0 \in Queues
  BY EmptySeq, HciAssumption DEF Queues, Mgmt
<1>2. QueueType
  BY <1>1 DEF Init, QueueType
<1>3. PauseType
  BY DEF Init, PauseType
<1>4. IrqType
  <2>1. /\ intMask = {"rx", "low"} /\ intStatus = FALSE /\ hwMask = {}
        /\ signal = FALSE /\ claimed = FALSE /\ hciMutex = None
    BY Zenon DEF Init
  <2> QED
    BY <2>1 DEF IrqType, Ints
<1>5. CtxType
  <2>1. /\ started = FALSE /\ pc = [c \in Ctx |-> "idle"]
        /\ regval = [c \in Ctx \cup {"isr"} |-> {}]
    BY Zenon DEF Init
  <2> QED
    BY <2>1 DEF CtxType, CallerPcs
<1>6. IsrType
  <2>1. isr = Idle /\ hand = NoFrame /\ reset = FALSE
    BY Zenon DEF Init
  <2>2. Idle \in IsrRecords
    BY <1>1 DEF IsrRecords, Idle, Nothing, IsrPcs
  <2> QED
    BY <2>1, <2>2 DEF IsrType
<1>7. ChipType
  <2>1. /\ chipIn = <<>> /\ chipOut = [i \in Queues |-> <<>>]
        /\ used = Full /\ rx = FALSE
    BY Zenon DEF Init
  <2>2. chipIn \in Seq(Frames) /\ rx \in BOOLEAN
    BY <1>1, <2>1
  <2>3. chipOut \in [Queues -> Seq(Frames)]
    BY <1>1, <2>1
  <2>4. used \in [page : Int, id : Int]
    BY <2>1 DEF Full
  <2> QED
    BY <2>2, <2>3, <2>4 DEF ChipType
<1>8. LateType /\ BoundType
  BY DEF Init, LateType, BoundType
<1> QED
  BY <1>2, <1>3, <1>4, <1>5, <1>6, <1>7, <1>8, TypeParts, Zenon

\* What the helpers of several actions do to the types.
LEMMA GotoType ==
  ASSUME CtxType, NEW c \in Ctx, NEW p \in CallerPcs, Goto(c, p)
  PROVE  pc' \in [Ctx -> CallerPcs]
  BY DEF CtxType, Goto

LEMMA BoundStep ==
  ASSUME BoundType
  PROVE  /\ \A k : Event(k) /\ UNCHANGED ops => BoundType'
         /\ \A c, op : Operation(c, op) /\ UNCHANGED events => BoundType'
  BY DEF BoundType, Event, Operation

LEMMA IsrStep ==
  ASSUME IsrType
  PROVE  /\ \A p \in IsrPcs : IsrAt(p) => isr' \in IsrRecords
         /\ \A i \in IsrRecords : i.at = "queue" \/ i.at = "xmit" => Following(i) \in IsrRecords
         /\ Idle \in IsrRecords
<1>1. ASSUME NEW p \in IsrPcs, IsrAt(p) PROVE isr' \in IsrRecords
  BY <1>1 DEF IsrAt, IsrType, IsrRecords
<1>2. ASSUME NEW i \in IsrRecords PROVE Following(i) \in IsrRecords
  <2>1. i.q \in Queues /\ (i.q # 0 => i.q - 1 \in Queues)
    BY HciAssumption DEF Queues, IsrRecords
  <2>2. "recheck" \in IsrPcs /\ "queue" \in IsrPcs
    BY DEF IsrPcs
  <2>3. [i EXCEPT !.at = "recheck"] \in IsrRecords
    BY <2>2 DEF IsrRecords
  <2>4. i.q # 0 => [i EXCEPT !.q = @ - 1, !.at = "queue"] \in IsrRecords
    BY <2>1, <2>2 DEF IsrRecords
  <2> QED
    BY <2>3, <2>4, Zenon DEF Following
<1>3. Idle \in IsrRecords
  BY HciAssumption DEF Idle, Nothing, IsrRecords, IsrPcs, Queues
<1> QED
  BY <1>1, <1>2, <1>3

LEMMA TypeChip ==
  ASSUME TypeOK, Chip PROVE TypeOK'
<1>0. /\ QueueType /\ PauseType /\ IrqType /\ CtxType
      /\ IsrType /\ ChipType /\ LateType /\ BoundType
  BY TypeParts, Zenon
<1>1. CASE ChipAccept
  <2>1. ChipType'
    <3>1. Head(chipIn) \in Frames /\ Tail(chipIn) \in Seq(Frames)
      BY <1>0, <1>1, HeadTailProperties DEF ChipAccept, ChipType
    <3>2. QueueOf[Head(chipIn)] \in Queues
      BY <3>1, HciAssumption
    <3>3. Append(chipOut[QueueOf[Head(chipIn)]], Head(chipIn)) \in Seq(Frames)
      <4>1. chipOut[QueueOf[Head(chipIn)]] \in Seq(Frames)
        BY <1>0, <3>2 DEF ChipType
      <4> QED
        BY <3>1, <4>1, AppendProperties
    <3>4. /\ chipOut' = [chipOut EXCEPT ![QueueOf[Head(chipIn)]] = Append(@, Head(chipIn))]
          /\ chipIn' = Tail(chipIn) /\ UNCHANGED <<used, rx>>
      BY <1>1, Zenon DEF ChipAccept
    <3> QED
      BY <1>0, <3>1, <3>2, <3>3, <3>4 DEF ChipType
  <2>2. UNCHANGED <<queueVars, pauseVars, irqVars, started, pc, regval, isrVars, late,
                    bounds>>
    BY <1>1, Zenon DEF ChipAccept
  <2> QED
    BY <1>0, <2>1, <2>2, Kept, TypeParts, Zenon
<1>2. ASSUME NEW i \in Queues, ChipSend(i) PROVE TypeOK'
  <2>1. ChipType'
    <3>1. Head(chipOut[i]) \in Frames /\ Tail(chipOut[i]) \in Seq(Frames)
      <4>1. chipOut[i] # <<>>
        BY <1>2, Zenon DEF ChipSend
      <4>2. chipOut[i] \in Seq(Frames)
        BY <1>0 DEF ChipType
      <4> QED
        BY <4>1, <4>2, HeadTailProperties
    <3>2. Pages[Head(chipOut[i])] \in Int
      BY <3>1, FrameFacts
    <3>3. /\ used' = [page |-> used.page - Pages[Head(chipOut[i])], id |-> used.id - 1]
          /\ chipOut' = [chipOut EXCEPT ![i] = Tail(@)] /\ UNCHANGED <<chipIn, rx>>
      BY <1>2, Zenon DEF ChipSend
    <3> QED
      BY <1>0, <3>1, <3>2, <3>3 DEF ChipType
  <2>2. UNCHANGED <<queueVars, pauseVars, irqVars, started, pc, regval, isrVars, late,
                    bounds>>
    BY <1>2, Zenon DEF ChipSend
  <2> QED
    BY <1>0, <2>1, <2>2, Kept, TypeParts, Zenon
<1>3. CASE ChipRx
  <2>1. ChipType'
    BY <1>0, <1>3 DEF ChipRx, ChipType
  <2>2. BoundType'
    BY <1>0, <1>3, BoundStep DEF ChipRx
  <2>3. UNCHANGED <<queueVars, pauseVars, irqVars, started, pc, regval, isrVars, late>>
    BY <1>3, Zenon DEF ChipRx
  <2> QED
    BY <1>0, <2>1, <2>2, <2>3, Kept, TypeParts, Zenon
<1> QED
  BY <1>1, <1>2, <1>3 DEF Chip

LEMMA TypeEnqueue ==
  ASSUME TypeOK, NEW c \in Callers, NEW f \in Frames, Enqueue(c, f)
  PROVE  TypeOK'
<1>0. /\ QueueType /\ PauseType /\ IrqType /\ CtxType
      /\ IsrType /\ ChipType /\ LateType /\ BoundType
  BY TypeParts, Zenon
<1>1. QueueType'
  <2>1. QueueOf[f] \in Queues
    BY FrameFacts
  <2>2. q[QueueOf[f]] \in Seq(Frames)
    BY <1>0, <2>1 DEF QueueType
  <2>3. /\ <<f>> \in Seq(Frames) /\ <<f>> \o q[QueueOf[f]] \in Seq(Frames)
        /\ Append(q[QueueOf[f]], f) \in Seq(Frames)
    BY <2>2, AppendProperties, ConcatProperties
  <2>4. /\ \/ q' = [q EXCEPT ![QueueOf[f]] = <<f>> \o @]
           \/ q' = [q EXCEPT ![QueueOf[f]] = Append(@, f)]
        /\ fresh' = fresh \ {f} /\ sent' = sent /\ dropped' = dropped
    BY Zenon DEF Enqueue
  <2> QED
    BY <1>0, <2>3, <2>4 DEF QueueType
<1>2. CtxType'
  <2>1. pc' \in [Ctx -> CallerPcs]
    BY <1>0, GotoType DEF Enqueue, Ctx, CallerPcs
  <2> QED
    BY <1>0, <2>1 DEF Enqueue, CtxType
<1>3. UNCHANGED <<pauseVars, irqVars, isrVars, chipVars, late, bounds>>
  BY Zenon DEF Enqueue
<1> QED
  BY <1>0, <1>1, <1>2, <1>3, Kept, TypeParts, Zenon


LEMMA TypeTrigger ==
  ASSUME TypeOK, NEW c \in Callers, Trigger(c) \/ TriggerSetMask(c) \/ TriggerSignal(c)
  PROVE  TypeOK'
<1>0. /\ QueueType /\ PauseType /\ IrqType /\ CtxType
      /\ IsrType /\ ChipType /\ LateType /\ BoundType
  BY TypeParts, Zenon
<1>c. c \in Ctx /\ c \in Ctx \cup {"isr"}
  BY DEF Ctx
<1>1. CASE Trigger(c)
  <2>1. IrqType'
    <3>1. hciMutex' \in {hciMutex, c} /\ intMask' \in {intMask, intMask \cup {"low"}}
          /\ intStatus' \in {intStatus, TRUE} /\ UNCHANGED <<hwMask, signal, claimed>>
      BY <1>1 DEF Trigger, HoldToWrite
    <3> QED
      BY <1>0, <3>1 DEF IrqType, Ints
  <2>2. CtxType'
    <3>1. pc' \in [Ctx -> CallerPcs]
      BY <1>0, <1>c, <1>1, GotoType DEF Trigger, CallerPcs
    <3>2. started' = started
          /\ \/ regval' = regval
             \/ regval' = [regval EXCEPT ![c] = intMask \cup {"low"}]
      BY <1>1 DEF Trigger
    <3>3. intMask \cup {"low"} \in SUBSET Ints
      BY <1>0 DEF IrqType, Ints
    <3> QED
      BY <1>0, <1>c, <3>1, <3>2, <3>3 DEF CtxType
  <2>3. UNCHANGED <<queueVars, pauseVars, isrVars, chipVars, late, bounds>>
    BY <1>1, Zenon DEF Trigger
  <2> QED
    BY <1>0, <2>1, <2>2, <2>3, Kept, TypeParts, Zenon
<1>2. CASE TriggerSetMask(c)
  <2>1. IrqType'
    BY <1>0, <1>2, <1>c DEF TriggerSetMask, IrqType, CtxType
  <2>2. CtxType'
    <3>1. pc' \in [Ctx -> CallerPcs]
      BY <1>0, <1>c, <1>2, GotoType DEF TriggerSetMask, CallerPcs
    <3> QED
      BY <1>0, <1>c, <1>2, <3>1 DEF TriggerSetMask, CtxType
  <2>3. UNCHANGED <<queueVars, pauseVars, isrVars, chipVars, late, bounds>>
    BY <1>2, Zenon DEF TriggerSetMask
  <2> QED
    BY <1>0, <2>1, <2>2, <2>3, Kept, TypeParts, Zenon
<1>3. CASE TriggerSignal(c)
  <2>1. IrqType'
    BY <1>0, <1>3 DEF TriggerSignal, IrqType
  <2>2. CtxType'
    <3>1. pc' \in [Ctx -> CallerPcs]
      BY <1>0, <1>c, <1>3, GotoType DEF TriggerSignal, CallerPcs
    <3> QED
      BY <1>0, <1>c, <1>3, <3>1 DEF TriggerSignal, CtxType
  <2>3. UNCHANGED <<queueVars, pauseVars, isrVars, chipVars, late, bounds>>
    BY <1>3, Zenon DEF TriggerSignal
  <2> QED
    BY <1>0, <2>1, <2>2, <2>3, Kept, TypeParts, Zenon
<1> QED
  BY <1>1, <1>2, <1>3


LEMMA TypePause ==
  ASSUME TypeOK, NEW c \in Callers, NEW m \in SUBSET Queues,
         PauseTake(c, m) \/ PauseWrite(c) \/ ResumeTake(c, m) \/ ResumeWrite(c)
  PROVE  TypeOK'
<1>0. /\ QueueType /\ PauseType /\ IrqType /\ CtxType
      /\ IsrType /\ ChipType /\ LateType /\ BoundType
  BY TypeParts, Zenon
<1>c. c \in Ctx /\ c \in Ctx \cup {"isr"}
  BY DEF Ctx
<1>1. CASE PauseTake(c, m)
  <2>1. PauseType'
    BY <1>0, <1>1 DEF PauseTake, PauseType
  <2>2. CtxType'
    <3>1. pc' \in [Ctx -> CallerPcs]
      BY <1>0, <1>c, <1>1, GotoType DEF PauseTake, CallerPcs
    <3> QED
      BY <1>0, <1>c, <1>1, <3>1 DEF PauseTake, CtxType
  <2>3. BoundType'
    BY <1>0, <1>1, BoundStep DEF PauseTake
  <2>4. UNCHANGED <<queueVars, irqVars, isrVars, chipVars, late>>
    BY <1>1, Zenon DEF PauseTake
  <2> QED
    BY <1>0, <2>1, <2>2, <2>3, <2>4, Kept, TypeParts, Zenon
<1>2. CASE PauseWrite(c)
  <2>1. PauseType'
    BY <1>0, <1>2 DEF PauseWrite, PauseType
  <2>2. CtxType'
    <3>1. pc' \in [Ctx -> CallerPcs]
      BY <1>0, <1>c, <1>2, GotoType DEF PauseWrite, CallerPcs
    <3> QED
      BY <1>0, <1>c, <1>2, <3>1 DEF PauseWrite, CtxType
  <2>3. UNCHANGED <<queueVars, irqVars, isrVars, chipVars, late, bounds>>
    BY <1>2, Zenon DEF PauseWrite
  <2> QED
    BY <1>0, <2>1, <2>2, <2>3, Kept, TypeParts, Zenon
<1>3. CASE ResumeTake(c, m)
  <2>1. PauseType'
    BY <1>0, <1>3 DEF ResumeTake, PauseType
  <2>2. CtxType'
    <3>1. pc' \in [Ctx -> CallerPcs]
      BY <1>0, <1>c, <1>3, GotoType DEF ResumeTake, CallerPcs
    <3> QED
      BY <1>0, <1>c, <1>3, <3>1 DEF ResumeTake, CtxType
  <2>3. LateType'
    BY <1>0, <1>3 DEF ResumeTake, LateType
  <2>4. BoundType'
    BY <1>0, <1>3, BoundStep DEF ResumeTake
  <2>5. UNCHANGED <<queueVars, irqVars, isrVars, chipVars>>
    BY <1>3, Zenon DEF ResumeTake
  <2> QED
    BY <1>0, <2>1, <2>2, <2>3, <2>4, <2>5, Kept, TypeParts, Zenon
<1>4. CASE ResumeWrite(c)
  <2>1. PauseType'
    BY <1>0, <1>4 DEF ResumeWrite, PauseType, StillPaused
  <2>2. CtxType'
    <3>1. pc' \in [Ctx -> CallerPcs]
      BY <1>0, <1>c, <1>4, GotoType DEF ResumeWrite, CallerPcs
    <3> QED
      BY <1>0, <1>c, <1>4, <3>1 DEF ResumeWrite, CtxType
  <2>3. UNCHANGED <<queueVars, irqVars, isrVars, chipVars, late, bounds>>
    BY <1>4, Zenon DEF ResumeWrite
  <2> QED
    BY <1>0, <2>1, <2>2, <2>3, Kept, TypeParts, Zenon
<1> QED
  BY <1>1, <1>2, <1>3, <1>4


\* Stopping, starting and resetting: the work, too, is a context here.
LEMMA TypeStop ==
  ASSUME TypeOK, NEW c \in Ctx,
         Stop(c) \/ StopWait(c) \/ Start(c) \/ StartMask(c) \/ Claim(c)
  PROVE  TypeOK'
<1>0. /\ QueueType /\ PauseType /\ IrqType /\ CtxType
      /\ IsrType /\ ChipType /\ LateType /\ BoundType
  BY TypeParts, Zenon
<1>c. c \in Ctx /\ c \in Ctx \cup {"isr"}
  OBVIOUS
<1>1. CASE Stop(c)
  <2>1. IrqType'
    BY <1>0, <1>1 DEF Stop, IrqType
  <2>2. CtxType'
    <3>1. pc' \in [Ctx -> CallerPcs]
      BY <1>0, <1>c, <1>1, GotoType DEF Stop, CallerPcs
    <3> QED
      BY <1>0, <1>c, <1>1, <3>1 DEF Stop, CtxType
  <2>3. BoundType'
    BY <1>0, <1>1, BoundStep DEF Stop
  <2>4. UNCHANGED <<queueVars, pauseVars, isrVars, chipVars, late>>
    BY <1>1, Zenon DEF Stop
  <2> QED
    BY <1>0, <2>1, <2>2, <2>3, <2>4, Kept, TypeParts, Zenon
<1>2. CASE StopWait(c)
  <2>1. IrqType'
    BY <1>0, <1>2 DEF StopWait, IrqType
  <2>2. CtxType'
    <3>1. pc' \in [Ctx -> CallerPcs]
      BY <1>0, <1>c, <1>2, GotoType DEF StopWait, CallerPcs
    <3> QED
      BY <1>0, <1>c, <1>2, <3>1 DEF StopWait, CtxType
  <2>3. UNCHANGED <<queueVars, pauseVars, isrVars, chipVars, late, bounds>>
    BY <1>2, Zenon DEF StopWait
  <2> QED
    BY <1>0, <2>1, <2>2, <2>3, Kept, TypeParts, Zenon
<1>3. CASE Start(c)
  <2>1. CtxType'
    <3>1. pc' \in [Ctx -> CallerPcs]
      BY <1>0, <1>c, <1>3, GotoType DEF Start, CallerPcs
    <3> QED
      BY <1>0, <1>c, <1>3, <3>1 DEF Start, CtxType, IrqType
  <2>2. BoundType'
    BY <1>0, <1>3, BoundStep DEF Start
  <2>3. UNCHANGED <<queueVars, pauseVars, irqVars, isrVars, chipVars, late>>
    BY <1>3, Zenon DEF Start
  <2> QED
    BY <1>0, <2>1, <2>2, <2>3, Kept, TypeParts, Zenon
<1>4. CASE StartMask(c)
  <2>1. IrqType'
    BY <1>0, <1>c, <1>4 DEF StartMask, IrqType, CtxType
  <2>2. CtxType'
    <3>1. pc' \in [Ctx -> CallerPcs]
      BY <1>0, <1>c, <1>4, GotoType DEF StartMask, CallerPcs
    <3> QED
      BY <1>0, <1>c, <1>4, <3>1 DEF StartMask, CtxType
  <2>3. UNCHANGED <<queueVars, pauseVars, isrVars, chipVars, late, bounds>>
    BY <1>4, Zenon DEF StartMask
  <2> QED
    BY <1>0, <2>1, <2>2, <2>3, Kept, TypeParts, Zenon
<1>5. CASE Claim(c)
  <2>1. IrqType'
    BY <1>0, <1>5 DEF Claim, IrqType
  <2>2. CtxType'
    <3>1. pc' \in [Ctx -> CallerPcs]
      BY <1>0, <1>c, <1>5, GotoType DEF Claim, CallerPcs
    <3> QED
      BY <1>0, <1>c, <1>5, <3>1 DEF Claim, CtxType
  <2>3. UNCHANGED <<queueVars, pauseVars, isrVars, chipVars, late, bounds>>
    BY <1>5, Zenon DEF Claim
  <2> QED
    BY <1>0, <2>1, <2>2, <2>3, Kept, TypeParts, Zenon
<1> QED
  BY <1>1, <1>2, <1>3, <1>4, <1>5


LEMMA TypeReset ==
  ASSUME TypeOK, ResetMask \/ ResetWait
  PROVE  TypeOK'
<1>0. /\ QueueType /\ PauseType /\ IrqType /\ CtxType
      /\ IsrType /\ ChipType /\ LateType /\ BoundType
  BY TypeParts, Zenon
<1>c. "work" \in Ctx /\ "work" \in Ctx \cup {"isr"}
  BY DEF Ctx
<1>1. CASE ResetMask
  <2>1. IrqType'
    BY <1>0, <1>1 DEF ResetMask, IrqType
  <2>2. CtxType'
    <3>1. pc' \in [Ctx -> CallerPcs]
      BY <1>0, <1>c, <1>1, GotoType DEF ResetMask, CallerPcs
    <3> QED
      BY <1>0, <1>c, <1>1, <3>1 DEF ResetMask, CtxType
  <2>3. IsrType'
    BY <1>0, <1>1 DEF ResetMask, IsrType
  <2>4. UNCHANGED <<queueVars, pauseVars, chipVars, late, bounds>>
    BY <1>1, Zenon DEF ResetMask
  <2> QED
    BY <1>0, <2>1, <2>2, <2>3, <2>4, Kept, TypeParts, Zenon
<1>2. CASE ResetWait
  <2>1. IrqType'
    BY <1>0, <1>2 DEF ResetWait, IrqType
  <2>2. CtxType'
    <3>1. pc' \in [Ctx -> CallerPcs]
      BY <1>0, <1>c, <1>2, GotoType DEF ResetWait, CallerPcs
    <3> QED
      BY <1>0, <1>c, <1>2, <3>1 DEF ResetWait, CtxType, IrqType
  <2>3. UNCHANGED <<queueVars, pauseVars, isrVars, chipVars, late, bounds>>
    BY <1>2, Zenon DEF ResetWait
  <2> QED
    BY <1>0, <2>1, <2>2, <2>3, Kept, TypeParts, Zenon
<1> QED
  BY <1>1, <1>2

LEMMA TypeIsrMask ==
  ASSUME TypeOK, IsrEnter \/ IsrMerge \/ IsrSetMask \/ IsrStatus \/ IsrRecheck \/ IsrClearMask
  PROVE  TypeOK'
<1>0. /\ QueueType /\ PauseType /\ IrqType /\ CtxType
      /\ IsrType /\ ChipType /\ LateType /\ BoundType
  BY TypeParts, Zenon
<1>1. CASE IsrEnter
  <2>1. IrqType'
    BY <1>0, <1>1 DEF IsrEnter, IrqType
  <2>2. IsrType'
    <3>1. isr' \in IsrRecords
      BY <1>0, <1>1, IsrStep DEF IsrEnter, IsrPcs
    <3> QED
      BY <1>0, <1>1, <3>1 DEF IsrEnter, IsrType
  <2>3. UNCHANGED <<queueVars, pauseVars, started, pc, regval, chipVars, late, bounds>>
    BY <1>1, Zenon DEF IsrEnter
  <2> QED
    BY <1>0, <2>1, <2>2, <2>3, Kept, TypeParts, Zenon
<1>2. CASE IsrMerge
  <2>1. IrqType'
    <3>1. hciMutex' = "isr" /\ intMask' \in {intMask, intMask \cup {"low"}}
          /\ intStatus' \in {intStatus, FALSE} /\ UNCHANGED <<hwMask, signal, claimed>>
      BY <1>2 DEF IsrMerge
    <3> QED
      BY <1>0, <3>1 DEF IrqType, Ints
  <2>2. CtxType'
    <3>1. intMask \cup {"low"} \in SUBSET Ints
      BY <1>0 DEF IrqType, Ints
    <3>2. /\ UNCHANGED <<started, pc>>
          /\ \/ regval' = regval
             \/ regval' = [regval EXCEPT !["isr"] = intMask \cup {"low"}]
      BY <1>2 DEF IsrMerge
    <3> QED
      BY <1>0, <3>1, <3>2 DEF CtxType
  <2>3. IsrType'
    <3>1. IsrAt("setmask") \/ IsrAt("status")
      BY <1>2 DEF IsrMerge
    <3>2. isr' \in IsrRecords
      BY <1>0, <3>1, IsrStep DEF IsrPcs
    <3> QED
      BY <1>0, <1>2, <3>2 DEF IsrMerge, IsrType
  <2>4. UNCHANGED <<queueVars, pauseVars, chipVars, late, bounds>>
    BY <1>2, Zenon DEF IsrMerge
  <2> QED
    BY <1>0, <2>1, <2>2, <2>3, <2>4, Kept, TypeParts, Zenon
<1>3. CASE IsrSetMask
  <2>1. IrqType'
    BY <1>0, <1>3 DEF IsrSetMask, IrqType, CtxType
  <2>2. IsrType'
    <3>1. isr' \in IsrRecords
      BY <1>0, <1>3, IsrStep DEF IsrSetMask, IsrPcs
    <3> QED
      BY <1>0, <1>3, <3>1 DEF IsrSetMask, IsrType
  <2>3. UNCHANGED <<queueVars, pauseVars, started, pc, regval, chipVars, late, bounds>>
    BY <1>3, Zenon DEF IsrSetMask
  <2> QED
    BY <1>0, <2>1, <2>2, <2>3, Kept, TypeParts, Zenon
<1>4. CASE IsrStatus
  <2>1. IrqType'
    BY <1>0, <1>4 DEF IsrStatus, IrqType
  <2>2. IsrType'
    <3>1. Status \cap intMask \in SUBSET Ints
      BY <1>0 DEF IrqType
    <3>2. Idle \in IsrRecords
      BY <1>0, IsrStep
    <3>3. Part(Status \cap intMask) \in IsrPcs
      BY DEF Part, IsrPcs
    <3>4. Mgmt \in Queues
      BY HciAssumption DEF Mgmt, Queues
    <3>5. [Idle EXCEPT !.at = Part(Status \cap intMask), !.q = Mgmt,
                       !.status = Status \cap intMask] \in IsrRecords
      BY <3>1, <3>2, <3>3, <3>4 DEF IsrRecords
    <3>6. isr' \in IsrRecords
      BY <1>4, <3>2, <3>5, Zenon DEF IsrStatus
    <3> QED
      BY <1>0, <1>4, <3>6 DEF IsrStatus, IsrType
  <2>3. UNCHANGED <<queueVars, pauseVars, started, pc, regval, chipVars, late, bounds>>
    BY <1>4, Zenon DEF IsrStatus
  <2> QED
    BY <1>0, <2>1, <2>2, <2>3, Kept, TypeParts, Zenon
<1>5. CASE IsrRecheck
  <2>1. IrqType'
    <3>1. hciMutex' \in {hciMutex, "isr"} /\ intMask' \in {intMask, intMask \ {"low"}}
          /\ UNCHANGED <<intStatus, hwMask, signal, claimed>>
      BY <1>5 DEF IsrRecheck, HoldToWrite
    <3> QED
      BY <1>0, <3>1 DEF IrqType, Ints
  <2>2. CtxType'
    <3>1. intMask \ {"low"} \in SUBSET Ints
      BY <1>0 DEF IrqType, Ints
    <3>2. /\ UNCHANGED <<started, pc>>
          /\ \/ regval' = regval
             \/ regval' = [regval EXCEPT !["isr"] = intMask \ {"low"}]
      BY <1>5 DEF IsrRecheck
    <3> QED
      BY <1>0, <3>1, <3>2 DEF CtxType
  <2>3. IsrType'
    <3>1. IsrAt("clearmask") \/ IsrAt("after")
      BY <1>5 DEF IsrRecheck
    <3>2. isr' \in IsrRecords
      BY <1>0, <3>1, IsrStep DEF IsrPcs
    <3> QED
      BY <1>0, <1>5, <3>2 DEF IsrRecheck, IsrType
  <2>4. UNCHANGED <<queueVars, pauseVars, chipVars, late, bounds>>
    BY <1>5, Zenon DEF IsrRecheck
  <2> QED
    BY <1>0, <2>1, <2>2, <2>3, <2>4, Kept, TypeParts, Zenon
<1>6. CASE IsrClearMask
  <2>1. IrqType'
    BY <1>0, <1>6 DEF IsrClearMask, IrqType, CtxType
  <2>2. IsrType'
    <3>1. isr' \in IsrRecords
      BY <1>0, <1>6, IsrStep DEF IsrClearMask, IsrPcs
    <3> QED
      BY <1>0, <1>6, <3>1 DEF IsrClearMask, IsrType
  <2>3. UNCHANGED <<queueVars, pauseVars, started, pc, regval, chipVars, late, bounds>>
    BY <1>6, Zenon DEF IsrClearMask
  <2> QED
    BY <1>0, <2>1, <2>2, <2>3, Kept, TypeParts, Zenon
<1> QED
  BY <1>1, <1>2, <1>3, <1>4, <1>5, <1>6

LEMMA TypeIsrQueue ==
  ASSUME TypeOK, IsrSkip \/ IsrRead \/ IsrReadFails \/ IsrInfo \/ XmitDone \/ IsrAfter \/ IsrRx \/ IsrRxFails
  PROVE  TypeOK'
<1>0. /\ QueueType /\ PauseType /\ IrqType /\ CtxType
      /\ IsrType /\ ChipType /\ LateType /\ BoundType
  BY TypeParts, Zenon
<1>1. CASE IsrSkip
  <2>1. IsrType'
    <3>1. isr' = Following(isr) /\ isr.at = "queue" /\ UNCHANGED <<hand, reset>>
      BY <1>1, Zenon DEF IsrSkip, isrOnly
    <3> QED
      BY <1>0, <3>1, IsrStep DEF IsrType
  <2>2. UNCHANGED <<queueVars, pauseVars, irqVars, started, pc, regval, chipVars, late, bounds>>
    BY <1>1, Zenon DEF IsrSkip, isrOnly
  <2> QED
    BY <1>0, <2>1, <2>2, Kept, TypeParts, Zenon
<1>2. CASE IsrRead
  <2>1. IsrType'
    <3>1. isr' = [isr EXCEPT !.at = "info", !.free = FreeNow, !.left = InMax - Len(chipIn)]
          /\ Len(chipIn) < InMax /\ UNCHANGED <<hand, reset>>
      BY <1>2, Zenon DEF IsrRead, isrOnly
    <3>2. Len(chipIn) \in Nat /\ InMax - Len(chipIn) \in Nat
      BY <1>0, <3>1, LenProperties, HciAssumption DEF ChipType
    <3>3. FreeNow \in [page : Int, id : Int, out : Int]
      <4>1. used.page \in Int /\ used.id \in Int
        BY <1>0 DEF ChipType
      <4>2. isr.q \in Queues
        BY <1>0 DEF IsrType, IsrRecords
      <4>3. Len(chipOut[isr.q]) \in Nat /\ OutMax[isr.q] \in Nat
        BY <1>0, <4>2, LenProperties, HciAssumption DEF ChipType
      <4> QED
        BY <4>1, <4>3, HciAssumption DEF FreeNow
    <3>4. isr' \in IsrRecords
      BY <1>0, <3>1, <3>2, <3>3 DEF IsrType, IsrRecords, IsrPcs
    <3> QED
      BY <1>0, <3>1, <3>4 DEF IsrType
  <2>2. UNCHANGED <<queueVars, pauseVars, irqVars, started, pc, regval, chipVars, late, bounds>>
    BY <1>2, Zenon DEF IsrRead, isrOnly
  <2> QED
    BY <1>0, <2>1, <2>2, Kept, TypeParts, Zenon
<1>3. CASE IsrReadFails
  <2>1. IsrType'
    <3>1. isr.q \in Queues
      BY <1>0 DEF IsrType, IsrRecords
    <3>2. Len(q[isr.q]) \in Nat /\ OutMax[isr.q] \in Nat
      BY <1>0, <3>1, LenProperties, HciAssumption DEF QueueType
    <3>3. PICK page \in {-1, PageMax}, id \in {-1, IdMax}, out \in {0, OutMax[isr.q]} :
            isr' = [isr EXCEPT !.at = "info", !.left = Len(q[isr.q]),
                               !.free = [page |-> page, id |-> id, out |-> out]]
      BY <1>3, Zenon DEF IsrReadFails
    <3>4. page \in Int /\ id \in Int /\ out \in Int
      BY <3>2, <3>3, HciAssumption
    <3>5. isr' \in IsrRecords
      BY <1>0, <3>2, <3>3, <3>4 DEF IsrType, IsrRecords, IsrPcs
    <3> QED
      BY <1>0, <1>3, <3>5 DEF IsrReadFails, IsrType
  <2>2. BoundType'
    BY <1>0, <1>3, BoundStep DEF IsrReadFails
  <2>3. UNCHANGED <<queueVars, pauseVars, irqVars, started, pc, regval, chipVars, late>>
    BY <1>3, Zenon DEF IsrReadFails
  <2> QED
    BY <1>0, <2>1, <2>2, <2>3, Kept, TypeParts, Zenon
<1>4. CASE IsrInfo
  <2>1. IsrType'
    <3>1. IsrAt("queue") \/ IsrAt("xmit")
      BY <1>4 DEF IsrInfo
    <3>2. isr' \in IsrRecords
      BY <1>0, <3>1, IsrStep DEF IsrPcs
    <3> QED
      BY <1>0, <1>4, <3>2 DEF IsrInfo, isrOnly, IsrType
  <2>2. UNCHANGED <<queueVars, pauseVars, irqVars, started, pc, regval, chipVars, late, bounds>>
    BY <1>4, Zenon DEF IsrInfo, isrOnly
  <2> QED
    BY <1>0, <2>1, <2>2, Kept, TypeParts, Zenon
<1>5. CASE XmitDone
  <2>1. IsrType'
    <3>1. isr' = Following(isr) /\ isr.at = "xmit" /\ UNCHANGED <<hand, reset>>
      BY <1>5, Zenon DEF XmitDone, isrOnly
    <3> QED
      BY <1>0, <3>1, IsrStep DEF IsrType
  <2>2. UNCHANGED <<queueVars, pauseVars, irqVars, started, pc, regval, chipVars, late, bounds>>
    BY <1>5, Zenon DEF XmitDone, isrOnly
  <2> QED
    BY <1>0, <2>1, <2>2, Kept, TypeParts, Zenon
<1>6. CASE IsrAfter
  <2>1. IsrType'
    <3>1. [isr EXCEPT !.at = "rx"] \in IsrRecords
      BY <1>0 DEF IsrType, IsrRecords, IsrPcs
    <3>2. isr' \in IsrRecords
      BY <1>0, <1>6, <3>1, IsrStep DEF IsrAfter
    <3>3. isr.fail \in BOOLEAN
      BY <1>0 DEF IsrType, IsrRecords
    <3> QED
      BY <1>0, <1>6, <3>2, <3>3 DEF IsrAfter, IsrType
  <2>2. UNCHANGED <<queueVars, pauseVars, irqVars, started, pc, regval, chipVars, late, bounds>>
    BY <1>6, Zenon DEF IsrAfter
  <2> QED
    BY <1>0, <2>1, <2>2, Kept, TypeParts, Zenon
<1>7. CASE IsrRx
  <2>1. IsrType'
    <3>1. isr' \in IsrRecords
      BY <1>0, <1>7, IsrStep DEF IsrRx, IsrRecords, IsrPcs
    <3> QED
      BY <1>0, <1>7, <3>1 DEF IsrRx, IsrType
  <2>2. ChipType'
    BY <1>0, <1>7 DEF IsrRx, ChipType
  <2>3. UNCHANGED <<queueVars, pauseVars, irqVars, started, pc, regval, late, bounds>>
    BY <1>7, Zenon DEF IsrRx
  <2> QED
    BY <1>0, <2>1, <2>2, <2>3, Kept, TypeParts, Zenon
<1>8. CASE IsrRxFails
  <2>1. IsrType'
    BY <1>0, <1>8, IsrStep DEF IsrRxFails, IsrType
  <2>2. BoundType'
    BY <1>0, <1>8, BoundStep DEF IsrRxFails
  <2>3. UNCHANGED <<queueVars, pauseVars, irqVars, started, pc, regval, chipVars, late>>
    BY <1>8, Zenon DEF IsrRxFails
  <2> QED
    BY <1>0, <2>1, <2>2, <2>3, Kept, TypeParts, Zenon
<1> QED
  BY <1>1, <1>2, <1>3, <1>4, <1>5, <1>6, <1>7, <1>8

LEMMA TypeXmit ==
  ASSUME TypeOK, XmitTake \/ XmitDrop \/ XmitPutBack \/ XmitSend \/ XmitSendFails
  PROVE  TypeOK'
<1>0. /\ QueueType /\ PauseType /\ IrqType /\ CtxType
      /\ IsrType /\ ChipType /\ LateType /\ BoundType
  BY TypeParts, Zenon
<1>1. CASE XmitTake
  <2>1. QueueType'
    <3>1. isr.q \in Queues
      BY <1>0 DEF IsrType, IsrRecords
    <3>2. q[isr.q] \in Seq(Frames) /\ Len(q[isr.q]) > 0
      BY <1>0, <1>1, <3>1 DEF QueueType, XmitTake
    <3>3. q[isr.q] # <<>>
      BY <3>2, EmptySeq
    <3>4. Tail(q[isr.q]) \in Seq(Frames)
      BY <3>2, <3>3, HeadTailProperties
    <3>5. q' = [q EXCEPT ![isr.q] = Tail(@)] /\ UNCHANGED <<fresh, sent, dropped>>
      BY <1>1, Zenon DEF XmitTake
    <3> QED
      BY <1>0, <3>4, <3>5 DEF QueueType
  <2>2. IsrType'
    <3>1. isr.q \in Queues /\ isr.left \in Nat /\ isr.left > 0
      BY <1>0, <1>1 DEF IsrType, IsrRecords, XmitTake, MayTake
    <3>2. q[isr.q] \in Seq(Frames) /\ Len(q[isr.q]) > 0
      BY <1>0, <1>1, <3>1 DEF QueueType, XmitTake
    <3>3. q[isr.q] # <<>>
      BY <3>2, EmptySeq
    <3>4. Head(q[isr.q]) \in Frames
      BY <3>2, <3>3, HeadTailProperties
    <3>5. hand' = Head(q[isr.q]) /\ isr' = [isr EXCEPT !.left = @ - 1] /\ reset' = reset
      BY <1>1, Zenon DEF XmitTake
    <3>6. isr' \in IsrRecords
      BY <1>0, <3>1, <3>5 DEF IsrType, IsrRecords
    <3> QED
      BY <1>0, <3>4, <3>5, <3>6 DEF IsrType
  <2>3. UNCHANGED <<pauseVars, irqVars, started, pc, regval, chipVars, late, bounds>>
    BY <1>1, Zenon DEF XmitTake
  <2> QED
    BY <1>0, <2>1, <2>2, <2>3, Kept, TypeParts, Zenon
<1>2. CASE XmitDrop
  <2>1. QueueType'
    BY <1>0, <1>2 DEF XmitDrop, QueueType, IsrType
  <2>2. IsrType'
    <3>1. isr' = Following(isr) /\ hand' = NoFrame /\ isr.at = "xmit" /\ reset' = reset
      BY <1>2, Zenon DEF XmitDrop
    <3> QED
      BY <1>0, <3>1, IsrStep DEF IsrType
  <2>3. UNCHANGED <<pauseVars, irqVars, started, pc, regval, chipVars, late, bounds>>
    BY <1>2, Zenon DEF XmitDrop
  <2> QED
    BY <1>0, <2>1, <2>2, <2>3, Kept, TypeParts, Zenon
<1>3. CASE XmitPutBack
  <2>1. QueueType'
    <3>1. isr.q \in Queues /\ hand \in Frames
      BY <1>0, <1>3 DEF XmitPutBack, IsrType, IsrRecords
    <3>2. q[isr.q] \in Seq(Frames)
      BY <1>0, <3>1 DEF QueueType
    <3>3. <<hand>> \o q[isr.q] \in Seq(Frames)
      BY <3>1, <3>2, ConcatProperties
    <3>4. q' = [q EXCEPT ![isr.q] = <<hand>> \o @] /\ UNCHANGED <<fresh, sent, dropped>>
      BY <1>3, Zenon DEF XmitPutBack, PutBack
    <3> QED
      BY <1>0, <3>3, <3>4 DEF QueueType
  <2>2. IsrType'
    <3>1. isr' = Following(isr) /\ hand' = NoFrame /\ isr.at = "xmit" /\ reset' = reset
      BY <1>3, Zenon DEF XmitPutBack
    <3> QED
      BY <1>0, <3>1, IsrStep DEF IsrType
  <2>3. UNCHANGED <<pauseVars, irqVars, started, pc, regval, chipVars, late, bounds>>
    BY <1>3, Zenon DEF XmitPutBack
  <2> QED
    BY <1>0, <2>1, <2>2, <2>3, Kept, TypeParts, Zenon
<1>4. CASE XmitSend
  <2>1. QueueType'
    <3>1. isr.q \in Queues /\ hand \in Frames
      BY <1>0, <1>4 DEF XmitSend, IsrType, IsrRecords
    <3>2. sent[isr.q] \in Seq(Frames)
      BY <1>0, <3>1 DEF QueueType
    <3>3. Append(sent[isr.q], hand) \in Seq(Frames)
      BY <3>1, <3>2, AppendProperties
    <3>4. sent' = [sent EXCEPT ![isr.q] = Append(@, hand)] /\ UNCHANGED <<fresh, q, dropped>>
      BY <1>4, Zenon DEF XmitSend
    <3> QED
      BY <1>0, <3>3, <3>4 DEF QueueType
  <2>2. IsrType'
    <3>1. hand \in Frames
      BY <1>0, <1>4 DEF XmitSend, IsrType
    <3>2. Pages[hand] \in Int
      BY <3>1, FrameFacts
    <3>3. isr' = [isr EXCEPT !.free = [page |-> isr.free.page - Pages[hand],
                                       id |-> isr.free.id - 1, out |-> isr.free.out - 1]]
          /\ hand' = NoFrame /\ reset' = reset
      BY <1>4, Zenon DEF XmitSend
    <3>4. isr' \in IsrRecords
      BY <1>0, <3>2, <3>3 DEF IsrType, IsrRecords
    <3> QED
      BY <1>0, <3>3, <3>4 DEF IsrType
  <2>3. ChipType'
    <3>1. hand \in Frames
      BY <1>0, <1>4 DEF XmitSend, IsrType
    <3>2. Pages[hand] \in Int
      BY <3>1, FrameFacts
    <3>3. Append(chipIn, hand) \in Seq(Frames)
      BY <1>0, <3>1, AppendProperties DEF ChipType
    <3>4. /\ chipIn' = Append(chipIn, hand)
          /\ used' = [page |-> used.page + Pages[hand], id |-> used.id + 1]
          /\ UNCHANGED <<chipOut, rx>>
      BY <1>4, Zenon DEF XmitSend
    <3> QED
      BY <1>0, <3>2, <3>3, <3>4 DEF ChipType
  <2>4. LateType'
    BY <1>0, <1>4 DEF XmitSend, LateType, IsrType, IsrRecords
  <2>5. UNCHANGED <<pauseVars, irqVars, started, pc, regval, bounds>>
    BY <1>4, Zenon DEF XmitSend
  <2> QED
    BY <1>0, <2>1, <2>2, <2>3, <2>4, <2>5, Kept, TypeParts, Zenon
<1>5. CASE XmitSendFails
  <2>1. QueueType'
    <3>1. isr.q \in Queues /\ hand \in Frames
      BY <1>0, <1>5 DEF XmitSendFails, IsrType, IsrRecords
    <3>2. q[isr.q] \in Seq(Frames)
      BY <1>0, <3>1 DEF QueueType
    <3>3. <<hand>> \o q[isr.q] \in Seq(Frames)
      BY <3>1, <3>2, ConcatProperties
    <3>4. q' = [q EXCEPT ![isr.q] = <<hand>> \o @] /\ UNCHANGED <<fresh, sent, dropped>>
      BY <1>5, Zenon DEF XmitSendFails, PutBack
    <3> QED
      BY <1>0, <3>3, <3>4 DEF QueueType
  <2>2. IsrType'
    <3>1. isr' = Following([isr EXCEPT !.fail = TRUE]) /\ hand' = NoFrame /\ isr.at = "xmit"
          /\ reset' = reset
      BY <1>5, Zenon DEF XmitSendFails
    <3>2. [isr EXCEPT !.fail = TRUE] \in IsrRecords /\ [isr EXCEPT !.fail = TRUE].at = "xmit"
      BY <1>0, <3>1 DEF IsrType, IsrRecords
    <3> QED
      BY <1>0, <3>1, <3>2, IsrStep DEF IsrType
  <2>3. BoundType'
    BY <1>0, <1>5, BoundStep DEF XmitSendFails
  <2>4. UNCHANGED <<pauseVars, irqVars, started, pc, regval, chipVars, late>>
    BY <1>5, Zenon DEF XmitSendFails
  <2> QED
    BY <1>0, <2>1, <2>2, <2>3, <2>4, Kept, TypeParts, Zenon
<1> QED
  BY <1>1, <1>2, <1>3, <1>4, <1>5

LEMMA TypeNext ==
  ASSUME TypeOK, [Next]_vars
  PROVE  TypeOK'
<1>1. CASE Chip
  BY <1>1, TypeChip
<1>2. CASE Isr
  BY <1>2, TypeIsrMask, TypeIsrQueue, TypeXmit DEF Isr
<1>3. CASE Work
  BY <1>3, TypeReset, TypeStop DEF Work, Ctx
<1>4. ASSUME NEW c \in Callers, Caller(c) PROVE TypeOK'
  <2>1. c \in Ctx
    BY DEF Ctx
  <2>2. ASSUME NEW m \in SUBSET Queues \ {{}}, PauseTake(c, m) \/ ResumeTake(c, m)
        PROVE TypeOK'
    <3>1. m \in SUBSET Queues
      OBVIOUS
    <3> QED
      BY <2>2, <3>1, TypePause, Zenon
  <2>3. ASSUME PauseWrite(c) \/ ResumeWrite(c) PROVE TypeOK'
    <3>1. {} \in SUBSET Queues
      OBVIOUS
    <3> QED
      BY <2>3, <3>1, TypePause, Zenon
  <2>4. ASSUME Trigger(c) \/ TriggerSetMask(c) \/ TriggerSignal(c) PROVE TypeOK'
    BY <2>4, TypeTrigger, Zenon
  <2>5. ASSUME Stop(c) \/ StopWait(c) \/ Start(c) \/ StartMask(c) \/ Claim(c) PROVE TypeOK'
    BY <2>1, <2>5, TypeStop, Zenon
  <2>6. ASSUME NEW f \in Frames, Enqueue(c, f) PROVE TypeOK'
    BY <2>6, TypeEnqueue, Zenon
  <2> QED
    BY <1>4, <2>2, <2>3, <2>4, <2>5, <2>6, Zenon DEF Caller
<1>5. CASE UNCHANGED vars
  BY <1>5, TypeParts, Kept, Zenon DEF vars
<1> QED
  BY <1>1, <1>2, <1>3, <1>4, <1>5, Zenon DEF Next

\* TypeOK: every variable keeps its type, whatever the contexts, the handler
\* and the chip do (the types HCI's control structure is declared with, and
\* that a queue number never leaves 0 .. SSV_HW_TXQ_NUM - 1).
THEOREM TypeCorrect == Spec => []TypeOK
<1>1. TypeOK /\ [Next]_vars => TypeOK'
  BY TypeNext
<1> QED
  BY TypeInit, <1>1, PTL DEF Spec
-----------------------------------------------------------------------------
(* Pausing and resuming.                                                   *)

Masking == {"pausing", "resuming"}

\* What a step does to the pause state, if it is none of the four that handle
\* it.
LEMMA PauseFootprint ==
  ASSUME TypeOK, [Next]_vars
  PROVE  \/ \E c \in Callers, m \in SUBSET Queues : PauseTake(c, m) \/ ResumeTake(c, m)
         \/ \E c \in Callers : PauseWrite(c) \/ ResumeWrite(c)
         \/ /\ UNCHANGED pauseVars
            /\ \A c \in Callers : pc'[c] \in Masking => pc'[c] = pc[c]
<1> DEFINE Apart == /\ UNCHANGED pauseVars
                    /\ \A c \in Callers : pc'[c] \in Masking => pc'[c] = pc[c]
<1>0. pc \in [Ctx -> CallerPcs]
  BY TypeParts, Zenon DEF CtxType
<1>1. CASE Isr \/ Chip \/ UNCHANGED vars
  <2>1. UNCHANGED <<pauseVars, pc>>
    <3>1. CASE Chip
      BY <3>1, Zenon DEF Chip, ChipAccept, ChipSend, ChipRx
    <3>2. CASE IsrEnter \/ IsrMerge \/ IsrSetMask \/ IsrStatus \/ IsrRecheck \/ IsrClearMask
      BY <3>2, Zenon DEF IsrEnter, IsrMerge, IsrSetMask, IsrStatus, IsrRecheck, IsrClearMask
    <3>3. CASE IsrSkip \/ IsrRead \/ IsrReadFails \/ IsrInfo \/ IsrAfter \/ IsrRx \/ IsrRxFails
      BY <3>3, Zenon DEF IsrSkip, IsrRead, IsrReadFails, IsrInfo, IsrAfter, IsrRx, IsrRxFails,
         isrOnly
    <3>4. CASE XmitTake \/ XmitDone \/ XmitDrop \/ XmitPutBack \/ XmitSend \/ XmitSendFails
      BY <3>4, Zenon DEF XmitTake, XmitDone, XmitDrop, XmitPutBack, XmitSend, XmitSendFails,
         isrOnly
    <3>5. CASE UNCHANGED vars
      BY <3>5, Zenon DEF vars
    <3> QED
      BY <1>1, <3>1, <3>2, <3>3, <3>4, <3>5, Zenon DEF Isr
  <2> QED
    BY <2>1
<1>2. ASSUME NEW c \in Ctx, NEW p \in CallerPcs \ Masking, Goto(c, p), UNCHANGED pauseVars
      PROVE  Apart
  BY <1>0, <1>2 DEF Goto
<1>3. CASE Work
  BY <1>2, <1>3 DEF Work, ResetMask, ResetWait, StartMask, Claim, Ctx, CallerPcs, Masking
<1>4. ASSUME NEW c \in Callers,
             \/ \E f \in Frames : Enqueue(c, f)
             \/ Trigger(c) \/ TriggerSetMask(c) \/ TriggerSignal(c)
             \/ Stop(c) \/ StopWait(c) \/ Start(c) \/ StartMask(c) \/ Claim(c)
      PROVE  Apart
  <2>1. c \in Ctx
    BY DEF Ctx
  <2>2. CASE \E f \in Frames : Enqueue(c, f)
    BY <1>2, <2>1, <2>2 DEF Enqueue, CallerPcs, Masking
  <2>3. CASE Trigger(c) \/ TriggerSetMask(c) \/ TriggerSignal(c)
    BY <1>2, <2>1, <2>3 DEF Trigger, TriggerSetMask, TriggerSignal, CallerPcs, Masking
  <2>4. CASE Stop(c) \/ StopWait(c) \/ Start(c) \/ StartMask(c) \/ Claim(c)
    BY <1>2, <2>1, <2>4 DEF Stop, StopWait, Start, StartMask, Claim, CallerPcs, Masking
  <2> QED
    BY <1>4, <2>2, <2>3, <2>4, Zenon
<1> QED
  BY <1>1, <1>3, <1>4, Zenon DEF Next, Caller

\* The holder of txq_mask_lock is the only one between the two halves of a
\* pause or a resume, and then it alone knows how paused differs from
\* txq_mask.
PauseInv ==
  /\ \A c \in Callers : pc[c] \in Masking => maskLock = c
  /\ \A c \in Callers : pc[c] = "pausing" => paused = txqMask
  /\ txqMask \subseteq paused
  /\ PauseAgrees

LEMMA PauseStep ==
  ASSUME TypeOK, PauseInv, [Next]_vars
  PROVE  PauseInv'
<1>0. pc \in [Ctx -> CallerPcs] /\ Callers \subseteq Ctx /\ None \notin Callers
  BY TypeParts, HciAssumption DEF CtxType, Ctx
<1>1. ASSUME NEW c \in Callers, NEW m \in SUBSET Queues, PauseTake(c, m)
      PROVE  PauseInv'
  BY <1>0, <1>1 DEF PauseTake, Goto, PauseInv, PauseAgrees, Masking
<1>2. ASSUME NEW c \in Callers, NEW m \in SUBSET Queues, ResumeTake(c, m)
      PROVE  PauseInv'
  BY <1>0, <1>2 DEF ResumeTake, Goto, PauseInv, PauseAgrees, Masking
<1>3. ASSUME NEW c \in Callers, PauseWrite(c)
      PROVE  PauseInv'
  BY <1>0, <1>3 DEF PauseWrite, Goto, PauseInv, PauseAgrees, Masking
<1>4. ASSUME NEW c \in Callers, ResumeWrite(c)
      PROVE  PauseInv'
  BY <1>0, <1>4 DEF ResumeWrite, StillPaused, Goto, PauseInv, PauseAgrees, Masking
<1>5. ASSUME UNCHANGED pauseVars, \A c \in Callers : pc'[c] \in Masking => pc'[c] = pc[c]
      PROVE  PauseInv'
  BY <1>5 DEF pauseVars, PauseInv, PauseAgrees, Masking
<1> QED
  BY <1>1, <1>2, <1>3, <1>4, <1>5, PauseFootprint, Zenon

LEMMA PauseInit == Init => PauseInv
<1> SUFFICES ASSUME Init PROVE PauseInv
  OBVIOUS
<1>1. pc = [c \in Ctx |-> "idle"] /\ txqMask = {} /\ paused = {} /\ halted = {}
  BY Zenon DEF Init
<1> QED
  BY <1>1 DEF PauseInv, PauseAgrees, Masking, Ctx

\* PauseAgrees: between two operations the queues that are paused, and those
\* halted in the chip, are exactly those of txq_mask, however many contexts
\* pause and resume at once (ssv6xxx_hci_txq_pause, ssv6xxx_hci_txq_resume).
THEOREM PausedIsMask == Spec => []PauseAgrees
<1>1. Init => PauseInv
  BY PauseInit
<1>2. TypeOK /\ PauseInv /\ [Next]_vars => PauseInv'
  BY PauseStep
<1>3. PauseInv => PauseAgrees
  BY DEF PauseInv
<1> QED
  BY <1>1, <1>2, <1>3, TypeCorrect, PTL DEF Spec
-----------------------------------------------------------------------------
(* What is sent after a pause.                                             *)

\* A queue that has sent a frame since its pause is in txq_mask, and is not the
\* one whose frame the handler holds: it is not taken from again.
LateInv ==
  /\ hand # NoFrame => isr.at = "xmit"
  /\ \A i \in Queues : late[i] >= 1 => /\ late[i] = 1 /\ i \in txqMask
                                      /\ ~(hand # NoFrame /\ isr.q = i)

\* Every step of the handler but these leaves late and txq_mask alone, and a
\* step with a frame in hand stays at it or gives it up.
LEMMA LateIsr ==
  ASSUME TypeOK, PauseInv, LateInv, Isr PROVE LateInv'
<1>0. /\ isr \in IsrRecords /\ late \in [Queues -> Nat] /\ txqMask \subseteq paused
      /\ isr.q \in Queues
  BY TypeParts DEF IsrType, IsrRecords, LateType, PauseInv
<1>1. CASE IsrEnter \/ IsrMerge \/ IsrSetMask \/ IsrStatus \/ IsrRecheck \/ IsrClearMask
           \/ IsrAfter \/ IsrRx \/ IsrRxFails \/ IsrSkip \/ IsrRead \/ IsrReadFails \/ IsrInfo
           \/ XmitDone
  <2>1. hand = NoFrame
    BY <1>1 DEF LateInv, IsrEnter, IsrMerge, IsrSetMask, IsrStatus, IsrRecheck, IsrClearMask,
       IsrAfter, IsrRx, IsrRxFails, IsrSkip, IsrRead, IsrReadFails, IsrInfo, XmitDone
  <2>2. UNCHANGED <<hand, late, txqMask>>
    <3>1. CASE IsrEnter \/ IsrMerge \/ IsrSetMask \/ IsrStatus \/ IsrRecheck \/ IsrClearMask
      BY <3>1, Zenon DEF IsrEnter, IsrMerge, IsrSetMask, IsrStatus, IsrRecheck, IsrClearMask,
         pauseVars
    <3>2. CASE IsrAfter \/ IsrRx \/ IsrRxFails \/ IsrSkip \/ IsrRead \/ IsrReadFails
               \/ IsrInfo \/ XmitDone
      BY <3>2, Zenon DEF IsrAfter, IsrRx, IsrRxFails, IsrSkip, IsrRead, IsrReadFails, IsrInfo,
         XmitDone, isrOnly, pauseVars
    <3> QED
      BY <1>1, <3>1, <3>2, Zenon
  <2> QED
    BY <2>1, <2>2 DEF LateInv
<1>2. CASE XmitTake
  <2>1. /\ isr.q \notin paused /\ isr' = [isr EXCEPT !.left = @ - 1] /\ isr.at = "xmit"
        /\ UNCHANGED <<late, txqMask>>
    BY <1>2, Zenon DEF XmitTake, MayTake, pauseVars
  <2>2. isr'.q = isr.q /\ isr'.at = "xmit"
    BY <1>0, <2>1 DEF IsrRecords
  <2> QED
    BY <1>0, <2>1, <2>2 DEF LateInv
<1>3. CASE XmitDrop \/ XmitPutBack \/ XmitSendFails
  <2>1. hand' = NoFrame /\ UNCHANGED <<late, txqMask>>
    BY <1>3, Zenon DEF XmitDrop, XmitPutBack, XmitSendFails, pauseVars
  <2> QED
    BY <2>1 DEF LateInv
<1>4. CASE XmitSend
  <2>1. /\ hand # NoFrame /\ hand' = NoFrame /\ txqMask' = txqMask
        /\ late' = [late EXCEPT ![isr.q] = IF isr.q \in txqMask \cap halted THEN @ + 1 ELSE @]
    BY <1>4, Zenon DEF XmitSend, pauseVars
  <2>2. late[isr.q] = 0
    BY <1>0, <2>1 DEF LateInv
  <2> QED
    BY <1>0, <2>1, <2>2 DEF LateInv
<1> QED
  BY <1>1, <1>2, <1>3, <1>4 DEF Isr

LEMMA LateStep ==
  ASSUME TypeOK, PauseInv, LateInv, [Next]_vars
  PROVE  LateInv'
<1>1. CASE Isr
  BY <1>1, LateIsr
<1>2. CASE Chip \/ Work \/ UNCHANGED vars
  <2>1. UNCHANGED <<hand, isr, late, txqMask>>
    <3>1. CASE Chip
      BY <3>1, Zenon DEF Chip, ChipAccept, ChipSend, ChipRx, isrVars, pauseVars
    <3>2. CASE Work
      BY <3>2, Zenon DEF Work, ResetMask, ResetWait, StartMask, Claim, isrVars, pauseVars
    <3>3. CASE UNCHANGED vars
      BY <3>3, Zenon DEF vars, isrVars, pauseVars
    <3> QED
      BY <1>2, <3>1, <3>2, <3>3, Zenon
  <2> QED
    BY <2>1 DEF LateInv
<1>3. ASSUME NEW c \in Callers, Caller(c) PROVE LateInv'
  <2>1. ASSUME NEW m \in SUBSET Queues \ {{}}, PauseTake(c, m) PROVE LateInv'
    <3>1. txqMask' = txqMask \cup m /\ UNCHANGED <<hand, isr, late>>
      BY <2>1, Zenon DEF PauseTake, isrVars
    <3> QED
      BY <3>1 DEF LateInv
  <2>2. ASSUME NEW m \in SUBSET Queues \ {{}}, ResumeTake(c, m) PROVE LateInv'
    <3>1. /\ txqMask' = txqMask \ m /\ UNCHANGED <<hand, isr>>
          /\ late' = [i \in Queues |-> IF i \in m THEN 0 ELSE late[i]]
      BY <2>2, Zenon DEF ResumeTake, isrVars
    <3> QED
      BY <3>1 DEF LateInv
  <2>3. ASSUME \/ \E f \in Frames : Enqueue(c, f)
               \/ Trigger(c) \/ TriggerSetMask(c) \/ TriggerSignal(c)
               \/ PauseWrite(c) \/ ResumeWrite(c)
               \/ Stop(c) \/ StopWait(c) \/ Start(c) \/ StartMask(c) \/ Claim(c)
        PROVE  LateInv'
    <3>1. UNCHANGED <<hand, isr, late, txqMask>>
      BY <2>3, Zenon DEF Enqueue, Trigger, TriggerSetMask, TriggerSignal, PauseWrite,
         ResumeWrite, Stop, StopWait, Start, StartMask, Claim, isrVars, pauseVars
    <3> QED
      BY <3>1 DEF LateInv
  <2> QED
    BY <1>3, <2>1, <2>2, <2>3, Zenon DEF Caller
<1> QED
  BY <1>1, <1>2, <1>3, Zenon DEF Next

LEMMA LateInit == Init => LateInv
<1> SUFFICES ASSUME Init PROVE LateInv
  OBVIOUS
<1>1. hand = NoFrame /\ late = [i \in Queues |-> 0]
  BY Zenon DEF Init
<1> QED
  BY <1>1 DEF LateInv

\* PauseHolds: once a pause has returned, at most one more frame of the queue
\* goes to the bus, the one ssv6xxx_hci_xmit had looked at paused for.
THEOREM PauseTakesEffect == Spec => []PauseHolds
<1>1. TypeOK /\ LateInv => PauseHolds
  <2> SUFFICES ASSUME TypeOK, LateInv, NEW i \in Queues PROVE late[i] <= 1
    BY DEF PauseHolds
  <2>1. late[i] \in Nat
    BY TypeParts DEF LateType
  <2> QED
    BY <2>1 DEF LateInv
<1>2. Init => PauseInv /\ LateInv
  BY PauseInit, LateInit
<1>3. TypeOK /\ PauseInv /\ LateInv /\ [Next]_vars => PauseInv' /\ LateInv'
  BY PauseStep, LateStep
<1> QED
  BY <1>1, <1>2, <1>3, TypeCorrect, PTL DEF Spec
-----------------------------------------------------------------------------
(* Waking the handler.                                                     *)

\* A step of a caller or of the work moves that context alone.
LEMMA Moved ==
  ASSUME TypeOK, NEW c \in Ctx, NEW p, Goto(c, p)
  PROVE  pc'[c] = p /\ \A d \in Ctx : d # c => pc'[d] = pc[d]
  BY TypeParts DEF CtxType, Goto

LEMMA SeenStep ==
  ASSUME TypeOK, StatusSeen, [Next]_vars
  PROVE  StatusSeen'
<1>0. Callers \subseteq Ctx /\ "work" \notin Callers /\ isr \in IsrRecords
  BY TypeParts, HciAssumption DEF Ctx, IsrType
<1>1. CASE IsrEnter
  BY <1>0, <1>1 DEF IsrEnter, IsrAt, IsrRecords, StatusSeen
<1>2. CASE IsrMerge
  <2>1. intStatus' = FALSE
    BY <1>2 DEF IsrMerge
  <2> QED
    BY <2>1 DEF StatusSeen
<1>3. CASE Isr /\ ~IsrEnter /\ ~IsrMerge
  <2>1. isr.at # "merge" /\ UNCHANGED <<intStatus, signal, pc>>
    <3>1. CASE IsrSetMask \/ IsrStatus \/ IsrRecheck \/ IsrClearMask
      BY <3>1 DEF IsrSetMask, IsrStatus, IsrRecheck, IsrClearMask
    <3>2. CASE IsrAfter \/ IsrRx \/ IsrRxFails \/ IsrSkip \/ IsrRead \/ IsrReadFails
               \/ IsrInfo
      BY <3>2 DEF IsrAfter, IsrRx, IsrRxFails, IsrSkip, IsrRead, IsrReadFails, IsrInfo,
         isrOnly, irqVars
    <3>3. CASE XmitTake \/ XmitDone \/ XmitDrop \/ XmitPutBack \/ XmitSend \/ XmitSendFails
      BY <3>3 DEF XmitTake, XmitDone, XmitDrop, XmitPutBack, XmitSend, XmitSendFails,
         isrOnly, irqVars
    <3> QED
      BY <1>3, <3>1, <3>2, <3>3, Zenon DEF Isr
  <2> QED
    BY <2>1 DEF StatusSeen
<1>4. CASE Chip \/ UNCHANGED vars
  <2>1. UNCHANGED <<intStatus, signal, isr, pc>>
    BY <1>4, Zenon DEF Chip, ChipAccept, ChipSend, ChipRx, vars, irqVars, isrVars
  <2> QED
    BY <2>1 DEF StatusSeen
<1>5. ASSUME NEW c \in Ctx, pc[c] # "signal", UNCHANGED <<intStatus, signal, isr>>,
             NEW p, Goto(c, p)
      PROVE  StatusSeen'
  BY <1>0, <1>5, Moved DEF StatusSeen
<1>6. CASE Work
  <2>1. "work" \in Ctx
    BY DEF Ctx
  <2> QED
    BY <1>5, <1>6, <2>1 DEF Work, ResetMask, ResetWait, StartMask, Claim, irqVars, isrVars
<1>7. ASSUME NEW c \in Callers, Caller(c) PROVE StatusSeen'
  <2>0. c \in Ctx
    BY <1>0
  <2>1. CASE Trigger(c)
    <3>1. CASE UNCHANGED <<intStatus, signal, isr>> /\ \E p : Goto(c, p)
      BY <1>5, <2>0, <2>1, <3>1 DEF Trigger
    <3>2. CASE Goto(c, "signal")
      BY <2>0, <3>2, Moved DEF StatusSeen
    <3> QED
      BY <2>1, <3>1, <3>2, Zenon DEF Trigger, isrVars
  <2>2. CASE TriggerSignal(c)
    BY <2>2 DEF TriggerSignal, StatusSeen
  <2>3. CASE \/ \E f \in Frames : Enqueue(c, f)
             \/ TriggerSetMask(c) \/ PauseWrite(c) \/ ResumeWrite(c)
             \/ \E m \in SUBSET Queues \ {{}} : PauseTake(c, m) \/ ResumeTake(c, m)
    BY <1>5, <2>0, <2>3 DEF Enqueue, TriggerSetMask, PauseWrite, ResumeWrite, PauseTake,
       ResumeTake, Operation, irqVars, isrVars
  <2>4. CASE Stop(c) \/ StopWait(c) \/ Start(c) \/ StartMask(c) \/ Claim(c)
    BY <1>5, <2>0, <2>4 DEF Stop, StopWait, Start, StartMask, Claim, Operation, irqVars,
       isrVars
  <2> QED
    BY <1>7, <2>1, <2>2, <2>3, <2>4, Zenon DEF Caller
<1> QED
  BY <1>1, <1>2, <1>3, <1>4, <1>6, <1>7, Zenon DEF Next

\* StatusSeen: the RESOURCE_LOW that ssv6xxx_hci_trigger_tx leaves in
\* int_status is never left there with nobody to see it.
THEOREM StatusIsSeen == Spec => []StatusSeen
<1>1. Init => StatusSeen
  BY Zenon DEF Init, StatusSeen
<1>2. TypeOK /\ StatusSeen /\ [Next]_vars => StatusSeen'
  BY SeenStep
<1> QED
  BY <1>1, <1>2, TypeCorrect, PTL DEF Spec

\* The handler looks for frames only while it wants RESOURCE_LOW, which it
\* alone masks.
ArmedInv ==
  /\ Armed
  /\ isr.at \in {"queue", "info", "xmit", "recheck"} => "low" \in intMask

\* A context that is not about to trigger moves, and no queue gets a frame or
\* is resumed, and nothing is masked.
LEMMA ArmedQuiet ==
  ASSUME TypeOK, ArmedInv, UNCHANGED <<q, isr>>, paused \subseteq paused',
         "low" \in intMask => "low" \in intMask', intStatus => intStatus' \/ "low" \in intMask',
         \A c \in Callers : pc[c] = "trigger" => pc'[c] = "trigger"
  PROVE  ArmedInv'
  BY DEF ArmedInv, Armed

LEMMA ArmedCaller ==
  ASSUME TypeOK, ArmedInv, NEW c \in Callers, Caller(c)
  PROVE  ArmedInv'
<1>0. Callers \subseteq Ctx /\ c \in Ctx
  BY DEF Ctx
\* What every case but the first needs: the pc of the others.
<1>1. ASSUME NEW p, Goto(c, p), pc[c] # "trigger"
      PROVE  \A d \in Callers : pc[d] = "trigger" => pc'[d] = "trigger"
  BY <1>0, <1>1, Moved
<1>2. ASSUME Goto(c, "trigger"), UNCHANGED <<isr, intMask>> PROVE ArmedInv'
  <2>1. pc'[c] = "trigger"
    BY <1>0, <1>2, Moved
  <2> QED
    BY <1>2, <2>1 DEF ArmedInv, Armed
<1>3. CASE Trigger(c)
  <2>1. isr' = isr /\ ("low" \in intMask => "low" \in intMask')
    BY <1>3, Zenon DEF Trigger, isrVars
  <2>2. "low" \in intMask' \/ intStatus'
    BY <1>3 DEF Trigger
  <2> QED
    BY <2>1, <2>2 DEF ArmedInv, Armed
<1>4. CASE (\E f \in Frames : Enqueue(c, f)) \/ ResumeWrite(c)
  <2>1. Goto(c, "trigger") /\ UNCHANGED <<isr, intMask>>
    BY <1>4, Zenon DEF Enqueue, ResumeWrite, irqVars, isrVars
  <2> QED
    BY <1>2, <2>1
<1>5. CASE TriggerSetMask(c) \/ TriggerSignal(c) \/ PauseWrite(c)
           \/ \E m \in SUBSET Queues \ {{}} : PauseTake(c, m) \/ ResumeTake(c, m)
  <2>1. UNCHANGED <<q, isr, intMask, intStatus>>
    BY <1>5, Zenon DEF TriggerSetMask, TriggerSignal, PauseWrite, PauseTake, ResumeTake,
       queueVars, irqVars, isrVars
  <2>2. paused \subseteq paused'
    BY <1>5 DEF TriggerSetMask, TriggerSignal, PauseWrite, PauseTake, ResumeTake, pauseVars
  <2>3. \A d \in Callers : pc[d] = "trigger" => pc'[d] = "trigger"
    BY <1>1, <1>5 DEF TriggerSetMask, TriggerSignal, PauseWrite, PauseTake, ResumeTake,
       Operation
  <2> QED
    BY <2>1, <2>2, <2>3, ArmedQuiet
<1>6. CASE Stop(c) \/ StopWait(c) \/ Start(c) \/ StartMask(c) \/ Claim(c)
  <2>1. UNCHANGED <<q, isr, intMask, intStatus, paused>>
    BY <1>6, Zenon DEF Stop, StopWait, Start, StartMask, Claim, queueVars, pauseVars, irqVars,
       isrVars
  <2>2. \A d \in Callers : pc[d] = "trigger" => pc'[d] = "trigger"
    BY <1>1, <1>6 DEF Stop, StopWait, Start, StartMask, Claim, Operation
  <2> QED
    BY <2>1, <2>2, ArmedQuiet
<1> QED
  BY <1>3, <1>4, <1>5, <1>6, Zenon DEF Caller

LEMMA ArmedIsr ==
  ASSUME TypeOK, ArmedInv, Isr
  PROVE  ArmedInv'
<1> DEFINE Wanting == {"queue", "info", "xmit", "recheck"}
<1>0. /\ isr \in IsrRecords /\ isr.q \in Queues /\ q \in [Queues -> Seq(Frames)]
      /\ intMask \subseteq Ints
  BY TypeParts DEF IsrType, QueueType, IrqType, IsrRecords
<1>a. UNCHANGED <<paused, pc>>
  <2>1. CASE IsrEnter \/ IsrMerge \/ IsrSetMask \/ IsrStatus \/ IsrRecheck \/ IsrClearMask
    BY <2>1, Zenon DEF IsrEnter, IsrMerge, IsrSetMask, IsrStatus, IsrRecheck, IsrClearMask,
       pauseVars
  <2>2. CASE IsrAfter \/ IsrRx \/ IsrRxFails \/ IsrSkip \/ IsrRead \/ IsrReadFails \/ IsrInfo
    BY <2>2, Zenon DEF IsrAfter, IsrRx, IsrRxFails, IsrSkip, IsrRead, IsrReadFails, IsrInfo,
       isrOnly, pauseVars
  <2>3. CASE XmitTake \/ XmitDone \/ XmitDrop \/ XmitPutBack \/ XmitSend \/ XmitSendFails
    BY <2>3, Zenon DEF XmitTake, XmitDone, XmitDrop, XmitPutBack, XmitSend, XmitSendFails,
       isrOnly, pauseVars
  <2> QED
    BY <2>1, <2>2, <2>3, Zenon DEF Isr
\* Steps that change neither the queues nor the mask.
<1>1. ASSUME UNCHANGED <<q, intMask, intStatus>>,
             isr'.at \in Wanting => isr.at \in Wanting \/ "low" \in intMask
      PROVE  ArmedInv'
  BY <1>a, <1>1 DEF ArmedInv, Armed
<1>2. CASE IsrEnter \/ IsrSetMask \/ IsrClearMask \/ IsrAfter \/ IsrRx \/ IsrRxFails
  <2>1. UNCHANGED <<q, intMask, intStatus>>
    BY <1>2, Zenon DEF IsrEnter, IsrSetMask, IsrClearMask, IsrAfter, IsrRx, IsrRxFails,
       queueVars, irqVars
  <2>2. isr'.at \notin Wanting
    BY <1>0, <1>2 DEF IsrEnter, IsrSetMask, IsrClearMask, IsrAfter, IsrRx, IsrRxFails, IsrAt,
       IsrRecords, Idle
  <2> QED
    BY <1>1, <2>1, <2>2
<1>3. CASE IsrSkip \/ IsrRead \/ IsrReadFails \/ IsrInfo \/ XmitDone \/ XmitDrop \/ XmitSend
  <2>1. UNCHANGED <<q, intMask, intStatus>>
    BY <1>3, Zenon DEF IsrSkip, IsrRead, IsrReadFails, IsrInfo, XmitDone, XmitDrop, XmitSend,
       isrOnly, queueVars, irqVars
  <2>2. isr.at \in Wanting
    BY <1>3 DEF IsrSkip, IsrRead, IsrReadFails, IsrInfo, XmitDone, XmitDrop, XmitSend
  <2> QED
    BY <1>1, <2>1, <2>2
<1>4. CASE IsrStatus
  <2>1. UNCHANGED <<q, intMask, intStatus>>
    BY <1>4, Zenon DEF IsrStatus, queueVars
  <2>2. isr'.at \in Wanting => "low" \in intMask
    <3>1. ASSUME NEW st, isr' = [Idle EXCEPT !.at = Part(st), !.q = Mgmt, !.status = st]
          PROVE  isr'.at = Part(st)
      BY <3>1 DEF Idle
    <3>2. Idle.at \notin Wanting /\ \A st : "low" \notin st => Part(st) \notin Wanting
      BY DEF Idle, Part
    <3> QED
      BY <1>4, <3>1, <3>2 DEF IsrStatus
  <2> QED
    BY <1>1, <2>1, <2>2
<1>5. CASE IsrMerge
  <2>1. isr'.at \notin Wanting
    BY <1>0, <1>5 DEF IsrMerge, IsrAt, IsrRecords
  <2>2. q' = q /\ ("low" \in intMask \/ intStatus => "low" \in intMask' \/ intStatus')
    BY <1>5 DEF IsrMerge, queueVars
  <2> QED
    BY <1>a, <2>1, <2>2 DEF ArmedInv, Armed
<1>6. CASE IsrRecheck
  <2>1. q' = q /\ intStatus' = intStatus
    BY <1>6, Zenon DEF IsrRecheck, queueVars
  <2>2. isr'.at \notin Wanting
    BY <1>0, <1>6 DEF IsrRecheck, IsrAt, IsrRecords
  <2>3. CASE FrameSend
    <3>1. intMask' = intMask
      BY <1>6, <2>3 DEF IsrRecheck
    <3> QED
      BY <1>1, <2>1, <2>2, <3>1
  <2>4. CASE ~FrameSend
    <3>1. \A i \in Queues : i \notin paused => q[i] = <<>>
      <4> SUFFICES ASSUME NEW i \in Queues, i \notin paused PROVE q[i] = <<>>
        OBVIOUS
      <4>1. q[i] \in Seq(Frames)
        BY <1>0
      <4>2. ~(Len(q[i]) > 0)
        BY <2>4 DEF FrameSend
      <4> QED
        BY <4>1, <4>2, EmptySeq, LenProperties
    <3> QED
      BY <1>a, <2>1, <2>2, <3>1 DEF ArmedInv, Armed
  <2> QED
    BY <2>3, <2>4
\* At "xmit" the handler wants RESOURCE_LOW already.
<1>7. CASE XmitTake \/ XmitPutBack \/ XmitSendFails
  <2>1. isr.at \in Wanting /\ UNCHANGED <<intMask, intStatus>>
    BY <1>7 DEF XmitTake, XmitPutBack, XmitSendFails, irqVars
  <2> QED
    BY <2>1 DEF ArmedInv, Armed
<1> QED
  BY <1>2, <1>3, <1>4, <1>5, <1>6, <1>7, Zenon DEF Isr

LEMMA ArmedStep ==
  ASSUME TypeOK, ArmedInv, [Next]_vars
  PROVE  ArmedInv'
<1>1. CASE Chip \/ UNCHANGED vars
  <2>1. UNCHANGED <<q, isr, paused, intMask, intStatus, pc>>
    BY <1>1, Zenon DEF Chip, ChipAccept, ChipSend, ChipRx, vars, queueVars, pauseVars, irqVars,
       isrVars
  <2> QED
    BY <2>1, ArmedQuiet
<1>2. CASE Work
  <2>1. UNCHANGED <<q, isr, paused, intMask, intStatus>>
    BY <1>2, Zenon DEF Work, ResetMask, ResetWait, StartMask, Claim, queueVars, pauseVars,
       irqVars, isrVars
  <2>2. \E p : Goto("work", p)
    BY <1>2 DEF Work, ResetMask, ResetWait, StartMask, Claim
  <2>3. \A c \in Callers : pc'[c] = pc[c]
    BY <2>2, Moved, HciAssumption DEF Ctx
  <2> QED
    BY <2>1, <2>3, ArmedQuiet
<1> QED
  BY <1>1, <1>2, ArmedCaller, ArmedIsr, Zenon DEF Next

LEMMA ArmedInit == Init => ArmedInv
<1> SUFFICES ASSUME Init PROVE ArmedInv
  OBVIOUS
<1>1. isr = Idle /\ intMask = {"rx", "low"}
  BY Zenon DEF Init
<1> QED
  BY <1>1 DEF ArmedInv, Armed, Idle

\* Armed: no wakeup is lost between ssv6xxx_hci_trigger_tx and the end of
\* _do_tx, which looks at the queues once more before it masks RESOURCE_LOW.
THEOREM NoWakeupLost == Spec => []Armed
<1>1. ArmedInv => Armed
  BY DEF ArmedInv
<1>2. TypeOK /\ ArmedInv /\ [Next]_vars => ArmedInv'
  BY ArmedStep
<1> QED
  BY <1>1, <1>2, ArmedInit, TypeCorrect, PTL DEF Spec
-----------------------------------------------------------------------------
(* What the chip can take.                                                 *)

InHand == IF hand = NoFrame THEN 0 ELSE 1

\* While the handler sends on one reading of the counters, what it takes to be
\* free is free: the chip can only have gained since.
ChipInv ==
  /\ ChipFits
  /\ hand # NoFrame => isr.at = "xmit"
  /\ isr.at \in {"info", "xmit"} => /\ isr.free.page + used.page <= PageMax
                                    /\ isr.free.id + used.id <= IdMax
                                    /\ isr.left + Len(chipIn) + InHand <= InMax
  /\ isr.at = "info" => isr.free.page >= 0 /\ isr.free.id >= 0

LEMMA ChipSpace ==
  ASSUME TypeOK
  PROVE  /\ chipIn \in Seq(Frames) /\ Len(chipIn) \in Nat
         /\ used \in [page : Int, id : Int] /\ used.page \in Int /\ used.id \in Int
         /\ isr \in IsrRecords /\ isr.q \in Queues /\ isr.left \in Nat
         /\ isr.free.page \in Int /\ isr.free.id \in Int /\ isr.free.out \in Int
         /\ PageMax \in Nat /\ IdMax \in Nat /\ InMax \in Nat
  BY TypeParts, HciAssumption, LenProperties DEF ChipType, IsrType, IsrRecords

\* Taking n of the fr that are free, with u of max used; putting n of them back.
LEMMA Taking ==
  \A u, fr \in Int : \A n, max \in Nat :
    n <= fr /\ fr + u <= max => u + n <= max /\ (fr - n) + (u + n) <= max
  OBVIOUS

LEMMA Freeing ==
  \A u, v \in Int : \A max \in Nat : v <= u /\ u <= max => v <= max
  OBVIOUS

LEMMA FreeingSum ==
  \A u, v, fr \in Int : \A max \in Nat : v <= u /\ fr + u <= max => fr + v <= max
  OBVIOUS

LEMMA ChipMoves ==
  ASSUME TypeOK, ChipInv, Chip
  PROVE  ChipInv'
<1>1. UNCHANGED <<isr, hand>>
  BY Zenon DEF Chip, ChipAccept, ChipSend, ChipRx, isrVars
<1>2. CASE ChipAccept
  <2>1. chipIn # <<>> /\ chipIn' = Tail(chipIn) /\ used' = used
    BY <1>2, Zenon DEF ChipAccept
  <2>2. Len(chipIn') = Len(chipIn) - 1
    BY <2>1, ChipSpace, HeadTailProperties
  <2>3. InHand' = InHand /\ isr' = isr /\ hand' = hand
    BY <1>1 DEF InHand
  <2>4. Len(chipIn) \in Int /\ Len(chipIn') \in Int /\ Len(chipIn') <= Len(chipIn)
    BY <2>2, ChipSpace
  <2>5. Len(chipIn') <= InMax
    <3>1. Len(chipIn) <= InMax /\ InMax \in Nat
      BY ChipSpace DEF ChipInv, ChipFits
    <3> QED
      BY <2>4, <3>1, Freeing, Zenon
  <2>6. isr.at \in {"info", "xmit"} => isr.left + Len(chipIn') + InHand <= InMax
    <3> DEFINE l == isr.left
               h == InHand
    <3>1. l \in Nat /\ h \in Nat /\ InMax \in Nat
      BY ChipSpace DEF InHand
    <3>2. isr.at \in {"info", "xmit"} => l + Len(chipIn) + h <= InMax
      BY Zenon DEF ChipInv
    <3> HIDE DEF l, h
    <3>3. isr.at \in {"info", "xmit"} => l + Len(chipIn') + h <= InMax
      BY <2>4, <3>1, <3>2
    <3> QED
      BY <3>3, Zenon DEF l, h
  <2> QED
    BY <2>1, <2>3, <2>5, <2>6, Zenon DEF ChipInv, ChipFits
<1>3. ASSUME NEW i \in Queues, ChipSend(i) PROVE ChipInv'
  <2>1. /\ chipOut[i] # <<>> /\ chipIn' = chipIn
        /\ used' = [page |-> used.page - Pages[Head(chipOut[i])], id |-> used.id - 1]
    BY <1>3, Zenon DEF ChipSend
  <2>2. Pages[Head(chipOut[i])] \in Nat
    <3>1. chipOut[i] \in Seq(Frames)
      BY TypeParts DEF ChipType
    <3>2. Head(chipOut[i]) \in Frames
      BY <2>1, <3>1, HeadTailProperties
    <3> QED
      BY <3>2, FrameFacts
  <2>3. used'.page <= used.page /\ used'.id <= used.id /\ used'.page \in Int /\ used'.id \in Int
    <3>1. used'.page = used.page - Pages[Head(chipOut[i])] /\ used'.id = used.id - 1
      BY <2>1
    <3>2. used.page \in Int /\ used.id \in Int
      BY ChipSpace
    <3> QED
      BY <2>2, <3>1, <3>2
  <2>4. isr' = isr /\ InHand' = InHand /\ hand' = hand /\ chipIn' = chipIn
    BY <1>1, <2>1 DEF InHand
  <2>5. /\ used.page \in Int /\ used.id \in Int /\ PageMax \in Nat /\ IdMax \in Nat
        /\ isr.free.page \in Int /\ isr.free.id \in Int
    BY ChipSpace
  <2>6. ChipFits'
    <3>1. used.page <= PageMax /\ used.id <= IdMax /\ Len(chipIn) <= InMax
      BY DEF ChipInv, ChipFits
    <3>2. used'.page <= PageMax /\ used'.id <= IdMax
      BY <2>3, <2>5, <3>1, Freeing, Zenon
    <3> QED
      BY <2>4, <3>1, <3>2 DEF ChipFits
  <2>7. isr.at \in {"info", "xmit"} => /\ isr.free.page + used'.page <= PageMax
                                      /\ isr.free.id + used'.id <= IdMax
    <3>1. isr.at \in {"info", "xmit"} => /\ isr.free.page + used.page <= PageMax
                                        /\ isr.free.id + used.id <= IdMax
      BY Zenon DEF ChipInv
    <3>2. isr.at \in {"info", "xmit"} => isr.free.page + used'.page <= PageMax
      BY <2>3, <2>5, <3>1, FreeingSum, Zenon
    <3>3. isr.at \in {"info", "xmit"} => isr.free.id + used'.id <= IdMax
      BY <2>3, <2>5, <3>1, FreeingSum, Zenon
    <3> QED
      BY <3>2, <3>3, Zenon
  <2> QED
    BY <2>4, <2>6, <2>7 DEF ChipInv
<1>4. CASE ChipRx
  <2>1. UNCHANGED <<chipIn, used>>
    BY <1>4, Zenon DEF ChipRx
  <2> QED
    BY <1>1, <2>1 DEF ChipInv, ChipFits, InHand
<1> QED
  BY <1>2, <1>3, <1>4 DEF Chip

LEMMA ChipIsr ==
  ASSUME "read" \notin Events, TypeOK, ChipInv, Isr
  PROVE  ChipInv'
<1> DEFINE Looking == {"info", "xmit"}
<1>0. ~IsrReadFails
  BY DEF IsrReadFails, Event
\* The handler does not look at a queue: nothing of the chip changes.
<1>1. CASE IsrEnter \/ IsrMerge \/ IsrSetMask \/ IsrStatus \/ IsrRecheck \/ IsrClearMask
           \/ IsrAfter \/ IsrRx \/ IsrRxFails
  <2>1. UNCHANGED <<hand, chipIn, used>>
    BY <1>1, Zenon DEF IsrEnter, IsrMerge, IsrSetMask, IsrStatus, IsrRecheck, IsrClearMask,
       IsrAfter, IsrRx, IsrRxFails, chipVars
  <2>2. isr.at # "xmit"
    BY <1>1 DEF IsrEnter, IsrMerge, IsrSetMask, IsrStatus, IsrRecheck, IsrClearMask,
       IsrAfter, IsrRx, IsrRxFails
  <2>3. isr'.at \notin Looking
    <3>1. CASE IsrStatus
      BY <3>1 DEF IsrStatus, Idle, Part
    <3>2. CASE IsrEnter \/ IsrMerge \/ IsrSetMask \/ IsrRecheck \/ IsrClearMask
      BY <3>2, ChipSpace DEF IsrEnter, IsrMerge, IsrSetMask, IsrRecheck, IsrClearMask, IsrAt,
         IsrRecords
    <3>3. CASE IsrAfter \/ IsrRx \/ IsrRxFails
      BY <3>3, ChipSpace DEF IsrAfter, IsrRx, IsrRxFails, Idle, IsrRecords
    <3> QED
      BY <1>1, <3>1, <3>2, <3>3, Zenon
  <2> QED
    BY <2>1, <2>2, <2>3 DEF ChipInv, ChipFits
\* It is done with the queue.
<1>2. CASE IsrSkip \/ XmitDone \/ XmitDrop \/ XmitPutBack \/ XmitSendFails
  <2>1. UNCHANGED <<chipIn, used>>
    BY <1>2, Zenon DEF IsrSkip, XmitDone, XmitDrop, XmitPutBack, XmitSendFails, isrOnly, chipVars
  <2>2. hand' = NoFrame
    BY <1>2 DEF IsrSkip, XmitDone, XmitDrop, XmitPutBack, XmitSendFails, isrOnly, ChipInv
  <2>3. isr'.at \notin Looking
    <3>1. ASSUME NEW i \in IsrRecords PROVE Following(i).at \notin Looking
      BY <3>1 DEF Following, IsrRecords
    <3>2. [isr EXCEPT !.fail = TRUE] \in IsrRecords
      BY ChipSpace DEF IsrRecords
    <3>3. isr' = Following(isr) \/ isr' = Following([isr EXCEPT !.fail = TRUE])
      BY <1>2, Zenon DEF IsrSkip, XmitDone, XmitDrop, XmitPutBack, XmitSendFails
    <3> QED
      BY <3>1, <3>2, <3>3, ChipSpace, Zenon
  <2> QED
    BY <2>1, <2>2, <2>3 DEF ChipInv, ChipFits
<1>3. CASE IsrRead
  <2>1. /\ isr' = [isr EXCEPT !.at = "info", !.free = FreeNow, !.left = InMax - Len(chipIn)]
        /\ hand' = hand /\ chipIn' = chipIn /\ used' = used /\ isr.at = "queue"
    BY <1>3, Zenon DEF IsrRead, isrOnly, chipVars
  <2>2. /\ isr'.at = "info" /\ isr'.left = InMax - Len(chipIn)
        /\ isr'.free.page = PageMax - used.page /\ isr'.free.id = IdMax - used.id
    BY <2>1, ChipSpace DEF IsrRecords, FreeNow
  <2>3. hand' = NoFrame /\ InHand' = 0
    BY <2>1 DEF ChipInv, InHand
  <2>4. used.page <= PageMax /\ used.id <= IdMax /\ Len(chipIn) <= InMax
    BY DEF ChipInv, ChipFits
  <2>5. /\ PageMax - used.page >= 0 /\ (PageMax - used.page) + used.page <= PageMax
        /\ IdMax - used.id >= 0 /\ (IdMax - used.id) + used.id <= IdMax
        /\ (InMax - Len(chipIn)) + Len(chipIn) + 0 <= InMax
    <3> DEFINE p == used.page
               d == used.id
               n == Len(chipIn)
    <3>1. /\ p \in Int /\ d \in Int /\ n \in Int /\ PageMax \in Int /\ IdMax \in Int
          /\ InMax \in Int /\ p <= PageMax /\ d <= IdMax
      BY <2>4, ChipSpace
    <3> HIDE DEF p, d, n
    <3>2. /\ PageMax - p >= 0 /\ (PageMax - p) + p <= PageMax
          /\ IdMax - d >= 0 /\ (IdMax - d) + d <= IdMax
          /\ (InMax - n) + n + 0 <= InMax
      BY <3>1
    <3> QED
      BY <3>2, Zenon DEF p, d, n
  <2> QED
    BY <2>1, <2>2, <2>3, <2>4, <2>5 DEF ChipInv, ChipFits
<1>4. CASE IsrInfo
  <2>1. IsrAt("queue") \/ IsrAt("xmit")
    BY <1>4, Zenon DEF IsrInfo
  <2>2. isr.at = "info" /\ UNCHANGED <<hand, chipIn, used>>
    BY <1>4, Zenon DEF IsrInfo, isrOnly, chipVars
  <2>3. isr'.at \in {"queue", "xmit"} /\ isr'.free = isr.free /\ isr'.left = isr.left
    BY <2>1, ChipSpace DEF IsrAt, IsrRecords
  <2> QED
    BY <2>2, <2>3 DEF ChipInv, ChipFits, InHand
<1>5. CASE XmitTake
  <2>1. /\ isr.at = "xmit" /\ hand = NoFrame /\ isr' = [isr EXCEPT !.left = @ - 1]
        /\ chipIn' = chipIn /\ used' = used
    BY <1>5, Zenon DEF XmitTake, chipVars
  <2>2. isr'.at = "xmit" /\ isr'.free = isr.free /\ isr'.left = isr.left - 1
    BY <2>1, ChipSpace DEF IsrRecords
  <2>3. isr.left + Len(chipIn) <= InMax
    BY <2>1, ChipSpace DEF ChipInv, InHand
  <2>4. isr'.left + Len(chipIn') + InHand' <= InMax
    BY <2>1, <2>2, <2>3, ChipSpace DEF InHand
  <2> QED
    BY <2>1, <2>2, <2>4 DEF ChipInv, ChipFits
<1>6. CASE XmitSend
  <2>1. /\ isr.at = "xmit" /\ hand # NoFrame /\ Fits(hand) /\ hand' = NoFrame
        /\ chipIn' = Append(chipIn, hand)
        /\ used' = [page |-> used.page + Pages[hand], id |-> used.id + 1]
        /\ isr' = [isr EXCEPT !.free = [page |-> isr.free.page - Pages[hand],
                                        id |-> isr.free.id - 1,
                                        out |-> isr.free.out - 1]]
    BY <1>6, Zenon DEF XmitSend
  <2>2. hand \in Frames /\ Pages[hand] \in Nat
    <3>1. hand \in Frames
      BY <2>1, TypeParts DEF IsrType
    <3> QED
      BY <3>1, FrameFacts
  <2>3. Len(chipIn') = Len(chipIn) + 1
    BY <2>1, <2>2, ChipSpace, AppendProperties
  <2>4. /\ isr'.at = "xmit" /\ isr'.left = isr.left
        /\ isr'.free.page = isr.free.page - Pages[hand] /\ isr'.free.id = isr.free.id - 1
    BY <2>1, ChipSpace DEF IsrRecords
  <2>5. used'.page = used.page + Pages[hand] /\ used'.id = used.id + 1
    BY <2>1
  <2>6. Pages[hand] <= isr.free.page /\ isr.free.id > 0
    BY <2>1 DEF Fits
  <2>7. /\ isr.free.page + used.page <= PageMax /\ isr.free.id + used.id <= IdMax
        /\ isr.left + Len(chipIn) + 1 <= InMax
    BY <2>1 DEF ChipInv, InHand
  <2>8. /\ used.page \in Int /\ used.id \in Int /\ Len(chipIn) \in Nat /\ isr.left \in Nat
        /\ isr.free.page \in Int /\ isr.free.id \in Int
        /\ PageMax \in Nat /\ IdMax \in Nat /\ InMax \in Nat
    BY ChipSpace
  <2>9. used'.page <= PageMax /\ isr'.free.page + used'.page <= PageMax
    <3>1. /\ used.page + Pages[hand] <= PageMax
          /\ (isr.free.page - Pages[hand]) + (used.page + Pages[hand]) <= PageMax
      BY <2>2, <2>6, <2>7, <2>8, Taking, Zenon
    <3> QED
      BY <2>4, <2>5, <3>1, Zenon
  <2>10. used'.id <= IdMax /\ isr'.free.id + used'.id <= IdMax
    <3>1. used.id + 1 <= IdMax /\ (isr.free.id - 1) + (used.id + 1) <= IdMax
      <4>1. 1 <= isr.free.id /\ 1 \in Nat
        BY <2>6, <2>8
      <4> QED
        BY <2>7, <2>8, <4>1, Taking, Zenon
    <3> QED
      BY <2>4, <2>5, <3>1, Zenon
  <2>11. Len(chipIn') <= InMax /\ isr'.left + Len(chipIn') + InHand' <= InMax
    <3>1. InHand' = 0
      BY <2>1 DEF InHand
    <3>2. Len(chipIn) + 1 <= InMax /\ isr.left + (Len(chipIn) + 1) + 0 <= InMax
      <4> DEFINE l == isr.left
                 n == Len(chipIn)
      <4>1. l \in Nat /\ n \in Nat /\ l + n + 1 <= InMax /\ InMax \in Nat
        BY <2>7, <2>8
      <4> HIDE DEF l, n
      <4>2. n + 1 <= InMax /\ l + (n + 1) + 0 <= InMax
        BY <4>1
      <4> QED
        BY <4>2, Zenon DEF l, n
    <3> QED
      BY <2>3, <2>4, <3>1, <3>2, Zenon
  <2> QED
    BY <2>1, <2>4, <2>9, <2>10, <2>11 DEF ChipInv, ChipFits
<1> QED
  BY <1>0, <1>1, <1>2, <1>3, <1>4, <1>5, <1>6, Zenon DEF Isr

LEMMA ChipStep ==
  ASSUME "read" \notin Events, TypeOK, ChipInv, [Next]_vars
  PROVE  ChipInv'
<1>1. CASE Work \/ (\E c \in Callers : Caller(c)) \/ UNCHANGED vars
  <2>1. UNCHANGED <<isr, hand, chipIn, used>>
    <3>1. CASE Work \/ UNCHANGED vars
      BY <3>1, Zenon DEF Work, ResetMask, ResetWait, StartMask, Claim, vars, isrVars, chipVars
    <3>2. ASSUME NEW c \in Callers, Caller(c) PROVE UNCHANGED <<isr, hand, chipIn, used>>
      BY <3>2, Zenon DEF Caller, Enqueue, Trigger, TriggerSetMask, TriggerSignal, PauseTake,
         PauseWrite, ResumeTake, ResumeWrite, Stop, StopWait, Start, StartMask, Claim, isrVars,
         chipVars
    <3> QED
      BY <1>1, <3>1, <3>2, Zenon
  <2> QED
    BY <2>1 DEF ChipInv, ChipFits, InHand
<1> QED
  BY <1>1, ChipMoves, ChipIsr, Zenon DEF Next

LEMMA ChipInit == Init => ChipInv
<1> SUFFICES ASSUME Init PROVE ChipInv
  OBVIOUS
<1>1. isr = Idle /\ hand = NoFrame /\ chipIn = <<>> /\ used = Full
  BY Zenon DEF Init
<1>2. Len(chipIn) = 0
  BY <1>1, EmptySeq
<1> QED
  BY <1>1, <1>2, HciAssumption DEF ChipInv, ChipFits, Idle, Full

\* ChipFits: as long as reading the chip's counters succeeds, the handler never
\* gives the chip more pages, ids or frames than it has, however many frames it
\* sends on one reading (ssv6xxx_hci_tx_handler, ssv6xxx_hci_xmit).
THEOREM ChipNotOverrun == ASSUME "read" \notin Events PROVE Spec => []ChipFits
<1>1. ChipInv => ChipFits
  BY DEF ChipInv
<1>2. TypeOK /\ ChipInv /\ [Next]_vars => ChipInv'
  BY ChipStep
<1> QED
  BY <1>1, <1>2, ChipInit, TypeCorrect, PTL DEF Spec

\* InfoInRange: as long as reading succeeds, the BUG_ONs of
\* ssv6xxx_hci_tx_handler on the counters it has read never fire.
THEOREM CountersInRange == ASSUME "read" \notin Events PROVE Spec => []InfoInRange
<1>1. ChipInv => InfoInRange
  BY DEF ChipInv, InfoInRange
<1>2. TypeOK /\ ChipInv /\ [Next]_vars => ChipInv'
  BY ChipStep
<1> QED
  BY <1>1, <1>2, ChipInit, TypeCorrect, PTL DEF Spec
-----------------------------------------------------------------------------
(* The mask in the chip.                                                   *)

\* The layer is started by one context and not stopped, and no transfer
\* fails: nothing but the trigger and the handler writes the chip's mask
\* once the interrupt is claimed.
MaskAssumption ==
  /\ \A c \in Callers : "stop" \notin MayDo[c]
  /\ \A c, d \in Callers : "start" \in MayDo[c] /\ "start" \in MayDo[d] => c = d
  /\ "bus" \notin Events /\ "rxfail" \notin Events

\* No reset comes.  Until the interrupt is claimed int_mask is as it was, so
\* that ssv6xxx_hci_irq_enable writes what it has read.  Then the chip's mask
\* is written under hci_mutex, with the int_mask it was locked for.
MaskQuiet ==
  /\ reset = FALSE /\ isr.fail = FALSE /\ pc["work"] = "idle"
  /\ \A c \in Callers : pc[c] # "stopping"
MaskStart ==
  /\ claimed = started
  /\ claimed = FALSE => isr.at = "idle" /\ "low" \in intMask
  /\ \A c \in Callers :
       /\ pc[c] = "setmask" => claimed = TRUE
       /\ pc[c] \in {"starting", "claiming"} => claimed = FALSE /\ "start" \in MayDo[c]
       /\ pc[c] = "starting" => regval[c] = intMask
       /\ pc[c] = "claiming" => hwMask = intMask
MaskHeld ==
  /\ \A c \in Callers : pc[c] = "setmask" => hciMutex = c /\ regval[c] = intMask
  /\ isr.at \in {"setmask", "status", "clearmask"} => hciMutex = "isr"
  /\ isr.at \in {"setmask", "clearmask"} => regval["isr"] = intMask
MaskInv == MaskQuiet /\ MaskStart /\ MaskHeld /\ MaskWritten

\* Where a context, or the handler, is not about to write.
Aside(p) == p \notin {"setmask", "stopping", "starting", "claiming"}
IsrAside(p) == p \notin {"setmask", "status", "clearmask"}

LEMMA MaskTypes ==
  ASSUME TypeOK
  PROVE  /\ pc \in [Ctx -> CallerPcs] /\ regval \in [Ctx \cup {"isr"} -> SUBSET Ints]
         /\ isr \in IsrRecords /\ claimed \in BOOLEAN /\ started \in BOOLEAN /\ reset \in BOOLEAN
         /\ Callers \subseteq Ctx /\ "work" \in Ctx /\ "work" \notin Callers
         /\ None \notin Callers /\ "isr" \notin Callers /\ "isr" \notin Ctx /\ None # "isr"
  BY TypeParts, HciAssumption DEF CtxType, IsrType, IrqType, Ctx, None

\* A step that writes nothing and that no context, and not the handler, leaves
\* or enters a place of writing with.
LEMMA MaskAside ==
  ASSUME TypeOK, MaskInv,
         UNCHANGED <<intMask, hwMask, claimed, hciMutex, started, regval>>,
         reset' = FALSE, isr'.fail = FALSE, pc'["work"] = "idle",
         \A c \in Callers : pc'[c] = pc[c] \/ (Aside(pc[c]) /\ Aside(pc'[c])),
         isr'.at = isr.at \/ (claimed = TRUE /\ IsrAside(isr.at) /\ IsrAside(isr'.at))
  PROVE  MaskInv'
<1>0. /\ intMask' = intMask /\ hwMask' = hwMask /\ claimed' = claimed /\ hciMutex' = hciMutex
      /\ started' = started /\ regval' = regval
  OBVIOUS
<1>1. \A c \in Callers : \A p \in {"setmask", "stopping", "starting", "claiming"} :
        pc'[c] = p <=> pc[c] = p
  BY DEF Aside
<1>2. \A p \in {"setmask", "status", "clearmask"} : isr'.at = p <=> isr.at = p
  BY DEF IsrAside
<1>3. MaskQuiet'
  BY <1>1 DEF MaskInv, MaskQuiet
<1>4. MaskStart'
  <2>1. claimed' = FALSE => isr'.at = "idle" /\ "low" \in intMask'
    BY <1>0 DEF MaskInv, MaskStart
  <2>2. ASSUME NEW c \in Callers
        PROVE  /\ pc'[c] = "setmask" => claimed' = TRUE
               /\ pc'[c] \in {"starting", "claiming"} => claimed' = FALSE /\ "start" \in MayDo[c]
               /\ pc'[c] = "starting" => regval'[c] = intMask'
               /\ pc'[c] = "claiming" => hwMask' = intMask'
    BY <1>0, <1>1 DEF MaskInv, MaskStart
  <2> QED
    BY <1>0, <2>1, <2>2, Zenon DEF MaskInv, MaskStart
<1>5. MaskHeld'
  <2>1. \A c \in Callers : pc'[c] = "setmask" => hciMutex' = c /\ regval'[c] = intMask'
    BY <1>0, <1>1 DEF MaskInv, MaskHeld
  <2>2. isr'.at \in {"setmask", "status", "clearmask"} => hciMutex' = "isr"
    BY <1>0, <1>2 DEF MaskInv, MaskHeld
  <2>3. isr'.at \in {"setmask", "clearmask"} => regval'["isr"] = intMask'
    BY <1>0, <1>2 DEF MaskInv, MaskHeld
  <2> QED
    BY <2>1, <2>2, <2>3, Zenon DEF MaskHeld
<1>6. MaskWritten'
  <2>1. Ctx = Callers \cup {"work"}
    BY DEF Ctx
  <2>2. pc'["work"] \notin {"setmask", "stopping", "starting", "claiming"}
        /\ pc["work"] \notin {"setmask", "stopping", "starting", "claiming"}
    BY DEF MaskInv, MaskQuiet
  <2>3. Writing' <=> Writing
    BY <1>1, <1>2, <2>1, <2>2 DEF Writing
  <2> QED
    <3>1. claimed /\ ~Writing => hwMask = intMask
      BY Zenon DEF MaskInv, MaskWritten
    <3>2. claimed' => claimed
      BY <1>0
    <3> QED
      BY <1>0, <2>3, <3>1, <3>2, Zenon DEF MaskWritten
<1> QED
  BY <1>3, <1>4, <1>5, <1>6, Zenon DEF MaskInv

\* The handler reads, sends and receives.
LEMMA MaskIsrAside ==
  ASSUME TypeOK, MaskAssumption, MaskInv,
         \/ IsrEnter \/ IsrSkip \/ IsrRead \/ IsrReadFails \/ IsrInfo \/ XmitTake
         \/ XmitDone \/ XmitDrop \/ XmitPutBack \/ XmitSend \/ XmitSendFails
         \/ IsrAfter \/ IsrRx \/ IsrRxFails
  PROVE  MaskInv'
<1>0. isr \in IsrRecords /\ isr.fail = FALSE /\ reset = FALSE /\ pc["work"] = "idle"
  BY MaskTypes DEF MaskInv, MaskQuiet
<1>1. ~XmitSendFails /\ ~IsrRxFails
  BY DEF MaskAssumption, XmitSendFails, IsrRxFails, Event
<1>2. ASSUME UNCHANGED <<intMask, hwMask, claimed, hciMutex, started, regval, pc>>,
             claimed = TRUE, reset' = FALSE, isr'.fail = FALSE,
             IsrAside(isr.at), IsrAside(isr'.at)
      PROVE  MaskInv'
  BY <1>0, <1>2, MaskAside
<1>3. isr.at # "idle" => claimed = TRUE
  BY MaskTypes DEF MaskInv, MaskStart
<1>4. Following(isr).fail = FALSE /\ IsrAside(Following(isr).at)
  BY <1>0 DEF Following, IsrAside, IsrRecords
<1>5. CASE IsrEnter
  <2>1. /\ claimed = TRUE /\ isr.at = "idle" /\ isr' = [isr EXCEPT !.at = "merge"]
        /\ UNCHANGED <<intMask, hwMask, claimed, hciMutex, started, regval, pc, reset>>
    BY <1>5 DEF IsrEnter, IsrAt
  <2>2. isr'.fail = FALSE /\ isr'.at = "merge"
    BY <1>0, <2>1 DEF IsrRecords
  <2> QED
    BY <1>0, <1>2, <2>1, <2>2 DEF IsrAside
<1>6. CASE IsrSkip \/ XmitDone
  <2>1. /\ isr.at \in {"queue", "xmit"} /\ isr' = Following(isr)
        /\ UNCHANGED isrOnly
    BY <1>6 DEF IsrSkip, XmitDone
  <2>2. UNCHANGED <<intMask, hwMask, claimed, hciMutex, started, regval, pc, reset>>
    BY <2>1, Zenon DEF isrOnly, irqVars
  <2> QED
    BY <1>0, <1>2, <1>3, <1>4, <2>1, <2>2 DEF IsrAside
<1>7. CASE IsrRead \/ IsrInfo
  <2>1. /\ isr.at \in {"queue", "info"} /\ isr'.fail = FALSE /\ isr'.at \in {"queue", "info", "xmit"}
        /\ UNCHANGED isrOnly
    BY <1>0, <1>7 DEF IsrRead, IsrInfo, IsrAt, IsrRecords
  <2>2. UNCHANGED <<intMask, hwMask, claimed, hciMutex, started, regval, pc, reset>>
    BY <2>1, Zenon DEF isrOnly, irqVars
  <2> QED
    BY <1>0, <1>2, <1>3, <2>1, <2>2 DEF IsrAside
<1>8. CASE IsrReadFails
  <2>1. /\ isr.at = "queue" /\ irqVars' = irqVars
        /\ UNCHANGED <<started, regval, pc, reset>>
        /\ \E l, fr : isr' = [isr EXCEPT !.at = "info", !.left = l, !.free = fr]
    BY <1>8, Zenon DEF IsrReadFails
  <2>2. isr'.fail = FALSE /\ isr'.at = "info"
    BY <1>0, <2>1 DEF IsrRecords
  <2>3. UNCHANGED <<intMask, hwMask, claimed, hciMutex, started, regval, pc, reset>>
    BY <2>1, Zenon DEF irqVars
  <2> QED
    BY <1>0, <1>2, <1>3, <2>1, <2>2, <2>3 DEF IsrAside
<1>9. CASE XmitTake \/ XmitSend
  <2>1. /\ isr.at = "xmit" /\ irqVars' = irqVars
        /\ UNCHANGED <<started, regval, pc, reset>>
        /\ \E l, fr : isr' = [isr EXCEPT !.left = l] \/ isr' = [isr EXCEPT !.free = fr]
    BY <1>9, Zenon DEF XmitTake, XmitSend
  <2>2. isr'.fail = FALSE /\ isr'.at = "xmit"
    BY <1>0, <2>1 DEF IsrRecords
  <2>3. UNCHANGED <<intMask, hwMask, claimed, hciMutex, started, regval, pc, reset>>
    BY <2>1, Zenon DEF irqVars
  <2> QED
    BY <1>0, <1>2, <1>3, <2>1, <2>2, <2>3 DEF IsrAside
<1>10. CASE XmitDrop \/ XmitPutBack
  <2>1. /\ isr.at = "xmit" /\ isr' = Following(isr) /\ irqVars' = irqVars
        /\ UNCHANGED <<started, regval, pc, reset>>
    BY <1>10, Zenon DEF XmitDrop, XmitPutBack
  <2>2. UNCHANGED <<intMask, hwMask, claimed, hciMutex, started, regval, pc, reset>>
    BY <2>1, Zenon DEF irqVars
  <2> QED
    BY <1>0, <1>2, <1>3, <1>4, <2>1, <2>2 DEF IsrAside
<1>11. CASE IsrAfter
  <2>1. /\ isr.at = "after" /\ irqVars' = irqVars /\ reset' = (reset \/ isr.fail)
        /\ UNCHANGED <<started, regval, pc>>
        /\ isr' = [isr EXCEPT !.at = "rx"] \/ isr' = Idle
    BY <1>11, Zenon DEF IsrAfter
  <2>2. isr'.fail = FALSE /\ isr'.at \in {"rx", "idle"} /\ reset' = FALSE
    BY <1>0, <2>1 DEF IsrRecords, Idle
  <2>3. UNCHANGED <<intMask, hwMask, claimed, hciMutex, started, regval, pc>>
    BY <2>1, Zenon DEF irqVars
  <2> QED
    BY <1>0, <1>2, <1>3, <2>1, <2>2, <2>3 DEF IsrAside
<1>12. CASE IsrRx
  <2>1. /\ isr.at = "rx" /\ irqVars' = irqVars
        /\ UNCHANGED <<started, regval, pc, reset>>
        /\ isr' = [Idle EXCEPT !.at = "merge"]
    BY <1>12, Zenon DEF IsrRx
  <2>2. isr'.fail = FALSE /\ isr'.at = "merge"
    BY <2>1 DEF Idle
  <2>3. UNCHANGED <<intMask, hwMask, claimed, hciMutex, started, regval, pc, reset>>
    BY <2>1, Zenon DEF irqVars
  <2> QED
    BY <1>0, <1>2, <1>3, <2>1, <2>2, <2>3 DEF IsrAside
<1> QED
  BY <1>1, <1>5, <1>6, <1>7, <1>8, <1>9, <1>10, <1>11, <1>12, Zenon

\* The handler changes int_mask and writes the chip's mask under hci_mutex.
LEMMA MaskIsrWrites ==
  ASSUME TypeOK, MaskInv, IsrMerge \/ IsrRecheck \/ IsrSetMask \/ IsrClearMask \/ IsrStatus
  PROVE  MaskInv'
<1>0. /\ isr \in IsrRecords /\ isr.fail = FALSE /\ reset = FALSE /\ pc["work"] = "idle"
      /\ regval \in [Ctx \cup {"isr"} -> SUBSET Ints]
      /\ None \notin Callers /\ "isr" \notin Callers /\ None # "isr" /\ Callers \subseteq Ctx
      /\ \A c \in Callers : pc[c] # "stopping"
  BY MaskTypes DEF MaskInv, MaskQuiet
<1>1. isr.at # "idle" /\ UNCHANGED <<pc, claimed, started, reset>>
  BY DEF IsrMerge, IsrRecheck, IsrSetMask, IsrClearMask, IsrStatus
<1>2. claimed = TRUE /\ started = TRUE
  BY <1>1, MaskTypes DEF MaskInv, MaskStart
<1>3. \A c \in Callers : pc[c] \notin {"starting", "claiming"}
  BY <1>2 DEF MaskInv, MaskStart
<1>4. ASSUME isr'.fail = FALSE PROVE MaskQuiet' /\ MaskStart'
  BY <1>0, <1>1, <1>2, <1>3, <1>4 DEF MaskQuiet, MaskStart
<1>5. ASSUME hciMutex = None, hciMutex' = "isr", isr' = [isr EXCEPT !.at = "setmask"] \/ isr' = [isr EXCEPT !.at = "clearmask"],
             NEW m, intMask' = m, regval' = [regval EXCEPT !["isr"] = m]
      PROVE  MaskInv'
  <2>1. isr'.at \in {"setmask", "clearmask"} /\ isr'.fail = FALSE
    BY <1>0, <1>5 DEF IsrRecords
  <2>2. regval'["isr"] = intMask'
    BY <1>0, <1>5
  <2>3. \A c \in Callers : pc[c] # "setmask"
    BY <1>0, <1>5 DEF MaskInv, MaskHeld
  <2>4. MaskHeld'
    BY <1>1, <1>5, <2>1, <2>2, <2>3 DEF MaskHeld
  <2>5. MaskWritten'
    BY <2>1 DEF MaskWritten, Writing
  <2> QED
    BY <1>4, <2>1, <2>4, <2>5, Zenon DEF MaskInv
<1>6. CASE IsrMerge
  <2>1. CASE intStatus
    <3>1. /\ hciMutex = None /\ hciMutex' = "isr" /\ isr' = [isr EXCEPT !.at = "setmask"]
          /\ intMask' = intMask \cup {"low"} /\ regval' = [regval EXCEPT !["isr"] = intMask']
      BY <1>6, <2>1, Zenon DEF IsrMerge, IsrAt
    <3> QED
      BY <1>5, <3>1
  <2>2. CASE ~intStatus
    <3>1. /\ hciMutex = None /\ hciMutex' = "isr" /\ isr.at = "merge" /\ isr' = [isr EXCEPT !.at = "status"]
          /\ UNCHANGED <<intMask, regval, hwMask>>
      BY <1>6, <2>2, Zenon DEF IsrMerge, IsrAt
    <3>2. isr'.at = "status" /\ isr'.fail = FALSE
      BY <1>0, <3>1 DEF IsrRecords
    <3>3. \A c \in Callers : pc[c] # "setmask"
      BY <1>0, <3>1 DEF MaskInv, MaskHeld
    <3>4. MaskHeld'
      BY <1>1, <3>1, <3>2, <3>3 DEF MaskHeld
    <3>5. ~Writing
      BY <1>0, <1>3, <3>1, <3>3 DEF Writing, Ctx
    <3>6. hwMask = intMask
      BY <1>2, <3>5 DEF MaskInv, MaskWritten
    <3>7. MaskWritten'
      BY <3>1, <3>6 DEF MaskWritten
    <3> QED
      BY <1>4, <3>2, <3>4, <3>7, Zenon DEF MaskInv
  <2> QED
    BY <2>1, <2>2
<1>7. CASE IsrRecheck
  <2>1. CASE FrameSend
    <3>1. /\ isr.at = "recheck" /\ isr' = [isr EXCEPT !.at = "after"]
          /\ UNCHANGED <<intMask, hwMask, hciMutex, regval>>
      BY <1>7, <2>1, Zenon DEF IsrRecheck, IsrAt
    <3>2. isr'.at = "after" /\ isr'.fail = FALSE
      BY <1>0, <3>1 DEF IsrRecords
    <3>3. /\ IsrAside(isr.at) /\ IsrAside(isr'.at) /\ reset' = FALSE /\ pc'["work"] = "idle"
      BY <1>0, <1>1, <3>1, <3>2 DEF IsrAside
    <3> QED
      BY <1>1, <1>2, <3>1, <3>2, <3>3, MaskAside
  <2>2. CASE ~FrameSend
    <3>1. /\ hciMutex = None /\ hciMutex' = "isr" /\ isr' = [isr EXCEPT !.at = "clearmask"]
          /\ intMask' = intMask \ {"low"} /\ regval' = [regval EXCEPT !["isr"] = intMask']
      BY <1>7, <2>2, Zenon DEF IsrRecheck, IsrAt, HoldToWrite
    <3> QED
      BY <1>5, <3>1
  <2> QED
    BY <2>1, <2>2
<1>8. CASE IsrSetMask \/ IsrClearMask
  <2>1. /\ isr.at \in {"setmask", "clearmask"} /\ hwMask' = regval["isr"]
        /\ UNCHANGED <<intMask, regval>>
        /\ \/ isr' = [isr EXCEPT !.at = "status"] /\ hciMutex' = hciMutex
           \/ isr' = [isr EXCEPT !.at = "after"] /\ hciMutex' = None
    <3>1. CASE IsrSetMask
      BY <3>1 DEF IsrSetMask, IsrAt
    <3>2. CASE IsrClearMask
      BY <3>2 DEF IsrClearMask, IsrAt
    <3> QED
      BY <1>8, <3>1, <3>2
  <2>2. hciMutex = "isr" /\ regval["isr"] = intMask
    BY <2>1 DEF MaskInv, MaskHeld
  <2>3. /\ isr'.fail = FALSE
        /\ (isr'.at = "status" /\ hciMutex' = "isr") \/ isr'.at = "after"
    BY <1>0, <2>1, <2>2 DEF IsrRecords
  <2>4. \A c \in Callers : pc[c] # "setmask"
    BY <1>0, <2>2 DEF MaskInv, MaskHeld
  <2>5. MaskHeld'
    BY <1>1, <2>3, <2>4 DEF MaskHeld
  <2>6. MaskWritten'
    BY <2>1, <2>2 DEF MaskWritten
  <2> QED
    BY <1>4, <2>3, <2>5, <2>6, Zenon DEF MaskInv
<1>9. CASE IsrStatus
  <2>1. /\ isr.at = "status" /\ hciMutex' = None
        /\ UNCHANGED <<intMask, regval, hwMask>>
    BY <1>9, Zenon DEF IsrStatus
  <2>2. isr'.fail = FALSE /\ isr'.at \in {"idle", "queue", "rx"}
    BY <1>9 DEF IsrStatus, Idle, Part
  <2>3. \A c \in Callers : pc[c] # "setmask"
    BY <1>0, <2>1 DEF MaskInv, MaskHeld
  <2>4. MaskHeld'
    BY <1>1, <2>2, <2>3 DEF MaskHeld
  <2>5. ~Writing
    BY <1>0, <1>3, <2>1, <2>3 DEF Writing, Ctx
  <2>6. hwMask = intMask
    BY <1>2, <2>5 DEF MaskInv, MaskWritten
  <2>7. MaskWritten'
    BY <2>1, <2>6 DEF MaskWritten
  <2> QED
    BY <1>4, <2>2, <2>4, <2>7, Zenon DEF MaskInv
<1> QED
  BY <1>6, <1>7, <1>8, <1>9, Zenon

\* A caller that does not write.
LEMMA MaskCallerAside ==
  ASSUME TypeOK, MaskInv, NEW c \in Callers,
         \/ \E f \in Frames : Enqueue(c, f)
         \/ TriggerSignal(c) \/ PauseWrite(c) \/ ResumeWrite(c)
         \/ \E m \in SUBSET Queues \ {{}} : PauseTake(c, m) \/ ResumeTake(c, m)
         \/ Trigger(c) /\ UNCHANGED <<intMask, hciMutex, regval>>
  PROVE  MaskInv'
<1>0. /\ isr.fail = FALSE /\ reset = FALSE /\ pc["work"] = "idle" /\ pc \in [Ctx -> CallerPcs]
      /\ c \in Ctx /\ "work" \notin Callers /\ Callers \subseteq Ctx /\ "work" \in Ctx
  BY MaskTypes DEF MaskInv, MaskQuiet
<1>1. /\ pc[c] \in {"idle", "trigger", "signal", "pausing", "resuming"}
      /\ \E p \in {"idle", "trigger", "signal", "pausing", "resuming", "setmask"} :
            Goto(c, p) /\ (p = "setmask" => Trigger(c) /\ hciMutex' = c)
      /\ UNCHANGED <<intMask, hwMask, claimed, hciMutex, started, regval, isr, reset>>
  <2>1. CASE \E f \in Frames : Enqueue(c, f)
    <3>1. /\ pc[c] = "idle" /\ Goto(c, "trigger") /\ UNCHANGED <<irqVars, started, regval, isrVars, chipVars>>
      BY <2>1, Zenon DEF Enqueue
    <3> QED
      BY <3>1 DEF irqVars, isrVars
  <2>2. CASE TriggerSignal(c)
    BY <2>2 DEF TriggerSignal, isrVars
  <2>3. CASE PauseWrite(c) \/ ResumeWrite(c)
    <3>1. /\ pc[c] \in {"pausing", "resuming"} /\ (Goto(c, "idle") \/ Goto(c, "trigger"))
          /\ UNCHANGED <<irqVars, started, regval, isrVars, chipVars>>
      BY <2>3 DEF PauseWrite, ResumeWrite
    <3> QED
      BY <3>1 DEF irqVars, isrVars
  <2>4. CASE \E m \in SUBSET Queues \ {{}} : PauseTake(c, m) \/ ResumeTake(c, m)
    <3>1. /\ pc[c] = "idle" /\ (Goto(c, "pausing") \/ Goto(c, "resuming"))
          /\ UNCHANGED <<irqVars, started, regval, isrVars, chipVars>>
      BY <2>4, Zenon DEF PauseTake, ResumeTake, Operation
    <3> QED
      BY <3>1 DEF irqVars, isrVars
  <2>5. CASE Trigger(c) /\ UNCHANGED <<intMask, hciMutex, regval>>
    <3>1. /\ pc[c] = "trigger" /\ UNCHANGED <<hwMask, claimed, started, isrVars>>
          /\ (Goto(c, "idle") \/ Goto(c, "signal") \/ (Goto(c, "setmask") /\ hciMutex' = c))
      BY <2>5, Zenon DEF Trigger, HoldToWrite
    <3> QED
      BY <2>5, <3>1 DEF isrVars
  <2> QED
    BY <2>1, <2>2, <2>3, <2>4, <2>5, Zenon
<1>2. ~(Trigger(c) /\ hciMutex' = c /\ hciMutex' = hciMutex)
  BY MaskTypes DEF Trigger
<1>3. PICK p \in {"idle", "trigger", "signal", "pausing", "resuming"} : Goto(c, p)
  BY <1>1, <1>2
<1>4. pc'[c] = p /\ \A d \in Ctx : d # c => pc'[d] = pc[d]
  BY <1>0, <1>3, Moved
<1>5. Aside(pc[c]) /\ Aside(pc'[c])
  BY <1>1, <1>4 DEF Aside
<1>6. \A d \in Callers : pc'[d] = pc[d] \/ (Aside(pc[d]) /\ Aside(pc'[d]))
  BY <1>0, <1>4, <1>5, Zenon
<1>7. pc'["work"] = "idle" /\ isr'.fail = FALSE /\ reset' = FALSE /\ isr'.at = isr.at
  BY <1>0, <1>1, <1>4
<1> QED
  BY <1>1, <1>6, <1>7, MaskAside

\* A caller writes the mask it has read, under hci_mutex or before the
\* interrupt is claimed.
LEMMA MaskCallerWrites ==
  ASSUME TypeOK, MaskAssumption, MaskInv, NEW c \in Callers,
         Trigger(c) \/ TriggerSetMask(c) \/ Start(c) \/ StartMask(c) \/ Claim(c)
  PROVE  MaskInv'
<1>0. /\ isr \in IsrRecords /\ isr.fail = FALSE /\ reset = FALSE /\ pc["work"] = "idle"
      /\ pc \in [Ctx -> CallerPcs] /\ regval \in [Ctx \cup {"isr"} -> SUBSET Ints]
      /\ c \in Ctx /\ c # "work" /\ c # "isr" /\ c # None /\ Callers \subseteq Ctx
      /\ "work" \in Ctx /\ claimed \in BOOLEAN /\ "isr" \notin Callers
      /\ \A d \in Callers : pc[d] # "stopping"
  BY MaskTypes DEF MaskInv, MaskQuiet
<1>1. UNCHANGED <<isr, reset>>
  <2>1. UNCHANGED isrVars
    BY Zenon DEF Trigger, TriggerSetMask, Start, StartMask, Claim
  <2> QED
    BY <2>1 DEF isrVars
<1>2. ASSUME NEW p, Goto(c, p), p # "stopping"
      PROVE  /\ pc'[c] = p /\ \A d \in Ctx : d # c => pc'[d] = pc[d]
             /\ MaskQuiet'
  <2>1. pc'[c] = p /\ \A d \in Ctx : d # c => pc'[d] = pc[d]
    BY <1>0, <1>2, Moved
  <2>2. pc'["work"] = "idle" /\ \A d \in Callers : pc'[d] # "stopping"
    BY <1>0, <1>2, <2>1
  <2> QED
    BY <1>0, <1>1, <2>1, <2>2, Zenon DEF MaskQuiet
<1>3. CASE Trigger(c)
  <2>1. CASE UNCHANGED <<intMask, hciMutex, regval>>
    BY <1>3, <2>1, MaskCallerAside
  <2>2. CASE ~UNCHANGED <<intMask, hciMutex, regval>>
    <3>1. /\ hciMutex = None /\ hciMutex' = c /\ "low" \notin intMask
          /\ regval' = [regval EXCEPT ![c] = intMask'] /\ Goto(c, "setmask")
          /\ UNCHANGED <<hwMask, claimed, started>>
      BY <1>3, <2>2, Zenon DEF Trigger, HoldToWrite
    <3>2. claimed = TRUE
      BY <1>0, <3>1 DEF MaskInv, MaskStart
    <3>3. /\ pc'[c] = "setmask" /\ (\A d \in Ctx : d # c => pc'[d] = pc[d]) /\ MaskQuiet'
      BY <1>2, <3>1
    <3>4. regval'[c] = intMask'
      BY <1>0, <3>1
    <3>5. \A d \in Callers : d # c => pc'[d] \notin {"setmask", "starting", "claiming"}
      BY <1>0, <3>1, <3>2, <3>3, MaskTypes DEF MaskInv, MaskStart, MaskHeld
    <3>6. isr.at \notin {"setmask", "status", "clearmask"}
      BY <1>0, <3>1, MaskTypes DEF MaskInv, MaskHeld
    <3>7. MaskStart'
      BY <1>0, <3>1, <3>2, <3>3, <3>5 DEF MaskInv, MaskStart
    <3>8. MaskHeld'
      BY <1>1, <3>1, <3>3, <3>4, <3>5, <3>6 DEF MaskHeld
    <3>9. MaskWritten'
      BY <1>0, <3>3 DEF MaskWritten, Writing
    <3> QED
      BY <3>3, <3>7, <3>8, <3>9, Zenon DEF MaskInv
  <2> QED
    BY <2>1, <2>2
<1>4. CASE TriggerSetMask(c)
  <2>1. /\ pc[c] = "setmask" /\ hwMask' = regval[c] /\ hciMutex' = None /\ Goto(c, "idle")
        /\ UNCHANGED <<intMask, claimed, started, regval>>
    BY <1>4, Zenon DEF TriggerSetMask
  <2>2. claimed = TRUE /\ hciMutex = c /\ regval[c] = intMask
    BY <2>1 DEF MaskInv, MaskStart, MaskHeld
  <2>3. /\ pc'[c] = "idle" /\ (\A d \in Ctx : d # c => pc'[d] = pc[d]) /\ MaskQuiet'
    BY <1>2, <2>1
  <2>4. \A d \in Callers : pc'[d] \notin {"setmask", "starting", "claiming"}
    BY <1>0, <2>2, <2>3 DEF MaskInv, MaskStart, MaskHeld
  <2>5. isr.at \notin {"setmask", "status", "clearmask"}
    BY <1>0, <2>2 DEF MaskInv, MaskHeld
  <2>6. MaskStart'
    BY <1>0, <2>1, <2>2, <2>4 DEF MaskInv, MaskStart
  <2>7. MaskHeld'
    BY <1>1, <2>4, <2>5 DEF MaskHeld
  <2>8. MaskWritten'
    BY <2>1, <2>2 DEF MaskWritten
  <2> QED
    BY <2>3, <2>6, <2>7, <2>8, Zenon DEF MaskInv
<1>5. CASE Start(c) \/ StartMask(c) \/ Claim(c)
  <2>1. claimed = FALSE /\ started = FALSE /\ "start" \in MayDo[c] /\ isr.at = "idle"
        /\ pc[c] # "setmask" /\ "low" \in intMask
    <3>1. \/ "start" \in MayDo[c] /\ ~started /\ pc[c] = "idle"
          \/ pc[c] \in {"starting", "claiming"}
      BY <1>5, Zenon DEF Start, StartMask, Claim, Operation
    <3> QED
      BY <1>0, <3>1 DEF MaskInv, MaskStart
  <2>2. UNCHANGED <<intMask, hciMutex>>
    BY <1>5 DEF Start, StartMask, Claim, irqVars
  <2>3. \A d \in Callers : pc[d] # "setmask"
    BY <1>0, <2>1 DEF MaskInv, MaskStart
  <2>4. \A d \in Callers : d # c => pc[d] \notin {"starting", "claiming"}
    BY <2>1 DEF MaskAssumption, MaskInv, MaskStart
  <2>5. ASSUME NEW p \in {"idle", "starting", "claiming"}, Goto(c, p)
        PROVE  /\ pc'[c] = p /\ MaskQuiet' /\ MaskHeld'
               /\ \A d \in Callers : d # c => pc'[d] \notin {"setmask", "starting", "claiming"}
    <3>1. pc'[c] = p /\ (\A d \in Ctx : d # c => pc'[d] = pc[d]) /\ MaskQuiet'
      BY <1>2, <2>5
    <3>2. \A d \in Callers : d # c => pc'[d] \notin {"setmask", "starting", "claiming"}
      BY <1>0, <2>3, <2>4, <3>1
    <3>3. MaskHeld'
      BY <1>1, <2>1, <2>5, <3>1, <3>2 DEF MaskHeld
    <3> QED
      BY <3>1, <3>2, <3>3
  <2>6. CASE Start(c)
    <3>1. /\ Goto(c, "starting") /\ regval' = [regval EXCEPT ![c] = intMask]
          /\ UNCHANGED <<hwMask, claimed, started>>
      BY <2>6 DEF Start, irqVars
    <3>2. regval'[c] = intMask'
      BY <1>0, <2>2, <3>1
    <3>3. MaskStart'
      BY <1>1, <2>1, <2>2, <2>5, <3>1, <3>2 DEF MaskInv, MaskStart
    <3>4. MaskWritten'
      BY <2>1, <3>1 DEF MaskWritten
    <3> QED
      BY <2>5, <3>1, <3>3, <3>4 DEF MaskInv
  <2>7. CASE StartMask(c)
    <3>1. /\ pc[c] = "starting" /\ Goto(c, "claiming") /\ hwMask' = regval[c]
          /\ UNCHANGED <<claimed, started>>
      BY <2>7, Zenon DEF StartMask
    <3>2. hwMask' = intMask'
      BY <2>2, <3>1 DEF MaskInv, MaskStart
    <3>3. MaskStart'
      BY <1>1, <2>1, <2>2, <2>5, <3>1, <3>2 DEF MaskInv, MaskStart
    <3>4. MaskWritten'
      BY <3>2 DEF MaskWritten
    <3> QED
      BY <2>5, <3>1, <3>3, <3>4 DEF MaskInv
  <2>8. CASE Claim(c)
    <3>1. /\ pc[c] = "claiming" /\ Goto(c, "idle") /\ claimed' = TRUE
          /\ started' = (started \/ c # "work") /\ UNCHANGED hwMask
      BY <2>8, Zenon DEF Claim
    <3>2. hwMask' = intMask'
      BY <2>2, <3>1 DEF MaskInv, MaskStart
    <3>3. started' = TRUE
      BY <1>0, <3>1
    <3>4. MaskStart'
      BY <1>1, <2>5, <3>1, <3>3 DEF MaskInv, MaskStart
    <3>5. MaskWritten'
      BY <3>2 DEF MaskWritten
    <3> QED
      BY <2>5, <3>1, <3>4, <3>5 DEF MaskInv
  <2> QED
    BY <1>5, <2>6, <2>7, <2>8
<1> QED
  BY <1>3, <1>4, <1>5

LEMMA MaskAtStart == Init => MaskInv
<1> SUFFICES ASSUME Init PROVE MaskInv
  OBVIOUS
<1>1. /\ isr = Idle /\ reset = FALSE /\ claimed = FALSE /\ started = FALSE
      /\ intMask = {"rx", "low"} /\ pc = [d \in Ctx |-> "idle"]
  BY DEF Init
<1>2. \A d \in Ctx : pc[d] = "idle"
  BY <1>1
<1>3. isr.at = "idle" /\ isr.fail = FALSE
  BY <1>1 DEF Idle
<1>4. Callers \subseteq Ctx /\ "work" \in Ctx
  BY DEF Ctx
<1>5. \A d \in Callers : pc[d] = "idle"
  BY <1>2, <1>4
<1>6. MaskQuiet
  BY <1>1, <1>2, <1>3, <1>4 DEF MaskQuiet
<1>7. MaskStart
  BY <1>1, <1>3, <1>5 DEF MaskStart
<1>8. MaskHeld
  BY <1>3, <1>5 DEF MaskHeld
<1>9. MaskWritten
  BY <1>1 DEF MaskWritten
<1> QED
  BY <1>6, <1>7, <1>8, <1>9, Zenon DEF MaskInv

LEMMA MaskStep ==
  ASSUME TypeOK, MaskAssumption, MaskInv, [Next]_vars
  PROVE  MaskInv'
<1>0. isr.fail = FALSE /\ reset = FALSE /\ pc["work"] = "idle"
  BY DEF MaskInv, MaskQuiet
<1>1. ASSUME NEW c \in Callers, Caller(c)
      PROVE  MaskInv'
  <2>1. ~Stop(c) /\ ~StopWait(c)
    BY DEF MaskAssumption, MaskInv, MaskQuiet, Stop, StopWait, Operation
  <2>2. CASE Trigger(c) \/ TriggerSetMask(c) \/ Start(c) \/ StartMask(c) \/ Claim(c)
    BY <2>2, MaskCallerWrites
  <2>3. CASE \/ \E f \in Frames : Enqueue(c, f)
             \/ TriggerSignal(c) \/ PauseWrite(c) \/ ResumeWrite(c)
             \/ \E m \in SUBSET Queues \ {{}} : PauseTake(c, m) \/ ResumeTake(c, m)
    BY <2>3, MaskCallerAside
  <2> QED
    BY <1>1, <2>1, <2>2, <2>3, Zenon DEF Caller
<1>2. ~Work
  BY <1>0 DEF Work, ResetMask, ResetWait, StartMask, Claim
<1>3. CASE Isr
  BY <1>3, MaskIsrAside, MaskIsrWrites, Zenon DEF Isr
<1>4. CASE Chip \/ UNCHANGED vars
  <2>1. UNCHANGED <<irqVars, started, pc, regval, isrVars>>
    BY <1>4, Zenon DEF Chip, ChipAccept, ChipSend, ChipRx, vars
  <2>2. /\ UNCHANGED <<intMask, hwMask, claimed, hciMutex, started, regval>>
        /\ pc' = pc /\ isr' = isr /\ reset' = reset
    BY <2>1, Zenon DEF irqVars, isrVars
  <2>3. /\ reset' = FALSE /\ isr'.fail = FALSE /\ pc'["work"] = "idle"
        /\ (\A c \in Callers : pc'[c] = pc[c]) /\ isr'.at = isr.at
    BY <1>0, <2>2
  <2> QED
    BY <2>2, <2>3, MaskAside
<1> QED
  BY <1>1, <1>2, <1>3, <1>4, Zenon DEF Next

\* The mask in the chip is int_mask whenever the interrupt is claimed and
\* nobody is writing it: between ssv6xxx_hci_irq_enable, trigger_tx and the
\* handler, which change int_mask under hci_mutex and write the chip before
\* they give it up, no change is lost.  The hypothesis leaves out what writes
\* without the mutex while the handler may run: the stop and the reset work.
THEOREM MaskIsWritten == ASSUME MaskAssumption PROVE Spec => []MaskWritten
<1>1. Init => MaskInv
  BY MaskAtStart
<1>2. TypeOK /\ MaskInv /\ [Next]_vars => MaskInv'
  BY MaskStep
<1>3. MaskInv => MaskWritten
  BY DEF MaskInv
<1> QED
  BY <1>1, <1>2, <1>3, TypeCorrect, PTL DEF Spec
-----------------------------------------------------------------------------
(* The queues refine TxQueues.  A frame in the handler's hand still waits   *)
(* first in its queue, so that taking it and putting it back are no steps   *)
(* of the abstract queues.                                                  *)

AbstractStep == Abstract!QNext \/ UNCHANGED Abstract!qvars

LEMMA WaitingOf ==
  ASSUME TypeOK, NEW i \in Queues
  PROVE  /\ q[i] \in Seq(Frames) /\ sent[i] \in Seq(Frames)
         /\ Waiting[i] = IF hand # NoFrame /\ isr.q = i THEN <<hand>> \o q[i] ELSE q[i]
         /\ Waiting[i] \in Seq(Frames)
<1>1. q[i] \in Seq(Frames) /\ sent[i] \in Seq(Frames) /\ hand \in Frames \cup {NoFrame}
  BY TypeParts DEF QueueType, IsrType
<1>2. Waiting[i] = IF hand # NoFrame /\ isr.q = i THEN <<hand>> \o q[i] ELSE q[i]
  BY DEF Waiting
<1>3. hand # NoFrame => <<hand>> \o q[i] \in Seq(Frames)
  BY <1>1, ConsProperties
<1> QED
  BY <1>1, <1>2, <1>3

\* A queue other than the one the step is about.
LEMMA WaitingSame ==
  ASSUME UNCHANGED <<q, hand>>, hand = NoFrame \/ isr'.q = isr.q
  PROVE  Waiting' = Waiting
<1>1. \A i \in Queues : (hand' # NoFrame /\ isr'.q = i) <=> (hand # NoFrame /\ isr.q = i)
  OBVIOUS
<1> QED
  BY <1>1 DEF Waiting

LEMMA EnqueuePuts ==
  ASSUME TypeOK, NEW c \in Callers, NEW f \in Frames, Enqueue(c, f)
  PROVE  AbstractStep
<1> DEFINE i == QueueOf[f]
           held == hand # NoFrame /\ isr.q = i
<1>1. i \in Queues
  BY FrameFacts
<1>2. /\ q \in [Queues -> Seq(Frames)] /\ hand \in Frames \cup {NoFrame}
      /\ q[i] \in Seq(Frames) /\ Waiting[i] \in Seq(Frames)
      /\ Waiting[i] = IF held THEN <<hand>> \o q[i] ELSE q[i]
  BY <1>1, TypeParts, WaitingOf DEF QueueType, IsrType
<1>3. UNCHANGED <<sent, dropped, hand, isr>> /\ fresh' = fresh \ {f} /\ f \in fresh
  BY Zenon DEF Enqueue, isrVars
<1> HIDE DEF i
<1>4. \E k \in {0, 1, Len(Waiting[i])} :
        /\ k <= Len(Waiting[i])
        /\ Waiting' = [Waiting EXCEPT ![i] = Abstract!InsertAt(@, k, f)]
  <2> DEFINE New == [Waiting EXCEPT ![i] = IF held THEN <<hand>> \o q'[i] ELSE q'[i]]
  <2>1. q' = [q EXCEPT ![i] = q'[i]] /\ (q'[i] = <<f>> \o q[i] \/ q'[i] = Append(q[i], f))
    <3>1. \/ q' = [q EXCEPT ![i] = <<f>> \o @]
          \/ q' = [q EXCEPT ![i] = Append(@, f)]
      BY Zenon DEF Enqueue, i
    <3> QED
      BY <1>1, <1>2, <3>1
  <2>2. Waiting' = New
    <3>1. \A j \in Queues : j # i => q'[j] = q[j]
      BY <1>1, <1>2, <2>1
    <3>2. \A j \in Queues : Waiting'[j] = IF hand # NoFrame /\ isr.q = j THEN <<hand>> \o q'[j]
                                          ELSE q'[j]
      BY <1>3 DEF Waiting
    <3>3. \A j \in Queues : Waiting[j] = IF hand # NoFrame /\ isr.q = j THEN <<hand>> \o q[j]
                                         ELSE q[j]
      BY DEF Waiting
    <3>4. \A j \in Queues : Waiting'[j] = New[j]
      BY <1>1, <3>1, <3>2, <3>3 DEF Waiting
    <3>5. Waiting' = [j \in Queues |-> Waiting'[j]] /\ New = [j \in Queues |-> New[j]]
      BY DEF Waiting
    <3> QED
      BY <3>4, <3>5
  <2>3. ASSUME NEW k \in {0, 1, Len(Waiting[i])}, k <= Len(Waiting[i]),
               Abstract!InsertAt(Waiting[i], k, f) = IF held THEN <<hand>> \o q'[i] ELSE q'[i]
        PROVE  \E m \in {0, 1, Len(Waiting[i])} :
                 /\ m <= Len(Waiting[i])
                 /\ Waiting' = [Waiting EXCEPT ![i] = Abstract!InsertAt(@, m, f)]
    <3>1. Waiting' = [Waiting EXCEPT ![i] = Abstract!InsertAt(Waiting[i], k, f)]
      BY <2>2, <2>3, Zenon
    <3>2. [Waiting EXCEPT ![i] = Abstract!InsertAt(Waiting[i], k, f)]
            = [Waiting EXCEPT ![i] = Abstract!InsertAt(@, k, f)]
      OBVIOUS
    <3> QED
      BY <2>3, <3>1, <3>2, Zenon
  <2>4. Len(Waiting[i]) \in Nat /\ (held => 1 <= Len(Waiting[i]))
    <3>1. held => Len(Waiting[i]) = Len(q[i]) + 1
      BY <1>2, ConsProperties
    <3>2. Len(Waiting[i]) \in Nat /\ Len(q[i]) \in Nat
      BY <1>2, LenProperties
    <3>3. ASSUME held PROVE 1 <= Len(Waiting[i])
      <4>1. Len(Waiting[i]) = Len(q[i]) + 1
        BY <3>1, <3>3, Zenon
      <4> QED
        BY <3>2, <4>1
    <3> QED
      BY <3>2, <3>3, Zenon
  <2>5. CASE q'[i] = <<f>> \o q[i] /\ ~held
    <3>1. Abstract!InsertAt(Waiting[i], 0, f) = <<f>> \o q[i]
      BY <1>2, <2>5, InsertFirst DEF Abstract!InsertAt
    <3>2. Abstract!InsertAt(Waiting[i], 0, f) = IF held THEN <<hand>> \o q'[i] ELSE q'[i]
      BY <2>5, <3>1, Zenon
    <3>3. 0 \in {0, 1, Len(Waiting[i])} /\ 0 <= Len(Waiting[i])
      BY <2>4
    <3> QED
      BY <2>3, <3>2, <3>3, Zenon
  <2>6. CASE q'[i] = <<f>> \o q[i] /\ held
    <3>1. Abstract!InsertAt(Waiting[i], 1, f) = <<hand>> \o (<<f>> \o q[i])
      BY <1>2, <2>6, InsertSecond DEF Abstract!InsertAt
    <3>2. Abstract!InsertAt(Waiting[i], 1, f) = IF held THEN <<hand>> \o q'[i] ELSE q'[i]
      BY <2>6, <3>1, Zenon
    <3>3. 1 \in {0, 1, Len(Waiting[i])} /\ 1 <= Len(Waiting[i])
      BY <2>4, <2>6
    <3> QED
      BY <2>3, <3>2, <3>3, Zenon
  <2>7. CASE q'[i] = Append(q[i], f)
    <3>1. Abstract!InsertAt(Waiting[i], Len(Waiting[i]), f) = Append(Waiting[i], f)
      BY <1>2, InsertLast DEF Abstract!InsertAt
    <3>2. held => Append(Waiting[i], f) = <<hand>> \o Append(q[i], f)
      BY <1>2, AppendBehind
    <3>3. Abstract!InsertAt(Waiting[i], Len(Waiting[i]), f)
            = IF held THEN <<hand>> \o q'[i] ELSE q'[i]
      BY <1>2, <2>7, <3>1, <3>2
    <3>4. Len(Waiting[i]) \in {0, 1, Len(Waiting[i])} /\ Len(Waiting[i]) <= Len(Waiting[i])
      BY <2>4
    <3> QED
      BY <2>3, <3>3, <3>4, Zenon
  <2> QED
    BY <2>1, <2>5, <2>6, <2>7, Zenon
<1> QED
  BY <1>3, <1>4, Zenon DEF i, AbstractStep, Abstract!QNext, Abstract!Put

\* The steps of ssv6xxx_hci_xmit.
LEMMA XmitSteps ==
  ASSUME TypeOK, LateInv, Isr
  PROVE  AbstractStep
<1> DEFINE i == isr.q
<1>0. /\ isr \in IsrRecords /\ i \in Queues /\ hand \in Frames \cup {NoFrame}
      /\ q \in [Queues -> Seq(Frames)] /\ q[i] \in Seq(Frames)
      /\ \A j \in Queues : Waiting[j] = IF hand # NoFrame /\ i = j THEN <<hand>> \o q[j] ELSE q[j]
      /\ Waiting = [j \in Queues |-> Waiting[j]]
  BY TypeParts DEF IsrType, IsrRecords, QueueType, Waiting
<1>1. CASE IsrEnter \/ IsrMerge \/ IsrSetMask \/ IsrStatus \/ IsrRecheck \/ IsrClearMask
           \/ IsrAfter \/ IsrRx \/ IsrRxFails \/ IsrSkip \/ IsrRead \/ IsrReadFails \/ IsrInfo
           \/ XmitDone
  <2>1. hand = NoFrame
    BY <1>1 DEF LateInv, IsrEnter, IsrMerge, IsrSetMask, IsrStatus, IsrRecheck, IsrClearMask,
       IsrAfter, IsrRx, IsrRxFails, IsrSkip, IsrRead, IsrReadFails, IsrInfo, XmitDone
  <2>2. UNCHANGED <<hand, queueVars>>
    <3>1. CASE IsrEnter \/ IsrMerge \/ IsrSetMask \/ IsrStatus \/ IsrRecheck \/ IsrClearMask
      BY <3>1, Zenon DEF IsrEnter, IsrMerge, IsrSetMask, IsrStatus, IsrRecheck, IsrClearMask
    <3>2. CASE IsrAfter \/ IsrRx \/ IsrRxFails \/ IsrSkip \/ IsrRead \/ IsrReadFails
               \/ IsrInfo \/ XmitDone
      BY <3>2, Zenon DEF IsrAfter, IsrRx, IsrRxFails, IsrSkip, IsrRead, IsrReadFails, IsrInfo,
         XmitDone, isrOnly
    <3> QED
      BY <1>1, <3>1, <3>2, Zenon
  <2>3. UNCHANGED <<q, hand, sent, dropped, fresh>>
    BY <2>2, Zenon DEF queueVars
  <2> QED
    BY <2>1, <2>3, WaitingSame DEF AbstractStep, Abstract!qvars
<1>2. CASE XmitTake
  <2>1. /\ hand = NoFrame /\ Len(q[i]) > 0 /\ hand' = Head(q[i])
        /\ q' = [q EXCEPT ![i] = Tail(@)] /\ isr' = [isr EXCEPT !.left = @ - 1]
        /\ UNCHANGED <<sent, dropped, fresh>>
    BY <1>2, Zenon DEF XmitTake
  <2>2. q[i] # <<>> /\ isr'.q = i
    BY <1>0, <2>1, EmptySeq DEF IsrRecords
  <2>3. Head(q[i]) \in Frames /\ <<Head(q[i])>> \o Tail(q[i]) = q[i]
    BY <1>0, <2>2, PutBackHead
  <2>4. hand' # NoFrame
    BY <2>1, <2>3, FrameFacts
  <2>5. \A j \in Queues : Waiting'[j] = IF i = j THEN <<hand'>> \o q'[j] ELSE q'[j]
    BY <2>2, <2>4 DEF Waiting
  <2>6. q'[i] = Tail(q[i]) /\ \A j \in Queues : j # i => q'[j] = q[j]
    BY <1>0, <2>1
  <2>7. \A j \in Queues : Waiting'[j] = Waiting[j]
    BY <1>0, <2>1, <2>3, <2>5, <2>6
  <2>8. Waiting' = [j \in Queues |-> Waiting'[j]]
    BY DEF Waiting
  <2>9. Waiting' = Waiting
    BY <1>0, <2>7, <2>8
  <2> QED
    BY <2>1, <2>9 DEF AbstractStep, Abstract!qvars
<1>3. CASE XmitPutBack \/ XmitSendFails
  <2>1. /\ hand # NoFrame /\ hand' = NoFrame /\ q' = [q EXCEPT ![i] = <<hand>> \o @]
        /\ UNCHANGED <<sent, dropped, fresh>>
    BY <1>3, Zenon DEF XmitPutBack, XmitSendFails, PutBack
  <2>2. \A j \in Queues : Waiting'[j] = q'[j]
    BY <2>1 DEF Waiting
  <2>3. q'[i] = <<hand>> \o q[i] /\ \A j \in Queues : j # i => q'[j] = q[j]
    BY <1>0, <2>1
  <2>4. \A j \in Queues : Waiting'[j] = Waiting[j]
    BY <1>0, <2>1, <2>2, <2>3
  <2>5. Waiting' = [j \in Queues |-> Waiting'[j]]
    BY DEF Waiting
  <2>6. Waiting' = Waiting
    BY <1>0, <2>4, <2>5
  <2> QED
    BY <2>1, <2>6 DEF AbstractStep, Abstract!qvars
\* The frame leaves, for the bus or because it is too large.
<1>4. CASE XmitDrop \/ XmitSend
  <2>1. hand # NoFrame /\ hand' = NoFrame /\ UNCHANGED <<q, fresh>>
    BY <1>4, Zenon DEF XmitDrop, XmitSend
  <2>2. Waiting[i] = <<hand>> \o q[i] /\ hand \in Frames
    BY <1>0, <2>1
  <2>3. Waiting[i] # <<>> /\ Head(Waiting[i]) = hand /\ Tail(Waiting[i]) = q[i]
    <3>1. /\ <<hand>> \o q[i] # <<>> /\ Head(<<hand>> \o q[i]) = hand
          /\ Tail(<<hand>> \o q[i]) = q[i]
      BY <1>0, <2>2, ConsProperties
    <3> QED
      BY <2>2, <3>1
  <2>4. \A j \in Queues : Waiting'[j] = q[j]
    BY <2>1 DEF Waiting
  <2>5. \A j \in Queues : j # i => Waiting[j] = q[j]
    BY <1>0
  <2>6. Waiting' = [j \in Queues |-> Waiting'[j]]
    BY DEF Waiting
  <2>7. Waiting' = [Waiting EXCEPT ![i] = Tail(@)]
    BY <1>0, <2>3, <2>4, <2>5, <2>6
  <2>8. CASE XmitDrop
    <3>1. dropped' = dropped \cup {hand} /\ sent' = sent
      BY <2>8, Zenon DEF XmitDrop
    <3>2. Abstract!Drop(i)
      BY <2>1, <2>3, <2>7, <3>1, Zenon DEF Abstract!Drop
    <3> QED
      BY <1>0, <3>2, Zenon DEF AbstractStep, Abstract!QNext
  <2>9. CASE XmitSend
    <3>1. sent' = [sent EXCEPT ![i] = Append(@, hand)] /\ dropped' = dropped
      BY <2>9, Zenon DEF XmitSend
    <3>2. Abstract!Send(i)
      BY <2>1, <2>3, <2>7, <3>1, Zenon DEF Abstract!Send
    <3> QED
      BY <1>0, <3>2, Zenon DEF AbstractStep, Abstract!QNext
  <2> QED
    BY <1>4, <2>8, <2>9
<1> QED
  BY <1>1, <1>2, <1>3, <1>4, Zenon DEF Isr

LEMMA QueueSteps ==
  ASSUME TypeOK, LateInv, [Next]_vars
  PROVE  AbstractStep
<1>1. ASSUME UNCHANGED <<hand, isr, queueVars>> PROVE AbstractStep
  <2>1. UNCHANGED <<q, hand, sent, dropped, fresh>> /\ isr'.q = isr.q
    BY <1>1, Zenon DEF queueVars
  <2> QED
    BY <2>1, WaitingSame DEF AbstractStep, Abstract!qvars
<1>2. CASE Chip \/ Work \/ UNCHANGED vars
  <2>1. CASE Chip
    BY <1>1, <2>1, Zenon DEF Chip, ChipAccept, ChipSend, ChipRx, isrVars
  <2>2. CASE Work
    BY <1>1, <2>2, Zenon DEF Work, ResetMask, ResetWait, StartMask, Claim, isrVars
  <2>3. CASE UNCHANGED vars
    BY <1>1, <2>3, Zenon DEF vars, isrVars
  <2> QED
    BY <1>2, <2>1, <2>2, <2>3, Zenon
<1>3. ASSUME NEW c \in Callers, Caller(c), ~ \E f \in Frames : Enqueue(c, f)
      PROVE  AbstractStep
  <2>1. UNCHANGED <<hand, isr, queueVars>>
    BY <1>3, Zenon DEF Caller, Trigger, TriggerSetMask, TriggerSignal, PauseTake, PauseWrite,
       ResumeTake, ResumeWrite, Stop, StopWait, Start, StartMask, Claim, isrVars
  <2> QED
    BY <1>1, <2>1
<1> QED
  BY <1>2, <1>3, EnqueuePuts, XmitSteps, Zenon DEF Next

\* ImplementsTxQueues: however enqueues, transfers, failures and put-backs
\* interleave, each frame of a queue goes to the bus once, in its order, or is
\* dropped for its size: the HCI layer is an implementation of TxQueues.
THEOREM RefinesTxQueues == Spec => ImplementsTxQueues
<1>1. Init => Abstract!QInit
  <2> SUFFICES ASSUME Init PROVE Abstract!QInit
    OBVIOUS
  <2>1. /\ fresh = Frames /\ q = [i \in Queues |-> <<>>] /\ hand = NoFrame
        /\ sent = [i \in Queues |-> <<>>] /\ dropped = {}
    BY Zenon DEF Init
  <2>2. Waiting = [i \in Queues |-> <<>>]
    BY <2>1 DEF Waiting
  <2> QED
    BY <2>1, <2>2, Zenon DEF Abstract!QInit
<1>2. TypeOK /\ LateInv /\ [Next]_vars => [Abstract!QNext]_(Abstract!qvars)
  BY QueueSteps DEF AbstractStep
<1>3. Init => PauseInv /\ LateInv
  BY PauseInit, LateInit
<1>4. TypeOK /\ PauseInv /\ LateInv /\ [Next]_vars => PauseInv' /\ LateInv'
  BY PauseStep, LateStep
<1> QED
  BY <1>1, <1>2, <1>3, <1>4, TypeCorrect, PTL DEF Spec, ImplementsTxQueues, Abstract!QSpec
=============================================================================
