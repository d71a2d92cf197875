------------------------------- MODULE RxSplit ------------------------------
(***************************************************************************)
(* A received aggregate is walked twice: ssv6xxx_peek_next_pkt_len         *)
(* (src/smac/dev.c) looks for the header behind the last frame, which has  *)
(* the length of the next transfer; and _process_rx_q copies the frames    *)
(* out one by one.  The second walk keeps its place three times, in pdata, *)
(* data_offset and skb->data.                                              *)
(*                                                                         *)
(* The behaviour is both walks over one buffer, one turn of a loop a step; *)
(* every input is an initial state.  A frame is known by its number.       *)
(***************************************************************************)
EXTENDS Naturals, Sequences, FiniteSets

CONSTANTS
  RxHeader,    \* sizeof(struct hci_rx_aggr_info)
  RxLens,      \* lengths of frames, their header included
  RxMaxFrame,  \* MAX_FRAME_SIZE
  RxMaxLen,    \* frames in an aggregate (a model bound)
  RxTails,     \* what follows: [size |-> bytes, next |-> jmp_mpdu_len there]
  RxNoise,     \* what a header read elsewhere may say
  RxMaxNext    \* the longest next transfer that is believed

ASSUME RxAssumption ==
  /\ RxHeader \in Nat \ {0, 1} /\ RxMaxFrame \in Nat /\ RxMaxLen \in Nat \ {0}
  /\ RxLens \subseteq {n \in Nat : n > RxHeader} /\ RxMaxNext \in Nat
  \* nothing, a byte of padding, or a header; what the interface reads beyond
  \* it is never enough for the frame the header announces
  /\ RxTails \subseteq [size : Nat, next : Nat]
  /\ \A t \in RxTails : /\ t.size \in {0, 1} \/ t.size >= RxHeader
                        /\ t.next = 0 \/ t.next > t.size
  /\ RxNoise \subseteq Nat

VARIABLES
  rxLens,    \* the lengths of the frames
  rxTail,    \* what follows them
  rxPc,      \* "peek", "split" or "done"
  rxNext,    \* what ssv6xxx_peek_next_pkt_len returned
  rxOffset,  \* offset, data_offset
  rxAt,      \* pdata, as a place in the buffer
  rxData,    \* skb->data, as a place in the buffer
  rxOut,     \* the frames handed on; 0 is no frame of the buffer
  rxTrouble  \* the first frame that was too long or had no skb (history)

rxInput == <<rxLens, rxTail>>
rxVars == <<rxInput, rxPc, rxNext, rxOffset, rxAt, rxData, rxOut, rxTrouble>>

\* Where frame k begins, and where the frames end.
RxStarts[k \in 1 .. Len(rxLens) + 1] == IF k = 1 THEN 0 ELSE RxStarts[k - 1] + rxLens[k - 1]
RxStart(k) == RxStarts[k]
RxEnd == RxStart(Len(rxLens) + 1)
RxTotal == RxEnd + rxTail.size
RxFrameAt(p) == {k \in 1 .. Len(rxLens) : RxStart(k) = p}

\* jmp_mpdu_len of a header at p
RxJmp(p) ==
  IF RxFrameAt(p) # {} THEN {rxLens[k] : k \in RxFrameAt(p)}
  ELSE IF p = RxEnd /\ rxTail.size >= RxHeader THEN {rxTail.next}
  ELSE RxNoise

RxInit ==
  /\ rxLens \in UNION {[1 .. n -> RxLens] : n \in 1 .. RxMaxLen} /\ rxTail \in RxTails
  /\ rxPc = "peek" /\ rxNext = 0 /\ rxOffset = 0 /\ rxAt = 0 /\ rxData = 0
  /\ rxOut = <<>> /\ rxTrouble = 0
-----------------------------------------------------------------------------
(* ssv6xxx_peek_next_pkt_len                                               *)

RxOver(jmp) == rxOffset + jmp > RxTotal

RxPeekReturn(n) == rxPc' = "split" /\ rxOffset' = 0 /\ rxAt' = 0 /\ rxNext' = n

RxPeek ==
  /\ rxPc = "peek"
  /\ IF rxOffset >= RxTotal THEN RxPeekReturn(0)
     ELSE \E jmp \in RxJmp(rxAt) :
            IF jmp = 0 \/ RxOver(jmp)
            THEN RxPeekReturn(IF jmp <= RxMaxNext THEN jmp ELSE 0)
            ELSE rxOffset' = rxOffset + jmp /\ rxAt' = rxAt + jmp /\ UNCHANGED <<rxPc, rxNext>>
  /\ UNCHANGED <<rxInput, rxData, rxOut, rxTrouble>>
-----------------------------------------------------------------------------
(* _process_rx_q                                                           *)

\* ssv6xxx_aggr_frame_is_last, with jmp here and next in the header behind.
\* Mutant: a next frame that just fits is not seen.
RxIsLastShort(jmp, next) ==
  rxOffset + jmp = RxTotal - 1 \/ next = 0 \/ rxOffset + jmp + next >= RxTotal
RxIsLast(jmp, next) ==
  rxOffset + jmp = RxTotal - 1 \/ next = 0 \/ rxOffset + jmp + next > RxTotal

\* The frame at p is handed on if its length agrees with its descriptor.
RxHand(p) ==
  IF RxFrameAt(p) # {} THEN \E k \in RxFrameAt(p) : rxOut' = Append(rxOut, k)
  ELSE rxOut' \in {rxOut, Append(rxOut, 0)}

\* The number of the frame that is due.
RxDue == Cardinality({k \in 1 .. Len(rxLens) : RxStart(k) <= rxOffset})
RxMeets == rxTrouble' = IF rxTrouble = 0 THEN RxDue ELSE rxTrouble

\* The last frame is what is left of the skb.
RxLast(jmp) ==
  /\ IF rxOffset + RxHeader > RxTotal \/ rxOffset + jmp > RxTotal THEN UNCHANGED rxOut
     ELSE RxHand(rxData)
  /\ rxPc' = "done"
  /\ UNCHANGED <<rxOffset, rxAt, rxData, rxTrouble>>

\* Without memory the frame is passed over, but skb->data stays.
RxNoMemory(jmp) ==
  /\ rxOffset' = rxOffset + jmp /\ rxAt' = rxAt + jmp
  /\ RxMeets
  /\ UNCHANGED <<rxPc, rxData, rxOut>>

\* Others are copied, and pdata follows skb->data.
RxCopy(jmp) ==
  IF jmp = 0 \/ jmp > RxMaxFrame \/ rxOffset + jmp > RxTotal
  THEN rxPc' = "done" /\ RxMeets /\ UNCHANGED <<rxOffset, rxAt, rxData, rxOut>>
  ELSE /\ RxHand(rxAt)
       /\ rxData' = rxData + jmp /\ rxAt' = rxData' /\ rxOffset' = rxOffset + jmp
       /\ UNCHANGED <<rxPc, rxTrouble>>

RxSplitOne ==
  /\ rxPc = "split"
  /\ \E jmp \in RxJmp(rxAt) : \E next \in RxJmp(rxAt + jmp) :
       IF RxIsLast(jmp, next) THEN RxLast(jmp) ELSE RxNoMemory(jmp) \/ RxCopy(jmp)
  /\ UNCHANGED <<rxInput, rxNext>>

RxNextStep == RxPeek \/ RxSplitOne
RxSpec == RxInit /\ [][RxNextStep]_rxVars
-----------------------------------------------------------------------------
RxTypeOK ==
  /\ rxLens \in Seq(RxLens) /\ Len(rxLens) \in 1 .. RxMaxLen /\ rxTail \in RxTails
  /\ rxPc \in {"peek", "split", "done"} /\ rxNext \in 0 .. RxMaxNext
  /\ rxOffset \in 0 .. RxTotal /\ rxAt \in 0 .. RxTotal /\ rxData \in 0 .. RxTotal
  /\ rxOut \in Seq(0 .. RxMaxLen) /\ rxTrouble \in 0 .. RxMaxLen

\* Both walks agree: what is taken for the length of the next transfer is
\* read behind the last frame, never in one, unless padding is read as a
\* header.
RxNextLength ==
  rxPc # "peek" /\ rxTail.size # 1 =>
    rxNext = IF rxTail.size = 0 \/ rxTail.next > RxMaxNext THEN 0 ELSE rxTail.next

\* The frames of an aggregate are handed on completely and in order,
\* although the end of the data is recognised by what follows it, up to the
\* first that was too long or had no skb: behind that one skb->data lags,
\* and frames are handed on twice, or garbage is.  And both walks agree.
RxExact ==
  LET n == IF rxTrouble = 0 THEN Len(rxLens) ELSE rxTrouble - 1
  IN  /\ \A k \in 1 .. Len(rxOut) : k <= n => rxOut[k] = k
      /\ rxTrouble = 0 => Len(rxOut) <= n
      /\ rxPc = "done" => Len(rxOut) >= n
      /\ RxNextLength
=============================================================================
