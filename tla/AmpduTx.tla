------------------------------ MODULE AmpduTx ------------------------------
(***************************************************************************)
(* A-MPDU transmission of one (station, TID) pair: src/smac/ampdu.c, with  *)
(* the BlockAck walker and the "no BA" handler of the SSV6006 chip         *)
(* (src/smac/hal/ssv6006c).                                                *)
(*                                                                         *)
(* An MPDU accepted by the TX task travels                                 *)
(*                                                                         *)
(*   txq -> cur -> early -> win (BlockAck window) -> relq -> mac80211      *)
(*                           |  ^                                          *)
(*                           v  |  (status RETRY / RETRY_Q)                *)
(*                          hciq -> air -> BlockAck | no BA | nothing      *)
(*                                                                         *)
(* Four kernel contexts work on it concurrently: the smac TX task ("tx"),  *)
(* the smac RX task ("rx", BlockAcks, retries and time-outs), the rate     *)
(* report work ("rc", "no BA" reports), and the HCI context that hands     *)
(* A-MPDUs to the chip.  A fifth, mac80211's ("mac"), starts and stops the *)
(* session under a mutex the others do not take.  A step of the model is   *)
(* what a context does while it holds one lock, or between two of them;    *)
(* where it walks over the window without one, a step is one slot.         *)
(*                                                                         *)
(* MPDUs are numbered 1, 2, ... in the order mac80211 hands them over; the *)
(* number stands for the sk_buff, SnOf gives its 12-bit sequence number.   *)
(* There are fewer of them than sequence numbers, so that an ssn found in  *)
(* a table names one MPDU.                                                 *)
(***************************************************************************)
EXTENDS Integers, Sequences, FiniteSets

CONSTANTS
  NumFrames,    \* bound: MPDUs mac80211 hands over (a model bound)
  MaxSsn,       \* SSV_AMPDU_MAX_SSN, 4096 in the code
  FirstSsn,     \* sequence number before that of MPDU 1
  W,            \* SSV_AMPDU_BA_WINDOW_SIZE, 64 in the code
  MaxAggr,      \* MAX_AGGR_NUM, 24 in the code
  RetryMax,     \* SSV_AMPDU_retry_counter_max, 16 in the code
  MaxRun,       \* SSV6XXX_PKT_RUN_TYPE_AMPDU_END, 127 in the code
  MaxSlots,     \* MAX_CONCUR_AMPDU, 64 in the code
  FcUpper,      \* SSV_AMPDU_FLOW_CONTROL_UPPER_BOUND, 256 in the code
  FcLower,      \* SSV_AMPDU_FLOW_CONTROL_LOWER_BOUND, 48 in the code
  AckHigh,      \* directly_ack_high_threshold, 1024 by default
  AckLow,       \* directly_ack_low_threshold, 64 by default
  Faults,       \* which faults may happen (see FaultKinds)
  MaxFaults     \* bound: how many of them (a model bound)

ASSUME SizesAssumption ==
  /\ NumFrames \in Nat /\ MaxAggr \in Nat \ {0} /\ RetryMax \in Nat \ {0}
  /\ W \in Nat \ {0} /\ MaxSsn \in Nat \ {0} /\ FirstSsn \in 0 .. MaxSsn - 1
  /\ MaxAggr <= W
  /\ MaxRun \in Nat \ {0} /\ MaxSlots \in Nat
  /\ FcUpper \in Nat /\ FcLower \in Nat /\ FcLower < FcUpper
  /\ AckHigh \in Nat /\ AckLow \in Nat

\* "bypass": a frame of the TID does not reach ssv6200_ampdu_tx_handler;
\* "refuse": it does, and is not aggregated; "alloc": _alloc_ampdu_skb fails;
\* "bus": IF_SEND fails; "air": no answer comes back; "noba": the chip reports
\* that no BlockAck came; "stop": mac80211 ends the session.
FaultKinds == {"bypass", "refuse", "alloc", "bus", "air", "noba", "stop"}
ASSUME FaultsAssumption == Faults \subseteq FaultKinds /\ MaxFaults \in Nat

ASSUME WindowDividesAssumption == MaxSsn % W = 0 /\ 2 * W <= MaxSsn

IllegalSn == 65535              \* SSV_ILLEGAL_SN
ASSUME ManySsnsAssumption == NumFrames < MaxSsn /\ MaxSsn < IllegalSn

Frames == 1 .. NumFrames
Null == 0                       \* an empty window slot
Slots == 0 .. W - 1             \* indices of aggr_pkts
NoSeq == -1                     \* last_seqno after ssv6200_ampdu_tx_start
Status == {"NON_AMPDU", "AGGREGATED", "SENT", "RETRY", "RETRY_Q",
           "DROPPED", "DONE"}

VARIABLES
  state,    \* AMPDU_TID.state
  mac,      \* how far ssv6200_ampdu_tx_stop is
  marked,   \* the slots of aggr_pkts it has marked
  next,     \* the next MPDU mac80211 will hand over
  last,     \* last_seqno
  txq,      \* ampdu_skb_tx_queue
  cur,      \* the MPDUs of cur_ampdu_pkt
  early,    \* early_aggr_ampdu_q, a queue of aggregates
  esn,      \* early_aggr_skb_num
  win,      \* aggr_pkts
  num,      \* aggr_pkt_num
  head,     \* ssv_baw_head
  st,       \* ampdu_tx_status of each MPDU
  rc,       \* mpdu_retry_counter of each MPDU
  retryq,   \* retry_queue
  relq,     \* release_queue
  cnt,      \* ampdu_tx_frame
  dflag,    \* SC_OP_DIRECTLY_ACK
  slots,    \* ampdu_ssn: the A-MPDUs sent, with their tx_pkt_run_no
  run,      \* tx_pkt_run_no
  stopped,  \* this TID's last flow-control request was to stop its AC
  hciq,     \* the A-MPDUs of this TID in the HCI queue
  air,      \* A-MPDUs in the chip, oldest first
  faults,   \* faults so far (bounded by MaxFaults)
  rcq,      \* "no BA" reports in rc_report_queue (run numbers)
  pc,       \* where each context is
  carry,    \* the A-MPDU a context has taken from early, not yet sent
  mark,     \* index in ampdu_ssn the context clears after releasing, or 0
  post,     \* has_ba_processed of the RX task
  nobares,  \* no_ba_result of the RX task
  walk,     \* offset reached by _collect_retry_frames
  base,     \* head_ssn it started from
  tcheck,   \* its timeout_check
  drop,     \* has_drop of ssv6xxx_ampdu_check_timeout
  again,    \* its has_retry
  hand,     \* the MPDU _collect_retry_frames is about to queue, or Null
  out,      \* MPDUs handed back to mac80211, in order (history)
  lost,     \* MPDUs whose last reference a stop or a start drops (history)
  strays    \* which checks have been overtaken before their use (history)

session == <<state, mac, marked>>
queueVars == <<txq, cur, early, esn, stopped>>
winVars == <<win, num, head, st, rc, retryq, relq>>
chip == <<slots, run, hciq, air, rcq>>
chipVars == <<chip, faults>>
walkVars == <<walk, base, tcheck, drop, again, hand>>
ctxVars == <<pc, carry, mark, post, nobares, walkVars>>
history == <<out, lost, strays>>
vars == <<session, next, last, queueVars, winVars, cnt, dflag, chipVars,
          ctxVars, history>>

Ctx == {"tx", "rx", "rc"}
\* A frame queued after its session has ended; one queued for a retry after it
\* left the window; the status of a frame that waits for a retry, overwritten.
Strays == {"queue", "retry", "status"}
-----------------------------------------------------------------------------
(* Sequence numbers and the window array.                                  *)

SnOf(f) == (FirstSsn + f) % MaxSsn
SlotOf(f) == SnOf(f) % W

\* INDEX_PKT_BY_SSN and the check that the packet there has that number.
InWindow(f) == win[SlotOf(f)] = f

Occupied == {i \in Slots : win[i] # Null}
Seq2Set(s) == {s[i] : i \in 1 .. Len(s)}

\* The distance of slot i from the slot of the window head, and back.
HeadSlot == head % W
Offset(i) == IF i >= HeadSlot THEN i - HeadSlot ELSE i + W - HeadSlot
SlotAt(k) == IF HeadSlot + k < W THEN HeadSlot + k ELSE HeadSlot + k - W

Empty(s) == s = <<>>
Index == 1 .. MaxSlots              \* indices of ampdu_ssn
Free == [run |-> 0, fr |-> <<>>]    \* SSV6XXX_PKT_RUN_TYPE_NOTUSED
FlushPcs == {"flush", "tflush"}     \* inside _flush_early_ampdu_q

Init ==
  /\ state = "STOP" /\ mac = "idle" /\ marked = 0 /\ next = 1 /\ last = NoSeq
  /\ txq = <<>> /\ cur = <<>> /\ early = <<>> /\ esn = 0 /\ stopped = FALSE
  /\ win = [i \in Slots |-> Null] /\ num = 0 /\ head = IllegalSn
  /\ st = [f \in Frames |-> "NON_AMPDU"] /\ rc = [f \in Frames |-> 0]
  /\ retryq = <<>> /\ relq = <<>> /\ cnt = 0 /\ dflag = TRUE
  /\ slots = [i \in Index |-> Free] /\ run = 0
  /\ hciq = <<>> /\ air = <<>> /\ faults = 0 /\ rcq = <<>>
  /\ pc = [t \in Ctx |-> "idle"] /\ carry = [t \in Ctx |-> <<>>]
  /\ mark = [t \in Ctx |-> 0] /\ post = FALSE /\ nobares = FALSE
  /\ walk = 0 /\ base = IllegalSn /\ tcheck = FALSE /\ drop = FALSE
  /\ again = FALSE /\ hand = Null
  /\ out = <<>> /\ lost = {} /\ strays = {}

\* A fault of kind k happens.
Fault(k) == k \in Faults /\ faults < MaxFaults /\ faults' = faults + 1

Goto(t, where) == pc' = [pc EXCEPT ![t] = where]
-----------------------------------------------------------------------------
(* ssv6xxx_release_frames: the leading DONE and DROPPED frames of the      *)
(* window leave it, in order.                                              *)

\* A frame that waits in the retry queue holds the window.
Releasable(s) == s \in {"DONE", "DROPPED"}

\* The frame k slots after the head may leave; exactly n leading frames may.
MayLeave(k) == win[SlotAt(k)] # Null /\ Releasable(st[win[SlotAt(k)]])
Leading(n) ==
  IF head = IllegalSn THEN n = 0
  ELSE (\A k \in 0 .. n - 1 : MayLeave(k)) /\ (n < W => ~MayLeave(n))

\* Mutant: in the order of the array.
ReleasedByIndex(n) ==
  LET S == {SlotAt(k) : k \in 0 .. n - 1}
  IN  [k \in 1 .. n |->
         win[CHOOSE i \in S : Cardinality({j \in S : j < i}) = k - 1]]

ReleasedSeq(n) == [k \in 1 .. n |-> win[SlotAt(k - 1)]]

\* Mutant: the head is not made illegal when the window empties.
HeadAfterNoReset(n) ==
  IF head = IllegalSn THEN IllegalSn ELSE (head + n) % MaxSsn

\* Mutant: INC_PKT_SN without its wrap.
HeadAfterNoWrap(n) ==
  IF head = IllegalSn \/ n = W \/ win[SlotAt(n)] = Null THEN IllegalSn
  ELSE head + n

HeadAfter(n) ==
  IF head = IllegalSn \/ n = W \/ win[SlotAt(n)] = Null THEN IllegalSn
  ELSE (head + n) % MaxSsn

ReleaseFrames(n) ==
  /\ win' = [i \in Slots |-> IF Offset(i) < n THEN Null ELSE win[i]]
  /\ num' = num - n
  /\ head' = HeadAfter(n)
  /\ relq' = relq \o ReleasedSeq(n)
-----------------------------------------------------------------------------
(* mac80211 starts, confirms and stops the session.                        *)

Flatten(q) ==    \* the MPDUs of a queue of aggregates
  LET F[i \in 0 .. Len(q)] == IF i = 0 THEN <<>> ELSE F[i - 1] \o q[i]
  IN  F[Len(q)]

\* What the queues of an ended session and its window still hold.
Held == Seq2Set(txq) \cup Seq2Set(cur) \cup Seq2Set(Flatten(early))
          \cup {win[i] : i \in Occupied}
Left == Held \cup Seq2Set(relq) \cup Seq2Set(retryq)

\* The queues and the window are initialised, whatever a stop left in them.
TxStart ==
  /\ state = "STOP" /\ mac = "idle"
  /\ state' = "START"
  /\ last' = NoSeq
  /\ lost' = lost \cup (Left \ Seq2Set(out))
  /\ txq' = <<>> /\ cur' = <<>> /\ early' = <<>> /\ esn' = 0
  /\ win' = [i \in Slots |-> Null] /\ num' = 0 /\ head' = IllegalSn
  /\ retryq' = <<>> /\ relq' = <<>>
  /\ UNCHANGED <<mac, marked, next, stopped, st, rc, cnt, dflag, chipVars,
                 ctxVars, out, strays>>

TxOperation ==
  /\ state = "START"
  /\ state' = "OPERATION"
  /\ UNCHANGED <<mac, marked, next, last, queueVars, winVars, cnt, dflag,
                 chipVars, ctxVars, history>>

TxStop ==
  /\ Fault("stop") /\ state # "STOP"
  /\ state' = "STOP"
  /\ mac' = "mark" /\ marked' = 0
  /\ UNCHANGED <<next, last, queueVars, winVars, cnt, dflag, chip, ctxVars,
                 history>>

\* Mutant: a frame of the retry queue is given up through the window, too.
GivenUpAlways(f) == TRUE
GivenUp(f) == st[f] # "RETRY_Q"

\* Every window frame is marked DROPPED, except one that sits in the retry
\* queue, slot by slot and without a lock.
StopMark ==
  /\ mac = "mark" /\ marked < W
  /\ marked' = marked + 1
  /\ LET f == win[marked]
     IN  /\ st' = IF f # Null /\ GivenUp(f) THEN [st EXCEPT ![f] = "DROPPED"]
                  ELSE st
         /\ rc' = IF f # Null THEN [rc EXCEPT ![f] = RetryMax] ELSE rc
  /\ UNCHANGED <<state, mac, next, last, queueVars, win, num, head, retryq,
                 relq, cnt, dflag, chipVars, ctxVars, history>>

\* The code leaves this out when the walk has met no frame; a frame that came
\* since then and has its answer is released by the context that brought it.
StopRelease ==
  /\ mac = "mark" /\ marked = W
  /\ mac' = "txq" /\ marked' = 0
  /\ \E n \in 0 .. W : Leading(n) /\ ReleaseFrames(n)
  /\ UNCHANGED <<state, next, last, queueVars, st, rc, retryq, cnt, dflag,
                 chipVars, ctxVars, history>>

\* _clear_mpdu_q hands one frame a turn back to mac80211; an aggregate goes
\* whole, nobody else sees it once it is dequeued.
HandBack(s) == out' = out \o s /\ cnt' = cnt - Len(s)

ClearTxq ==
  /\ mac = "txq" /\ ~Empty(txq)
  /\ txq' = Tail(txq) /\ HandBack(<<Head(txq)>>)
  /\ UNCHANGED <<session, next, last, cur, early, esn, stopped, winVars,
                 dflag, chipVars, ctxVars, lost, strays>>

ClearRetryq ==
  /\ mac = "retryq" /\ ~Empty(retryq)
  /\ retryq' = Tail(retryq) /\ HandBack(<<Head(retryq)>>)
  /\ UNCHANGED <<session, next, last, queueVars, win, num, head, st, rc, relq,
                 dflag, chipVars, ctxVars, lost, strays>>

ClearRelq ==
  /\ mac = "relq" /\ ~Empty(relq)
  /\ relq' = Tail(relq) /\ HandBack(<<Head(relq)>>)
  /\ UNCHANGED <<session, next, last, queueVars, win, num, head, st, rc,
                 retryq, dflag, chipVars, ctxVars, lost, strays>>

ClearEarly ==
  /\ mac = "early" /\ ~Empty(early)
  /\ early' = Tail(early) /\ HandBack(Head(early))
  /\ UNCHANGED <<session, next, last, txq, cur, esn, stopped, winVars, dflag,
                 chipVars, ctxVars, lost, strays>>

\* A queue is found empty: the next one.
ClearNext ==
  /\ \/ mac = "txq" /\ Empty(txq) /\ mac' = "retryq"
     \/ mac = "retryq" /\ Empty(retryq) /\ mac' = "relq"
     \/ mac = "relq" /\ Empty(relq) /\ mac' = "early"
  /\ UNCHANGED <<state, marked, next, last, queueVars, winVars, cnt, dflag,
                 chipVars, ctxVars, history>>

\* cur_ampdu_pkt is freed with the MPDUs in it, the AC is started again.
\* early_aggr_skb_num and what is left in the window stay as they are.
StopEnd ==
  /\ mac = "early" /\ Empty(early)
  /\ mac' = "idle"
  /\ cur' = <<>> /\ lost' = lost \cup Seq2Set(cur)
  /\ stopped' = FALSE
  /\ UNCHANGED <<state, marked, next, last, txq, early, esn, winVars, cnt,
                 dflag, chipVars, ctxVars, out, strays>>
-----------------------------------------------------------------------------
(* The TX task: ssv6200_ampdu_tx_handler and _aggr_ampdu_tx_q.             *)

\* A frame at a legacy rate, or one handed over outside a session, does
\* not reach ssv6200_ampdu_tx_handler: it is sent as a single MPDU.
TxBypass ==
  /\ Fault("bypass") /\ pc["tx"] = "idle" /\ next \in Frames
  /\ next' = next + 1
  /\ UNCHANGED <<session, last, queueVars, winVars, cnt, dflag, chip,
                 ctxVars, history>>

Contiguous(f) == last = NoSeq \/ SnOf(f) = (last + 1) % MaxSsn
DirectAck == dflag /\ cnt < AckHigh

\* The session's state and the number of the frame are looked at first; what
\* follows does not look again.
TxCheck ==
  /\ pc["tx"] = "idle" /\ next \in Frames /\ state = "OPERATION"
  /\ Contiguous(next)
  /\ last' = SnOf(next)
  /\ Goto("tx", "queue")
  /\ UNCHANGED <<session, next, queueVars, winVars, cnt, dflag, chipVars,
                 carry, mark, post, nobares, walkVars, history>>

\* The frame is not aggregated after all: its rate allows no A-MPDU, the copy
\* that stands in for a directly acknowledged frame cannot be allocated, or
\* it has no delimiter.  last_seqno has moved on.
TxRefused ==
  /\ Fault("refuse") /\ pc["tx"] = "queue" /\ next \in Frames
  /\ next' = next + 1
  /\ dflag' \in {dflag, DirectAck}
  /\ Goto("tx", "idle")
  /\ UNCHANGED <<session, last, queueVars, winVars, cnt, chip, carry, mark,
                 post, nobares, walkVars, history>>

\* The frame joins the queue.  If the session has ended since TxCheck, or
\* another one has begun, it is queued all the same.
TxQueue ==
  /\ pc["tx"] = "queue" /\ next \in Frames
  /\ dflag' = DirectAck
  /\ st' = [st EXCEPT ![next] = "NON_AMPDU"]
  /\ rc' = [rc EXCEPT ![next] = 0]
  /\ txq' = Append(txq, next)
  /\ cnt' = cnt + 1
  /\ next' = next + 1
  /\ strays' = IF state = "OPERATION" /\ last = SnOf(next) THEN strays
               ELSE strays \cup {"queue"}
  /\ Goto("tx", "aggr")
  /\ UNCHANGED <<session, last, cur, early, esn, stopped, win, num, head,
                 retryq, relq, chipVars, carry, mark, post, nobares, walkVars,
                 out, lost>>

\* Mutant: A-MPDUs are counted, not their frames.
QueueEarlyCountsOne(a) ==
  /\ early' = Append(early, a)
  /\ esn' = esn + 1
  /\ stopped' = (stopped \/ esn + 1 >= FcUpper)

\* _queue_early_ampdu, with its flow control.
QueueEarly(a) ==
  /\ early' = Append(early, a)
  /\ esn' = esn + Len(a)
  /\ stopped' = (stopped \/ esn + Len(a) >= FcUpper)

\* One turn of the outer loop of _aggr_ampdu_tx_q: n MPDUs join the current
\* aggregate; it is closed when it is full (by size or by number), or when
\* nothing of this TID is on its way and the HCI queue of its AC is empty
\* (other traffic may fill that queue, hence the choice).
Aggregate ==
  /\ pc["tx"] = "aggr" /\ txq # <<>>
  /\ \E n \in 0 .. Len(txq) :
       /\ Len(cur) + n <= MaxAggr /\ Len(cur) + n > 0
       /\ LET a       == cur \o SubSeq(txq, 1, n)
              full    == n < Len(txq) \/ Len(a) = MaxAggr
              nothing == Empty(early) /\ head = IllegalSn /\ Empty(hciq)
          IN  /\ txq' = SubSeq(txq, n + 1, Len(txq))
              /\ \/ /\ full \/ nothing
                    /\ QueueEarly(a) /\ cur' = <<>>
                 \/ /\ ~full
                    /\ cur' = a /\ UNCHANGED <<early, esn, stopped>>
  /\ Goto("tx", "flush")
  /\ UNCHANGED <<session, next, last, winVars, cnt, dflag, chipVars, carry,
                 mark, post, nobares, walkVars, history>>

\* _alloc_ampdu_skb fails: the frames stay in ampdu_skb_tx_queue.
AggregateNoMem ==
  /\ Fault("alloc")
  /\ pc["tx"] = "aggr" /\ Empty(cur)
  /\ Goto("tx", "idle")
  /\ UNCHANGED <<session, next, last, queueVars, winVars, cnt, dflag, chip,
                 carry, mark, post, nobares, walkVars, history>>

\* Nothing left to aggregate: the session was stopped meanwhile.
AggregateDone ==
  /\ pc["tx"] = "aggr" /\ Empty(txq)
  /\ Goto("tx", "idle")
  /\ UNCHANGED <<session, next, last, queueVars, winVars, cnt, dflag, chipVars,
                 carry, mark, post, nobares, walkVars, history>>
-----------------------------------------------------------------------------
(* _flush_early_ampdu_q, run by the TX task and by the RX task.  The lock  *)
(* of early_aggr_ampdu_q covers _sync_ampdu_pkt_arr and the dequeue; it is *)
(* dropped while the A-MPDU goes to HCI.                                   *)

Indices(a) == 1 .. Len(a)
\* Mutant: a test against the head that does not know of the wrap.
BeyondBeforeHead(f) == SnOf(f) < head /\ head # IllegalSn
Beyond(f) == head + W < SnOf(f)            \* outside the window: goto NoBAWin
Collides(f) == win[SlotOf(f)] # Null       \* the slot is taken: ret = false

\* The first MPDU that fails a test decides.
Recordable(a) == \A i \in Indices(a) : ~Beyond(a[i]) /\ ~Collides(a[i])
Skipped(a) ==
  \E i \in Indices(a) : /\ Beyond(a[i])
                        /\ \A j \in 1 .. i - 1 : ~Beyond(a[j]) /\ ~Collides(a[j])

\* Mutant: off by one, a full window is never used.
HasRoomStrict(a) == W - num > Len(a)
HasRoom(a) == W - num >= Len(a)
CanFlush(a) == Empty(a) \/ (HasRoom(a) /\ (Recordable(a) \/ Skipped(a)))

\* The MPDUs of a enter the window (a later one with the same slot wins).
Record(a) ==
  /\ win' = [i \in Slots |->
               LET here == {k \in Indices(a) : SlotOf(a[k]) = i}
               IN  IF here = {} THEN win[i]
                   ELSE a[CHOOSE k \in here : \A j \in here : j <= k]]
  /\ st' = [f \in Frames |-> IF f \in Seq2Set(a) THEN "AGGREGATED" ELSE st[f]]
  /\ head' = IF head = IllegalSn THEN SnOf(a[1]) ELSE head

\* Mutant: off by one at the lower bound of the flow control.
StaysStoppedAtBound(n) == stopped /\ n >= FcLower
StaysStopped(n) == stopped /\ n > FcLower

FlushSync(t) ==
  /\ pc[t] \in FlushPcs /\ Empty(carry[t]) /\ ~Empty(early)
  /\ LET a == Head(early)
     IN  /\ CanFlush(a)
         /\ early' = Tail(early)
         /\ carry' = [carry EXCEPT ![t] = a]
         /\ esn' = esn - Len(a)
         /\ stopped' = IF Empty(a) THEN stopped ELSE StaysStopped(esn - Len(a))
         /\ IF Empty(a) \/ Skipped(a)
            THEN UNCHANGED <<win, num, st, head>>
            ELSE Record(a) /\ num' = num + Len(a)
  /\ UNCHANGED <<session, next, last, txq, cur, rc, retryq, relq, cnt, dflag,
                 chipVars, pc, mark, post, nobares, walkVars, history>>

\* _acquire_new_ampdu_ssn_slot: the next tx_pkt_run_no.  An A-MPDU still
\* recorded under that number is given up: its MPDUs become RETRY.  When
\* every slot is taken the new one is not recorded.
NewRun == IF run = MaxRun THEN 1 ELSE run + 1
Packet(a) == [run |-> NewRun, fr |-> a]
First(S) == CHOOSE i \in S : \A j \in S : i <= j

\* The frames of S lose their status; those that wait in the retry queue
\* stray.
Overwrite(S) ==
  strays' = IF \E f \in S : st[f] = "RETRY_Q" THEN strays \cup {"status"} ELSE strays

Acquire(a) ==
  LET old  == {i \in Index : slots[i].run = NewRun}
      free == {i \in Index : slots[i].run \in {0, NewRun}}
      back == UNION {Seq2Set(slots[i].fr) : i \in old}
  IN  /\ run' = NewRun
      /\ st' = [f \in Frames |-> IF f \in back /\ InWindow(f) THEN "RETRY"
                                 ELSE st[f]]
      /\ slots' = [i \in Index |->
                     IF free # {} /\ i = First(free) THEN Packet(a)
                     ELSE IF i \in old THEN Free ELSE slots[i]]
      /\ Overwrite({f \in back : InWindow(f)})

\* _send_hci_skb, at the tail of the HCI queue.
FlushSend(t) ==
  /\ pc[t] \in FlushPcs /\ ~Empty(carry[t])
  /\ Acquire(carry[t])
  /\ hciq' = Append(hciq, Packet(carry[t]))
  /\ carry' = [carry EXCEPT ![t] = <<>>]
  /\ UNCHANGED <<session, next, last, queueVars, win, num, head, rc, retryq,
                 relq, cnt, dflag, air, faults, rcq, pc, mark, post, nobares,
                 walkVars, out, lost>>

AfterFlush(t) ==
  IF pc[t] = "tflush" THEN "idle"
  ELSE IF t = "rx" THEN "report"
  ELSE IF Empty(txq) THEN "idle" ELSE "aggr"

FlushDone(t) ==
  /\ pc[t] \in FlushPcs /\ Empty(carry[t])
  /\ ~Empty(early) => ~CanFlush(Head(early))
  /\ Goto(t, AfterFlush(t))
  /\ UNCHANGED <<session, next, last, queueVars, winVars, cnt, dflag, chipVars,
                 carry, mark, post, nobares, walkVars, history>>

\* ssv6xxx_ampdu_flush: by the TX task when it is idle for wait_period or
\* told that a queue has drained, by the RX task after its time-out check.
AmpduFlush(t, from) ==
  /\ pc[t] = from /\ state = "OPERATION"
  /\ ~Empty(early) \/ ~Empty(cur)
  /\ Goto(t, "close")
  /\ UNCHANGED <<session, next, last, queueVars, winVars, cnt, dflag, chipVars,
                 carry, mark, post, nobares, walkVars, history>>

\* With no early aggregate, the current one is closed as it is.
CloseCurrent(t) ==
  /\ pc[t] = "close"
  /\ IF Empty(early) /\ ~Empty(cur)
     THEN QueueEarly(cur) /\ cur' = <<>>
     ELSE UNCHANGED <<early, esn, stopped, cur>>
  /\ Goto(t, "tflush")
  /\ UNCHANGED <<session, next, last, txq, winVars, cnt, dflag, chipVars,
                 carry, mark, post, nobares, walkVars, history>>
-----------------------------------------------------------------------------
(* The HCI context: ssv6xxx_ampdu_sent, called before the bus transfer.    *)
(* When the transfer fails the A-MPDU is put back in front of its queue.   *)

MarkSent(a) ==
  LET sent == IF state = "OPERATION" THEN {f \in Seq2Set(a) : InWindow(f)} ELSE {}
  IN  /\ st' = [f \in Frames |-> IF f \in sent THEN "SENT" ELSE st[f]]
      /\ Overwrite(sent)

HciSend ==
  /\ ~Empty(hciq)
  /\ MarkSent(Head(hciq).fr)
  /\ hciq' = Tail(hciq)
  /\ air' = Append(air, Head(hciq))
  /\ UNCHANGED <<session, next, last, queueVars, win, num, head, rc, retryq,
                 relq, cnt, dflag, slots, run, faults, rcq, ctxVars, out, lost>>

HciSendFails ==
  /\ Fault("bus") /\ ~Empty(hciq)
  /\ MarkSent(Head(hciq).fr)
  /\ UNCHANGED <<session, next, last, queueVars, win, num, head, rc, retryq,
                 relq, cnt, dflag, slots, run, hciq, air, rcq, ctxVars, out, lost>>
-----------------------------------------------------------------------------
(* What becomes of an A-MPDU in the air: a BlockAck, a "no BA" report, or  *)
(* nothing comes back.                                                     *)

Fr == Head(air).fr
RxReady == pc["rx"] \in {"idle", "batch"}

\* ssv6xxx_mark_skb_retry, for an MPDU that was SENT
Retried(f) == IF rc[f] + 1 >= RetryMax THEN "DROPPED" ELSE "RETRY"
\* the same decision in the two "no BA" handlers
NoBaRetried(f) == IF rc[f] < RetryMax THEN "RETRY" ELSE "DROPPED"

With(r) == {i \in Index : slots[i].run = r}
\* Mutant: the guard of ssv6xxx_mark_skb_retry also lets DONE frames pass.
WaitsOrDone(f) == st[f] \in {"SENT", "DONE"}
WaitsForAnswer(f) == st[f] = "SENT"
SentIn(a) == {f \in Seq2Set(a) : InWindow(f) /\ WaitsForAnswer(f)}

\* ssv6006_ampdu_ba_handler: the BlockAck is matched to the MPDUs recorded
\* under its tx_pkt_run_no, and dropped when there are none.  Its bitmap
\* (module BaBitmap) acknowledges some of them.
RxBa ==
  /\ RxReady /\ ~Empty(air)
  /\ air' = Tail(air)
  /\ post' = TRUE
  /\ LET found == With(Head(air).run)
         known == state # "STOP" /\ found # {}
         sent  == IF known THEN SentIn(slots[First(found)].fr) ELSE {}
     IN  /\ \E acked \in SUBSET sent :
              /\ st' = [f \in Frames |-> IF f \in acked THEN "DONE"
                                         ELSE IF f \in sent THEN Retried(f)
                                         ELSE st[f]]
              /\ rc' = [f \in Frames |-> IF f \in sent \ acked THEN rc[f] + 1
                                         ELSE rc[f]]
         /\ mark' = [mark EXCEPT !["rx"] = IF known THEN First(found) ELSE 0]
         /\ Goto("rx", IF known THEN "release" ELSE "batch")
  /\ UNCHANGED <<session, next, last, queueVars, win, num, head, retryq, relq,
                 cnt, dflag, slots, run, hciq, faults, rcq, carry, nobares,
                 walkVars, history>>

\* SOC_EVT_NO_BA: ssv6200_ampdu_no_BA_handler.  The slot that holds the
\* first MPDU is given back before the session's state is looked at.
RxNoBaEvent ==
  /\ Fault("noba") /\ RxReady /\ ~Empty(air)
  /\ air' = Tail(air)
  /\ post' = TRUE
  /\ LET holds == {i \in Index : Fr[1] \in Seq2Set(slots[i].fr)}
     IN  slots' = [i \in Index |-> IF holds # {} /\ i = First(holds) THEN Free
                                  ELSE slots[i]]
  /\ LET hit == IF state = "OPERATION" THEN SentIn(Fr) ELSE {}
     IN  /\ st' = [f \in Frames |-> IF f \in hit THEN NoBaRetried(f) ELSE st[f]]
         /\ rc' = [f \in Frames |-> IF f \in hit /\ rc[f] < RetryMax
                                    THEN rc[f] + 1 ELSE rc[f]]
  /\ Goto("rx", IF state = "OPERATION" THEN "release" ELSE "batch")
  /\ UNCHANGED <<session, next, last, queueVars, win, num, head, retryq, relq,
                 cnt, dflag, run, hciq, rcq, carry, mark, nobares,
                 walkVars, history>>

\* RATE_RPT without a success: ssv6006_rate_report_handler queues it for the
\* rate report work; the RX task remembers that there was one.
RxRateRptNoBa ==
  /\ Fault("noba") /\ RxReady /\ ~Empty(air)
  /\ air' = Tail(air)
  /\ nobares' = TRUE /\ post' = TRUE
  /\ rcq' = Append(rcq, Head(air).run)
  /\ Goto("rx", "batch")
  /\ UNCHANGED <<session, next, last, queueVars, winVars, cnt, dflag, slots, run,
                 hciq, carry, mark, walkVars, history>>

\* RATE_RPT with a success, after the BlockAck it is about: it overwrites
\* has_ba_processed with no_ba_result.
RxRateRpt ==
  /\ pc["rx"] = "batch" /\ post
  /\ post' = nobares
  /\ UNCHANGED <<session, next, last, queueVars, winVars, cnt, dflag, chipVars,
                 pc, carry, mark, nobares, walkVars, history>>

\* The A-MPDU, or what the chip says of it, is lost.
AirLost ==
  /\ Fault("air") /\ ~Empty(air)
  /\ air' = Tail(air)
  /\ UNCHANGED <<session, next, last, queueVars, winVars, cnt, dflag, slots, run,
                 hciq, rcq, ctxVars, history>>

\* ssv6006_rc_no_ba_handler, in the rate report work; it does not look at
\* the session's state.
RcNoBa ==
  /\ pc["rc"] = "idle" /\ ~Empty(rcq)
  /\ rcq' = Tail(rcq)
  /\ LET found == With(Head(rcq))
         hit   == IF found = {} THEN {} ELSE SentIn(slots[First(found)].fr)
     IN  /\ st' = [f \in Frames |-> IF f \in hit THEN NoBaRetried(f) ELSE st[f]]
         /\ rc' = [f \in Frames |-> IF f \in hit /\ rc[f] < RetryMax
                                    THEN rc[f] + 1 ELSE rc[f]]
         /\ mark' = [mark EXCEPT !["rc"] = IF found = {} THEN 0 ELSE First(found)]
         /\ Goto("rc", IF found = {} THEN "idle" ELSE "release")
  /\ UNCHANGED <<session, next, last, queueVars, win, num, head, retryq, relq,
                 cnt, dflag, slots, run, hciq, air, faults, carry, post,
                 nobares, walkVars, history>>

\* ssv6xxx_release_frames, and the reset of the slot that was dealt with.
Release(t, to) ==
  /\ \E n \in 0 .. W : Leading(n) /\ ReleaseFrames(n)
  /\ slots' = IF mark[t] = 0 THEN slots ELSE [slots EXCEPT ![mark[t]] = Free]
  /\ mark' = [mark EXCEPT ![t] = 0]
  /\ Goto(t, to)
  /\ UNCHANGED <<session, next, last, queueVars, st, rc, retryq, cnt, dflag, run,
                 hciq, air, faults, rcq, carry, post, nobares, walkVars, history>>

ReleaseBa == pc["rx"] = "release" /\ Release("rx", "batch")
ReleaseNoBa == pc["rc"] = "release" /\ Release("rc", "idle")
ReleaseTimeout == pc["rx"] = "trelease" /\ Release("rx", "tend")

\* The RX queue is drained: ssv6xxx_ampdu_postprocess_BA, if anything asked
\* for it and the session is in operation.
RxEnd ==
  /\ pc["rx"] = "batch"
  /\ post' = FALSE /\ nobares' = FALSE
  /\ IF post /\ state = "OPERATION"
     THEN /\ base' = head /\ tcheck' = (head # IllegalSn)
          /\ Goto("rx", IF head = IllegalSn THEN "retry" ELSE "collect")
     ELSE Goto("rx", "idle") /\ UNCHANGED <<base, tcheck>>
  /\ UNCHANGED <<session, next, last, queueVars, winVars, cnt, dflag, chipVars,
                 carry, mark, walk, drop, again, hand, history>>
-----------------------------------------------------------------------------
(* _collect_retry_frames and _check_timeout look at the window slot by     *)
(* slot, from its head on, and hold no lock.                               *)

WalkSsn == (base + walk) % MaxSsn

\* Mutant: the arguments in the order that measures the distance from head.
DiffFromHead(h, ssn) == IF ssn >= h THEN ssn - h ELSE MaxSsn - h + ssn
\* SSV_AMPDU_SN_a_minus_b(head_ssn, ssn), in this order of arguments
Diff(h, ssn) == IF h >= ssn THEN h - ssn ELSE MaxSsn - ssn + h

AfterCollect(t) == IF t = "tcollect" THEN "tretry" ELSE "retry"
CollectPcs == {"collect", "tcollect"}

\* _collect_retry_frames looks at a slot, and marks a frame that has expired.
CollectLook ==
  /\ pc["rx"] \in CollectPcs /\ walk < W /\ hand = Null
  /\ LET f == win[WalkSsn % W]
     IN  \/ /\ f = Null
            /\ walk' = walk + 1     \* INC_PKT_SN
            /\ UNCHANGED <<st, rc, tcheck, hand>>
         \/ /\ f # Null
            /\ \E expired \in BOOLEAN :
                 LET waiting == tcheck /\ WaitsForAnswer(f)
                     late    == waiting /\ expired
                     status  == IF Diff(base, WalkSsn) > W THEN "DROPPED"
                                ELSE IF late THEN Retried(f) ELSE st[f]
                 IN  /\ tcheck' = (tcheck /\ (waiting => late))
                     /\ rc' = IF late THEN [rc EXCEPT ![f] = @ + 1] ELSE rc
                     /\ st' = [st EXCEPT ![f] = status]
                     /\ hand' = IF status = "RETRY" THEN f ELSE Null
                     /\ walk' = IF status = "RETRY" THEN walk ELSE walk + 1
  /\ UNCHANGED <<session, next, last, queueVars, win, num, head, retryq, relq,
                 cnt, dflag, chipVars, pc, carry, mark, post, nobares, base,
                 drop, again, history>>

\* A frame found in RETRY is queued for it, whatever has become of it since.
CollectPut ==
  /\ pc["rx"] \in CollectPcs /\ walk < W /\ hand # Null
  /\ st' = [st EXCEPT ![hand] = "RETRY_Q"]
  /\ retryq' = Append(retryq, hand)
  /\ strays' = IF InWindow(hand) THEN strays ELSE strays \cup {"retry"}
  /\ hand' = Null /\ walk' = walk + 1
  /\ UNCHANGED <<session, next, last, queueVars, win, num, head, rc, relq, cnt,
                 dflag, chipVars, pc, carry, mark, post, nobares, base, tcheck,
                 drop, again, out, lost>>

CollectDone ==
  /\ pc["rx"] \in CollectPcs /\ walk = W
  /\ walk' = 0 /\ base' = IllegalSn /\ tcheck' = FALSE
  /\ Goto("rx", AfterCollect(pc["rx"]))
  /\ UNCHANGED <<session, next, last, queueVars, winVars, cnt, dflag, chipVars,
                 carry, mark, post, nobares, drop, again, hand, history>>
-----------------------------------------------------------------------------
(* ssv6200_ampdu_send_retry                                                *)

RetryPcs == {"retry", "tretry"}
AfterRetry(t) == IF t = "retry" THEN "flush" ELSE IF drop THEN "trelease" ELSE "tend"

\* _aggr_retry_mpdu is entered: BUG_ON(head_ssn == SSV_ILLEGAL_SN) comes first.
RetryEntered == pc["rx"] \in RetryPcs /\ Empty(carry["rx"]) /\ ~Empty(retryq)

\* _aggr_retry_mpdu takes MPDUs from the retry queue, _sync_ampdu_pkt_arr
\* puts them (back) into the window without counting them.
RetryTake ==
  /\ RetryEntered /\ head # IllegalSn
  /\ \E n \in 1 .. Len(retryq) :
       /\ n <= MaxAggr
       /\ LET a == SubSeq(retryq, 1, n)
          IN  /\ carry' = [carry EXCEPT !["rx"] = a]
              /\ retryq' = SubSeq(retryq, n + 1, Len(retryq))
              /\ Record(a)
  /\ UNCHANGED <<session, next, last, queueVars, num, rc, relq, cnt, dflag,
                 chipVars, pc, mark, post, nobares, walkVars, history>>

\* _alloc_ampdu_skb fails: the MPDUs stay in the retry queue.
RetryNoMem ==
  /\ Fault("alloc") /\ RetryEntered /\ head # IllegalSn
  /\ Goto("rx", AfterRetry(pc["rx"]))
  /\ UNCHANGED <<session, next, last, queueVars, winVars, cnt, dflag, chip,
                 carry, mark, post, nobares, walkVars, history>>

\* _send_hci_skb, in front of the HCI queue
RetrySend ==
  /\ pc["rx"] \in RetryPcs /\ ~Empty(carry["rx"])
  /\ Acquire(carry["rx"])
  /\ hciq' = <<Packet(carry["rx"])>> \o hciq
  /\ carry' = [carry EXCEPT !["rx"] = <<>>]
  /\ UNCHANGED <<session, next, last, queueVars, win, num, head, rc, retryq,
                 relq, cnt, dflag, air, faults, rcq, pc, mark, post, nobares,
                 walkVars, out, lost>>

RetryDone ==
  /\ pc["rx"] \in RetryPcs /\ Empty(carry["rx"]) /\ Empty(retryq)
  /\ Goto("rx", AfterRetry(pc["rx"]))
  /\ UNCHANGED <<session, next, last, queueVars, winVars, cnt, dflag, chipVars,
                 carry, mark, post, nobares, walkVars, history>>

\* _flush_release_queue
Report ==
  /\ pc["rx"] = "report"
  /\ out' = out \o relq
  /\ relq' = <<>>
  /\ cnt' = cnt - Len(relq)
  /\ dflag' = (dflag \/ (~Empty(relq) /\ cnt - Len(relq) < AckLow))
  /\ Goto("rx", "idle")
  /\ UNCHANGED <<session, next, last, queueVars, win, num, head, st, rc, retryq,
                 chipVars, carry, mark, post, nobares, walkVars, lost, strays>>
-----------------------------------------------------------------------------
(* ssv6xxx_ampdu_check_timeout, when the RX task has waited in vain.       *)

CheckStart ==
  /\ pc["rx"] = "idle" /\ state = "OPERATION"
  /\ drop' = FALSE /\ again' = FALSE
  /\ base' = head
  /\ Goto("rx", IF head = IllegalSn THEN "tend" ELSE "check")
  /\ UNCHANGED <<session, next, last, queueVars, winVars, cnt, dflag, chipVars,
                 carry, mark, post, nobares, walk, tcheck, hand, history>>

\* An empty slot, and a frame not yet handed to HCI, are passed over.
CheckPass ==
  /\ pc["rx"] = "check" /\ walk < W
  /\ LET f == win[WalkSsn % W] IN f # Null => st[f] = "AGGREGATED"
  /\ walk' = walk + 1
  /\ UNCHANGED <<session, next, last, queueVars, winVars, cnt, dflag, chipVars,
                 pc, carry, mark, post, nobares, base, tcheck, drop, again,
                 hand, history>>

\* A frame that has expired.
CheckExpired ==
  /\ pc["rx"] = "check" /\ walk < W
  /\ LET f      == win[WalkSsn % W]
         late   == WaitsForAnswer(f)
         status == IF late THEN Retried(f) ELSE st[f]
     IN  /\ f # Null /\ st[f] # "AGGREGATED"
         /\ st' = [st EXCEPT ![f] = status]
         /\ rc' = IF late THEN [rc EXCEPT ![f] = @ + 1] ELSE rc
         /\ again' = (again \/ status = "RETRY")
         /\ drop' = (drop \/ status = "DROPPED")
  /\ walk' = walk + 1
  /\ UNCHANGED <<session, next, last, queueVars, win, num, head, retryq, relq,
                 cnt, dflag, chipVars, pc, carry, mark, post, nobares, base,
                 tcheck, hand, history>>

\* The walk ends at the window's end, or at a frame that has not expired.
CheckDone ==
  /\ pc["rx"] = "check"
  /\ walk < W => LET f == win[WalkSsn % W] IN f # Null /\ st[f] # "AGGREGATED"
  /\ walk' = 0
  /\ base' = IF again THEN head ELSE IllegalSn
  /\ tcheck' = (again /\ head # IllegalSn)
  /\ Goto("rx", IF again THEN (IF head = IllegalSn THEN "tretry" ELSE "tcollect")
                ELSE IF drop THEN "trelease" ELSE "tend")
  /\ UNCHANGED <<session, next, last, queueVars, winVars, cnt, dflag, chipVars,
                 carry, mark, post, nobares, drop, again, hand, history>>

\* ssv6xxx_ampdu_flush follows when no HCI queue is empty.
NoTimeoutFlush ==
  /\ pc["rx"] = "tend"
  /\ Goto("rx", "idle")
  /\ UNCHANGED <<session, next, last, queueVars, winVars, cnt, dflag, chipVars,
                 carry, mark, post, nobares, walkVars, history>>
-----------------------------------------------------------------------------
(* Properties.                                                             *)

Records == [run : 0 .. MaxRun, fr : Seq(Frames)]

TypeOK ==
  /\ state \in {"STOP", "START", "OPERATION"}
  /\ mac \in {"idle", "mark", "txq", "retryq", "relq", "early"}
  /\ marked \in 0 .. W
  /\ next \in 1 .. NumFrames + 1 /\ last \in (0 .. MaxSsn - 1) \cup {NoSeq}
  /\ txq \in Seq(Frames) /\ cur \in Seq(Frames) /\ early \in Seq(Seq(Frames))
  /\ esn \in Int /\ stopped \in BOOLEAN
  /\ win \in [Slots -> Frames \cup {Null}] /\ num \in Int
  /\ head \in (0 .. MaxSsn - 1) \cup {IllegalSn}
  /\ st \in [Frames -> Status] /\ rc \in [Frames -> Nat]
  /\ retryq \in Seq(Frames) /\ relq \in Seq(Frames)
  /\ cnt \in Int /\ dflag \in BOOLEAN
  /\ slots \in [Index -> Records] /\ run \in 0 .. MaxRun
  /\ hciq \in Seq(Records) /\ air \in Seq(Records)
  /\ faults \in Nat /\ rcq \in Seq(0 .. MaxRun)
  /\ carry \in [Ctx -> Seq(Frames)] /\ mark \in [Ctx -> 0 .. MaxSlots]
  /\ post \in BOOLEAN /\ nobares \in BOOLEAN
  /\ walk \in 0 .. W /\ base \in (0 .. MaxSsn - 1) \cup {IllegalSn}
  /\ tcheck \in BOOLEAN /\ drop \in BOOLEAN /\ again \in BOOLEAN
  /\ hand \in Frames \cup {Null}
  /\ out \in Seq(Frames) /\ lost \subseteq Frames
  /\ strays \subseteq Strays
  /\ pc \in [Ctx -> {"idle", "queue", "aggr", "close", "flush", "tflush",
                    "batch", "release", "collect", "tcollect", "retry",
                    "tretry", "report", "check", "trelease", "tend"}]

\* No frame was queued for a retry after it had left the window, and none lost
\* its status while it waited for one; nor was one queued by the TX task after
\* the session it was checked for.
NoStray == strays \cap {"retry", "status"} = {}
NoneAtAll == strays = {}

\* The window of a live session holds num frames with consecutive numbers
\* from head: BlockAcks, time-outs and retries never open a gap in it, and
\* ssv_baw_head is illegal only when it is empty.
WindowShape ==
  NoneAtAll /\ state # "STOP" =>
    /\ num = Cardinality(Occupied)
    /\ (head = IllegalSn) <=> (num = 0)
    /\ head # IllegalSn =>
         \A k \in 0 .. num - 1 : LET f == win[SlotAt(k)]
                                IN  f # Null /\ SnOf(f) = (head + k) % MaxSsn

\* The order of mac80211 is kept up to the release queue.
WindowSeq == [k \in 1 .. num |-> win[SlotAt(k - 1)]]
Pipeline == relq \o WindowSeq \o Flatten(early) \o cur \o txq
InOrder == NoneAtAll /\ state # "STOP" =>
  \A i \in 1 .. Len(Pipeline) - 1 : Pipeline[i] < Pipeline[i + 1]

\* ampdu_tx_frame counts the frames the driver owes mac80211 and, for ever,
\* those that the end of a session has lost: nothing takes them off again.
Accounting == NoStray /\ state # "STOP" =>
  cnt = Len(relq) + Cardinality(Occupied) + Len(Flatten(early)) + Len(cur)
        + Len(txq) + Cardinality(lost)

\* early_aggr_skb_num counts the frames of the early queue.
EarlyCount == state # "STOP" => esn = Len(Flatten(early))

\* An AC is stopped only while the frames of the early queue are more than
\* the lower bound, across the end and the restart of a session, unless a
\* frame was queued after the session it was meant for had ended.
StoppedForBacklog ==
  "queue" \notin strays /\ stopped => esn > FcLower

\* At most one frame waits in the retry queue, and it is in the window: the
\* others of a failed A-MPDU are dropped by _collect_retry_frames.
OneRetry == NoneAtAll /\ state = "OPERATION" =>
  Len(retryq) <= 1 /\ \A f \in Seq2Set(retryq) : InWindow(f)

\* A frame handed back to mac80211, which frees it, is not handed back again,
\* is in no queue, and is in the window only of an ended session, when a stop
\* took it from the retry queue.
GivenBackOnce == NoStray =>
  /\ \A i, j \in 1 .. Len(out) : i # j => out[i] # out[j]
  /\ LET queued == Seq2Set(txq) \cup Seq2Set(cur) \cup Seq2Set(Flatten(early))
                     \cup Seq2Set(relq) \cup Seq2Set(retryq) \cup lost
     IN  Seq2Set(out) \cap queued = {}
  /\ \A i \in Occupied : win[i] \in Seq2Set(out) =>
        state = "STOP" /\ st[win[i]] = "RETRY_Q"

\* An acknowledged frame is not sent again: whatever was queued, reported or
\* timed out before, it stays DONE until it is released (or given up by
\* _collect_retry_frames, which drops every frame behind the head).
AckedIsFinal ==
  [][state = "OPERATION" =>
       \A f \in Frames : InWindow(f) /\ st[f] = "DONE"
                           => st'[f] \in {"DONE", "DROPPED"}]_vars

\* Every frame the session accepts is eventually released from the window,
\* acknowledged or given up, unless the session ends.
EventuallyReleased ==
  \A f \in Frames : (f \in Held /\ state = "OPERATION")
                      ~> (f \notin Held \/ state # "OPERATION")

\* BUG_ON(head_ssn == SSV_ILLEGAL_SN) in _aggr_retry_mpdu.
HeadLegalOnRetry == RetryEntered => head # IllegalSn

-----------------------------------------------------------------------------
Mac == \/ TxStart \/ TxOperation
       \/ TxStop \/ StopMark \/ StopRelease \/ ClearTxq \/ ClearRetryq
       \/ ClearRelq \/ ClearEarly \/ ClearNext \/ StopEnd
TxTask == \/ TxBypass \/ TxCheck \/ TxRefused \/ TxQueue
          \/ Aggregate \/ AggregateNoMem \/ AggregateDone
          \/ AmpduFlush("tx", "idle") \/ CloseCurrent("tx")
          \/ FlushSync("tx") \/ FlushSend("tx") \/ FlushDone("tx")
Hci == HciSend \/ HciSendFails
Chip == RxBa \/ RxNoBaEvent \/ RxRateRptNoBa \/ AirLost
RxTask == \/ ReleaseBa \/ RxRateRpt \/ RxEnd
          \/ CollectLook \/ CollectPut \/ CollectDone
          \/ RetryTake \/ RetryNoMem \/ RetrySend \/ RetryDone
          \/ FlushSync("rx") \/ FlushSend("rx") \/ FlushDone("rx") \/ Report
          \/ CheckStart \/ CheckPass \/ CheckExpired \/ CheckDone
          \/ ReleaseTimeout \/ NoTimeoutFlush
          \/ AmpduFlush("rx", "tend") \/ CloseCurrent("rx")
RcWork == RcNoBa \/ ReleaseNoBa

Next == Mac \/ TxTask \/ Hci \/ Chip \/ RxTask \/ RcWork

Spec == Init /\ [][Next]_vars

\* The tasks and the HCI queue keep being scheduled.  The RX task looks at
\* the window every 200 ms, so that a frame sent 50 ms ago is found expired.
Fairness ==
  /\ WF_vars(TxQueue) /\ WF_vars(Aggregate \/ AggregateDone)
  /\ WF_vars(AmpduFlush("tx", "idle"))
  /\ WF_vars(CloseCurrent("tx") \/ FlushSync("tx") \/ FlushSend("tx")
               \/ FlushDone("tx"))
  /\ WF_vars(HciSend)
  /\ WF_vars(RxTask) /\ WF_vars(RxEnd) /\ WF_vars(RcWork)
  /\ \A k \in 0 .. W - 1 : SF_vars(walk = k /\ CheckExpired)

FairSpec == Spec /\ Fairness
=============================================================================
