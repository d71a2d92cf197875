------------------------------ MODULE TxQueues ------------------------------
(***************************************************************************)
(* What the HCI layer promises of its hardware queues (hw_txq of           *)
(* src/hci/ssv_hci.c), whatever its contexts, locks and interrupts do: a   *)
(* frame that is enqueued waits, in the order of its queue, until it is    *)
(* handed to the bus exactly once or dropped because the chip can never    *)
(* hold it.  A frame enqueued at the head (HCI_FLAGS_ENQUEUE_HEAD, an      *)
(* A-MPDU sent again) overtakes the others, except the one whose transfer  *)
(* has begun.                                                              *)
(***************************************************************************)
EXTENDS Naturals, Sequences

CONSTANTS
  Frames,
  Queues,
  QueueOf    \* [Frames -> Queues]

VARIABLES
  waiting,   \* the frames of each queue
  sent,      \* what went to the bus, for each queue
  dropped,   \* frames freed instead
  fresh      \* frames not enqueued yet

qvars == <<waiting, sent, dropped, fresh>>

QInit ==
  /\ waiting = [i \in Queues |-> <<>>] /\ sent = [i \in Queues |-> <<>>]
  /\ dropped = {} /\ fresh = Frames

InsertAt(s, k, f) == SubSeq(s, 1, k) \o <<f>> \o SubSeq(s, k + 1, Len(s))

Put(f, k) ==
  /\ f \in fresh
  /\ k <= Len(waiting[QueueOf[f]])
  /\ waiting' = [waiting EXCEPT ![QueueOf[f]] = InsertAt(@, k, f)]
  /\ fresh' = fresh \ {f}
  /\ UNCHANGED <<sent, dropped>>

Send(i) ==
  /\ waiting[i] # <<>>
  /\ sent' = [sent EXCEPT ![i] = Append(@, Head(waiting[i]))]
  /\ waiting' = [waiting EXCEPT ![i] = Tail(@)]
  /\ UNCHANGED <<dropped, fresh>>

Drop(i) ==
  /\ waiting[i] # <<>>
  /\ dropped' = dropped \cup {Head(waiting[i])}
  /\ waiting' = [waiting EXCEPT ![i] = Tail(@)]
  /\ UNCHANGED <<sent, fresh>>

QNext == \/ \E f \in Frames : \E k \in {0, 1, Len(waiting[QueueOf[f]])} : Put(f, k)
         \/ \E i \in Queues : Send(i) \/ Drop(i)

QSpec == QInit /\ [][QNext]_qvars
=============================================================================
