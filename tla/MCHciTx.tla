------------------------------ MODULE MCHciTx -------------------------------
(* Two queues (the last one is the management queue), a TX task that only  *)
(* enqueues, and contexts that pause, resume, stop and start.              *)
EXTENDS HciTx

\* Frame 3 goes to the management queue, frame 4 is larger than the chip.
MCQueueOf == [f \in Frames |-> IF f = 3 THEN 1 ELSE 0]
MCPages == [f \in Frames |-> CASE f = 4 -> 4 [] f \in {2, 3} -> 2 [] OTHER -> 1]
MCOutMax == [i \in Queues |-> 2]

MCMayDo ==
  [c \in Callers |-> CASE c = "tx"  -> {"enqueue"}
                        [] c = "cfg" -> {"pause", "resume", "start"}
                        [] c = "dpd" -> {"pause", "resume"}
                        [] c = "mac" -> {"start", "stop"}]
=============================================================================
