------------------------------ MODULE MCPollTx ------------------------------
(* Two queues: frames 1 and 2 for an AC, 1 in an A-MPDU, and frame 3 for   *)
(* the management queue.                                                   *)
EXTENDS PollTx

MCQueueOf == [f \in HpFrames |-> IF f = 3 THEN 1 ELSE 0]
=============================================================================
