----------------------------- MODULE MCAmpduTx -----------------------------
(* Small instances of AmpduTx for TLC.                                     *)
EXTENDS AmpduTx

\* Bounds on what the environment may pile up.
RcBound == Len(rcq) <= 1
AirBound == Len(air) + Len(hciq) <= 2
Bounded == RcBound /\ AirBound
=============================================================================
