----------------------------- MODULE MCHwRestart ----------------------------
(* Three stations for two entries, and one restart.                        *)
EXTENDS HwRestart

MCStations == {1, 2, 3}
MCSlots == 2
=============================================================================
