------------------------------- MODULE MCParts ------------------------------
(***************************************************************************)
(* The parts of the driver that share no state with the transmit path of   *)
(* AmpduTx, HciTx and PollTx, nor with one another, checked in one run:    *)
(* `which' is chosen at the start, and only that part takes steps.  Each   *)
(* of the others stays in one initial state, so that the states are the    *)
(* sum of the parts' states and not their product.                         *)
(***************************************************************************)
EXTENDS BaBitmap, CryptoPipe, UsbRx, UsbCmd, FwLoad, ApBcast, RxSplit

VARIABLE which

\* Of the parts with many initial states, the one to stay in.
PartsRest ==
  /\ IF which = "bitmap" THEN TRUE ELSE start = 0 /\ ssns = <<0>> /\ bits = {}
  /\ IF which = "firmware" THEN TRUE ELSE fwVia = "request" /\ fwUsb = FALSE /\ fwLast = FALSE
  /\ IF which = "split" THEN TRUE ELSE rxLens = <<3>> /\ rxTail = [size |-> 0, next |-> 0]

PartsInit ==
  /\ which \in {"bitmap", "crypto", "usb data", "usb command", "firmware", "broadcast", "split"}
  /\ PartsRest
  /\ Init /\ CpInit /\ UxInit /\ UcInit /\ FwInit /\ AbInit /\ RxInit

StepBitmap == /\ which = "bitmap" /\ Next
              /\ UNCHANGED <<cpVars, uxVars, ucVars, fwVars, abVars, rxVars, which>>
StepCrypto == /\ which = "crypto" /\ CpNextStep
              /\ UNCHANGED <<vars, uxVars, ucVars, fwVars, abVars, rxVars, which>>
StepUsbData == /\ which = "usb data" /\ UxNextStep
               /\ UNCHANGED <<vars, cpVars, ucVars, fwVars, abVars, rxVars, which>>
StepUsbCommand == /\ which = "usb command" /\ UcNextStep
                  /\ UNCHANGED <<vars, cpVars, uxVars, fwVars, abVars, rxVars, which>>
StepFirmware == /\ which = "firmware" /\ FwNextStep
                /\ UNCHANGED <<vars, cpVars, uxVars, ucVars, abVars, rxVars, which>>
StepBroadcast == /\ which = "broadcast" /\ AbNextStep
                 /\ UNCHANGED <<vars, cpVars, uxVars, ucVars, fwVars, rxVars, which>>
StepSplit == /\ which = "split" /\ RxNextStep
             /\ UNCHANGED <<vars, cpVars, uxVars, ucVars, fwVars, abVars, which>>
PartsNext == \/ StepBitmap \/ StepCrypto \/ StepUsbData \/ StepUsbCommand
             \/ StepFirmware \/ StepBroadcast \/ StepSplit

partsVars == <<vars, cpVars, uxVars, ucVars, fwVars, abVars, rxVars, which>>

\* The fairness of each part, when it is the one that runs.
PartsFairness ==
  /\ \A w \in CpTasks : WF_cpVars(which = "crypto" /\ CpRun(w))
  /\ WF_cpVars(which = "crypto" /\ (CpCleanScan \/ CpCleanRemove))
  /\ WF_uxVars(which = "usb data" /\ UxWork)
  /\ WF_uxVars(which = "usb data" /\ UxPowerStep)
  /\ WF_abVars(which = "broadcast" /\ AbWorkStep)
  /\ WF_abVars(which = "broadcast" /\ AbRemoval)

PartsSpec == PartsInit /\ [][PartsNext]_partsVars /\ PartsFairness
-----------------------------------------------------------------------------
MCKind == <<"plain", "enc", "dec", "enc">>
MCTails == {[size |-> 0, next |-> 0], [size |-> 1, next |-> 0]}
           \cup {[size |-> 2, next |-> n] : n \in {0, 3, 9}}
           \cup {[size |-> 4, next |-> n] : n \in {0, 5}}

\* The variables of every part keep their types: the indices, counts and
\* places in buffers stay in range, and no retry count, block number or
\* buffer runs past its end.
PartsTypeOK == CpTypeOK /\ UxTypeOK /\ UcTypeOK /\ FwTypeOK /\ AbTypeOK /\ RxTypeOK
=============================================================================
