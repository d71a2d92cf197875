------------------------------- MODULE FwLoad -------------------------------
(***************************************************************************)
(* The firmware download of src/hci/ssv_hci.c, in its two forms: from an   *)
(* opened file (read block by block) and from an image that is in memory.  *)
(* Blocks are written to the chip, the chip is started, and its checksum   *)
(* of what it has is compared with the driver's; up to three attempts.     *)
(*                                                                         *)
(* A block is known by its number; a checksum is the set of blocks it was  *)
(* formed from, and how often it was folded to eight bits.  Checksums that *)
(* agree by chance are left out.  A step is one access to the chip.        *)
(***************************************************************************)
EXTENDS Naturals, FiniteSets

CONSTANTS
  FwBlocks,    \* blocks of FW_BLOCK_SIZE in the image
  FwAttempts,  \* retry_count, 3
  FwFaults,    \* which of "file", "memory", "mcu", "load" and "corrupt" may happen
  FwMaxFaults  \* bound: how many of them

ASSUME FwAssumption ==
  /\ FwBlocks \in Nat \ {0} /\ FwAttempts \in Nat \ {0} /\ FwMaxFaults \in Nat
  /\ FwFaults \subseteq {"file", "memory", "mcu", "load", "corrupt"}

VARIABLES
  fwVia,     \* "openfile" or "request", the form
  fwUsb,     \* HCI_DEVICE_TYPE is USB
  fwLast,    \* the image ends with a part of a block
  fwPc,      \* "begin", "attempt", "block", "tail", "start", "check", "done"
  fwLeft,    \* retry_count
  fwPos,     \* blocks read so far (the file's position, or block_idx)
  fwAddr,    \* sram_addr, in blocks
  fwMem,     \* what the chip has at each address
  fwSum,     \* the blocks in checksum
  fwFolds,   \* how often checksum was folded
  fwTotal,   \* tolen, in blocks
  fwRes,     \* res_size is not 0
  fwRet,     \* ret is not 0
  fwBuffer,  \* fw_buffer was allocated
  fwEvents,  \* faults so far (bounded by FwMaxFaults)
  fwBefore,  \* faults before this attempt (history)
  fwClean    \* attempts that reached the check without a fault (history)

fwInput == <<fwVia, fwUsb, fwLast>>
fwHost == <<fwSum, fwFolds, fwTotal, fwRes>>
fwHist == <<fwBefore, fwClean>>
fwVars == <<fwInput, fwPc, fwLeft, fwPos, fwAddr, fwMem, fwHost, fwRet, fwBuffer, fwEvents,
            fwHist>>

FwSize == FwBlocks + IF fwLast THEN 1 ELSE 0
FwEmpty == 0
FwBad == FwBlocks + 2   \* damaged on the way
FwPad == FwBlocks + 3   \* a buffer of 0xA5
FwFault(k) == k \in FwFaults /\ fwEvents < FwMaxFaults /\ fwEvents' = fwEvents + 1
FwNoFault == UNCHANGED fwEvents

FwInit ==
  /\ fwVia \in {"openfile", "request"} /\ fwUsb \in BOOLEAN /\ fwLast \in BOOLEAN
  /\ fwPc = "begin" /\ fwLeft = FwAttempts /\ fwPos = 0 /\ fwAddr = 0
  /\ fwMem = [a \in 1 .. FwBlocks + 1 |-> FwEmpty]
  /\ fwSum = {} /\ fwFolds = 0 /\ fwTotal = 0 /\ fwRes = FALSE
  /\ fwRet = FALSE /\ fwBuffer = FALSE /\ fwEvents = 0 /\ fwBefore = 0 /\ fwClean = {}

FwOut(failed) == fwPc' = "done" /\ fwRet' = failed

\* The file is opened and the buffer allocated; without a buffer ret is 0.
\* The other form has its checksum at once.
FwBegin ==
  /\ fwPc = "begin"
  /\ \/ /\ FwFault("file") /\ FwOut(TRUE) /\ UNCHANGED <<fwBuffer, fwHost>>
     \/ /\ FwFault("memory") /\ FwOut(FALSE) /\ UNCHANGED <<fwBuffer, fwHost>>
     \/ /\ FwNoFault /\ fwPc' = "attempt" /\ fwBuffer' = TRUE /\ UNCHANGED <<fwRet, fwRes>>
        /\ IF fwVia = "request"
           THEN fwSum' = 1 .. FwSize /\ fwFolds' = 1 /\ fwTotal' = FwSize
           ELSE UNCHANGED <<fwSum, fwFolds, fwTotal>>
  /\ UNCHANGED <<fwInput, fwLeft, fwPos, fwAddr, fwMem, fwHist>>

\* SSV_LOAD_FW_DISABLE_MCU; an image in memory is read from its start again,
\* a file is not.  Mutant: neither is.
FwRewindNever == FALSE
FwRewind == fwVia = "request"
FwAttempt ==
  /\ fwPc = "attempt"
  /\ \/ /\ ~fwUsb /\ FwFault("mcu") /\ FwOut(TRUE) /\ UNCHANGED <<fwPos, fwAddr>>
     \/ /\ FwNoFault
        /\ fwPc' = "block" /\ fwRet' = (fwRet /\ fwUsb)
        /\ IF FwRewind THEN fwPos' = 0 /\ fwAddr' = 0 ELSE UNCHANGED <<fwPos, fwAddr>>
  /\ fwBefore' = fwEvents
  /\ UNCHANGED <<fwInput, fwLeft, fwMem, fwHost, fwBuffer, fwClean>>

\* HCI_LOAD_FW of block b: written, damaged, or refused.
FwWrite(b) ==
  \/ FwNoFault /\ fwMem' = [fwMem EXCEPT ![fwAddr + 1] = b] /\ fwRet' = FALSE
  \/ FwFault("corrupt") /\ fwMem' = [fwMem EXCEPT ![fwAddr + 1] = FwBad] /\ fwRet' = FALSE
  \/ FwFault("load") /\ UNCHANGED fwMem /\ fwRet' = TRUE

\* A whole block is left to read.  Mutant: <= for <.
FwMoreOff == fwPos <= FwBlocks
FwMore == fwPos < FwBlocks

FwBlock ==
  /\ fwPc = "block" /\ FwMore
  /\ FwWrite(fwPos + 1)
  /\ fwPos' = fwPos + 1
  /\ fwAddr' = IF fwRet' THEN fwAddr ELSE fwAddr + 1
  /\ fwPc' = IF fwRet' THEN "tail" ELSE "block"
  /\ IF fwVia = "request" THEN UNCHANGED fwHost
     ELSE /\ fwTotal' = fwTotal + 1
          /\ fwSum' = IF fwRet' THEN fwSum ELSE fwSum \cup {fwPos + 1}
          /\ UNCHANGED <<fwFolds, fwRes>>
  /\ UNCHANGED <<fwInput, fwLeft, fwBuffer, fwHist>>

\* The end of the loop; a file may have a part of a block left.
FwBlocksDone ==
  /\ fwPc = "block" /\ ~FwMore
  /\ fwPc' = "tail"
  /\ IF fwVia = "openfile" /\ fwLast /\ fwPos = FwBlocks
     THEN fwPos' = fwPos + 1 /\ fwTotal' = fwTotal + 1 /\ fwRes' = TRUE
     ELSE UNCHANGED <<fwPos, fwTotal, fwRes>>
  /\ UNCHANGED <<fwInput, fwLeft, fwAddr, fwMem, fwSum, fwFolds, fwRet, fwBuffer, fwEvents,
                 fwHist>>

\* The last part.  A failed block is forgotten when it is written (ret); for
\* an image in memory, a failure here leaves the do loop.  At the end of a
\* file the buffer holds padding.
FwTail ==
  /\ fwPc = "tail"
  /\ IF fwVia = "request"
     THEN /\ IF fwLast THEN FwWrite(FwSize) ELSE FwNoFault /\ UNCHANGED <<fwMem, fwRet>>
          /\ fwPc' = IF fwLast /\ fwRet' THEN "done" ELSE "start"
          /\ UNCHANGED <<fwSum, fwFolds>>
     ELSE LET b == IF FwSize \in fwSum THEN FwPad ELSE FwSize
          IN  /\ IF fwRes THEN FwWrite(b) ELSE FwNoFault /\ UNCHANGED <<fwMem, fwRet>>
              /\ fwSum' = fwSum \cup IF fwRes THEN {b} ELSE {}
              /\ fwFolds' = fwFolds + 1
              /\ fwPc' = "start"
  /\ UNCHANGED <<fwInput, fwLeft, fwPos, fwAddr, fwTotal, fwRes, fwBuffer, fwHist>>

FwAgain(failed) ==
  /\ fwLeft' = fwLeft - 1
  /\ fwPc' = IF fwLeft = 1 THEN "done" ELSE "attempt"
  /\ fwRet' = failed

\* SSV_RESET_CPU, SSV_LOAD_FW_SET_STATUS, SSV_LOAD_FW_ENABLE_MCU; res_size
\* is computed anew for blocks of another size.
FwStart ==
  /\ fwPc = "start"
  /\ \/ fwRet /\ FwNoFault /\ FwAgain(TRUE) /\ UNCHANGED fwRes
     \/ ~fwRet /\ fwUsb /\ FwFault("mcu") /\ FwOut(TRUE) /\ UNCHANGED <<fwLeft, fwRes>>
     \/ ~fwRet /\ FwNoFault /\ fwPc' = "check" /\ fwRes' \in {FALSE, fwRes}
        /\ UNCHANGED <<fwLeft, fwRet>>
  /\ UNCHANGED <<fwInput, fwPos, fwAddr, fwMem, fwSum, fwFolds, fwTotal, fwBuffer, fwHist>>

\* The chip's checksum over the blocks it was told of.  Mutant: how many
\* they are does not matter.
FwAgreesLoosely == {fwMem[a] : a \in 1 .. FwBlocks + 1} \ {FwEmpty} \subseteq fwSum
FwAgrees ==
  /\ fwFolds = 1 /\ Cardinality(fwSum) = fwTotal
  /\ {fwMem[a] : a \in 1 .. fwTotal} = fwSum

FwCheck ==
  /\ fwPc = "check"
  /\ IF FwAgrees THEN FwOut(FALSE) /\ UNCHANGED fwLeft ELSE FwAgain(TRUE)
  /\ fwClean' = IF fwEvents = fwBefore THEN fwClean \cup {FwAttempts - fwLeft + 1} ELSE fwClean
  /\ UNCHANGED <<fwInput, fwPos, fwAddr, fwMem, fwHost, fwBuffer, fwEvents, fwBefore>>
-----------------------------------------------------------------------------
FwNextStep == FwBegin \/ FwAttempt \/ FwBlock \/ FwBlocksDone \/ FwTail \/ FwStart \/ FwCheck
FwSpec == FwInit /\ [][FwNextStep]_fwVars
-----------------------------------------------------------------------------
FwTypeOK ==
  /\ fwVia \in {"openfile", "request"} /\ fwUsb \in BOOLEAN /\ fwLast \in BOOLEAN
  /\ fwPc \in {"begin", "attempt", "block", "tail", "start", "check", "done"}
  /\ fwLeft \in 0 .. FwAttempts /\ fwPos \in 0 .. FwBlocks + 1 /\ fwAddr \in 0 .. FwBlocks
  /\ fwMem \in [1 .. FwBlocks + 1 -> 0 .. FwPad]
  /\ fwSum \subseteq 1 .. FwPad /\ fwFolds \in 0 .. FwAttempts /\ fwTotal \in 0 .. FwBlocks + 1
  /\ fwRes \in BOOLEAN /\ fwRet \in BOOLEAN /\ fwBuffer \in BOOLEAN
  /\ fwEvents \in 0 .. FwMaxFaults /\ fwBefore \in 0 .. FwMaxFaults
  /\ fwClean \subseteq 1 .. FwAttempts

\* When the download reports success the chip holds the image, every block
\* in its place, whatever was refused, damaged or forgotten on the way and
\* however many attempts it took; but for the want of a buffer, which is
\* reported as success.
FwLoadedRight ==
  fwPc = "done" /\ ~fwRet /\ fwBuffer => \A b \in 1 .. FwSize : fwMem[b] = b

\* An attempt in which nothing fails makes the download succeed, whatever
\* the attempts before it left behind; of a file this is true of the first
\* attempt only, for its position and checksum are not reset.
FwRetryWorks ==
  fwPc = "done" /\ fwRet => fwClean \cap (IF fwVia = "openfile" THEN {1} ELSE 1 .. FwAttempts) = {}
=============================================================================
