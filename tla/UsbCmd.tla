------------------------------- MODULE UsbCmd -------------------------------
(***************************************************************************)
(* Register commands over USB, src/hwif/usb/usb.c.  A command carries a    *)
(* sequence number and waits for an answer of the chip; when a transfer    *)
(* times out the answer may still come, so the next command throws away    *)
(* answers with another number.  cmd_mutex lets one command run at a time: *)
(* the callers are one process here.                                       *)
(***************************************************************************)
EXTENDS Naturals, Sequences

CONSTANTS
  UcSequence,  \* USB_CMD_SEQUENCE, 255
  UcMaxCmds,   \* bound: commands sent
  UcFaults,    \* which of "send", "recv" and "short" may happen
  UcMaxFaults  \* bound: how many of them

ASSUME UcAssumption ==
  /\ UcSequence \in Nat \ {0, 1} /\ UcMaxCmds \in Nat /\ UcMaxFaults \in Nat
  /\ UcFaults \subseteq {"send", "recv", "short"}

VARIABLES
  ucSequence, \* glue->sequence
  ucCount,    \* commands begun; numbers the commands
  ucPc,       \* "idle", "send", "recv"
  ucKind,     \* "cmd" for ssv6xxx_usb_cmd, "reset" for ssv6xxx_usb_sysplf_reset
  ucTries,    \* i
  ucChip,     \* commands the chip has not answered
  ucRsp,      \* answers on the response endpoint
  ucLast,     \* what the last ssv6xxx_usb_cmd returned
  ucFaultsMet \* faults so far (bounded by UcMaxFaults)

ucVars == <<ucSequence, ucCount, ucPc, ucKind, ucTries, ucChip, ucRsp, ucLast, ucFaultsMet>>

UcFault(k) == k \in UcFaults /\ ucFaultsMet < UcMaxFaults /\ ucFaultsMet' = ucFaultsMet + 1

\* of: the command whose answer was taken, 0 for none; short: an answer
\* shorter than a header ended the command.
UcNothing == [ret |-> "none", of |-> 0, short |-> FALSE]

UcInit ==
  /\ ucSequence = 0 /\ ucCount = 0 /\ ucPc = "idle" /\ ucKind = "cmd" /\ ucTries = 0
  /\ ucChip = <<>> /\ ucRsp = <<>> /\ ucLast = UcNothing /\ ucFaultsMet = 0

\* ssv6xxx_get_cmd_sequence.  Mutant: a command that failed leaves its
\* number to the next one.
UcNumberAgain == IF ucLast.ret = "error" THEN ucSequence ELSE (ucSequence % UcSequence) + 1
UcNumber == (ucSequence % UcSequence) + 1

UcBegin ==
  /\ ucPc = "idle" /\ ucCount < UcMaxCmds
  /\ ucKind' \in {"cmd", "reset"}
  /\ ucSequence' = UcNumber /\ ucCount' = ucCount + 1
  /\ ucPc' = "send" /\ ucTries' = 0
  /\ UNCHANGED <<ucChip, ucRsp, ucLast, ucFaultsMet>>

\* The end of ssv6xxx_usb_cmd; the reset returns nothing.
UcReturn(ret, of, short) ==
  /\ ucPc' = "idle"
  /\ ucLast' = IF ucKind = "cmd" THEN [ret |-> ret, of |-> of, short |-> short] ELSE ucLast

UcSend ==
  /\ ucPc = "send"
  /\ ucChip' = Append(ucChip, [seq |-> ucSequence, of |-> ucCount])
  /\ ucPc' = "recv"
  /\ UNCHANGED <<ucSequence, ucCount, ucKind, ucTries, ucRsp, ucLast, ucFaultsMet>>

\* The reset reads an answer all the same.
UcSendFails ==
  /\ ucPc = "send" /\ UcFault("send")
  /\ IF ucKind = "cmd" THEN UcReturn("error", 0, FALSE)
     ELSE ucPc' = "recv" /\ UNCHANGED ucLast
  /\ UNCHANGED <<ucSequence, ucCount, ucKind, ucTries, ucChip, ucRsp>>

(* The chip answers in order; an answer may be cut short.                  *)
UcAnswer(short) ==
  /\ ucChip # <<>>
  /\ IF short THEN UcFault("short") ELSE UNCHANGED ucFaultsMet
  /\ ucRsp' = Append(ucRsp, [seq |-> Head(ucChip).seq, of |-> Head(ucChip).of, short |-> short])
  /\ ucChip' = Tail(ucChip)
  /\ UNCHANGED <<ucSequence, ucCount, ucPc, ucKind, ucTries, ucLast>>

\* Mutant: the answer at hand is always taken.
UcWrongNever(a) == FALSE
UcWrong(a) == a.seq # ucSequence

\* One round of the loop: a wrong number makes it read again, up to
\* UcSequence times, after which the answer is taken as it is; if it is to
\* neither a read nor a write of a register, the command fails.
UcRecv ==
  /\ ucPc = "recv" /\ ucRsp # <<>>
  /\ ucRsp' = Tail(ucRsp)
  /\ LET a == Head(ucRsp)
     IN  IF ucKind = "cmd" /\ ~a.short /\ UcWrong(a) /\ ucTries + 1 < UcSequence
         THEN ucTries' = ucTries + 1 /\ UNCHANGED <<ucPc, ucLast>>
         ELSE /\ \/ UcReturn("ok", IF a.short THEN 0 ELSE a.of, a.short)
                 \/ ~a.short /\ UcReturn("error", 0, FALSE)
              /\ UNCHANGED ucTries
  /\ UNCHANGED <<ucSequence, ucCount, ucKind, ucChip, ucFaultsMet>>

\* After TRANSACTION_TIMEOUT; the chip may answer later.
UcRecvFails ==
  /\ ucPc = "recv" /\ ucRsp = <<>>
  /\ \/ UcFault("recv")
     \/ ucChip = <<>> /\ UNCHANGED ucFaultsMet
  /\ UcReturn("error", 0, FALSE)
  /\ UNCHANGED <<ucSequence, ucCount, ucKind, ucTries, ucChip, ucRsp>>
-----------------------------------------------------------------------------
UcNextStep == \/ UcBegin \/ UcSend \/ UcSendFails
              \/ \E short \in BOOLEAN : UcAnswer(short)
              \/ UcRecv \/ UcRecvFails
UcSpec == UcInit /\ [][UcNextStep]_ucVars
-----------------------------------------------------------------------------
UcTypeOK ==
  /\ ucSequence \in 0 .. UcSequence /\ ucCount \in 0 .. UcMaxCmds
  /\ ucPc \in {"idle", "send", "recv"} /\ ucKind \in {"cmd", "reset"}
  /\ ucTries \in 0 .. UcSequence - 1
  /\ ucChip \in Seq([seq : 1 .. UcSequence, of : 1 .. UcMaxCmds])
  /\ ucRsp \in Seq([seq : 1 .. UcSequence, of : 1 .. UcMaxCmds, short : BOOLEAN])
  /\ ucLast \in [ret : {"none", "ok", "error"}, of : 0 .. UcMaxCmds, short : BOOLEAN]
  /\ ucFaultsMet \in 0 .. UcMaxFaults

\* A register value that is returned is the answer to this very command,
\* whatever timed out before it and although the numbers wrap, unless an
\* answer too short to have a number ended the command, which then returns
\* success and no value.  It takes as many failures as there are numbers
\* to go wrong: one late answer, and the others to come round to its number.
UcReadCurrent ==
  /\ ucPc = "idle" /\ ucLast.ret = "ok" /\ ucKind = "cmd" /\ ucFaultsMet < UcSequence
  => ucLast.of = ucCount \/ (ucLast.short /\ ucLast.of = 0)
=============================================================================
