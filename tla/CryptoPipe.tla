----------------------------- MODULE CryptoPipe -----------------------------
(***************************************************************************)
(* The software encryption pipeline of src/smac/dev.c (the default build:  *)
(* MULTI_THREAD_ENCRYPT).  ssv6200_tx and the receive path put packets in  *)
(* preprocess_q; one ssv6xxx_encrypt_task per CPU moves the first of them  *)
(* to the end of crypted_q and works on it there, without a lock; whoever  *)
(* is done hands over, from the head of crypted_q, the packets that are    *)
(* done.  _clean_up_crypto_skb stops the tasks through the flags paused    *)
(* and running, which have no lock, and frees the packets of a station.    *)
(*                                                                         *)
(* A step is what a context does under crypt_st_lock or between two looks  *)
(* at the flags.                                                           *)
(***************************************************************************)
EXTENDS Naturals, Sequences, FiniteSets, SequencesExt, SeqKept

CONSTANTS
  CpWorkers,   \* the encrypt tasks; worker w is bound to CPU w
  CpPackets,   \* packets, numbered as they arrive
  CpKind,      \* "enc", "dec" or "plain" for each packet
  CpStation,   \* the packets of the station that is removed
  CpFaults,    \* which of "strange", "fail" and "timeout" may happen
  CpMaxFaults  \* bound: how many of them

ASSUME CpAssumption ==
  /\ CpWorkers \in Nat \ {0} /\ CpPackets \in Nat
  /\ CpKind \in [1 .. CpPackets -> {"enc", "dec", "plain"}]
  /\ CpStation \subseteq 1 .. CpPackets
  /\ CpFaults \subseteq {"strange", "fail", "timeout"} /\ CpMaxFaults \in Nat

CpNone == 0
CpTasks == 1 .. CpWorkers
CpOfKind(kind) == {p \in 1 .. CpPackets : CpKind[p] = kind}

VARIABLES
  cpNext,     \* the next packet to arrive
  cpPre,      \* preprocess_q
  cpCrypted,  \* crypted_q
  cpSt,       \* crypt_st of each packet: "pre", "done" or "fail"
  cpPc,       \* where each task is
  cpHand,     \* the packet it works on
  cpRunning,  \* the tasks whose running is 1
  cpPaused,   \* ta->paused, the same for all tasks but while it is changed
  cpClean,    \* the context that removes the station
  cpTx,       \* what was put in tx_skb_q, in order
  cpRx,       \* what was given to mac80211, in order
  cpFreed,    \* packets freed
  cpLeaked,   \* packets nobody has any more
  cpSlipped,  \* tasks that were not seen running by the cleaner (history)
  cpEvents    \* faults so far (bounded by CpMaxFaults)

cpQueues == <<cpPre, cpCrypted, cpSt>>
cpTask == <<cpPc, cpHand, cpRunning>>
cpEnds == <<cpTx, cpRx, cpFreed, cpLeaked>>
cpCleaner == <<cpPaused, cpClean, cpSlipped>>
cpVars == <<cpNext, cpQueues, cpTask, cpEnds, cpCleaner, cpEvents>>

CpFault(k) == k \in CpFaults /\ cpEvents < CpMaxFaults /\ cpEvents' = cpEvents + 1
CpAt(w, where) == cpPc[w] = where
CpGoto(w, where) == cpPc' = [cpPc EXCEPT ![w] = where]

CpInit ==
  /\ cpNext = 1 /\ cpPre = <<>> /\ cpCrypted = <<>>
  /\ cpSt = [p \in 1 .. CpPackets |-> "pre"]
  \* the tasks have started long before the first packet
  /\ cpPc = [w \in CpTasks |-> "asleep"] /\ cpHand = [w \in CpTasks |-> CpNone]
  /\ cpRunning = {} /\ cpPaused = FALSE
  /\ cpClean = [at |-> "idle", cpu |-> 0, k |-> 0]
  /\ cpTx = <<>> /\ cpRx = <<>> /\ cpFreed = {} /\ cpLeaked = {}
  /\ cpSlipped = {} /\ cpEvents = 0
-----------------------------------------------------------------------------
(* ssv6200_tx, and the end of the receive path for packets to decrypt      *)

\* wake_up of a sleeping task makes it look at its condition again.
CpWake(ws) == cpPc' = [w \in CpTasks |-> IF w \in ws /\ cpPc[w] = "asleep"
                                         THEN "wait" ELSE cpPc[w]]
\* The first task that is not running, the last one for received packets.
CpChosen(p) ==
  LET free == CpTasks \ cpRunning
  IN  IF free = {} THEN {}
      ELSE IF CpKind[p] = "dec" THEN {Max(free)} ELSE {Min(free)}

CpArrive ==
  /\ cpNext <= CpPackets /\ CpKind[cpNext] # "plain"
  /\ cpPre' = Append(cpPre, cpNext)
  /\ CpWake(CpChosen(cpNext))
  /\ cpNext' = cpNext + 1
  /\ UNCHANGED <<cpCrypted, cpSt, cpHand, cpRunning, cpEnds, cpCleaner, cpEvents>>

\* Not to be encrypted, or the cipher has no preparation: straight to
\* tx_skb_q.
CpArrivePlain ==
  /\ cpNext <= CpPackets /\ CpKind[cpNext] = "plain"
  /\ cpTx' = Append(cpTx, cpNext)
  /\ cpNext' = cpNext + 1
  /\ UNCHANGED <<cpQueues, cpTask, cpRx, cpFreed, cpLeaked, cpCleaner, cpEvents>>

\* ssv6xxx_skb_pre_encrypt fails: the packet is neither queued nor freed.
CpArriveStrange ==
  /\ cpNext <= CpPackets /\ CpKind[cpNext] = "enc" /\ CpFault("strange")
  /\ cpLeaked' = cpLeaked \cup {cpNext}
  /\ cpNext' = cpNext + 1
  /\ UNCHANGED <<cpQueues, cpTask, cpTx, cpRx, cpFreed, cpCleaner>>
-----------------------------------------------------------------------------
(* ssv6xxx_encrypt_task                                                    *)

CpTop(w) ==
  /\ CpAt(w, "top")
  /\ IF cpPre = <<>>
     THEN cpRunning' = cpRunning \ {w} /\ CpGoto(w, "wait")
     ELSE UNCHANGED cpRunning /\ CpGoto(w, "take")
  /\ UNCHANGED <<cpNext, cpQueues, cpHand, cpEnds, cpCleaner, cpEvents>>

\* The condition of wait_event_timeout
CpWait(w) ==
  /\ CpAt(w, "wait")
  /\ CpGoto(w, IF ~cpPaused /\ cpPre # <<>> THEN "woken" ELSE "asleep")
  /\ UNCHANGED <<cpNext, cpQueues, cpHand, cpRunning, cpEnds, cpCleaner, cpEvents>>

\* After 60 s the condition is not looked at.
CpTimeout(w) ==
  /\ CpAt(w, "asleep") /\ CpFault("timeout")
  /\ CpGoto(w, "woken")
  /\ cpSlipped' = IF cpPaused THEN cpSlipped \cup {w} ELSE cpSlipped
  /\ UNCHANGED <<cpNext, cpQueues, cpHand, cpRunning, cpEnds, cpPaused, cpClean>>

CpWoken(w) ==
  /\ CpAt(w, "woken")
  /\ cpRunning' = cpRunning \cup {w}
  /\ CpGoto(w, "take")
  /\ UNCHANGED <<cpNext, cpQueues, cpHand, cpEnds, cpCleaner, cpEvents>>

CpTake(w) ==
  /\ CpAt(w, "take")
  /\ IF cpPre = <<>>
     THEN CpGoto(w, "drain") /\ UNCHANGED <<cpPre, cpCrypted, cpHand>>
     ELSE /\ cpHand' = [cpHand EXCEPT ![w] = Head(cpPre)]
          /\ cpCrypted' = Append(cpCrypted, Head(cpPre))
          /\ cpPre' = Tail(cpPre)
          /\ CpGoto(w, "crypt")
  /\ UNCHANGED <<cpNext, cpSt, cpRunning, cpEnds, cpCleaner, cpEvents>>

\* ssv6xxx_skb_encrypt or _decrypt, and the new crypt_st
CpCrypt(w) ==
  /\ CpAt(w, "crypt")
  /\ cpSt' = [cpSt EXCEPT ![cpHand[w]] = "done"]
  /\ cpHand' = [cpHand EXCEPT ![w] = CpNone]
  /\ CpGoto(w, "drain")
  /\ UNCHANGED <<cpNext, cpPre, cpCrypted, cpRunning, cpEnds, cpCleaner, cpEvents>>

CpCryptFails(w) ==
  /\ CpAt(w, "crypt") /\ CpFault("fail")
  /\ cpSt' = [cpSt EXCEPT ![cpHand[w]] = "fail"]
  /\ CpGoto(w, "unlink")
  /\ UNCHANGED <<cpNext, cpPre, cpCrypted, cpHand, cpRunning, cpEnds, cpCleaner>>

\* A failed packet is taken out wherever it is; what is behind it may go.
\* Mutant: the task looks for the next packet at once.
CpAfterFailureTop == "top"
CpAfterFailure == "drain"
CpUnlink(w) ==
  /\ CpAt(w, "unlink")
  /\ LET p == cpHand[w]
     IN  /\ cpCrypted' = Without(cpCrypted, {p})
         /\ cpFreed' = cpFreed \cup {p}
  /\ cpHand' = [cpHand EXCEPT ![w] = CpNone]
  /\ CpGoto(w, CpAfterFailure)
  /\ UNCHANGED <<cpNext, cpPre, cpSt, cpRunning, cpTx, cpRx, cpLeaked, cpCleaner,
                 cpEvents>>

\* How many packets at the head of crypted_q are done.  Mutant: a packet
\* that is not done does not end the loop.
CpReadyAll == Only(cpCrypted, {p \in 1 .. CpPackets : cpSt[p] = "done"})
CpReady ==
  LET n == Max({k \in 0 .. Len(cpCrypted) :
                  \A j \in 1 .. k : cpSt[cpCrypted[j]] = "done"})
  IN  SubSeq(cpCrypted, 1, n)

CpDrain(w) ==
  /\ CpAt(w, "drain")
  /\ LET out == CpReady
     IN  /\ cpCrypted' = Without(cpCrypted, ToSet(out))
         /\ cpTx' = cpTx \o Only(out, CpOfKind("enc"))
         /\ cpRx' = cpRx \o Only(out, CpOfKind("dec"))
  /\ CpGoto(w, "top")
  /\ UNCHANGED <<cpNext, cpPre, cpSt, cpHand, cpRunning, cpFreed, cpLeaked,
                 cpCleaner, cpEvents>>
-----------------------------------------------------------------------------
(* _clean_up_crypto_skb, when the station is removed                       *)

\* _stop_crypto_task: paused is set; then the tasks are looked at in order,
\* from the first one again while one is running on another CPU.
CpCleanBegin ==
  /\ cpClean.at = "idle"
  /\ \E cpu \in CpTasks : cpClean' = [at |-> "scan", cpu |-> cpu, k |-> 1]
  /\ cpPaused' = TRUE
  /\ UNCHANGED <<cpNext, cpQueues, cpTask, cpEnds, cpSlipped, cpEvents>>

\* Mutant: only the first task is waited for.
CpMustWaitFirst(w) == w = 1 /\ w \in cpRunning /\ w # cpClean.cpu
CpMustWait(w) == w \in cpRunning /\ w # cpClean.cpu

CpCleanScan ==
  /\ cpClean.at = "scan" /\ cpClean.k <= CpWorkers
  /\ LET w == cpClean.k
     IN  IF CpMustWait(w)
         THEN cpClean' = [cpClean EXCEPT !.k = 1] /\ UNCHANGED cpSlipped
         ELSE /\ cpClean' = [cpClean EXCEPT !.k = @ + 1]
              /\ cpSlipped' = IF CpAt(w, "woken") \/ (w = cpClean.cpu /\ w \in cpRunning)
                              THEN cpSlipped \cup {w} ELSE cpSlipped
  /\ UNCHANGED <<cpNext, cpQueues, cpTask, cpEnds, cpPaused, cpEvents>>

\* _remove_sta_skb_from_q on both queues, then _resume_crypto_task
CpCleanRemove ==
  /\ cpClean.at = "scan" /\ cpClean.k > CpWorkers
  /\ LET mine == CpStation \cap (ToSet(cpPre) \cup ToSet(cpCrypted))
     IN  /\ cpPre' = Without(cpPre, mine)
         /\ cpCrypted' = Without(cpCrypted, mine)
         /\ cpFreed' = cpFreed \cup mine
  /\ cpPaused' = FALSE
  /\ CpWake(CpTasks)
  /\ cpClean' = [cpClean EXCEPT !.at = "over"]
  /\ UNCHANGED <<cpNext, cpSt, cpHand, cpRunning, cpTx, cpRx, cpLeaked, cpSlipped,
                 cpEvents>>
-----------------------------------------------------------------------------
CpRun(w) == \/ CpTop(w) \/ CpWait(w) \/ CpWoken(w) \/ CpTake(w) \/ CpCrypt(w)
            \/ CpCryptFails(w) \/ CpUnlink(w) \/ CpDrain(w)
CpNextStep ==
  \/ CpArrive \/ CpArrivePlain \/ CpArriveStrange
  \/ \E w \in CpTasks : CpRun(w) \/ CpTimeout(w)
  \/ CpCleanBegin \/ CpCleanScan \/ CpCleanRemove

CpSpec == CpInit /\ [][CpNextStep]_cpVars
\* Each task is scheduled on its CPU, the cleaner on its own.
CpFairness == (\A w \in CpTasks : WF_cpVars(CpRun(w)))
              /\ WF_cpVars(CpCleanScan \/ CpCleanRemove)
CpFairSpec == CpSpec /\ CpFairness
-----------------------------------------------------------------------------
CpPcs == {"top", "wait", "asleep", "woken", "take", "crypt", "unlink", "drain"}
CpTypeOK ==
  /\ cpNext \in 1 .. CpPackets + 1
  /\ cpPre \in Seq(1 .. CpPackets) /\ cpCrypted \in Seq(1 .. CpPackets)
  /\ cpSt \in [1 .. CpPackets -> {"pre", "done", "fail"}]
  /\ cpPc \in [CpTasks -> CpPcs] /\ cpHand \in [CpTasks -> 0 .. CpPackets]
  /\ cpRunning \subseteq CpTasks /\ cpPaused \in BOOLEAN
  /\ cpClean \in [at : {"idle", "scan", "over"}, cpu : 0 .. CpWorkers,
                  k : 0 .. CpWorkers + 1]
  /\ cpTx \in Seq(1 .. CpPackets) /\ cpRx \in Seq(1 .. CpPackets)
  /\ cpFreed \subseteq 1 .. CpPackets /\ cpLeaked \subseteq 1 .. CpPackets
  /\ cpSlipped \subseteq CpTasks /\ cpEvents \in Nat

\* However many tasks work at once and fail, packets that go through the
\* pipeline leave it in the order they came, each once.
CpInOrder ==
  /\ \A j, k \in 1 .. Len(cpTx) :
       j < k /\ {cpTx[j], cpTx[k]} \subseteq CpOfKind("enc") => cpTx[j] < cpTx[k]
  /\ \A j, k \in 1 .. Len(cpRx) : j < k => cpRx[j] < cpRx[k]

\* The cleaner frees a packet a task still works on only if that task
\* slipped past it: it had left its wait but not yet set running, was
\* preempted on the cleaner's CPU, or its wait timed out.
CpFreedInHand ==
  \A w \in CpTasks : cpHand[w] # CpNone /\ cpHand[w] \in cpFreed => w \in cpSlipped

\* No wakeup is lost: every packet queued for a task leaves the pipeline,
\* also those behind one that fails and those that came during a clean-up.
CpLeft(p) == p \in ToSet(cpTx) \cup ToSet(cpRx) \cup cpFreed \cup cpLeaked
CpAllLeave == \A p \in 1 .. CpPackets : cpNext > p ~> CpLeft(p)
=============================================================================
