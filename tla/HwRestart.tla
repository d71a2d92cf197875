----------------------------- MODULE HwRestart ------------------------------
(***************************************************************************)
(* Stations, their keys, and the restart of the chip: ssv6200_sta_add,     *)
(* ssv6200_sta_remove and ssv6200_set_key of src/smac/dev.c, with the      *)
(* functions of the SSV6006C they call, and ssv6xxx_restart_hw of          *)
(* src/smac/init.c.  What a callback writes to the chip between            *)
(* HCI_WRITE_HW_CONFIG_ON and _OFF is recorded in hw_cfg; after a restart, *)
(* which mac80211 is not told of, the recorded writes are repeated.        *)
(*                                                                         *)
(* write_hw_config is one flag for all the callbacks: it is set before     *)
(* sc->mutex is taken and cleared after it is released.  A step is what a  *)
(* context does before, after or under that mutex, or one register write.  *)
(*                                                                         *)
(* One interface that is no access point, with CCMP keys in the chip; WEP, *)
(* the ciphers in software and a second interface are left out.            *)
(***************************************************************************)
EXTENDS Integers, FiniteSets, Sequences, SequencesExt, SeqKept

CONSTANTS
  RsSlots,      \* SSV_NUM_STA, entries of sta_info; as many as the chip has WSIDs
  RsStations,   \* stations mac80211 may add
  RsGroupIdx,   \* the indices of group keys, 1 and 2
  RsMaxOps,     \* bound: callbacks
  RsMaxAtOnce,  \* bound: callbacks under way at once
  RsMaxRestarts \* bound: restarts

ASSUME RsAssumption ==
  /\ RsSlots \in Nat \ {0} /\ RsStations \subseteq Nat \ {0}
  /\ RsGroupIdx \subseteq Nat \ {0}
  /\ RsMaxOps \in Nat /\ RsMaxAtOnce \in Nat /\ RsMaxRestarts \in Nat

RsNone == 0
RsSlotSet == 1 .. RsSlots
\* mac80211 calls these with its own locks: one for stations, one for keys,
\* and bss_info_changed, config and conf_tx beside both.
RsCallbacks == {"sta", "key", "conf"}

\* The words written.  "pair" and "group" hold the index of a key and its
\* cipher, which are changed one at a time.
RsRegs ==
  ({"wsid", "pair", "pkey"} \X RsSlotSet) \cup ({"gkey"} \X RsGroupIdx)
    \cup {<<"group", 0>>}
RsWord(idx, val) == [idx |-> idx, val |-> val]
RsBlank == RsWord(0, RsNone)
RsCcmp == 1
RsPut(r, f, v) == [reg |-> r, field |-> f, val |-> v]

VARIABLES
  rsTable,   \* sta_info[].sta of the valid entries
  rsList,    \* vif_priv->sta_list
  rsHw,      \* the stations with has_hw_encrypt and has_hw_decrypt
  rsVif,     \* has_hw_encrypt or _decrypt, and group_key_idx, of the interface
  rsChip,    \* the registers
  rsCfg,     \* hw_cfg: the words recorded, RsUnset if none
  rsRecord,  \* write_hw_config
  rsMutex,   \* who holds sc->mutex
  rsPc,      \* for each callback "idle", "enter", "write" or "leave"
  rsOp,      \* what it was called for
  rsTodo,    \* the writes before it
  rsReset,   \* ssv6xxx_restart_hw: "idle", "enter", "leave" or "clear"
  rsFlag,    \* SC_OP_HW_RESET
  rsKnown,   \* the stations mac80211 has added
  rsKeys,    \* mac80211's pairwise key of each station
  rsGroup,   \* mac80211's group key of each index
  rsOps, rsRestarts, \* calls and restarts so far; a key is the call that set it
  rsOvertaken, \* write_hw_config was cleared inside another callback (history)
  rsUnder      \* a callback wrote while SC_OP_HW_RESET was set (history)

rsDriver == <<rsTable, rsList, rsHw, rsVif>>
rsMac == <<rsKnown, rsKeys, rsGroup, rsOps>>
rsHist == <<rsOvertaken, rsUnder>>
rsVars == <<rsDriver, rsChip, rsCfg, rsRecord, rsMutex, rsPc, rsOp, rsTodo, rsReset, rsFlag,
            rsMac, rsRestarts, rsHist>>

RsUnset == RsWord(0, -1)
RsNoOp == [what |-> "none", arg |-> RsNone, key |-> RsNone]

RsInit ==
  /\ rsTable = [s \in RsSlotSet |-> RsNone] /\ rsList = <<>> /\ rsHw = {}
  /\ rsVif = [hw |-> FALSE, idx |-> 0]
  /\ rsChip = [r \in RsRegs |-> RsBlank] /\ rsCfg = [r \in RsRegs |-> RsUnset]
  /\ rsRecord = FALSE /\ rsMutex = "free"
  /\ rsPc = [c \in RsCallbacks |-> "idle"] /\ rsOp = [c \in RsCallbacks |-> RsNoOp]
  /\ rsTodo = [c \in RsCallbacks |-> <<>>]
  /\ rsReset = "idle" /\ rsFlag = FALSE
  /\ rsKnown = {} /\ rsKeys = [t \in RsStations |-> RsNone]
  /\ rsGroup = [i \in RsGroupIdx |-> RsNone]
  /\ rsOps = 0 /\ rsRestarts = 0 /\ rsOvertaken = FALSE /\ rsUnder = FALSE
-----------------------------------------------------------------------------
(* What mac80211 asks for.  A station is removed without keys; a key of a  *)
(* station is not changed while the station comes or goes.                 *)

RsBusy(t) == \E c \in {"sta", "key"} :
  rsPc[c] # "idle" /\ rsOp[c].arg = t /\ rsOp[c].what \in {"add", "remove", "pair", "unpair"}
RsRequests(c) ==
  LET Op(w, a) == [what |-> w, arg |-> a, key |-> rsOps + 1]
  IN  CASE c = "sta"  -> {Op("add", t) : t \in RsStations \ rsKnown} \cup
                         {Op("remove", t) : t \in {u \in rsKnown : rsKeys[u] = RsNone
                                                                    /\ ~RsBusy(u)}}
        [] c = "key"  -> {Op("pair", t) : t \in {u \in rsKnown : ~RsBusy(u)}} \cup
                         {Op("unpair", t) : t \in {u \in rsKnown : rsKeys[u] # RsNone}} \cup
                         {Op("group", i) : i \in RsGroupIdx} \cup
                         {Op("ungroup", i) : i \in {j \in RsGroupIdx : rsGroup[j] # RsNone}}
        [] c = "conf" -> {Op("conf", RsNone), Op("ignored", RsNone)}

\* HCI_WRITE_HW_CONFIG_ON, before the mutex
RsCall(c) ==
  /\ rsPc[c] = "idle" /\ rsOps < RsMaxOps /\ ~rsOvertaken
  /\ Cardinality({d \in RsCallbacks : rsPc[d] # "idle"}) < RsMaxAtOnce
  /\ \E op \in RsRequests(c) :
       /\ rsOp' = [rsOp EXCEPT ![c] = op]
       \* conf_tx leaves without the mutex if the queue does not concern it
       /\ rsPc' = [rsPc EXCEPT ![c] = IF op.what = "ignored" THEN "leave" ELSE "enter"]
  /\ rsOps' = rsOps + 1
  /\ rsRecord' = TRUE
  /\ UNCHANGED <<rsDriver, rsChip, rsCfg, rsMutex, rsTodo, rsReset, rsFlag, rsKnown, rsKeys,
                 rsGroup, rsRestarts, rsHist>>
-----------------------------------------------------------------------------
(* The bodies: the driver's state changes, and the writes that follow      *)

RsSlotOf(t) == CHOOSE s \in RsSlotSet : rsTable[s] = t
RsFree == {s \in RsSlotSet : rsTable[s] = RsNone}
RsEnter(c, what) ==
  /\ rsPc[c] = "enter" /\ rsOp[c].what = what /\ rsMutex = "free"
  /\ rsMutex' = c /\ rsPc' = [rsPc EXCEPT ![c] = "write"]
  /\ UNCHANGED <<rsChip, rsCfg, rsRecord, rsOp, rsReset, rsFlag, rsMac, rsRestarts, rsHist>>
RsPlan(c, writes) == rsTodo' = [rsTodo EXCEPT ![c] = writes]

\* ssv6200_sta_add: the first entry that is free.  Without one it fails.
RsStaAdd ==
  /\ RsEnter("sta", "add")
  /\ LET t == rsOp["sta"].arg
     IN  IF RsFree = {}
         THEN RsPlan("sta", <<>>) /\ UNCHANGED rsDriver
         ELSE LET s == CHOOSE u \in RsFree : \A v \in RsFree : u <= v
              IN  /\ rsTable' = [rsTable EXCEPT ![s] = t]
                  /\ rsList' = Append(rsList, t) /\ rsHw' = rsHw \ {t}
                  /\ RsPlan("sta", <<RsPut(<<"wsid", s>>, "val", t)>>)
                  /\ UNCHANGED rsVif

\* ssv6200_sta_remove
RsDelWsid(s) == <<RsPut(<<"wsid", s>>, "val", RsNone)>>
RsStaRemove ==
  /\ RsEnter("sta", "remove")
  /\ LET t == rsOp["sta"].arg
         s == RsSlotOf(t)
     IN  /\ rsTable' = [rsTable EXCEPT ![s] = RsNone]
         /\ rsList' = Without(rsList, {t})
         /\ RsPlan("sta", RsDelWsid(s))
  /\ UNCHANGED <<rsHw, rsVif>>

\* The chip's index of the group key, written once there is a station with a
\* WSID; a pairwise key brings it along.
RsGroupIdxWrite(i) == IF rsVif.hw /\ i > 0 THEN <<RsPut(<<"group", 0>>, "idx", i)>> ELSE <<>>

\* _set_pairwise_key_tkip_ccmp
RsSetPairwise ==
  /\ RsEnter("key", "pair")
  /\ LET s == RsSlotOf(rsOp["key"].arg)
     IN  RsPlan("key", <<RsPut(<<"pair", s>>, "val", RsCcmp), RsPut(<<"pair", s>>, "idx", 0),
                         RsPut(<<"pkey", s>>, "val", rsOp["key"].key)>>
                       \o RsGroupIdxWrite(rsVif.idx))
  /\ rsHw' = rsHw \cup {rsOp["key"].arg}
  /\ UNCHANGED <<rsTable, rsList, rsVif>>

\* _set_group_key_tkip_ccmp
RsSetGroup ==
  /\ RsEnter("key", "group")
  /\ LET i == rsOp["key"].arg
     IN  /\ rsVif' = [hw |-> TRUE, idx |-> i]
         /\ RsPlan("key", <<RsPut(<<"group", 0>>, "val", RsCcmp),
                            RsPut(<<"gkey", i>>, "val", rsOp["key"].key)>>
                          \o [n \in 1 .. Len(rsList) |-> RsPut(<<"group", 0>>, "idx", i)])
  /\ UNCHANGED <<rsTable, rsList, rsHw>>

\* DISABLE_KEY of a station: its cipher is cleared in the chip only if it is
\* the first of the list.
RsClearPairwise ==
  /\ RsEnter("key", "unpair")
  /\ LET t == rsOp["key"].arg
     IN  /\ RsPlan("key", IF Head(rsList) = t
                          THEN <<RsPut(<<"pair", RsSlotOf(t)>>, "val", RsNone)>> ELSE <<>>)
         /\ rsHw' = rsHw \ {t}
  /\ UNCHANGED <<rsTable, rsList, rsVif>>

\* Mutant: as the index of a WEP key is.
RsNoGroupKeyWep == 0 - 1
RsNoGroupKey == 0

\* DISABLE_KEY of a group key, whichever of the two is in use
RsClearGroup ==
  /\ RsEnter("key", "ungroup")
  /\ RsPlan("key", <<RsPut(<<"group", 0>>, "val", RsNone)>>)
  /\ rsVif' = [rsVif EXCEPT !.idx = RsNoGroupKey]
  /\ UNCHANGED <<rsTable, rsList, rsHw>>

\* config, bss_info_changed and conf_tx: what they write is left out.
RsConfigure ==
  /\ RsEnter("conf", "conf")
  /\ RsPlan("conf", <<>>)
  /\ UNCHANGED rsDriver
-----------------------------------------------------------------------------
\* ssv6xxx_save_hw_config.  Mutant: a word that is there keeps its value.
RsSavedFirst(cfg, r, w) == IF cfg[r] = RsUnset THEN [cfg EXCEPT ![r] = w] ELSE cfg
RsSaved(cfg, r, w) == [cfg EXCEPT ![r] = w]

\* ssv6xxx_hci_write_word of the next word
RsWrite(c) ==
  /\ rsPc[c] = "write" /\ rsTodo[c] # <<>>
  /\ LET t == Head(rsTodo[c])
         w == [rsChip[t.reg] EXCEPT ![t.field] = t.val]
     IN  /\ rsChip' = [rsChip EXCEPT ![t.reg] = w]
         /\ rsCfg' = IF rsRecord /\ ~rsFlag THEN RsSaved(rsCfg, t.reg, w) ELSE rsCfg
  /\ rsTodo' = [rsTodo EXCEPT ![c] = Tail(@)]
  /\ rsUnder' = (rsUnder \/ rsFlag)
  /\ UNCHANGED <<rsDriver, rsRecord, rsMutex, rsPc, rsOp, rsReset, rsFlag, rsMac, rsRestarts,
                 rsOvertaken>>

RsUnlock(c) ==
  /\ rsPc[c] = "write" /\ rsTodo[c] = <<>>
  /\ rsMutex' = "free" /\ rsPc' = [rsPc EXCEPT ![c] = "leave"]
  /\ UNCHANGED <<rsDriver, rsChip, rsCfg, rsRecord, rsOp, rsTodo, rsReset, rsFlag, rsMac,
                 rsRestarts, rsHist>>

\* HCI_WRITE_HW_CONFIG_OFF, after the mutex, and back in mac80211
RsReturn(c) ==
  LET op == rsOp[c]
  IN  /\ rsPc[c] = "leave"
      /\ rsRecord' = FALSE
      /\ rsOvertaken' = (rsOvertaken \/ \E d \in RsCallbacks \ {c} : rsPc[d] # "idle")
      /\ rsPc' = [rsPc EXCEPT ![c] = "idle"] /\ rsOp' = [rsOp EXCEPT ![c] = RsNoOp]
      /\ rsKnown' = IF op.what = "add" /\ op.arg \in ToSet(rsList) THEN rsKnown \cup {op.arg}
                    ELSE IF op.what = "remove" THEN rsKnown \ {op.arg} ELSE rsKnown
      /\ rsKeys' = IF op.what = "pair" THEN [rsKeys EXCEPT ![op.arg] = op.key]
                   ELSE IF op.what = "unpair" THEN [rsKeys EXCEPT ![op.arg] = RsNone]
                   ELSE rsKeys
      /\ rsGroup' = IF op.what = "group" THEN [rsGroup EXCEPT ![op.arg] = op.key]
                    ELSE IF op.what = "ungroup" THEN [rsGroup EXCEPT ![op.arg] = RsNone]
                    ELSE rsGroup
      /\ UNCHANGED <<rsDriver, rsChip, rsCfg, rsMutex, rsTodo, rsReset, rsFlag, rsOps,
                     rsRestarts, rsUnder>>
-----------------------------------------------------------------------------
(* ssv6xxx_restart_hw, on config_wq: the chip asks for it, or nothing is   *)
(* received any more                                                       *)

RsRestSame == <<rsDriver, rsRecord, rsPc, rsOp, rsTodo, rsMac, rsHist>>

RsBegin ==
  /\ rsReset = "idle" /\ rsRestarts < RsMaxRestarts
  /\ rsRestarts' = rsRestarts + 1
  /\ rsFlag' = TRUE /\ rsReset' = "enter"
  /\ UNCHANGED <<RsRestSame, rsChip, rsCfg, rsMutex>>

\* A scan that does not end: the work leaves, and SC_OP_HW_RESET stays.
RsGivesUp ==
  /\ rsReset = "enter"
  /\ rsReset' = "idle"
  /\ UNCHANGED <<RsRestSame, rsChip, rsCfg, rsMutex, rsFlag, rsRestarts>>

\* Under the mutex: SSV_SAVE_HW_STATUS, which records nothing because the
\* flag is set, the reset of the chip, and ssv6xxx_restore_hw_config.
RsRestart ==
  /\ rsReset = "enter" /\ rsMutex = "free"
  /\ rsMutex' = "reset" /\ rsReset' = "leave"
  /\ rsChip' = [r \in RsRegs |-> IF rsCfg[r] = RsUnset THEN RsBlank ELSE rsCfg[r]]
  /\ UNCHANGED <<RsRestSame, rsCfg, rsFlag, rsRestarts>>

RsResetUnlock ==
  /\ rsReset = "leave"
  /\ rsMutex' = "free" /\ rsReset' = "clear"
  /\ UNCHANGED <<RsRestSame, rsChip, rsCfg, rsFlag, rsRestarts>>

RsResetEnd ==
  /\ rsReset = "clear"
  /\ rsFlag' = FALSE /\ rsReset' = "idle"
  /\ UNCHANGED <<RsRestSame, rsChip, rsCfg, rsMutex, rsRestarts>>

RsBody == \/ RsStaAdd \/ RsStaRemove \/ RsSetPairwise \/ RsSetGroup
          \/ RsClearPairwise \/ RsClearGroup \/ RsConfigure
RsReboot == RsBegin \/ RsGivesUp \/ RsRestart \/ RsResetUnlock \/ RsResetEnd

\* Of the runs that the properties leave out only the beginning is followed.
RsJudged == rsRestarts = 0 \/ ~(rsOvertaken \/ rsUnder)

RsNextStep == RsJudged /\ (
  \/ \E c \in RsCallbacks : RsCall(c) \/ RsWrite(c) \/ RsUnlock(c) \/ RsReturn(c)
  \/ RsBody \/ RsReboot )
RsSpec == RsInit /\ [][RsNextStep]_rsVars
-----------------------------------------------------------------------------
RsIndexes == RsGroupIdx \cup {0}
RsWords == [idx : RsIndexes, val : Nat]
RsPuts == [reg : RsRegs, field : {"idx"}, val : RsIndexes]
            \cup [reg : RsRegs, field : {"val"}, val : Nat]
RsErrands == {"none", "add", "remove", "pair", "unpair", "group", "ungroup", "conf", "ignored"}
RsTypeOK ==
  /\ rsTable \in [RsSlotSet -> RsStations \cup {RsNone}]
  /\ rsList \in Seq(RsStations) /\ rsHw \subseteq RsStations
  /\ rsVif \in [hw : BOOLEAN, idx : RsIndexes]
  /\ rsChip \in [RsRegs -> RsWords] /\ rsCfg \in [RsRegs -> RsWords \cup {RsUnset}]
  /\ rsRecord \in BOOLEAN /\ rsMutex \in RsCallbacks \cup {"free", "reset"}
  /\ rsPc \in [RsCallbacks -> {"idle", "enter", "write", "leave"}]
  /\ rsOp \in [RsCallbacks -> [what : RsErrands, arg : Nat, key : Nat]]
  /\ rsTodo \in [RsCallbacks -> Seq(RsPuts)]
  /\ rsReset \in {"idle", "enter", "leave", "clear"} /\ rsFlag \in BOOLEAN
  /\ rsKnown \subseteq RsStations /\ rsKeys \in [RsStations -> Nat]
  /\ rsGroup \in [RsGroupIdx -> Nat]
  /\ rsOps \in 0 .. RsMaxOps /\ rsRestarts \in 0 .. RsMaxRestarts
  /\ rsOvertaken \in BOOLEAN /\ rsUnder \in BOOLEAN

RsQuiet == /\ \A c \in RsCallbacks : rsPc[c] = "idle"
           /\ rsReset = "idle" /\ ~rsFlag

\* The driver, the chip and mac80211 agree on the stations: each of them has
\* one entry, its WSID is on, and no other WSID is.
RsStationsAgree ==
  /\ \A t \in rsKnown : \E s \in RsSlotSet : rsTable[s] = t
  /\ \A s \in RsSlotSet : /\ rsTable[s] \in rsKnown \cup {RsNone}
                          /\ rsChip[<<"wsid", s>>].val = rsTable[s]
                          /\ \A u \in RsSlotSet \ {s} : rsTable[u] = rsTable[s]
                                                          => rsTable[u] = RsNone

\* A station whose frames the chip encrypts has in the chip the key that
\* mac80211 set last; and with it the index of the group key in use, and that
\* key.
RsKeysAgree ==
  \A s \in RsSlotSet : rsTable[s] \in rsHw =>
    /\ rsChip[<<"pair", s>>].val = RsCcmp
    /\ rsChip[<<"pkey", s>>].val = rsKeys[rsTable[s]]
    /\ rsVif.idx > 0 =>
         /\ rsChip[<<"group", 0>>] = RsWord(rsVif.idx, RsCcmp)
         /\ rsChip[<<"gkey", rsVif.idx>>].val = rsGroup[rsVif.idx]

\* Between the calls the driver, the chip and mac80211 agree on stations and
\* keys, in whichever order these came and went, however calls overlapped,
\* and after a restart that mac80211 is not told of; unless, before the
\* restart or after, a call met it or ended another one's recording.
RsChipAgrees == RsQuiet /\ RsJudged => RsStationsAgree /\ RsKeysAgree
=============================================================================
