--------------------------- MODULE HwRestartProofs --------------------------
(***************************************************************************)
(* The chip, the driver and mac80211 agree on stations and keys, for every *)
(* number of entries, stations, calls and restarts.                        *)
(***************************************************************************)
EXTENDS HwRestart, FiniteLemmas

\* Who holds sc->mutex, and that only the holder has writes before it
RsLocks ==
  /\ \A c \in RsCallbacks : rsPc[c] = "write" <=> rsMutex = c
  /\ rsReset = "leave" <=> rsMutex = "reset"
  /\ \A c \in RsCallbacks : rsPc[c] # "write" => rsTodo[c] = <<>>
  /\ rsReset # "idle" => rsRestarts > 0

\* What each callback may have been called for
RsKinds(c) == CASE c = "sta" -> {"add", "remove"}
                [] c = "key" -> {"pair", "unpair", "group", "ungroup"}
                [] c = "conf" -> {"conf", "ignored"}
RsCalled ==
  \A c \in RsCallbacks :
    /\ rsPc[c] = "idle" => rsOp[c].what = "none"
    /\ rsPc[c] # "idle" => rsOp[c].what \in RsKinds(c)

RsDoing(c, w) == rsPc[c] # "idle" /\ rsOp[c].what = w
RsDone(c, w) == rsPc[c] \in {"write", "leave"} /\ rsOp[c].what = w
RsDoingKey == RsDoing("key", "pair") \/ RsDoing("key", "unpair")

\* What mac80211 asked for is what it may ask for, until it has it.
RsAsked ==
  /\ RsDoing("sta", "add") => rsOp["sta"].arg \in RsStations \ rsKnown
  /\ RsDoing("sta", "remove") =>
       /\ rsOp["sta"].arg \in rsKnown /\ rsKeys[rsOp["sta"].arg] = RsNone
       /\ RsDoingKey => rsOp["key"].arg # rsOp["sta"].arg
  /\ RsDoingKey => rsOp["key"].arg \in rsKnown
  /\ RsDoing("key", "group") \/ RsDoing("key", "ungroup") => rsOp["key"].arg \in RsGroupIdx

\* The entries hold different stations, those of the list, and these are the
\* ones mac80211 knows, but for the one that comes or goes.
RsSeated(t) == \E s \in RsSlotSet : rsTable[s] = t
RsOneEach == \A s, u \in RsSlotSet : rsTable[s] = rsTable[u] /\ rsTable[s] # RsNone => s = u
RsListed == \A t \in RsStations : RsSeated(t) <=> t \in ToSet(rsList)
RsPresent == \A t \in RsStations :
               IF rsPc["sta"] \in {"write", "leave"} /\ rsOp["sta"].arg = t
               THEN rsOp["sta"].what = "remove" => ~RsSeated(t)
               ELSE RsSeated(t) <=> t \in rsKnown

\* The value that field f of the word r has once the writes are done
RsDueIn(chip, todo, r, f, v) ==
  /\ \A c \in RsCallbacks : \A n \in 1 .. Len(todo[c]) :
       todo[c][n].reg = r /\ todo[c][n].field = f => todo[c][n].val = v
  /\ \/ chip[r][f] = v
     \/ \E c \in RsCallbacks : \E n \in 1 .. Len(todo[c]) :
          todo[c][n].reg = r /\ todo[c][n].field = f
RsDue(r, f, v) == RsDueIn(rsChip, rsTodo, r, f, v)

\* The keys, that of the call under way among them
RsKeyOf(t) == IF RsDone("key", "pair") /\ rsOp["key"].arg = t THEN rsOp["key"].key
              ELSE rsKeys[t]
RsGroupOf(i) == IF RsDone("key", "group") /\ rsOp["key"].arg = i THEN rsOp["key"].key
                ELSE rsGroup[i]
RsGone == /\ RsDone("key", "unpair") => rsOp["key"].arg \notin rsHw
          /\ RsDone("key", "ungroup") => rsVif.idx = 0

RsWsids == \A s \in RsSlotSet : RsDue(<<"wsid", s>>, "val", rsTable[s])
RsPairs == \A s \in RsSlotSet : rsTable[s] \in rsHw =>
             /\ RsDue(<<"pair", s>>, "val", RsCcmp)
             /\ RsDue(<<"pkey", s>>, "val", RsKeyOf(rsTable[s]))
RsGroups == rsVif.idx > 0 =>
              /\ rsVif.hw
              /\ RsDue(<<"group", 0>>, "val", RsCcmp)
              /\ RsDue(<<"gkey", rsVif.idx>>, "val", RsGroupOf(rsVif.idx))
              /\ (\E s \in RsSlotSet : rsTable[s] \in rsHw) =>
                   RsDue(<<"group", 0>>, "idx", rsVif.idx)

\* What is recorded is what the chip has, unless a call ended another one's
\* recording or met the restart.
RsRecorded ==
  /\ ~rsOvertaken /\ (\E c \in RsCallbacks : rsPc[c] # "idle") => rsRecord
  /\ ~rsOvertaken /\ ~rsUnder =>
       \A r \in RsRegs : rsChip[r] = IF rsCfg[r] = RsUnset THEN RsBlank ELSE rsCfg[r]

RsInv == /\ RsLocks /\ RsCalled /\ RsAsked /\ RsOneEach /\ RsListed /\ RsPresent
         /\ RsGone /\ RsWsids /\ RsPairs /\ RsGroups /\ RsRecorded
-----------------------------------------------------------------------------
\* The registers there are
LEMMA Registers ==
  /\ \A s \in RsSlotSet : /\ <<"wsid", s>> \in RsRegs
                          /\ <<"pair", s>> \in RsRegs /\ <<"pkey", s>> \in RsRegs
  /\ \A i \in RsGroupIdx : <<"gkey", i>> \in RsRegs
  /\ <<"group", 0>> \in RsRegs
BY DEF RsRegs

\* A write is made of a register, a field and a value.
LEMMA PutShape ==
  ASSUME NEW r \in RsRegs, NEW f \in {"idx", "val"}, NEW v \in Nat, f = "idx" => v \in RsIndexes
  PROVE  /\ RsPut(r, f, v) \in RsPuts
         /\ RsPut(r, f, v).reg = r /\ RsPut(r, f, v).field = f /\ RsPut(r, f, v).val = v
BY DEF RsPut, RsPuts

\* What mac80211 may ask for
LEMMA RequestShape ==
  ASSUME RsTypeOK, NEW c \in RsCallbacks, NEW op \in RsRequests(c)
  PROVE  /\ op \in [what : RsErrands, arg : Nat, key : Nat]
         /\ op.what \in RsKinds(c)
         /\ op.what = "add" => op.arg \in RsStations \ rsKnown
         /\ op.what = "remove" => op.arg \in rsKnown /\ rsKeys[op.arg] = RsNone /\ ~RsBusy(op.arg)
         /\ op.what = "pair" => op.arg \in rsKnown /\ ~RsBusy(op.arg)
         /\ op.what = "unpair" => op.arg \in rsKnown /\ rsKeys[op.arg] # RsNone
         /\ op.what \in {"group", "ungroup"} => op.arg \in RsGroupIdx
<1>1. rsOps + 1 \in Nat /\ RsStations \subseteq Nat /\ RsGroupIdx \subseteq Nat /\ RsNone \in Nat
      /\ rsKnown \subseteq RsStations
  BY RsAssumption DEF RsTypeOK, RsNone
<1>2. PICK w \in RsKinds(c), a \in Nat :
        /\ op = [what |-> w, arg |-> a, key |-> rsOps + 1]
        /\ w = "add" => a \in RsStations \ rsKnown
        /\ w = "remove" => a \in rsKnown /\ rsKeys[a] = RsNone /\ ~RsBusy(a)
        /\ w = "pair" => a \in rsKnown /\ ~RsBusy(a)
        /\ w = "unpair" => a \in rsKnown /\ rsKeys[a] # RsNone
        /\ w \in {"group", "ungroup"} => a \in RsGroupIdx
  <2>1. CASE c = "sta"
    BY <1>1, <2>1 DEF RsRequests, RsKinds
  <2>2. CASE c = "key"
    BY <1>1, <2>2 DEF RsRequests, RsKinds
  <2>3. CASE c = "conf"
    BY <1>1, <2>3 DEF RsRequests, RsKinds
  <2> QED
    BY <2>1, <2>2, <2>3 DEF RsCallbacks
<1>3. w \in RsErrands
  BY DEF RsKinds, RsErrands, RsCallbacks
<1>4. op.what = w /\ op.arg = a /\ op.key = rsOps + 1
  BY <1>2
<1>5. op \in [what : RsErrands, arg : Nat, key : Nat]
  BY <1>1, <1>2, <1>3
<1> QED
  BY <1>2, <1>4, <1>5, Zenon

\* The entry of a station that has one
LEMMA SlotOf ==
  ASSUME NEW t, RsSeated(t)
  PROVE  RsSlotOf(t) \in RsSlotSet /\ rsTable[RsSlotOf(t)] = t
BY DEF RsSlotOf, RsSeated

\* The first free entry, if there is one
RsFirstFree == CHOOSE u \in RsFree : \A v \in RsFree : u <= v
LEMMA FirstFree ==
  ASSUME RsFree # {}
  PROVE  RsFirstFree \in RsSlotSet /\ rsTable[RsFirstFree] = RsNone
<1>1. RsSlots \in Nat /\ RsFree \in SUBSET (0 .. RsSlots)
  BY RsAssumption DEF RsFree, RsSlotSet
<1>2. \E k \in RsFree : \A j \in RsFree : k <= j
  BY <1>1, LeastNumber, Zenon
<1>3. RsFirstFree \in RsFree
  BY <1>2 DEF RsFirstFree
<1> QED
  BY <1>3 DEF RsFree

\* The writes of each body
LEMMA WritesTyped ==
  ASSUME RsTypeOK, NEW s \in RsSlotSet, NEW i \in RsGroupIdx, NEW k \in Nat,
         NEW v \in Nat
  PROVE  /\ <<>> \in Seq(RsPuts)
         /\ <<RsPut(<<"wsid", s>>, "val", v)>> \in Seq(RsPuts)
         /\ <<RsPut(<<"pair", s>>, "val", v)>> \in Seq(RsPuts)
         /\ <<RsPut(<<"group", 0>>, "val", v)>> \in Seq(RsPuts)
         /\ <<RsPut(<<"pair", s>>, "val", RsCcmp), RsPut(<<"pair", s>>, "idx", 0),
              RsPut(<<"pkey", s>>, "val", k)>> \in Seq(RsPuts)
         /\ <<RsPut(<<"group", 0>>, "val", RsCcmp), RsPut(<<"gkey", i>>, "val", k)>> \in Seq(RsPuts)
         /\ [n \in 1 .. Len(rsList) |-> RsPut(<<"group", 0>>, "idx", i)] \in Seq(RsPuts)
<1>1. /\ i \in Nat /\ 0 \in Nat /\ RsCcmp \in Nat /\ Len(rsList) \in Nat
      /\ i \in RsIndexes /\ 0 \in RsIndexes /\ "val" # "idx"
  BY RsAssumption DEF RsTypeOK, RsCcmp, RsIndexes
<1>2. /\ RsPut(<<"wsid", s>>, "val", v) \in RsPuts /\ RsPut(<<"pair", s>>, "val", v) \in RsPuts
      /\ RsPut(<<"group", 0>>, "val", v) \in RsPuts
      /\ RsPut(<<"pair", s>>, "val", RsCcmp) \in RsPuts
      /\ RsPut(<<"pair", s>>, "idx", 0) \in RsPuts /\ RsPut(<<"pkey", s>>, "val", k) \in RsPuts
      /\ RsPut(<<"group", 0>>, "val", RsCcmp) \in RsPuts
      /\ RsPut(<<"gkey", i>>, "val", k) \in RsPuts
      /\ RsPut(<<"group", 0>>, "idx", i) \in RsPuts
  BY <1>1, Registers, PutShape, Zenon
<1> HIDE DEF RsPuts
<1> QED
  BY <1>1, <1>2

\* What a body writes, behind what it may also write of the group key
LEMMA GroupIdxTyped ==
  ASSUME RsTypeOK
  PROVE  RsGroupIdxWrite(rsVif.idx) \in Seq(RsPuts)
<1>1. rsVif.idx \in RsIndexes
  BY DEF RsTypeOK
<1>2. CASE rsVif.hw /\ rsVif.idx > 0
  <2>1. rsVif.idx \in Nat
    <3>1. \A x \in RsIndexes : x \in Nat
      BY RsAssumption DEF RsIndexes
    <3> QED
      BY <1>1, <3>1, Zenon
  <2>2. RsPut(<<"group", 0>>, "idx", rsVif.idx) \in RsPuts
    BY <1>1, <2>1, Registers, PutShape
  <2> HIDE DEF RsPuts
  <2> QED
    BY <1>2, <2>2 DEF RsGroupIdxWrite
<1>3. CASE ~(rsVif.hw /\ rsVif.idx > 0)
  BY <1>3 DEF RsGroupIdxWrite
<1> QED
  BY <1>2, <1>3

\* The station of a key call has an entry.
LEMMA KeySeated ==
  ASSUME RsTypeOK, RsCalled, RsAsked, RsPresent, RsDoingKey
  PROVE  /\ rsOp["key"].arg \in RsStations
         /\ RsSeated(rsOp["key"].arg)
         /\ rsOp["key"].arg \in rsKnown
<1> DEFINE t == rsOp["key"].arg
<1>1. t \in rsKnown /\ t \in RsStations
  BY DEF RsAsked, RsTypeOK
<1>2. rsPc["sta"] \in {"write", "leave"} => rsOp["sta"].arg # t
  <2>1. rsPc["sta"] # "idle" => rsOp["sta"].what \in {"add", "remove"}
    BY DEF RsCalled, RsKinds, RsCallbacks
  <2> QED
    BY <1>1, <2>1 DEF RsAsked, RsDoing
<1>3. RsSeated(t)
  BY <1>1, <1>2, Zenon DEF RsPresent
<1> QED
  BY <1>1, <1>3

\* The station that mac80211 removes has an entry until it is removed.
LEMMA RemovedSeated ==
  ASSUME RsTypeOK, RsCalled, RsAsked, RsPresent, rsPc["sta"] = "enter",
         rsOp["sta"].what = "remove"
  PROVE  rsOp["sta"].arg \in RsStations /\ RsSeated(rsOp["sta"].arg)
<1>1. rsOp["sta"].arg \in rsKnown /\ rsKnown \subseteq RsStations
  BY DEF RsAsked, RsTypeOK, RsDoing
<1> QED
  BY <1>1, Zenon DEF RsPresent

\* What a body does to the state of the calls
LEMMA EnterShape ==
  ASSUME NEW c \in RsCallbacks, NEW w, RsEnter(c, w), RsTypeOK, RsLocks
  PROVE  /\ rsPc[c] = "enter" /\ rsOp[c].what = w
         /\ rsMutex' = c /\ rsPc' = [rsPc EXCEPT ![c] = "write"]
         /\ \A d \in RsCallbacks : rsPc[d] # "write" /\ rsTodo[d] = <<>>
         /\ UNCHANGED <<rsChip, rsCfg, rsRecord, rsOp, rsReset, rsFlag, rsKnown, rsKeys, rsGroup,
                        rsOps, rsRestarts, rsOvertaken, rsUnder>>
<1>1. /\ rsPc[c] = "enter" /\ rsOp[c].what = w /\ rsMutex = "free"
      /\ rsMutex' = c /\ rsPc' = [rsPc EXCEPT ![c] = "write"]
  BY Zenon DEF RsEnter
<1>2. UNCHANGED <<rsChip, rsCfg, rsRecord, rsOp, rsReset, rsFlag, rsKnown, rsKeys, rsGroup,
                  rsOps, rsRestarts, rsOvertaken, rsUnder>>
  BY Zenon DEF RsEnter, rsMac, rsHist
<1>3. \A d \in RsCallbacks : d # "free"
  BY DEF RsCallbacks
<1> QED
  BY <1>1, <1>2, <1>3, Zenon DEF RsLocks

\* A body keeps the types if what it changes has them.
LEMMA BodyTypes ==
  ASSUME RsTypeOK, RsLocks, NEW c \in RsCallbacks, NEW w, RsEnter(c, w),
         NEW writes \in Seq(RsPuts), RsPlan(c, writes),
         rsTable' \in [RsSlotSet -> RsStations \cup {RsNone}],
         rsList' \in Seq(RsStations), rsHw' \subseteq RsStations,
         rsVif' \in [hw : BOOLEAN, idx : RsIndexes]
  PROVE  RsTypeOK'
<1>1. /\ rsMutex' = c /\ rsPc' = [rsPc EXCEPT ![c] = "write"]
      /\ UNCHANGED <<rsChip, rsCfg, rsRecord, rsOp, rsReset, rsFlag, rsKnown, rsKeys, rsGroup,
                     rsOps, rsRestarts, rsOvertaken, rsUnder>>
  BY EnterShape, Zenon
<1>2. rsTodo' = [rsTodo EXCEPT ![c] = writes]
  BY Zenon DEF RsPlan
<1>3. rsTodo' \in [RsCallbacks -> Seq(RsPuts)]
  BY <1>2, Zenon DEF RsTypeOK
<1>4. rsMutex' \in RsCallbacks \cup {"free", "reset"}
  BY <1>1, Zenon
<1>5. rsPc' \in [RsCallbacks -> {"idle", "enter", "write", "leave"}]
  BY <1>1 DEF RsTypeOK
<1> QED
  BY <1>1, <1>3, <1>4, <1>5, ZenonT(60) DEF RsTypeOK

\* A sequence of one
LEMMA OneInSeq ==
  ASSUME NEW T, NEW x \in T
  PROVE  <<x>> \in Seq(T)
OBVIOUS

\* The bodies one after the other: what they do
LEMMA StaAddShape ==
  ASSUME RsTypeOK, RsLocks, RsStaAdd, RsAsked
  PROVE  /\ RsEnter("sta", "add") /\ rsOp["sta"].arg \in RsStations \ rsKnown
         /\ UNCHANGED rsVif
         /\ \/ /\ RsFree = {} /\ RsPlan("sta", <<>>) /\ UNCHANGED <<rsTable, rsList, rsHw>>
            \/ /\ RsFree # {}
               /\ rsTable' = [rsTable EXCEPT ![RsFirstFree] = rsOp["sta"].arg]
               /\ rsList' = Append(rsList, rsOp["sta"].arg) /\ rsHw' = rsHw \ {rsOp["sta"].arg}
               /\ RsPlan("sta", <<RsPut(<<"wsid", RsFirstFree>>, "val", rsOp["sta"].arg)>>)
<1>1. RsEnter("sta", "add")
  BY Zenon DEF RsStaAdd
<1>2. rsOp["sta"].arg \in RsStations \ rsKnown
  <2>1. rsPc["sta"] = "enter" /\ rsOp["sta"].what = "add"
    BY <1>1, Zenon DEF RsEnter
  <2> QED
    BY <2>1 DEF RsAsked, RsDoing
<1>3. CASE RsFree = {}
  BY <1>1, <1>2, <1>3, Zenon DEF RsStaAdd, rsDriver
<1>4. CASE RsFree # {}
  BY <1>1, <1>2, <1>4, Zenon DEF RsStaAdd, rsDriver, RsFirstFree
<1> QED
  BY <1>3, <1>4, Zenon

LEMMA StaAddTypes ==
  ASSUME RsTypeOK, RsLocks, RsStaAdd, RsAsked
  PROVE  RsTypeOK'
<1> DEFINE t == rsOp["sta"].arg
<1>1. RsEnter("sta", "add") /\ t \in RsStations /\ t \in Nat /\ UNCHANGED rsVif
  BY StaAddShape, RsAssumption
<1>2. /\ rsTable \in [RsSlotSet -> RsStations \cup {RsNone}] /\ rsList \in Seq(RsStations)
      /\ rsHw \subseteq RsStations /\ rsVif \in [hw : BOOLEAN, idx : RsIndexes]
  BY DEF RsTypeOK
<1>3. "sta" \in RsCallbacks
  BY DEF RsCallbacks
<1>4. CASE RsPlan("sta", <<>>) /\ UNCHANGED <<rsTable, rsList, rsHw>>
  <2>1. <<>> \in Seq(RsPuts)
    OBVIOUS
  <2>2. UNCHANGED rsTable /\ UNCHANGED rsList /\ UNCHANGED rsHw
    BY <1>4, Zenon
  <2> QED
    BY <1>1, <1>2, <1>3, <1>4, <2>1, <2>2, BodyTypes, ZenonT(30)
<1>5. CASE /\ RsFree # {}
           /\ rsTable' = [rsTable EXCEPT ![RsFirstFree] = t]
           /\ rsList' = Append(rsList, t) /\ rsHw' = rsHw \ {t}
           /\ RsPlan("sta", <<RsPut(<<"wsid", RsFirstFree>>, "val", t)>>)
  <2>1. RsFirstFree \in RsSlotSet
    BY <1>5, FirstFree, Zenon
  <2>2. <<RsPut(<<"wsid", RsFirstFree>>, "val", t)>> \in Seq(RsPuts)
    <3>1. RsPut(<<"wsid", RsFirstFree>>, "val", t) \in RsPuts
      <4>1. <<"wsid", RsFirstFree>> \in RsRegs /\ "val" \in {"idx", "val"} /\ "val" # "idx"
        BY <2>1, Registers
      <4> QED
        BY <1>1, <4>1, PutShape, Zenon
    <3> QED
      BY <3>1, Zenon, OneInSeq
  <2>3. rsTable' \in [RsSlotSet -> RsStations \cup {RsNone}]
    BY <1>1, <1>2, <1>5, Zenon
  <2>4. rsList' \in Seq(RsStations)
    BY <1>1, <1>2, <1>5, AppendMembers, Zenon
  <2>5. rsHw' \subseteq RsStations /\ rsVif' \in [hw : BOOLEAN, idx : RsIndexes]
    BY <1>1, <1>2, <1>5, Zenon
  <2> QED
    BY <1>1, <1>3, <1>5, <2>2, <2>3, <2>4, <2>5, BodyTypes, ZenonT(30)
<1> QED
  BY <1>4, <1>5, StaAddShape, Zenon

LEMMA StaRemoveShape ==
  ASSUME RsTypeOK, RsLocks, RsStaRemove, RsCalled, RsAsked, RsPresent
  PROVE  \E s \in RsSlotSet, t \in RsStations :
           /\ t = rsOp["sta"].arg /\ t \in rsKnown /\ s = RsSlotOf(t) /\ rsTable[s] = t
           /\ RsEnter("sta", "remove")
           /\ rsTable' = [rsTable EXCEPT ![s] = RsNone]
           /\ rsList' = Without(rsList, {t})
           /\ RsPlan("sta", <<RsPut(<<"wsid", s>>, "val", RsNone)>>)
           /\ UNCHANGED <<rsHw, rsVif>>
<1> DEFINE t == rsOp["sta"].arg
           s == RsSlotOf(t)
<1>1. /\ RsEnter("sta", "remove")
      /\ rsTable' = [rsTable EXCEPT ![s] = RsNone]
      /\ rsList' = Without(rsList, {t})
      /\ RsPlan("sta", <<RsPut(<<"wsid", s>>, "val", RsNone)>>)
      /\ UNCHANGED <<rsHw, rsVif>>
  BY Zenon DEF RsStaRemove, RsDelWsid
<1>2. rsPc["sta"] = "enter" /\ rsOp["sta"].what = "remove"
  BY <1>1, Zenon DEF RsEnter
<1>3. t \in RsStations /\ RsSeated(t) /\ t \in rsKnown
  BY <1>2, RemovedSeated DEF RsAsked, RsDoing
<1>4. s \in RsSlotSet /\ rsTable[s] = t
  BY <1>3, SlotOf
<1> HIDE DEF s, t
<1> QED
  BY <1>1, <1>3, <1>4, Zenon DEF s, t

LEMMA StaRemoveTypes ==
  ASSUME RsTypeOK, RsLocks, RsStaRemove, RsCalled, RsAsked, RsPresent
  PROVE  RsTypeOK'
<1>1. PICK s \in RsSlotSet, t \in RsStations :
           /\ RsEnter("sta", "remove")
           /\ rsTable' = [rsTable EXCEPT ![s] = RsNone]
           /\ rsList' = Without(rsList, {t})
           /\ RsPlan("sta", <<RsPut(<<"wsid", s>>, "val", RsNone)>>)
           /\ UNCHANGED <<rsHw, rsVif>>
  BY StaRemoveShape, Zenon
<1>2. /\ rsTable \in [RsSlotSet -> RsStations \cup {RsNone}] /\ rsList \in Seq(RsStations)
      /\ rsHw \subseteq RsStations /\ rsVif \in [hw : BOOLEAN, idx : RsIndexes]
  BY DEF RsTypeOK
<1>3. "sta" \in RsCallbacks
  BY DEF RsCallbacks
<1>4. <<RsPut(<<"wsid", s>>, "val", RsNone)>> \in Seq(RsPuts)
  <2>1. RsPut(<<"wsid", s>>, "val", RsNone) \in RsPuts
    BY Registers, PutShape DEF RsNone
  <2> QED
    BY <2>1, Zenon, OneInSeq
<1>5. rsTable' \in [RsSlotSet -> RsStations \cup {RsNone}]
  BY <1>1, <1>2, Zenon
<1>6. rsList' \in Seq(RsStations)
  BY <1>1, <1>2, WithoutMembers, Zenon
<1>7. rsHw' \subseteq RsStations /\ rsVif' \in [hw : BOOLEAN, idx : RsIndexes]
  BY <1>1, <1>2, Zenon
<1> QED
  BY <1>1, <1>3, <1>4, <1>5, <1>6, <1>7, BodyTypes, ZenonT(30)

RsPairWrites(s, k) == <<RsPut(<<"pair", s>>, "val", RsCcmp), RsPut(<<"pair", s>>, "idx", 0),
                        RsPut(<<"pkey", s>>, "val", k)>>
RsGroupWrites(i, k) == <<RsPut(<<"group", 0>>, "val", RsCcmp), RsPut(<<"gkey", i>>, "val", k)>>
RsIdxWrites(i) == [n \in 1 .. Len(rsList) |-> RsPut(<<"group", 0>>, "idx", i)]

LEMMA SetPairwiseShape ==
  ASSUME RsTypeOK, RsLocks, RsSetPairwise, RsCalled, RsAsked, RsPresent
  PROVE  \E s \in RsSlotSet, t \in RsStations :
           /\ t = rsOp["key"].arg /\ s = RsSlotOf(t) /\ rsTable[s] = t /\ RsSeated(t)
           /\ RsEnter("key", "pair")
           /\ RsPlan("key", RsPairWrites(s, rsOp["key"].key) \o RsGroupIdxWrite(rsVif.idx))
           /\ rsHw' = rsHw \cup {t}
           /\ UNCHANGED <<rsTable, rsList, rsVif>>
<1> DEFINE t == rsOp["key"].arg
           s == RsSlotOf(t)
<1>1. /\ RsEnter("key", "pair")
      /\ RsPlan("key", RsPairWrites(s, rsOp["key"].key) \o RsGroupIdxWrite(rsVif.idx))
      /\ rsHw' = rsHw \cup {t}
      /\ UNCHANGED <<rsTable, rsList, rsVif>>
  BY Zenon DEF RsSetPairwise, RsPairWrites
<1>2. rsPc["key"] = "enter" /\ rsOp["key"].what = "pair"
  BY <1>1, Zenon DEF RsEnter
<1>3. t \in RsStations /\ RsSeated(t)
  BY <1>2, KeySeated DEF RsDoingKey, RsDoing
<1>4. s \in RsSlotSet /\ rsTable[s] = t
  BY <1>3, SlotOf
<1> HIDE DEF s, t
<1> QED
  BY <1>1, <1>3, <1>4, Zenon DEF s, t

LEMMA SetPairwiseTypes ==
  ASSUME RsTypeOK, RsLocks, RsSetPairwise, RsCalled, RsAsked, RsPresent
  PROVE  RsTypeOK'
<1>1. PICK s \in RsSlotSet, t \in RsStations :
           /\ RsEnter("key", "pair")
           /\ RsPlan("key", RsPairWrites(s, rsOp["key"].key) \o RsGroupIdxWrite(rsVif.idx))
           /\ rsHw' = rsHw \cup {t}
           /\ UNCHANGED <<rsTable, rsList, rsVif>>
  BY SetPairwiseShape, Zenon
<1>2. /\ rsTable \in [RsSlotSet -> RsStations \cup {RsNone}] /\ rsList \in Seq(RsStations)
      /\ rsHw \subseteq RsStations /\ rsVif \in [hw : BOOLEAN, idx : RsIndexes]
  BY DEF RsTypeOK
<1>3. "key" \in RsCallbacks /\ rsOp["key"].key \in Nat
  BY DEF RsCallbacks, RsTypeOK
<1>4. RsPairWrites(s, rsOp["key"].key) \in Seq(RsPuts)
  <2>1. /\ RsPut(<<"pair", s>>, "val", RsCcmp) \in RsPuts
        /\ RsPut(<<"pair", s>>, "idx", 0) \in RsPuts
        /\ RsPut(<<"pkey", s>>, "val", rsOp["key"].key) \in RsPuts
    BY <1>3, Registers, PutShape DEF RsCcmp, RsIndexes
  <2> HIDE DEF RsPuts
  <2> QED
    BY <2>1 DEF RsPairWrites
<1>5. RsPairWrites(s, rsOp["key"].key) \o RsGroupIdxWrite(rsVif.idx) \in Seq(RsPuts)
  BY <1>4, GroupIdxTyped, ConcatProperties, Zenon
<1>6. /\ rsTable' \in [RsSlotSet -> RsStations \cup {RsNone}] /\ rsList' \in Seq(RsStations)
      /\ rsHw' \subseteq RsStations /\ rsVif' \in [hw : BOOLEAN, idx : RsIndexes]
  BY <1>1, <1>2, Zenon
<1> QED
  BY <1>1, <1>3, <1>5, <1>6, BodyTypes, ZenonT(30)

LEMMA SetGroupShape ==
  ASSUME RsTypeOK, RsLocks, RsSetGroup, RsCalled, RsAsked
  PROVE  \E i \in RsGroupIdx :
           /\ i = rsOp["key"].arg /\ i > 0
           /\ RsEnter("key", "group")
           /\ RsPlan("key", RsGroupWrites(i, rsOp["key"].key) \o RsIdxWrites(i))
           /\ rsVif' = [hw |-> TRUE, idx |-> i]
           /\ UNCHANGED <<rsTable, rsList, rsHw>>
<1> DEFINE i == rsOp["key"].arg
<1>1. /\ RsEnter("key", "group")
      /\ RsPlan("key", RsGroupWrites(i, rsOp["key"].key) \o RsIdxWrites(i))
      /\ rsVif' = [hw |-> TRUE, idx |-> i]
      /\ UNCHANGED <<rsTable, rsList, rsHw>>
  BY Zenon DEF RsSetGroup, RsGroupWrites, RsIdxWrites
<1>2. rsPc["key"] = "enter" /\ rsOp["key"].what = "group"
  BY <1>1, Zenon DEF RsEnter
<1>3. i \in RsGroupIdx
  BY <1>2 DEF RsAsked, RsDoing
<1>4. i > 0
  <2>1. \A x \in RsGroupIdx : x > 0
    BY RsAssumption
  <2> QED
    BY <1>3, <2>1, Zenon
<1> HIDE DEF i
<1> QED
  BY <1>1, <1>3, <1>4, Zenon DEF i

LEMMA SetGroupTypes ==
  ASSUME RsTypeOK, RsLocks, RsSetGroup, RsCalled, RsAsked
  PROVE  RsTypeOK'
<1>1. PICK i \in RsGroupIdx :
           /\ RsEnter("key", "group")
           /\ RsPlan("key", RsGroupWrites(i, rsOp["key"].key) \o RsIdxWrites(i))
           /\ rsVif' = [hw |-> TRUE, idx |-> i]
           /\ UNCHANGED <<rsTable, rsList, rsHw>>
  BY SetGroupShape, Zenon
<1>2. /\ rsTable \in [RsSlotSet -> RsStations \cup {RsNone}] /\ rsList \in Seq(RsStations)
      /\ rsHw \subseteq RsStations
  BY DEF RsTypeOK
<1>3. "key" \in RsCallbacks /\ rsOp["key"].key \in Nat /\ i \in Nat /\ Len(rsList) \in Nat
  BY <1>2, RsAssumption DEF RsCallbacks, RsTypeOK
<1>4. RsGroupWrites(i, rsOp["key"].key) \in Seq(RsPuts) /\ RsIdxWrites(i) \in Seq(RsPuts)
  <2>1. /\ RsPut(<<"group", 0>>, "val", RsCcmp) \in RsPuts
        /\ RsPut(<<"gkey", i>>, "val", rsOp["key"].key) \in RsPuts
        /\ RsPut(<<"group", 0>>, "idx", i) \in RsPuts
    BY <1>3, Registers, PutShape DEF RsCcmp, RsIndexes
  <2> HIDE DEF RsPuts
  <2> QED
    BY <1>3, <2>1 DEF RsGroupWrites, RsIdxWrites
<1>5. RsGroupWrites(i, rsOp["key"].key) \o RsIdxWrites(i) \in Seq(RsPuts)
  BY <1>4, ConcatProperties, Zenon
<1>6. /\ rsTable' \in [RsSlotSet -> RsStations \cup {RsNone}] /\ rsList' \in Seq(RsStations)
      /\ rsHw' \subseteq RsStations
  BY <1>1, <1>2, Zenon
<1>7. rsVif' \in [hw : BOOLEAN, idx : RsIndexes]
  BY <1>1 DEF RsIndexes
<1> QED
  BY <1>1, <1>3, <1>5, <1>6, <1>7, BodyTypes, ZenonT(30)

LEMMA ClearPairwiseShape ==
  ASSUME RsTypeOK, RsLocks, RsClearPairwise, RsCalled, RsAsked, RsPresent
  PROVE  \E s \in RsSlotSet, t \in RsStations :
           /\ t = rsOp["key"].arg /\ s = RsSlotOf(t) /\ rsTable[s] = t
           /\ RsEnter("key", "unpair")
           /\ \/ RsPlan("key", <<RsPut(<<"pair", s>>, "val", RsNone)>>)
              \/ RsPlan("key", <<>>)
           /\ rsHw' = rsHw \ {t}
           /\ UNCHANGED <<rsTable, rsList, rsVif>>
<1> DEFINE t == rsOp["key"].arg
           s == RsSlotOf(t)
<1>1. /\ RsEnter("key", "unpair")
      /\ \/ RsPlan("key", <<RsPut(<<"pair", s>>, "val", RsNone)>>)
         \/ RsPlan("key", <<>>)
      /\ rsHw' = rsHw \ {t}
      /\ UNCHANGED <<rsTable, rsList, rsVif>>
  BY Zenon DEF RsClearPairwise
<1>2. rsPc["key"] = "enter" /\ rsOp["key"].what = "unpair"
  BY <1>1, Zenon DEF RsEnter
<1>3. t \in RsStations /\ RsSeated(t)
  BY <1>2, KeySeated DEF RsDoingKey, RsDoing
<1>4. s \in RsSlotSet /\ rsTable[s] = t
  BY <1>3, SlotOf
<1> HIDE DEF s, t
<1> QED
  BY <1>1, <1>3, <1>4, Zenon DEF s, t

LEMMA ClearPairwiseTypes ==
  ASSUME RsTypeOK, RsLocks, RsClearPairwise, RsCalled, RsAsked, RsPresent
  PROVE  RsTypeOK'
<1>1. PICK s \in RsSlotSet, t \in RsStations :
           /\ RsEnter("key", "unpair")
           /\ \/ RsPlan("key", <<RsPut(<<"pair", s>>, "val", RsNone)>>)
              \/ RsPlan("key", <<>>)
           /\ rsHw' = rsHw \ {t}
           /\ UNCHANGED <<rsTable, rsList, rsVif>>
  BY ClearPairwiseShape, Zenon
<1>2. "key" \in RsCallbacks
  BY DEF RsCallbacks
<1>3. <<RsPut(<<"pair", s>>, "val", RsNone)>> \in Seq(RsPuts)
  <2>1. RsPut(<<"pair", s>>, "val", RsNone) \in RsPuts
    BY Registers, PutShape DEF RsNone
  <2> QED
    BY <2>1, Zenon, OneInSeq
<1>4. <<>> \in Seq(RsPuts)
  OBVIOUS
<1>5. /\ rsTable' \in [RsSlotSet -> RsStations \cup {RsNone}] /\ rsList' \in Seq(RsStations)
      /\ rsHw' \subseteq RsStations /\ rsVif' \in [hw : BOOLEAN, idx : RsIndexes]
  BY <1>1, Zenon DEF RsTypeOK
<1> QED
  BY <1>1, <1>2, <1>3, <1>4, <1>5, BodyTypes, ZenonT(30)

LEMMA ClearGroupTypes ==
  ASSUME RsTypeOK, RsLocks, RsClearGroup
  PROVE  RsTypeOK'
<1>1. /\ RsEnter("key", "ungroup")
      /\ RsPlan("key", <<RsPut(<<"group", 0>>, "val", RsNone)>>)
      /\ rsVif' = [rsVif EXCEPT !.idx = 0]
      /\ UNCHANGED <<rsTable, rsList, rsHw>>
  BY Zenon DEF RsClearGroup, RsNoGroupKey
<1>2. "key" \in RsCallbacks
  BY DEF RsCallbacks
<1>3. <<RsPut(<<"group", 0>>, "val", RsNone)>> \in Seq(RsPuts)
  <2>1. RsPut(<<"group", 0>>, "val", RsNone) \in RsPuts
    BY Registers, PutShape DEF RsNone
  <2> QED
    BY <2>1, Zenon, OneInSeq
<1>4. /\ rsTable' \in [RsSlotSet -> RsStations \cup {RsNone}] /\ rsList' \in Seq(RsStations)
      /\ rsHw' \subseteq RsStations
  BY <1>1, Zenon DEF RsTypeOK
<1>5. rsVif' \in [hw : BOOLEAN, idx : RsIndexes]
  <2>1. \A x \in [hw : BOOLEAN, idx : RsIndexes] :
          [x EXCEPT !.idx = 0] \in [hw : BOOLEAN, idx : RsIndexes]
    BY DEF RsIndexes
  <2> QED
    BY <1>1, <2>1, Zenon DEF RsTypeOK
<1> QED
  BY <1>1, <1>2, <1>3, <1>4, <1>5, BodyTypes, ZenonT(30)

LEMMA ConfigureTypes ==
  ASSUME RsTypeOK, RsLocks, RsConfigure
  PROVE  RsTypeOK'
<1>1. RsEnter("conf", "conf") /\ RsPlan("conf", <<>>)
      /\ UNCHANGED <<rsTable, rsList, rsHw, rsVif>>
  BY Zenon DEF RsConfigure, rsDriver
<1>2. "conf" \in RsCallbacks /\ <<>> \in Seq(RsPuts)
  BY DEF RsCallbacks
<1>3. /\ rsTable' \in [RsSlotSet -> RsStations \cup {RsNone}] /\ rsList' \in Seq(RsStations)
      /\ rsHw' \subseteq RsStations /\ rsVif' \in [hw : BOOLEAN, idx : RsIndexes]
  BY <1>1, Zenon DEF RsTypeOK
<1> QED
  BY <1>1, <1>2, <1>3, BodyTypes, ZenonT(30)

\* The steps that are no bodies: what they do
LEMMA CallShape ==
  ASSUME RsTypeOK, NEW c \in RsCallbacks, RsCall(c)
  PROVE  \E op \in RsRequests(c) :
           /\ rsPc[c] = "idle" /\ ~rsOvertaken /\ rsOps < RsMaxOps
           /\ rsOp' = [rsOp EXCEPT ![c] = op]
           /\ rsPc' = [rsPc EXCEPT ![c] = IF op.what = "ignored" THEN "leave" ELSE "enter"]
           /\ rsOps' = rsOps + 1 /\ rsRecord' = TRUE
           /\ UNCHANGED <<rsTable, rsList, rsHw, rsVif, rsChip, rsCfg, rsMutex, rsTodo, rsReset, rsFlag,
                          rsKnown, rsKeys, rsGroup, rsRestarts, rsOvertaken, rsUnder>>
BY Zenon DEF RsCall, rsDriver, rsHist

LEMMA CallTypes ==
  ASSUME RsTypeOK, NEW c \in RsCallbacks, RsCall(c)
  PROVE  RsTypeOK'
<1>1. PICK op \in RsRequests(c) :
           /\ rsOps < RsMaxOps
           /\ rsOp' = [rsOp EXCEPT ![c] = op]
           /\ rsPc' = [rsPc EXCEPT ![c] = IF op.what = "ignored" THEN "leave" ELSE "enter"]
           /\ rsOps' = rsOps + 1 /\ rsRecord' = TRUE
           /\ UNCHANGED <<rsTable, rsList, rsHw, rsVif, rsChip, rsCfg, rsMutex, rsTodo, rsReset, rsFlag,
                          rsKnown, rsKeys, rsGroup, rsRestarts, rsOvertaken, rsUnder>>
  BY CallShape, Zenon
<1>2. op \in [what : RsErrands, arg : Nat, key : Nat]
  BY RequestShape, Zenon
<1>3. rsOp' \in [RsCallbacks -> [what : RsErrands, arg : Nat, key : Nat]]
  BY <1>1, <1>2, Zenon DEF RsTypeOK
<1>4. rsPc' \in [RsCallbacks -> {"idle", "enter", "write", "leave"}]
  BY <1>1 DEF RsTypeOK
<1>5. rsOps' \in 0 .. RsMaxOps
  BY <1>1, RsAssumption DEF RsTypeOK
<1>6. rsRecord' \in BOOLEAN
  BY <1>1
<1> QED
  BY <1>1, <1>3, <1>4, <1>5, <1>6, ZenonT(60) DEF RsTypeOK

LEMMA WriteShape ==
  ASSUME RsTypeOK, NEW c \in RsCallbacks, RsWrite(c)
  PROVE  \E t \in RsPuts :
           /\ rsPc[c] = "write" /\ rsTodo[c] # <<>> /\ t = Head(rsTodo[c])
           /\ rsChip' = [rsChip EXCEPT ![t.reg] = [rsChip[t.reg] EXCEPT ![t.field] = t.val]]
           /\ rsCfg' = IF rsRecord /\ ~rsFlag THEN [rsCfg EXCEPT ![t.reg] = rsChip'[t.reg]] ELSE rsCfg
           /\ rsChip'[t.reg] \in RsWords
           /\ rsTodo' = [rsTodo EXCEPT ![c] = Tail(rsTodo[c])]
           /\ Tail(rsTodo[c]) \in Seq(RsPuts)
           /\ rsUnder' = (rsUnder \/ rsFlag)
           /\ UNCHANGED <<rsTable, rsList, rsHw, rsVif, rsRecord, rsMutex, rsPc, rsOp, rsReset, rsFlag,
                          rsKnown, rsKeys, rsGroup, rsOps, rsRestarts, rsOvertaken>>
<1> DEFINE t == Head(rsTodo[c])
           w == [rsChip[t.reg] EXCEPT ![t.field] = t.val]
<1>1. /\ rsPc[c] = "write" /\ rsTodo[c] # <<>>
      /\ rsChip' = [rsChip EXCEPT ![t.reg] = w]
      /\ rsCfg' = IF rsRecord /\ ~rsFlag THEN [rsCfg EXCEPT ![t.reg] = w] ELSE rsCfg
      /\ rsTodo' = [rsTodo EXCEPT ![c] = Tail(rsTodo[c])]
      /\ rsUnder' = (rsUnder \/ rsFlag)
  BY Zenon DEF RsWrite, RsSaved
<1>2. UNCHANGED <<rsTable, rsList, rsHw, rsVif, rsRecord, rsMutex, rsPc, rsOp, rsReset, rsFlag,
                  rsKnown, rsKeys, rsGroup, rsOps, rsRestarts, rsOvertaken>>
  BY Zenon DEF RsWrite, rsDriver, rsMac
<1>3. rsTodo[c] \in Seq(RsPuts)
  BY Zenon DEF RsTypeOK
<1>4. t \in RsPuts /\ Tail(rsTodo[c]) \in Seq(RsPuts)
  BY <1>1, <1>3, HeadTailProperties, Zenon
<1>5. /\ t.reg \in RsRegs /\ t.field \in {"idx", "val"}
      /\ IF t.field = "idx" THEN t.val \in RsIndexes ELSE t.val \in Nat
      /\ rsChip \in [RsRegs -> RsWords]
  BY <1>4 DEF RsPuts, RsTypeOK
<1>6. w \in RsWords
  <2>1. rsChip[t.reg] \in RsWords
    BY <1>5, Zenon
  <2>2. \A x \in RsWords, v \in RsIndexes : [x EXCEPT !["idx"] = v] \in RsWords
    BY DEF RsWords
  <2>3. \A x \in RsWords, v \in Nat : [x EXCEPT !["val"] = v] \in RsWords
    BY DEF RsWords
  <2> HIDE DEF t
  <2>4. CASE t.field = "idx"
    BY <1>5, <2>1, <2>2, <2>4, Zenon
  <2>5. CASE t.field = "val"
    BY <1>5, <2>1, <2>3, <2>5
  <2> QED
    BY <1>5, <2>4, <2>5
<1> HIDE DEF t, w
<1>7. rsChip'[t.reg] = w
  BY <1>1, <1>5, Zenon
<1> QED
  BY <1>1, <1>2, <1>4, <1>6, <1>7, Zenon DEF t, w

LEMMA WriteTypes ==
  ASSUME RsTypeOK, NEW c \in RsCallbacks, RsWrite(c)
  PROVE  RsTypeOK'
<1>1. PICK t \in RsPuts :
           /\ rsChip' = [rsChip EXCEPT ![t.reg] = [rsChip[t.reg] EXCEPT ![t.field] = t.val]]
           /\ rsCfg' = IF rsRecord /\ ~rsFlag THEN [rsCfg EXCEPT ![t.reg] = rsChip'[t.reg]] ELSE rsCfg
           /\ rsChip'[t.reg] \in RsWords
           /\ rsTodo' = [rsTodo EXCEPT ![c] = Tail(rsTodo[c])]
           /\ Tail(rsTodo[c]) \in Seq(RsPuts)
           /\ rsUnder' = (rsUnder \/ rsFlag)
           /\ UNCHANGED <<rsTable, rsList, rsHw, rsVif, rsRecord, rsMutex, rsPc, rsOp, rsReset, rsFlag,
                          rsKnown, rsKeys, rsGroup, rsOps, rsRestarts, rsOvertaken>>
  BY WriteShape, Zenon
<1>2. t.reg \in RsRegs
  BY DEF RsPuts
<1>3. rsChip' \in [RsRegs -> RsWords]
  <2>1. rsChip' \in [RsRegs -> RsWords \cup {rsChip'[t.reg]}]
    <3>1. rsChip'[t.reg] = [rsChip[t.reg] EXCEPT ![t.field] = t.val]
      BY <1>1, <1>2, Zenon DEF RsTypeOK
    <3> QED
      BY <1>1, <1>2, <3>1, Zenon DEF RsTypeOK
  <2>2. RsWords \cup {rsChip'[t.reg]} = RsWords
    BY <1>1, Zenon
  <2> QED
    BY <2>1, <2>2, Zenon
<1>4. rsCfg' \in [RsRegs -> RsWords \cup {RsUnset}]
  BY <1>1, <1>2, Zenon DEF RsTypeOK
<1>5. rsTodo' \in [RsCallbacks -> Seq(RsPuts)]
  BY <1>1, Zenon DEF RsTypeOK
<1>6. rsUnder' \in BOOLEAN
  BY <1>1, Zenon DEF RsTypeOK
<1> QED
  BY <1>1, <1>3, <1>4, <1>5, <1>6, ZenonT(60) DEF RsTypeOK

LEMMA UnlockTypes ==
  ASSUME RsTypeOK, NEW c \in RsCallbacks, RsUnlock(c)
  PROVE  RsTypeOK'
<1>1. /\ rsMutex' = "free" /\ rsPc' = [rsPc EXCEPT ![c] = "leave"]
      /\ UNCHANGED <<rsTable, rsList, rsHw, rsVif, rsChip, rsCfg, rsRecord, rsOp, rsTodo, rsReset,
                     rsFlag, rsKnown, rsKeys, rsGroup, rsOps, rsRestarts, rsOvertaken, rsUnder>>
  BY Zenon DEF RsUnlock, rsDriver, rsMac, rsHist
<1>2. rsPc' \in [RsCallbacks -> {"idle", "enter", "write", "leave"}]
  BY <1>1 DEF RsTypeOK
<1> QED
  BY <1>1, <1>2, ZenonT(60) DEF RsTypeOK

LEMMA ReturnShape ==
  ASSUME NEW c \in RsCallbacks, RsReturn(c)
  PROVE  /\ rsPc[c] = "leave" /\ rsRecord' = FALSE
         /\ rsOvertaken' = (rsOvertaken \/ \E d \in RsCallbacks \ {c} : rsPc[d] # "idle")
         /\ rsPc' = [rsPc EXCEPT ![c] = "idle"] /\ rsOp' = [rsOp EXCEPT ![c] = RsNoOp]
         /\ rsKnown' = IF rsOp[c].what = "add" /\ rsOp[c].arg \in ToSet(rsList)
                       THEN rsKnown \cup {rsOp[c].arg}
                       ELSE IF rsOp[c].what = "remove" THEN rsKnown \ {rsOp[c].arg} ELSE rsKnown
         /\ rsKeys' = IF rsOp[c].what = "pair" THEN [rsKeys EXCEPT ![rsOp[c].arg] = rsOp[c].key]
                      ELSE IF rsOp[c].what = "unpair" THEN [rsKeys EXCEPT ![rsOp[c].arg] = RsNone]
                      ELSE rsKeys
         /\ rsGroup' = IF rsOp[c].what = "group" THEN [rsGroup EXCEPT ![rsOp[c].arg] = rsOp[c].key]
                       ELSE IF rsOp[c].what = "ungroup" THEN [rsGroup EXCEPT ![rsOp[c].arg] = RsNone]
                       ELSE rsGroup
         /\ UNCHANGED <<rsTable, rsList, rsHw, rsVif, rsChip, rsCfg, rsMutex, rsTodo, rsReset, rsFlag,
                        rsOps, rsRestarts, rsUnder>>
BY Zenon DEF RsReturn, rsDriver

LEMMA ReturnTypes ==
  ASSUME RsTypeOK, RsCalled, RsAsked, NEW c \in RsCallbacks, RsReturn(c)
  PROVE  RsTypeOK'
<1>1. RsNoOp \in [what : RsErrands, arg : Nat, key : Nat]
  BY DEF RsNoOp, RsErrands, RsNone
<1>2. rsOp' \in [RsCallbacks -> [what : RsErrands, arg : Nat, key : Nat]]
  BY <1>1, ReturnShape, Zenon DEF RsTypeOK
<1>3. rsPc' \in [RsCallbacks -> {"idle", "enter", "write", "leave"}]
  <2>1. rsPc' = [rsPc EXCEPT ![c] = "idle"]
    BY ReturnShape, Zenon
  <2> QED
    BY <2>1 DEF RsTypeOK
<1>4. rsRecord' \in BOOLEAN /\ rsOvertaken' \in BOOLEAN
  BY ReturnShape, Zenon DEF RsTypeOK
<1>5. rsOp[c].key \in Nat /\ RsNone \in Nat
  BY DEF RsTypeOK, RsNone
<1>6. /\ c \in {"sta", "key", "conf"} /\ rsPc[c] # "idle"
      /\ c = "sta" => rsOp[c].what \in {"add", "remove"}
      /\ c = "key" => rsOp[c].what \in {"pair", "unpair", "group", "ungroup"}
      /\ c = "conf" => rsOp[c].what \in {"conf", "ignored"}
  <2>1. rsPc[c] # "idle" /\ c \in {"sta", "key", "conf"}
    BY ReturnShape DEF RsCallbacks
  <2>2. rsOp[c].what \in RsKinds(c)
    BY <2>1, Zenon DEF RsCalled
  <2> QED
    BY <2>1, <2>2 DEF RsKinds
<1>7. rsKnown' \subseteq RsStations
  <2>1. rsOp[c].what = "add" => rsOp[c].arg \in RsStations
    BY <1>6 DEF RsAsked, RsDoing
  <2>2. \/ rsOp[c].what = "add" /\ rsKnown' = rsKnown \cup {rsOp[c].arg}
        \/ rsKnown' = rsKnown \ {rsOp[c].arg}
        \/ rsKnown' = rsKnown
    BY ReturnShape, Zenon
  <2> QED
    BY <2>1, <2>2, Zenon DEF RsTypeOK
<1>8. rsKeys' \in [RsStations -> Nat]
  <2>1. \A x, v : v \in Nat => [rsKeys EXCEPT ![x] = v] \in [RsStations -> Nat]
    BY Zenon DEF RsTypeOK
  <2>2. \/ rsKeys' = [rsKeys EXCEPT ![rsOp[c].arg] = rsOp[c].key]
        \/ rsKeys' = [rsKeys EXCEPT ![rsOp[c].arg] = RsNone]
        \/ rsKeys' = rsKeys
    BY ReturnShape, Zenon
  <2> QED
    BY <1>5, <2>1, <2>2, Zenon DEF RsTypeOK
<1>9. rsGroup' \in [RsGroupIdx -> Nat]
  <2>1. \A x, v : v \in Nat => [rsGroup EXCEPT ![x] = v] \in [RsGroupIdx -> Nat]
    BY Zenon DEF RsTypeOK
  <2>2. \/ rsGroup' = [rsGroup EXCEPT ![rsOp[c].arg] = rsOp[c].key]
        \/ rsGroup' = [rsGroup EXCEPT ![rsOp[c].arg] = RsNone]
        \/ rsGroup' = rsGroup
    BY ReturnShape, Zenon
  <2> QED
    BY <1>5, <2>1, <2>2, Zenon DEF RsTypeOK
<1>10. UNCHANGED <<rsTable, rsList, rsHw, rsVif, rsChip, rsCfg, rsMutex, rsTodo, rsReset, rsFlag,
                   rsOps, rsRestarts, rsUnder>>
  BY ReturnShape, Zenon
<1> QED
  BY <1>2, <1>3, <1>4, <1>7, <1>8, <1>9, <1>10, ZenonT(60) DEF RsTypeOK

LEMMA RebootShape ==
  ASSUME RsReboot
  PROVE  /\ UNCHANGED <<rsTable, rsList, rsHw, rsVif, rsCfg, rsRecord, rsPc, rsOp, rsTodo,
                        rsKnown, rsKeys, rsGroup, rsOps, rsOvertaken, rsUnder>>
         /\ \/ /\ rsRestarts < RsMaxRestarts /\ rsRestarts' = rsRestarts + 1
               /\ rsFlag' = TRUE /\ rsReset' = "enter" /\ UNCHANGED <<rsChip, rsMutex>>
               /\ rsReset = "idle"
            \/ /\ rsReset = "enter" /\ rsReset' = "idle"
               /\ UNCHANGED <<rsChip, rsMutex, rsFlag, rsRestarts>>
            \/ /\ rsReset = "enter" /\ rsMutex = "free" /\ rsMutex' = "reset" /\ rsReset' = "leave"
               /\ rsChip' = [r \in RsRegs |-> IF rsCfg[r] = RsUnset THEN RsBlank ELSE rsCfg[r]]
               /\ UNCHANGED <<rsFlag, rsRestarts>>
            \/ /\ rsReset = "leave" /\ rsMutex' = "free" /\ rsReset' = "clear"
               /\ UNCHANGED <<rsChip, rsFlag, rsRestarts>>
            \/ /\ rsReset = "clear" /\ rsFlag' = FALSE /\ rsReset' = "idle"
               /\ UNCHANGED <<rsChip, rsMutex, rsRestarts>>
<1>1. UNCHANGED <<rsTable, rsList, rsHw, rsVif, rsCfg, rsRecord, rsPc, rsOp, rsTodo,
                  rsKnown, rsKeys, rsGroup, rsOps, rsOvertaken, rsUnder>>
  BY Zenon DEF RsReboot, RsBegin, RsGivesUp, RsRestart, RsResetUnlock, RsResetEnd, RsRestSame,
               rsDriver, rsMac, rsHist
<1> QED
  BY <1>1, ZenonT(60) DEF RsReboot, RsBegin, RsGivesUp, RsRestart, RsResetUnlock, RsResetEnd

LEMMA RebootTypes ==
  ASSUME RsTypeOK, RsReboot
  PROVE  RsTypeOK'
<1>1. rsRestarts' \in 0 .. RsMaxRestarts
  <2>1. rsRestarts' = rsRestarts \/ (rsRestarts < RsMaxRestarts /\ rsRestarts' = rsRestarts + 1)
    BY RebootShape, Zenon
  <2> QED
    BY <2>1, RsAssumption DEF RsTypeOK
<1>2. rsReset' \in {"idle", "enter", "leave", "clear"} /\ rsFlag' \in BOOLEAN
      /\ rsMutex' \in RsCallbacks \cup {"free", "reset"}
  BY RebootShape, Zenon DEF RsTypeOK
<1>3. rsChip' \in [RsRegs -> RsWords]
  <2>1. RsBlank \in RsWords
    BY DEF RsBlank, RsWord, RsWords, RsNone, RsIndexes
  <2>2. \A r \in RsRegs : (IF rsCfg[r] = RsUnset THEN RsBlank ELSE rsCfg[r]) \in RsWords
    BY <2>1, Zenon DEF RsTypeOK
  <2> QED
    BY <2>2, RebootShape, Zenon DEF RsTypeOK
<1>4. UNCHANGED <<rsTable, rsList, rsHw, rsVif, rsCfg, rsRecord, rsPc, rsOp, rsTodo,
                  rsKnown, rsKeys, rsGroup, rsOps, rsOvertaken, rsUnder>>
  BY RebootShape, Zenon
<1> QED
  BY <1>1, <1>2, <1>3, <1>4, ZenonT(60) DEF RsTypeOK

\* A step keeps the types.
LEMMA RsTypeStep ==
  ASSUME RsTypeOK, RsInv, [RsNextStep]_rsVars
  PROVE  RsTypeOK'
<1> USE DEF RsInv
<1>1. CASE UNCHANGED rsVars
  BY <1>1, ZenonT(60) DEF rsVars, rsDriver, rsMac, rsHist, RsTypeOK
<1>2. ASSUME NEW c \in RsCallbacks, RsCall(c) \/ RsWrite(c) \/ RsUnlock(c) \/ RsReturn(c)
      PROVE  RsTypeOK'
  BY <1>2, CallTypes, WriteTypes, UnlockTypes, ReturnTypes, Zenon
<1>3. CASE RsBody
  BY <1>3, StaAddTypes, StaRemoveTypes, SetPairwiseTypes, SetGroupTypes, ClearPairwiseTypes,
     ClearGroupTypes, ConfigureTypes, Zenon DEF RsBody
<1>4. CASE RsReboot
  BY <1>4, RebootTypes, Zenon
<1> QED
  BY <1>1, <1>2, <1>3, <1>4, Zenon DEF RsNextStep
-----------------------------------------------------------------------------
(* The mutex, and what the calls are about                                 *)

\* A body belongs to a callback, and plans its writes.
LEMMA BodyShape ==
  ASSUME RsBody
  PROVE  \E c \in RsCallbacks, w \in RsErrands : \E writes : RsEnter(c, w) /\ RsPlan(c, writes)
<1>1. /\ {"sta", "key", "conf"} \subseteq RsCallbacks
      /\ {"add", "remove", "pair", "group", "unpair", "ungroup", "conf"} \subseteq RsErrands
  BY DEF RsCallbacks, RsErrands
<1>2. CASE RsStaAdd
  BY <1>1, <1>2, Zenon DEF RsStaAdd
<1>3. CASE RsStaRemove
  BY <1>1, <1>3, Zenon DEF RsStaRemove
<1>4. CASE RsSetPairwise
  BY <1>1, <1>4, Zenon DEF RsSetPairwise
<1>5. CASE RsSetGroup
  BY <1>1, <1>5, Zenon DEF RsSetGroup
<1>6. CASE RsClearPairwise
  BY <1>1, <1>6, Zenon DEF RsClearPairwise
<1>7. CASE RsClearGroup
  BY <1>1, <1>7, Zenon DEF RsClearGroup
<1>8. CASE RsConfigure
  BY <1>1, <1>8, Zenon DEF RsConfigure
<1> QED
  BY <1>2, <1>3, <1>4, <1>5, <1>6, <1>7, <1>8, Zenon DEF RsBody

\* The phases and errands of the calls move one call at a time.
LEMMA Phases ==
  ASSUME RsTypeOK, RsLocks, RsNextStep
  PROVE  \/ UNCHANGED <<rsPc, rsOp>>
         \/ \E c \in RsCallbacks :
              \/ \E op \in RsRequests(c) :
                   /\ rsPc[c] = "idle" /\ rsOp' = [rsOp EXCEPT ![c] = op]
                   /\ rsPc' = [rsPc EXCEPT ![c] = IF op.what = "ignored" THEN "leave" ELSE "enter"]
              \/ /\ rsPc[c] = "enter" /\ rsPc' = [rsPc EXCEPT ![c] = "write"] /\ UNCHANGED rsOp
              \/ /\ rsPc[c] = "write" /\ rsPc' = [rsPc EXCEPT ![c] = "leave"] /\ UNCHANGED rsOp
              \/ /\ rsPc[c] = "leave" /\ rsPc' = [rsPc EXCEPT ![c] = "idle"]
                 /\ rsOp' = [rsOp EXCEPT ![c] = RsNoOp]
<1>1. ASSUME NEW c \in RsCallbacks, RsCall(c)
      PROVE  \E op \in RsRequests(c) :
               /\ rsPc[c] = "idle" /\ rsOp' = [rsOp EXCEPT ![c] = op]
               /\ rsPc' = [rsPc EXCEPT ![c] = IF op.what = "ignored" THEN "leave" ELSE "enter"]
  BY <1>1, CallShape, Zenon
<1>2. ASSUME NEW c \in RsCallbacks, RsWrite(c) PROVE UNCHANGED <<rsPc, rsOp>>
  BY <1>2, Zenon DEF RsWrite
<1>3. ASSUME NEW c \in RsCallbacks, RsUnlock(c)
      PROVE  rsPc[c] = "write" /\ rsPc' = [rsPc EXCEPT ![c] = "leave"] /\ UNCHANGED rsOp
  BY <1>3, Zenon DEF RsUnlock
<1>4. ASSUME NEW c \in RsCallbacks, RsReturn(c)
      PROVE  /\ rsPc[c] = "leave" /\ rsPc' = [rsPc EXCEPT ![c] = "idle"]
             /\ rsOp' = [rsOp EXCEPT ![c] = RsNoOp]
  BY <1>4, ReturnShape, Zenon
<1>5. ASSUME RsBody
      PROVE  \E c \in RsCallbacks : /\ rsPc[c] = "enter" /\ rsPc' = [rsPc EXCEPT ![c] = "write"]
                                    /\ UNCHANGED rsOp
  BY <1>5, BodyShape, EnterShape, Zenon
<1>6. ASSUME RsReboot PROVE UNCHANGED <<rsPc, rsOp>>
  BY <1>6, RebootShape, Zenon
<1> QED
  BY <1>1, <1>2, <1>3, <1>4, <1>5, <1>6, Zenon DEF RsNextStep

\* A step of one call leaves the others' phases and errands.
LEMMA OtherPhases ==
  ASSUME RsTypeOK, NEW c \in RsCallbacks, NEW p, NEW e,
         rsPc' = [rsPc EXCEPT ![c] = p], rsOp' = [rsOp EXCEPT ![c] = e]
  PROVE  /\ rsPc'[c] = p /\ rsOp'[c] = e
         /\ \A d \in RsCallbacks : d # c => rsPc'[d] = rsPc[d] /\ rsOp'[d] = rsOp[d]
BY Zenon DEF RsTypeOK

LEMMA RsCalledStep ==
  ASSUME RsTypeOK, RsLocks, RsCalled, RsNextStep
  PROVE  RsCalled'
<1>1. CASE UNCHANGED <<rsPc, rsOp>>
  BY <1>1, Zenon DEF RsCalled
<1>2. ASSUME NEW c \in RsCallbacks, NEW op \in RsRequests(c),
             rsPc[c] = "idle", rsOp' = [rsOp EXCEPT ![c] = op],
             rsPc' = [rsPc EXCEPT ![c] = IF op.what = "ignored" THEN "leave" ELSE "enter"]
      PROVE  RsCalled'
  <2>1. op.what \in RsKinds(c) /\ rsPc'[c] # "idle" /\ rsOp'[c] = op
    <3>1. rsPc'[c] = (IF op.what = "ignored" THEN "leave" ELSE "enter") /\ rsOp'[c] = op
      BY <1>2, OtherPhases, Zenon
    <3>2. op.what \in RsKinds(c)
      BY RequestShape, Zenon
    <3> QED
      BY <3>1, <3>2
  <2>2. \A d \in RsCallbacks : d # c => rsPc'[d] = rsPc[d] /\ rsOp'[d] = rsOp[d]
    BY <1>2, OtherPhases, Zenon
  <2> QED
    BY <2>1, <2>2, Zenon DEF RsCalled
<1>3. ASSUME NEW c \in RsCallbacks, NEW p \in {"write", "leave"}, rsPc[c] \in {"enter", "write"},
             rsPc' = [rsPc EXCEPT ![c] = p], UNCHANGED rsOp
      PROVE  RsCalled'
  <2>1. rsPc'[c] = p /\ \A d \in RsCallbacks : d # c => rsPc'[d] = rsPc[d]
    BY <1>3, Zenon DEF RsTypeOK
  <2>2. rsPc'[c] # "idle" /\ rsPc[c] # "idle"
    BY <1>3, <2>1
  <2> QED
    BY <1>3, <2>1, <2>2, Zenon DEF RsCalled
<1>4. ASSUME NEW c \in RsCallbacks, rsPc' = [rsPc EXCEPT ![c] = "idle"],
             rsOp' = [rsOp EXCEPT ![c] = RsNoOp]
      PROVE  RsCalled'
  <2>1. rsPc'[c] = "idle" /\ rsOp'[c] = RsNoOp
    BY <1>4, OtherPhases, Zenon
  <2>2. \A d \in RsCallbacks : d # c => rsPc'[d] = rsPc[d] /\ rsOp'[d] = rsOp[d]
    BY <1>4, OtherPhases, Zenon
  <2>3. RsNoOp.what = "none"
    BY DEF RsNoOp
  <2> QED
    BY <2>1, <2>2, <2>3, Zenon DEF RsCalled
<1> QED
  BY <1>1, <1>2, <1>3, <1>4, Phases, ZenonT(60)

LEMMA RsLocksStep ==
  ASSUME RsTypeOK, RsLocks, RsNextStep
  PROVE  RsLocks'
<1>0. \A c \in RsCallbacks : c # "free" /\ c # "reset"
  BY DEF RsCallbacks
<1>1. ASSUME NEW c \in RsCallbacks, RsCall(c) PROVE RsLocks'
  <2>1. PICK op \in RsRequests(c) :
          /\ rsPc[c] = "idle"
          /\ rsPc' = [rsPc EXCEPT ![c] = IF op.what = "ignored" THEN "leave" ELSE "enter"]
          /\ UNCHANGED <<rsMutex, rsReset, rsTodo, rsRestarts>>
    BY <1>1, CallShape, Zenon
  <2>2. rsPc'[c] # "write" /\ rsPc[c] # "write" /\ \A d \in RsCallbacks : d # c => rsPc'[d] = rsPc[d]
    BY <2>1 DEF RsTypeOK
  <2> QED
    BY <2>1, <2>2, Zenon DEF RsLocks
<1>2. ASSUME NEW c \in RsCallbacks, RsWrite(c) PROVE RsLocks'
  <2>1. /\ rsPc[c] = "write" /\ \E s : rsTodo' = [rsTodo EXCEPT ![c] = s]
        /\ UNCHANGED <<rsMutex, rsReset, rsPc, rsRestarts>>
    BY <1>2, WriteShape, Zenon
  <2>2. \A d \in RsCallbacks : d # c => rsTodo'[d] = rsTodo[d]
    BY <2>1, Zenon DEF RsTypeOK
  <2> QED
    BY <2>1, <2>2, Zenon DEF RsLocks
<1>3. ASSUME NEW c \in RsCallbacks, RsUnlock(c) PROVE RsLocks'
  <2>1. /\ rsPc[c] = "write" /\ rsTodo[c] = <<>> /\ rsMutex' = "free"
        /\ rsPc' = [rsPc EXCEPT ![c] = "leave"] /\ UNCHANGED <<rsReset, rsTodo, rsRestarts>>
    BY <1>3, Zenon DEF RsUnlock
  <2>2. rsPc'[c] # "write" /\ \A d \in RsCallbacks : d # c => rsPc'[d] = rsPc[d]
    BY <2>1 DEF RsTypeOK
  <2>3. rsMutex = c /\ rsMutex' # "reset" /\ rsReset # "leave"
    BY <1>0, <2>1 DEF RsLocks
  <2>4. \A d \in RsCallbacks : d # c => rsPc[d] # "write" /\ rsMutex' # d
    BY <1>0, <2>1, <2>3, Zenon DEF RsLocks
  <2> QED
    BY <1>0, <2>1, <2>2, <2>3, <2>4, Zenon DEF RsLocks
<1>4. ASSUME NEW c \in RsCallbacks, RsReturn(c) PROVE RsLocks'
  <2>1. /\ rsPc[c] = "leave" /\ rsPc' = [rsPc EXCEPT ![c] = "idle"]
        /\ UNCHANGED <<rsMutex, rsReset, rsTodo, rsRestarts>>
    BY <1>4, ReturnShape, Zenon
  <2>2. rsPc'[c] # "write" /\ rsPc[c] # "write" /\ \A d \in RsCallbacks : d # c => rsPc'[d] = rsPc[d]
    BY <2>1 DEF RsTypeOK
  <2> QED
    BY <2>1, <2>2, Zenon DEF RsLocks
<1>5. ASSUME RsBody PROVE RsLocks'
  <2>1. PICK c \in RsCallbacks, w \in RsErrands : \E s : RsEnter(c, w) /\ rsTodo' = [rsTodo EXCEPT ![c] = s]
    BY <1>5, BodyShape, Zenon DEF RsPlan
  <2>2. /\ rsMutex' = c /\ rsPc' = [rsPc EXCEPT ![c] = "write"]
        /\ \A d \in RsCallbacks : rsPc[d] # "write" /\ rsTodo[d] = <<>>
        /\ UNCHANGED <<rsReset, rsRestarts>> /\ rsMutex = "free"
    BY <2>1, EnterShape, Zenon DEF RsEnter
  <2>3. rsPc'[c] = "write" /\ \A d \in RsCallbacks : d # c => rsPc'[d] = rsPc[d] /\ rsTodo'[d] = rsTodo[d]
    BY <2>1, <2>2, Zenon DEF RsTypeOK
  <2>4. rsMutex # "reset" /\ rsMutex' # "reset"
    BY <1>0, <2>2
  <2> QED
    BY <2>2, <2>3, <2>4, Zenon DEF RsLocks
<1>6. ASSUME RsReboot PROVE RsLocks'
  <2>1. UNCHANGED <<rsPc, rsTodo>>
    BY <1>6, RebootShape, Zenon
  <2>2. \/ /\ rsReset # "leave" /\ rsReset' # "leave" /\ UNCHANGED rsMutex
        \/ /\ rsMutex = "free" /\ rsMutex' = "reset" /\ rsReset' = "leave"
        \/ /\ rsReset = "leave" /\ rsMutex' = "free" /\ rsReset' = "clear"
    BY <1>6, RebootShape
  <2>3. rsReset' # "idle" => rsRestarts' > 0
    <3>1. \/ rsRestarts' = rsRestarts + 1 \/ rsReset' = "idle"
          \/ rsReset # "idle" /\ rsRestarts' = rsRestarts
      BY <1>6, RebootShape
    <3>2. rsRestarts \in Nat
      BY RsAssumption DEF RsTypeOK
    <3> QED
      BY <3>1, <3>2 DEF RsLocks
  <2>4. \A c \in RsCallbacks : rsPc'[c] = "write" <=> rsMutex' = c
    BY <1>0, <2>1, <2>2 DEF RsLocks
  <2>5. rsReset' = "leave" <=> rsMutex' = "reset"
    BY <2>2 DEF RsLocks
  <2> QED
    BY <2>1, <2>3, <2>4, <2>5, Zenon DEF RsLocks
<1> QED
  BY <1>1, <1>2, <1>3, <1>4, <1>5, <1>6, Zenon DEF RsNextStep

LEMMA RsAskedStep ==
  ASSUME RsTypeOK, RsLocks, RsCalled, RsAsked, RsNextStep
  PROVE  RsAsked'
<1>0. "sta" \in RsCallbacks /\ "key" \in RsCallbacks
  BY DEF RsCallbacks
<1>1. ASSUME \A d \in RsCallbacks : \A w : RsDoing(d, w)' <=> RsDoing(d, w),
             UNCHANGED <<rsOp, rsKnown, rsKeys>>
      PROVE  RsAsked'
  <2>1. RsDoingKey' <=> RsDoingKey
    BY <1>0, <1>1, Zenon DEF RsDoingKey
  <2> QED
    BY <1>0, <1>1, <2>1, Zenon DEF RsAsked
<1>2. ASSUME NEW c \in RsCallbacks, NEW p, p # "idle", rsPc[c] # "idle",
             rsPc' = [rsPc EXCEPT ![c] = p], UNCHANGED <<rsOp, rsKnown, rsKeys>>
      PROVE  RsAsked'
  <2>1. \A d \in RsCallbacks : rsPc'[d] = IF d = c THEN p ELSE rsPc[d]
    BY <1>2, Zenon DEF RsTypeOK
  <2>2. \A d \in RsCallbacks : \A w : RsDoing(d, w)' <=> RsDoing(d, w)
    BY <1>2, <2>1, Zenon DEF RsDoing
  <2> QED
    BY <1>1, <1>2, <2>2, Zenon
<1>3. ASSUME NEW c \in RsCallbacks, RsCall(c) PROVE RsAsked'
  <2>1. PICK op \in RsRequests(c) :
          /\ rsPc[c] = "idle" /\ rsOp' = [rsOp EXCEPT ![c] = op]
          /\ rsPc' = [rsPc EXCEPT ![c] = IF op.what = "ignored" THEN "leave" ELSE "enter"]
          /\ UNCHANGED <<rsKnown, rsKeys>>
    BY <1>3, CallShape, Zenon
  <2>2. /\ op.what \in RsKinds(c)
        /\ op.what = "add" => op.arg \in RsStations \ rsKnown
        /\ op.what = "remove" => op.arg \in rsKnown /\ rsKeys[op.arg] = RsNone /\ ~RsBusy(op.arg)
        /\ op.what = "pair" => op.arg \in rsKnown /\ ~RsBusy(op.arg)
        /\ op.what = "unpair" => op.arg \in rsKnown /\ rsKeys[op.arg] # RsNone
        /\ op.what \in {"group", "ungroup"} => op.arg \in RsGroupIdx
    BY RequestShape, Zenon
  <2>3. rsOp'[c] = op /\ \A d \in RsCallbacks : d # c => rsPc'[d] = rsPc[d] /\ rsOp'[d] = rsOp[d]
    BY <2>1, OtherPhases, Zenon
  <2>4. rsKnown' = rsKnown /\ rsKeys' = rsKeys
    BY <2>1, Zenon
  <2>5. CASE c = "sta"
    <3>1. rsPc'["key"] = rsPc["key"] /\ rsOp'["key"] = rsOp["key"] /\ rsOp'["sta"] = op
          /\ op.what \in {"add", "remove"}
      BY <1>0, <2>2, <2>3, <2>5 DEF RsKinds
    <3>2. RsDoingKey' <=> RsDoingKey
      BY <3>1, Zenon DEF RsDoingKey, RsDoing
    <3>3. op.what = "remove" => (RsDoingKey => rsOp["key"].arg # op.arg)
      BY <2>2 DEF RsBusy, RsDoingKey, RsDoing
    <3>4. RsDoing("sta", "add")' => op.what = "add"
      BY <3>1, Zenon DEF RsDoing
    <3>5. RsDoing("sta", "remove")' => op.what = "remove"
      BY <3>1, Zenon DEF RsDoing
    <3>6. (RsDoing("key", "group") \/ RsDoing("key", "ungroup"))'
            => RsDoing("key", "group") \/ RsDoing("key", "ungroup")
      BY <3>1, Zenon DEF RsDoing
    <3> QED
      BY <2>2, <2>4, <3>1, <3>2, <3>3, <3>4, <3>5, <3>6, Zenon DEF RsAsked
  <2>6. CASE c = "key"
    <3>1. rsPc'["sta"] = rsPc["sta"] /\ rsOp'["sta"] = rsOp["sta"] /\ rsOp'["key"] = op
      BY <1>0, <2>3, <2>6
    <3>2. \A w : RsDoing("sta", w)' <=> RsDoing("sta", w)
      BY <3>1, Zenon DEF RsDoing
    <3>3. RsDoingKey' => op.what \in {"pair", "unpair"}
      BY <3>1 DEF RsDoingKey, RsDoing
    <3>4. RsDoing("sta", "remove") /\ RsDoingKey' => op.arg # rsOp["sta"].arg
      <4>1. CASE op.what = "pair"
        BY <2>2, <4>1 DEF RsBusy, RsDoing
      <4>2. CASE op.what = "unpair"
        BY <2>2, <4>2, Zenon DEF RsAsked
      <4> QED
        BY <3>3, <4>1, <4>2
    <3>5. RsDoingKey' => op.arg \in rsKnown
      BY <2>2, <3>3
    <3>6. (RsDoing("key", "group") \/ RsDoing("key", "ungroup"))' => op.arg \in RsGroupIdx
      BY <2>2, <3>1 DEF RsDoing
    <3> QED
      BY <2>4, <3>1, <3>2, <3>4, <3>5, <3>6, Zenon DEF RsAsked
  <2>7. CASE c = "conf"
    <3>1. /\ rsPc'["key"] = rsPc["key"] /\ rsOp'["key"] = rsOp["key"]
          /\ rsPc'["sta"] = rsPc["sta"] /\ rsOp'["sta"] = rsOp["sta"]
      BY <1>0, <2>3, <2>7
    <3>2. \A w : (RsDoing("sta", w)' <=> RsDoing("sta", w)) /\ (RsDoing("key", w)' <=> RsDoing("key", w))
      BY <3>1, Zenon DEF RsDoing
    <3>3. RsDoingKey' <=> RsDoingKey
      BY <3>2, Zenon DEF RsDoingKey
    <3> QED
      BY <2>4, <3>1, <3>2, <3>3, Zenon DEF RsAsked
  <2> QED
    BY <2>5, <2>6, <2>7 DEF RsCallbacks
<1>4. ASSUME NEW c \in RsCallbacks, RsReturn(c) PROVE RsAsked'
  <2>1. /\ rsPc[c] # "idle" /\ rsPc'[c] = "idle"
        /\ \A d \in RsCallbacks : d # c => rsPc'[d] = rsPc[d] /\ rsOp'[d] = rsOp[d]
    <3>1. /\ rsPc[c] = "leave" /\ rsPc' = [rsPc EXCEPT ![c] = "idle"]
          /\ rsOp' = [rsOp EXCEPT ![c] = RsNoOp]
      BY <1>4, ReturnShape, Zenon
    <3> QED
      BY <3>1, OtherPhases
  <2>2. rsOp[c].what \in RsKinds(c)
    BY <2>1, Zenon DEF RsCalled
  <2>3. CASE c = "sta"
    <3>1. rsPc'["key"] = rsPc["key"] /\ rsOp'["key"] = rsOp["key"]
          /\ rsOp["sta"].what \in {"add", "remove"}
      BY <1>0, <2>1, <2>2, <2>3 DEF RsKinds
    <3>2. RsDoingKey' <=> RsDoingKey
      BY <3>1, Zenon DEF RsDoingKey, RsDoing
    <3>3. ~RsDoing("sta", "add")' /\ ~RsDoing("sta", "remove")'
      BY <2>1, <2>3, Zenon DEF RsDoing
    <3>4. RsDoingKey => rsOp["key"].arg \in rsKnown'
      <4>1. CASE rsOp["sta"].what = "remove"
        <5>1. rsKnown' = rsKnown \ {rsOp["sta"].arg}
          BY <1>4, <2>3, <4>1, ReturnShape
        <5> QED
          BY <2>1, <2>3, <4>1, <5>1, Zenon DEF RsAsked, RsDoing
      <4>2. CASE rsOp["sta"].what = "add"
        <5>1. rsKnown \subseteq rsKnown'
          BY <1>4, <2>3, <4>2, ReturnShape
        <5> QED
          BY <5>1, Zenon DEF RsAsked
      <4> QED
        BY <3>1, <4>1, <4>2
    <3>5. (RsDoing("key", "group") \/ RsDoing("key", "ungroup"))'
            => RsDoing("key", "group") \/ RsDoing("key", "ungroup")
      BY <3>1, Zenon DEF RsDoing
    <3> QED
      BY <3>1, <3>2, <3>3, <3>4, <3>5, Zenon DEF RsAsked
  <2>4. CASE c = "key"
    <3>1. rsPc'["sta"] = rsPc["sta"] /\ rsOp'["sta"] = rsOp["sta"]
          /\ rsOp["key"].what \in {"pair", "unpair", "group", "ungroup"}
      BY <1>0, <2>1, <2>2, <2>4 DEF RsKinds
    <3>2. \A w : RsDoing("sta", w)' <=> RsDoing("sta", w)
      BY <3>1, Zenon DEF RsDoing
    <3>3. ~RsDoingKey' /\ ~(RsDoing("key", "group") \/ RsDoing("key", "ungroup"))'
      BY <2>1, <2>4, Zenon DEF RsDoingKey, RsDoing
    <3>4. rsKnown' = rsKnown
      BY <1>4, <2>4, <3>1, ReturnShape
    <3>5. RsDoing("sta", "remove") => rsKeys'[rsOp["sta"].arg] = RsNone
      <4>1. rsOp["key"].what \in {"pair", "unpair"} => RsDoingKey
        BY <2>1, <2>4 DEF RsDoingKey, RsDoing
      <4>2. \/ rsKeys' = rsKeys
            \/ /\ rsOp["key"].what \in {"pair", "unpair"}
               /\ \E v : rsKeys' = [rsKeys EXCEPT ![rsOp["key"].arg] = v]
        BY <1>4, <2>4, ReturnShape
      <4>3. rsKnown \subseteq RsStations /\ DOMAIN rsKeys = RsStations
        BY DEF RsTypeOK
      <4> QED
        BY <4>1, <4>2, <4>3, Zenon DEF RsAsked
    <3> QED
      BY <3>1, <3>2, <3>3, <3>4, <3>5, Zenon DEF RsAsked
  <2>5. CASE c = "conf"
    <3>1. /\ rsPc'["key"] = rsPc["key"] /\ rsOp'["key"] = rsOp["key"]
          /\ rsPc'["sta"] = rsPc["sta"] /\ rsOp'["sta"] = rsOp["sta"]
          /\ rsOp["conf"].what \in {"conf", "ignored"}
      BY <1>0, <2>1, <2>2, <2>5 DEF RsKinds
    <3>2. \A w : (RsDoing("sta", w)' <=> RsDoing("sta", w)) /\ (RsDoing("key", w)' <=> RsDoing("key", w))
      BY <3>1, Zenon DEF RsDoing
    <3>3. RsDoingKey' <=> RsDoingKey
      BY <3>2, Zenon DEF RsDoingKey
    <3>4. rsKnown' = rsKnown /\ rsKeys' = rsKeys
      BY <1>4, <2>5, <3>1, ReturnShape
    <3> QED
      BY <3>1, <3>2, <3>3, <3>4, Zenon DEF RsAsked
  <2> QED
    BY <2>3, <2>4, <2>5 DEF RsCallbacks
<1>5. ASSUME NEW c \in RsCallbacks, RsWrite(c) PROVE RsAsked'
  <2>1. UNCHANGED <<rsPc, rsOp, rsKnown, rsKeys>>
    BY <1>5, Zenon DEF RsWrite, rsMac
  <2> QED
    BY <1>1, <2>1, Zenon DEF RsDoing
<1>6. ASSUME NEW c \in RsCallbacks, RsUnlock(c) PROVE RsAsked'
  <2>1. /\ rsPc[c] = "write" /\ rsPc' = [rsPc EXCEPT ![c] = "leave"]
        /\ UNCHANGED <<rsOp, rsKnown, rsKeys>>
    BY <1>6, Zenon DEF RsUnlock, rsMac
  <2>2. rsPc[c] # "idle" /\ "leave" # "idle"
    BY <2>1
  <2> QED
    BY <1>2, <2>1, <2>2, Zenon
<1>7. ASSUME RsBody PROVE RsAsked'
  <2>1. PICK c \in RsCallbacks, w \in RsErrands : RsEnter(c, w)
    BY <1>7, BodyShape, Zenon
  <2>2. /\ rsPc[c] = "enter" /\ rsPc' = [rsPc EXCEPT ![c] = "write"]
        /\ UNCHANGED <<rsOp, rsKnown, rsKeys>>
    BY <2>1, EnterShape, Zenon
  <2>3. rsPc[c] # "idle" /\ "write" # "idle"
    BY <2>2
  <2> QED
    BY <1>2, <2>2, <2>3, Zenon
<1>8. ASSUME RsReboot PROVE RsAsked'
  <2>1. UNCHANGED <<rsPc, rsOp, rsKnown, rsKeys>>
    BY <1>8, RebootShape, Zenon
  <2> QED
    BY <1>1, <2>1, Zenon DEF RsDoing
<1> QED
  BY <1>3, <1>4, <1>5, <1>6, <1>7, <1>8, Zenon DEF RsNextStep
-----------------------------------------------------------------------------
(* The entries, the list, and what mac80211 knows                          *)

\* Who has an entry when one is filled or emptied
LEMMA SeatTaken ==
  ASSUME RsTypeOK, NEW s \in RsSlotSet, NEW t \in RsStations, rsTable[s] = RsNone,
         rsTable' = [rsTable EXCEPT ![s] = t]
  PROVE  /\ \A u \in RsStations : RsSeated(u)' <=> RsSeated(u) \/ u = t
         /\ ~RsSeated(t) /\ RsOneEach => RsOneEach'
<1>1. RsNone \notin RsStations
  BY RsAssumption DEF RsNone
<1>2. rsTable'[s] = t /\ \A x \in RsSlotSet : x # s => rsTable'[x] = rsTable[x]
  BY Zenon DEF RsTypeOK
<1>3. \A u \in RsStations : RsSeated(u)' <=> RsSeated(u) \/ u = t
  BY <1>1, <1>2, Zenon DEF RsSeated
<1>4. ASSUME ~RsSeated(t), RsOneEach PROVE RsOneEach'
  BY <1>2, <1>4, Zenon DEF RsOneEach, RsSeated
<1> QED
  BY <1>3, <1>4, Zenon

LEMMA SeatGiven ==
  ASSUME RsTypeOK, RsOneEach, NEW s \in RsSlotSet, NEW t \in RsStations, rsTable[s] = t,
         rsTable' = [rsTable EXCEPT ![s] = RsNone]
  PROVE  /\ \A u \in RsStations : RsSeated(u)' <=> RsSeated(u) /\ u # t
         /\ RsOneEach'
<1>1. RsNone \notin RsStations
  BY RsAssumption DEF RsNone
<1>2. rsTable'[s] = RsNone /\ \A x \in RsSlotSet : x # s => rsTable'[x] = rsTable[x]
  BY Zenon DEF RsTypeOK
<1>3. \A u \in RsStations : RsSeated(u)' <=> RsSeated(u) /\ u # t
  BY <1>1, <1>2, Zenon DEF RsSeated, RsOneEach
<1>4. RsOneEach'
  BY <1>2, Zenon DEF RsOneEach
<1> QED
  BY <1>3, <1>4, Zenon

\* Only ssv6200_sta_add and _remove change the entries and the list.
LEMMA SameTable ==
  ASSUME RsNextStep, ~RsStaAdd, ~RsStaRemove
  PROVE  UNCHANGED <<rsTable, rsList>>
<1>1. ASSUME NEW c \in RsCallbacks, RsCall(c) \/ RsWrite(c) \/ RsUnlock(c) \/ RsReturn(c)
      PROVE  UNCHANGED <<rsTable, rsList>>
  BY <1>1, Zenon DEF RsCall, RsWrite, RsUnlock, RsReturn, rsDriver
<1>2. ASSUME RsBody PROVE UNCHANGED <<rsTable, rsList>>
  BY <1>2, ZenonT(30) DEF RsBody, RsSetPairwise, RsSetGroup, RsClearPairwise, RsClearGroup, RsConfigure,
     rsDriver
<1>3. ASSUME RsReboot PROVE UNCHANGED <<rsTable, rsList>>
  BY <1>3, RebootShape, Zenon
<1> QED
  BY <1>1, <1>2, <1>3, Zenon DEF RsNextStep

\* What ssv6200_sta_add and _remove do to them
LEMMA AddSeats ==
  ASSUME RsTypeOK, RsLocks, RsCalled, RsAsked, RsOneEach, RsListed, RsPresent, RsStaAdd
  PROVE  /\ RsOneEach' /\ RsListed'
         /\ rsOp["sta"].what = "add"
         /\ \A u \in RsStations : u # rsOp["sta"].arg => (RsSeated(u)' <=> RsSeated(u))
<1> DEFINE t == rsOp["sta"].arg
<1>1. rsPc["sta"] = "enter" /\ rsOp["sta"].what = "add" /\ t \in RsStations \ rsKnown
  BY StaAddShape, Zenon DEF RsEnter
<1>2. ~RsSeated(t)
  <2>1. rsPc["sta"] \notin {"write", "leave"}
    BY <1>1
  <2> QED
    BY <1>1, <2>1, Zenon DEF RsPresent
<1>3. CASE UNCHANGED <<rsTable, rsList>>
  BY <1>1, <1>3, Zenon DEF RsOneEach, RsListed, RsSeated
<1>4. CASE /\ RsFree # {}
           /\ rsTable' = [rsTable EXCEPT ![RsFirstFree] = t]
           /\ rsList' = Append(rsList, t)
  <2>1. RsFirstFree \in RsSlotSet /\ rsTable[RsFirstFree] = RsNone
    BY <1>4, FirstFree, Zenon
  <2> HIDE DEF t
  <2>2. /\ \A u \in RsStations : RsSeated(u)' <=> RsSeated(u) \/ u = t
        /\ RsOneEach'
    BY <1>1, <1>2, <1>4, <2>1, SeatTaken, Zenon
  <2>3. ToSet(rsList') = ToSet(rsList) \cup {t}
    <3>1. rsList \in Seq(RsStations) /\ t \in RsStations
      BY <1>1, Zenon DEF RsTypeOK
    <3> QED
      BY <1>4, <3>1, AppendMembers, Zenon
  <2>4. RsListed'
    BY <2>2, <2>3, Zenon DEF RsListed
  <2> QED
    BY <1>1, <2>2, <2>4, Zenon DEF t
<1> QED
  BY <1>3, <1>4, StaAddShape, Zenon

LEMMA RemoveSeats ==
  ASSUME RsTypeOK, RsLocks, RsCalled, RsAsked, RsOneEach, RsListed, RsPresent, RsStaRemove
  PROVE  /\ RsOneEach' /\ RsListed'
         /\ rsOp["sta"].what = "remove" /\ ~RsSeated(rsOp["sta"].arg)'
         /\ \A u \in RsStations : u # rsOp["sta"].arg => (RsSeated(u)' <=> RsSeated(u))
<1>1. PICK s \in RsSlotSet, t \in RsStations :
        /\ t = rsOp["sta"].arg /\ rsTable[s] = t
        /\ RsEnter("sta", "remove")
        /\ rsTable' = [rsTable EXCEPT ![s] = RsNone]
        /\ rsList' = Without(rsList, {t})
  BY StaRemoveShape, Zenon
<1>2. /\ \A u \in RsStations : RsSeated(u)' <=> RsSeated(u) /\ u # t
      /\ RsOneEach'
  BY <1>1, SeatGiven, Zenon
<1>3. ToSet(rsList') = ToSet(rsList) \ {t}
  BY <1>1, WithoutExactly, Zenon DEF RsTypeOK
<1>4. RsListed'
  BY <1>2, <1>3, Zenon DEF RsListed
<1>5. rsOp["sta"].what = "remove" /\ rsOp["sta"].arg = t
  BY <1>1, Zenon DEF RsEnter
<1>6. ~RsSeated(rsOp["sta"].arg)'
  <2>1. RsSeated(t)' <=> RsSeated(rsOp["sta"].arg)'
    <3>1. rsOp' = rsOp
      BY <1>1, Zenon DEF RsEnter
    <3> QED
      BY <1>5, <3>1, Zenon DEF RsSeated
  <2> QED
    BY <1>2, <2>1, Zenon
<1> QED
  BY <1>2, <1>4, <1>5, <1>6, Zenon

LEMMA RsSeatsStep ==
  ASSUME RsTypeOK, RsLocks, RsCalled, RsAsked, RsOneEach, RsListed, RsPresent, RsNextStep
  PROVE  RsOneEach' /\ RsListed'
<1>1. CASE UNCHANGED <<rsTable, rsList>>
  BY <1>1, Zenon DEF RsOneEach, RsListed, RsSeated
<1> QED
  BY <1>1, AddSeats, RemoveSeats, SameTable, Zenon

LEMMA RsPresentStep ==
  ASSUME RsTypeOK, RsLocks, RsCalled, RsAsked, RsOneEach, RsListed, RsPresent, RsNextStep
  PROVE  RsPresent'
<1>0. "sta" \in RsCallbacks /\ "key" \in RsCallbacks
  BY DEF RsCallbacks
<1>1. CASE RsStaAdd \/ RsStaRemove
  <2>1. RsEnter("sta", "add") \/ RsEnter("sta", "remove")
    BY <1>1, Zenon DEF RsStaAdd, RsStaRemove
  <2>2. /\ rsPc["sta"] = "enter" /\ rsPc' = [rsPc EXCEPT !["sta"] = "write"]
        /\ UNCHANGED <<rsOp, rsKnown>>
    BY <1>0, <2>1, EnterShape, Zenon
  <2>3. rsPc'["sta"] = "write" /\ rsPc["sta"] \notin {"write", "leave"}
    BY <1>0, <2>2 DEF RsTypeOK
  <2>4. \A u \in RsStations : u # rsOp["sta"].arg => (RsSeated(u)' <=> RsSeated(u))
    BY <1>1, AddSeats, RemoveSeats, Zenon
  <2>5. rsOp["sta"].what = "remove" => ~RsSeated(rsOp["sta"].arg)'
    <3>1. RsStaAdd => rsOp["sta"].what = "add"
      BY AddSeats, Zenon
    <3>2. RsStaRemove => ~RsSeated(rsOp["sta"].arg)'
      BY RemoveSeats, Zenon
    <3> QED
      BY <1>1, <3>1, <3>2
  <2>6. rsOp' = rsOp /\ rsKnown' = rsKnown
    BY <2>2, Zenon
  <2>7. \A u \in RsStations : u # rsOp["sta"].arg => (RsSeated(u) <=> u \in rsKnown)
    BY <2>3, Zenon DEF RsPresent
  <2>8. \A u : u = rsOp["sta"].arg => (RsSeated(u)' <=> RsSeated(rsOp["sta"].arg)')
    BY <2>6, Zenon DEF RsSeated
  <2>9. rsOp'["sta"].what = "remove" => ~RsSeated(rsOp["sta"].arg)'
    BY <2>5, <2>6
  <2> QED
    BY <2>3, <2>4, <2>6, <2>7, <2>8, <2>9, Zenon DEF RsPresent
<1>2. CASE ~RsStaAdd /\ ~RsStaRemove
  <2>1. \A u \in RsStations : RsSeated(u)' <=> RsSeated(u)
    BY <1>2, SameTable, Zenon DEF RsSeated
  <2>2. ASSUME UNCHANGED <<rsOp, rsKnown>>,
               rsPc'["sta"] \in {"write", "leave"} <=> rsPc["sta"] \in {"write", "leave"}
        PROVE  RsPresent'
    BY <2>1, <2>2, Zenon DEF RsPresent
  <2>3. ASSUME NEW c \in RsCallbacks, RsCall(c) PROVE RsPresent'
    <3>1. PICK op \in RsRequests(c) :
            /\ rsPc[c] = "idle" /\ rsOp' = [rsOp EXCEPT ![c] = op]
            /\ rsPc' = [rsPc EXCEPT ![c] = IF op.what = "ignored" THEN "leave" ELSE "enter"]
            /\ UNCHANGED rsKnown
      BY <2>3, CallShape, Zenon
    <3>2. CASE c = "sta"
      <4>1. rsPc'["sta"] = "enter" /\ rsPc["sta"] = "idle"
        <5>1. op.what # "ignored"
          <6>1. op.what \in RsKinds(c)
            BY RequestShape, Zenon
          <6> QED
            BY <3>2, <6>1 DEF RsKinds
        <5> QED
          BY <1>0, <3>1, <3>2, <5>1 DEF RsTypeOK
      <4>2. rsPc'["sta"] \notin {"write", "leave"} /\ rsPc["sta"] \notin {"write", "leave"}
        BY <4>1
      <4> QED
        BY <2>1, <3>1, <4>2, Zenon DEF RsPresent
    <3>3. CASE c # "sta"
      <4>1. rsPc'["sta"] = rsPc["sta"] /\ rsOp'["sta"] = rsOp["sta"]
        BY <1>0, <3>1, <3>3, OtherPhases, Zenon
      <4> QED
        BY <2>1, <3>1, <4>1, Zenon DEF RsPresent
    <3> QED
      BY <3>2, <3>3
  <2>4. ASSUME NEW c \in RsCallbacks, RsWrite(c) PROVE RsPresent'
    <3>1. UNCHANGED <<rsPc, rsOp, rsKnown>>
      BY <2>4, Zenon DEF RsWrite, rsMac
    <3> QED
      BY <2>2, <3>1, Zenon
  <2>5. ASSUME NEW c \in RsCallbacks, RsUnlock(c) PROVE RsPresent'
    <3>1. /\ rsPc[c] = "write" /\ rsPc' = [rsPc EXCEPT ![c] = "leave"]
          /\ UNCHANGED <<rsOp, rsKnown>>
      BY <2>5, Zenon DEF RsUnlock, rsMac
    <3>2. rsPc'["sta"] \in {"write", "leave"} <=> rsPc["sta"] \in {"write", "leave"}
      BY <1>0, <3>1 DEF RsTypeOK
    <3> QED
      BY <2>2, <3>1, <3>2, Zenon
  <2>6. ASSUME NEW c \in RsCallbacks, RsReturn(c) PROVE RsPresent'
    <3>1. /\ rsPc[c] = "leave" /\ rsPc' = [rsPc EXCEPT ![c] = "idle"]
          /\ rsOp' = [rsOp EXCEPT ![c] = RsNoOp]
      BY <2>6, ReturnShape, Zenon
    <3>2. rsOp[c].what \in RsKinds(c)
      <4>1. rsPc[c] # "idle"
        BY <3>1
      <4> QED
        BY <4>1, Zenon DEF RsCalled
    <3>3. CASE c = "sta"
      <4> DEFINE t == rsOp["sta"].arg
      <4>1. /\ rsPc["sta"] \in {"write", "leave"} /\ rsPc'["sta"] \notin {"write", "leave"}
            /\ rsPc["sta"] # "idle" /\ rsOp["sta"].what \in {"add", "remove"}
        BY <1>0, <3>1, <3>2, <3>3 DEF RsTypeOK, RsKinds
      <4>2. CASE rsOp["sta"].what = "add"
        <5>1. t \in RsStations \ rsKnown
          BY <4>1, <4>2, Zenon DEF RsAsked, RsDoing
        <5>2. rsKnown' = IF t \in ToSet(rsList) THEN rsKnown \cup {t} ELSE rsKnown
          BY <2>6, <3>3, <4>2, ReturnShape
        <5>3. \A u \in RsStations : u # t => (RsSeated(u) <=> u \in rsKnown)
          BY <4>1, Zenon DEF RsPresent
        <5> HIDE DEF t
        <5>4. \A u \in RsStations : RsSeated(u) <=> u \in rsKnown'
          BY <5>1, <5>2, <5>3, Zenon DEF RsListed
        <5> QED
          BY <2>1, <4>1, <5>4, Zenon DEF RsPresent
      <4>3. CASE rsOp["sta"].what = "remove"
        <5>1. rsKnown' = rsKnown \ {t}
          BY <2>6, <3>3, <4>3, ReturnShape
        <5>2. \A u \in RsStations : u # t => (RsSeated(u) <=> u \in rsKnown)
          BY <4>1, Zenon DEF RsPresent
        <5>3. t \in RsStations => ~RsSeated(t)
          BY <4>1, <4>3, Zenon DEF RsPresent
        <5> HIDE DEF t
        <5>4. \A u \in RsStations : RsSeated(u) <=> u \in rsKnown'
          BY <5>1, <5>2, <5>3, Zenon
        <5> QED
          BY <2>1, <4>1, <5>4, Zenon DEF RsPresent
      <4> QED
        BY <4>1, <4>2, <4>3
    <3>4. CASE c # "sta"
      <4>1. rsPc'["sta"] = rsPc["sta"] /\ rsOp'["sta"] = rsOp["sta"]
        BY <1>0, <3>1, <3>4, OtherPhases, Zenon
      <4>2. rsOp[c].what # "add" /\ rsOp[c].what # "remove"
        BY <3>2, <3>4 DEF RsKinds, RsCallbacks
      <4>3. rsKnown' = rsKnown
        BY <2>6, <4>2, ReturnShape, Zenon
      <4> QED
        BY <2>1, <4>1, <4>3, Zenon DEF RsPresent
    <3> QED
      BY <3>3, <3>4
  <2>7. ASSUME RsBody PROVE RsPresent'
    <3>1. PICK c \in {"key", "conf"} : \E w : RsEnter(c, w)
      BY <1>2, <2>7, Zenon DEF RsBody, RsSetPairwise, RsSetGroup, RsClearPairwise, RsClearGroup,
         RsConfigure
    <3>2. c # "sta" /\ c \in RsCallbacks
      BY DEF RsCallbacks
    <3>3. /\ rsPc[c] = "enter" /\ rsPc' = [rsPc EXCEPT ![c] = "write"]
          /\ UNCHANGED <<rsOp, rsKnown>>
      BY <3>1, <3>2, EnterShape, Zenon
    <3>4. rsPc'["sta"] = rsPc["sta"]
      BY <1>0, <3>3, <3>2 DEF RsTypeOK
    <3> QED
      BY <2>2, <3>3, <3>4, Zenon
  <2>8. ASSUME RsReboot PROVE RsPresent'
    <3>1. UNCHANGED <<rsPc, rsOp, rsKnown>>
      BY <2>8, RebootShape, Zenon
    <3> QED
      BY <2>2, <3>1, Zenon
  <2> QED
    BY <2>3, <2>4, <2>5, <2>6, <2>7, <2>8, Zenon DEF RsNextStep
<1> QED
  BY <1>1, <1>2, Zenon
-----------------------------------------------------------------------------
(* The writes                                                              *)

\* What is recorded stays what the chip has.
LEMMA RsRecordedStep ==
  ASSUME RsTypeOK, RsLocks, RsRecorded, RsNextStep
  PROVE  RsRecorded'
<1>1. ASSUME NEW c \in RsCallbacks, RsCall(c) PROVE RsRecorded'
  <2>1. rsRecord' = TRUE /\ UNCHANGED <<rsChip, rsCfg, rsOvertaken, rsUnder>>
    BY <1>1, CallShape, Zenon
  <2> QED
    BY <2>1, Zenon DEF RsRecorded
<1>2. ASSUME NEW c \in RsCallbacks, RsWrite(c) PROVE RsRecorded'
  <2>1. PICK t \in RsPuts :
          /\ rsPc[c] = "write"
          /\ rsChip' = [rsChip EXCEPT ![t.reg] = [rsChip[t.reg] EXCEPT ![t.field] = t.val]]
          /\ rsCfg' = IF rsRecord /\ ~rsFlag THEN [rsCfg EXCEPT ![t.reg] = rsChip'[t.reg]] ELSE rsCfg
          /\ rsChip'[t.reg] \in RsWords
          /\ rsUnder' = (rsUnder \/ rsFlag)
          /\ UNCHANGED <<rsPc, rsRecord, rsOvertaken>>
    BY <1>2, WriteShape, Zenon
  <2>2. rsPc[c] # "idle"
    BY <2>1
  <2>3. ASSUME ~rsOvertaken', ~rsUnder', NEW r \in RsRegs
        PROVE  rsChip'[r] = IF rsCfg'[r] = RsUnset THEN RsBlank ELSE rsCfg'[r]
    <3>1. rsRecord /\ ~rsFlag /\ ~rsOvertaken /\ ~rsUnder
      BY <2>1, <2>2, <2>3, Zenon DEF RsRecorded
    <3>2. rsCfg' = [rsCfg EXCEPT ![t.reg] = rsChip'[t.reg]]
      BY <2>1, <3>1, Zenon
    <3>3. CASE r = t.reg
      <4>1. rsCfg'[r] = rsChip'[r]
        BY <3>2, <3>3, Zenon DEF RsTypeOK
      <4>2. RsUnset \notin RsWords
        BY DEF RsUnset, RsWord, RsWords
      <4> QED
        BY <2>1, <3>3, <4>1, <4>2, Zenon
    <3>4. CASE r # t.reg
      <4>1. rsCfg'[r] = rsCfg[r] /\ rsChip'[r] = rsChip[r]
        BY <2>1, <3>2, <3>4, Zenon DEF RsTypeOK
      <4> QED
        BY <3>1, <4>1, Zenon DEF RsRecorded
    <3> QED
      BY <3>3, <3>4, Zenon
  <2>4. ~rsOvertaken' /\ (\E d \in RsCallbacks : rsPc'[d] # "idle") => rsRecord'
    BY <2>1, Zenon DEF RsRecorded
  <2> QED
    BY <2>3, <2>4, Zenon DEF RsRecorded
<1>3. ASSUME NEW c \in RsCallbacks, RsUnlock(c) \/ \E w : RsEnter(c, w) PROVE RsRecorded'
  <2>1. rsPc[c] # "idle" /\ UNCHANGED <<rsChip, rsCfg, rsRecord, rsOvertaken, rsUnder>>
    <3>1. CASE RsUnlock(c)
      BY <3>1 DEF RsUnlock, rsHist
    <3>2. ASSUME NEW w, RsEnter(c, w)
          PROVE  rsPc[c] = "enter" /\ UNCHANGED <<rsChip, rsCfg, rsRecord, rsOvertaken, rsUnder>>
      BY <3>2, EnterShape, Zenon
    <3> QED
      BY <1>3, <3>1, <3>2
  <2> QED
    BY <2>1, Zenon DEF RsRecorded
<1>4. ASSUME NEW c \in RsCallbacks, RsReturn(c) PROVE RsRecorded'
  <2>1. /\ rsOvertaken' = (rsOvertaken \/ \E d \in RsCallbacks \ {c} : rsPc[d] # "idle")
        /\ rsPc' = [rsPc EXCEPT ![c] = "idle"]
        /\ UNCHANGED <<rsChip, rsCfg, rsUnder>>
    BY <1>4, ReturnShape, Zenon
  <2>2. ~rsOvertaken' => ~rsOvertaken /\ \A d \in RsCallbacks : rsPc'[d] = "idle"
    BY <2>1, Zenon DEF RsTypeOK
  <2> QED
    BY <2>1, <2>2, Zenon DEF RsRecorded
<1>5. ASSUME RsReboot PROVE RsRecorded'
  <2>1. UNCHANGED <<rsCfg, rsRecord, rsPc, rsOvertaken, rsUnder>>
    BY <1>5, RebootShape, Zenon
  <2>2. \/ rsChip' = rsChip
        \/ rsChip' = [r \in RsRegs |-> IF rsCfg[r] = RsUnset THEN RsBlank ELSE rsCfg[r]]
    BY <1>5, RebootShape, Zenon
  <2> QED
    BY <2>1, <2>2, Zenon DEF RsRecorded
<1> QED
  BY <1>1, <1>2, <1>3, <1>4, <1>5, BodyShape, Zenon DEF RsNextStep

\* The restart leaves the registers as they were.
LEMMA RestartSame ==
  ASSUME RsTypeOK, RsLocks, RsRecorded, RsJudged, RsReboot
  PROVE  UNCHANGED <<rsChip, rsTodo>>
<1>1. rsTodo' = rsTodo
  BY RebootShape, Zenon
<1>2. CASE rsChip' = rsChip
  BY <1>1, <1>2, Zenon
<1>3. CASE /\ rsReset = "enter"
           /\ rsChip' = [r \in RsRegs |-> IF rsCfg[r] = RsUnset THEN RsBlank ELSE rsCfg[r]]
  <2>1. ~rsOvertaken /\ ~rsUnder
    <3>1. rsRestarts > 0 /\ rsRestarts \in Nat
      BY <1>3, RsAssumption DEF RsLocks, RsTypeOK
    <3> QED
      BY <3>1 DEF RsJudged
  <2>2. \A r \in RsRegs : rsChip'[r] = rsChip[r]
    BY <1>3, <2>1, Zenon DEF RsRecorded
  <2>3. rsChip' = [r \in RsRegs |-> rsChip'[r]] /\ rsChip = [r \in RsRegs |-> rsChip[r]]
    BY <1>3, Zenon DEF RsTypeOK
  <2>4. rsChip' = rsChip
    BY <2>2, <2>3
  <2> QED
    BY <1>1, <2>4, Zenon
<1> QED
  BY <1>2, <1>3, RebootShape, Zenon

\* A write brings the register to where it is due.
LEMMA DueWrite ==
  ASSUME RsTypeOK, NEW c \in RsCallbacks, RsWrite(c),
         NEW r \in RsRegs, NEW f \in {"idx", "val"}, NEW v, RsDueIn(rsChip, rsTodo, r, f, v)
  PROVE  RsDueIn(rsChip', rsTodo', r, f, v)
<1>1. PICK t \in RsPuts :
        /\ rsTodo[c] # <<>> /\ t = Head(rsTodo[c])
        /\ rsChip' = [rsChip EXCEPT ![t.reg] = [rsChip[t.reg] EXCEPT ![t.field] = t.val]]
        /\ rsTodo' = [rsTodo EXCEPT ![c] = Tail(rsTodo[c])]
  BY WriteShape, Zenon
<1> DEFINE todo == rsTodo[c]
<1>2. todo \in Seq(RsPuts) /\ rsChip \in [RsRegs -> RsWords]
  BY Zenon DEF RsTypeOK
<1>3. /\ Len(todo) \in Nat /\ 1 \in 1 .. Len(todo) /\ t = todo[1]
      /\ \A n \in 1 .. Len(Tail(todo)) : n + 1 \in 1 .. Len(todo) /\ Tail(todo)[n] = todo[n + 1]
      /\ \A n \in 1 .. Len(todo) : n = 1 \/ (n - 1 \in 1 .. Len(Tail(todo)) /\ Tail(todo)[n - 1] = todo[n])
  <2> HIDE DEF todo, RsPuts
  <2>1. todo # <<>> /\ t = Head(todo)
    BY <1>1 DEF todo
  <2>2. /\ Len(todo) \in Nat \ {0} /\ Head(todo) = todo[1] /\ Len(Tail(todo)) = Len(todo) - 1
        /\ \A n \in 1 .. Len(Tail(todo)) : Tail(todo)[n] = todo[n + 1]
    BY <1>2, <2>1, HeadTailProperties, LenProperties
  <2> QED
    BY <2>1, <2>2
<1>4. rsTodo'[c] = Tail(todo) /\ \A d \in RsCallbacks : d # c => rsTodo'[d] = rsTodo[d]
  BY <1>1, Zenon DEF RsTypeOK
<1>5. t.reg \in RsRegs /\ t.field \in {"idx", "val"}
  BY DEF RsPuts
<1> HIDE DEF todo
<1>6. ASSUME NEW d \in RsCallbacks, NEW n \in 1 .. Len(rsTodo'[d]),
             rsTodo'[d][n].reg = r, rsTodo'[d][n].field = f
      PROVE  rsTodo'[d][n].val = v
  <2>1. CASE d = c
    <3>1. n \in 1 .. Len(Tail(todo)) /\ rsTodo'[d][n] = Tail(todo)[n]
      BY <1>4, <2>1
    <3>2. n + 1 \in 1 .. Len(rsTodo[c]) /\ rsTodo'[d][n] = rsTodo[c][n + 1]
      BY <1>3, <3>1, Zenon DEF todo
    <3> QED
      BY <1>6, <3>2, Zenon DEF RsDueIn
  <2>2. CASE d # c
    BY <1>4, <1>6, <2>2, Zenon DEF RsDueIn
  <2> QED
    BY <2>1, <2>2
<1>7. CASE t.reg = r /\ t.field = f
  <2>1. t.val = v
    BY <1>3, <1>7, Zenon DEF RsDueIn, todo
  <2>2. rsChip'[r] = [rsChip[r] EXCEPT ![f] = v]
    BY <1>1, <1>2, <1>7, <2>1, Zenon
  <2>3. \A x \in RsWords : [x EXCEPT ![f] = v][f] = v
    BY DEF RsWords
  <2>4. rsChip'[r][f] = v
    BY <1>2, <2>2, <2>3, Zenon
  <2> QED
    BY <1>6, <2>4, Zenon DEF RsDueIn
<1>8. CASE ~(t.reg = r /\ t.field = f)
  <2>1. rsChip'[r][f] = rsChip[r][f]
    <3>1. CASE t.reg # r
      <4>1. rsChip'[r] = rsChip[r]
        BY <1>1, <1>2, <3>1, Zenon
      <4> QED
        BY <4>1
    <3>2. CASE t.reg = r /\ t.field # f
      <4>1. rsChip'[r] = [rsChip[r] EXCEPT ![t.field] = t.val]
        BY <1>1, <1>2, <3>2, Zenon
      <4>2. \A x \in RsWords : \A y : [x EXCEPT ![t.field] = y][f] = x[f]
        BY <1>5, <3>2 DEF RsWords
      <4> QED
        BY <1>2, <4>1, <4>2, Zenon
    <3> QED
      BY <1>8, <3>1, <3>2
  <2>2. ASSUME NEW d \in RsCallbacks, NEW n \in 1 .. Len(rsTodo[d]),
               rsTodo[d][n].reg = r, rsTodo[d][n].field = f
        PROVE  \E m \in 1 .. Len(rsTodo'[d]) : rsTodo'[d][m].reg = r /\ rsTodo'[d][m].field = f
    <3>1. CASE d = c
      <4>1. n # 1
        BY <1>3, <1>8, <2>2, <3>1, Zenon DEF todo
      <4>2. n - 1 \in 1 .. Len(Tail(todo)) /\ Tail(todo)[n - 1] = rsTodo[d][n]
        BY <1>3, <2>2, <3>1, <4>1, Zenon DEF todo
      <4> QED
        BY <1>4, <2>2, <3>1, <4>2, Zenon
    <3>2. CASE d # c
      BY <1>4, <2>2, <3>2, Zenon
    <3> QED
      BY <3>1, <3>2
  <2> QED
    BY <1>6, <2>1, <2>2, Zenon DEF RsDueIn
<1> QED
  BY <1>7, <1>8

\* Whether a field is among the writes, and whether they all give it v
RsTouches(s, r, f) == \E n \in 1 .. Len(s) : s[n].reg = r /\ s[n].field = f
RsAllGive(s, r, f, v) == \A n \in 1 .. Len(s) : s[n].reg = r /\ s[n].field = f => s[n].val = v

\* What a body plans is due; what it does not plan stays so.
LEMMA DuePlan ==
  ASSUME RsTypeOK, RsLocks, NEW c \in RsCallbacks, NEW w, RsEnter(c, w), NEW s, RsPlan(c, s),
         NEW r, NEW f, NEW v,
         \/ RsTouches(s, r, f) /\ RsAllGive(s, r, f, v)
         \/ ~RsTouches(s, r, f) /\ RsDueIn(rsChip, rsTodo, r, f, v)
  PROVE  RsDueIn(rsChip', rsTodo', r, f, v)
<1>1. rsChip' = rsChip /\ \A d \in RsCallbacks : rsTodo[d] = <<>>
  BY EnterShape, Zenon
<1>2. rsTodo' = [rsTodo EXCEPT ![c] = s]
  BY Zenon DEF RsPlan
<1>3. rsTodo'[c] = s /\ \A d \in RsCallbacks : d # c => rsTodo'[d] = <<>>
  BY <1>1, <1>2, Zenon DEF RsTypeOK
<1>4. \A d \in RsCallbacks : d # c => Len(rsTodo'[d]) = 0
  BY <1>3
<1>5. 1 .. 0 = {}
  OBVIOUS
<1>6. ~RsTouches(s, r, f) => RsAllGive(s, r, f, v)
  BY Zenon DEF RsTouches, RsAllGive
<1>7. \A d \in RsCallbacks : \A n \in 1 .. Len(rsTodo'[d]) :
        rsTodo'[d][n].reg = r /\ rsTodo'[d][n].field = f => rsTodo'[d][n].val = v
  BY <1>3, <1>4, <1>5, <1>6, Zenon DEF RsAllGive
<1>8. CASE RsTouches(s, r, f)
  BY <1>3, <1>7, <1>8, Zenon DEF RsDueIn, RsTouches
<1>9. CASE ~RsTouches(s, r, f)
  <2>1. \A d \in RsCallbacks : Len(rsTodo[d]) = 0
    BY <1>1
  <2>2. rsChip[r][f] = v
    BY <1>5, <1>9, <2>1, Zenon DEF RsDueIn
  <2> QED
    BY <1>1, <1>7, <2>2, Zenon DEF RsDueIn
<1> QED
  BY <1>8, <1>9

\* One write; two sequences of them
RsOneWrite(q, x) == <<RsPut(q, "val", x)>>
LEMMA OneTouches ==
  ASSUME NEW q \in RsRegs, NEW x \in Nat, NEW r, NEW f
  PROVE  /\ RsTouches(RsOneWrite(q, x), r, f) <=> r = q /\ f = "val"
         /\ RsAllGive(RsOneWrite(q, x), r, f, x)
BY DEF RsTouches, RsAllGive, RsPut, RsOneWrite

LEMMA BothTouch ==
  ASSUME NEW s \in Seq(RsPuts), NEW t \in Seq(RsPuts), NEW r, NEW f, NEW v
  PROVE  /\ RsTouches(s \o t, r, f) <=> RsTouches(s, r, f) \/ RsTouches(t, r, f)
         /\ RsAllGive(s \o t, r, f, v) <=> RsAllGive(s, r, f, v) /\ RsAllGive(t, r, f, v)
<1>1. /\ Len(s \o t) = Len(s) + Len(t) /\ Len(s) \in Nat /\ Len(t) \in Nat
      /\ \A i \in 1 .. Len(s) + Len(t) : (s \o t)[i] = IF i <= Len(s) THEN s[i] ELSE t[i - Len(s)]
  BY ConcatProperties, LenProperties
<1> DEFINE u == s \o t
<1> HIDE DEF u
<1>2. \A i \in 1 .. Len(s) : i \in 1 .. Len(u) /\ u[i] = s[i]
  BY <1>1 DEF u
<1>3. \A i \in 1 .. Len(t) : i + Len(s) \in 1 .. Len(u) /\ u[i + Len(s)] = t[i]
  BY <1>1 DEF u
<1>4. \A i \in 1 .. Len(u) : \/ i \in 1 .. Len(s) /\ u[i] = s[i]
                             \/ i - Len(s) \in 1 .. Len(t) /\ u[i] = t[i - Len(s)]
  BY <1>1 DEF u
<1>5. RsTouches(u, r, f) <=> RsTouches(s, r, f) \/ RsTouches(t, r, f)
  <2>1. ASSUME NEW i \in 1 .. Len(u), u[i].reg = r, u[i].field = f
        PROVE  RsTouches(s, r, f) \/ RsTouches(t, r, f)
    <3>1. CASE i \in 1 .. Len(s) /\ u[i] = s[i]
      BY <2>1, <3>1, Zenon DEF RsTouches
    <3>2. CASE i - Len(s) \in 1 .. Len(t) /\ u[i] = t[i - Len(s)]
      BY <2>1, <3>2, Zenon DEF RsTouches
    <3> QED
      BY <1>4, <3>1, <3>2, Zenon
  <2>2. ASSUME NEW i \in 1 .. Len(s), s[i].reg = r, s[i].field = f PROVE RsTouches(u, r, f)
    <3>1. i \in 1 .. Len(u) /\ u[i] = s[i]
      BY <1>2, Zenon
    <3> QED
      BY <2>2, <3>1, Zenon DEF RsTouches
  <2>3. ASSUME NEW i \in 1 .. Len(t), t[i].reg = r, t[i].field = f PROVE RsTouches(u, r, f)
    <3>1. i + Len(s) \in 1 .. Len(u) /\ u[i + Len(s)] = t[i]
      BY <1>3, Zenon
    <3> QED
      BY <2>3, <3>1, Zenon DEF RsTouches
  <2> QED
    BY <2>1, <2>2, <2>3, Zenon DEF RsTouches
<1>6. RsAllGive(u, r, f, v) <=> RsAllGive(s, r, f, v) /\ RsAllGive(t, r, f, v)
  <2>1. ASSUME RsAllGive(s, r, f, v), RsAllGive(t, r, f, v), NEW i \in 1 .. Len(u),
               u[i].reg = r, u[i].field = f
        PROVE  u[i].val = v
    <3>1. CASE i \in 1 .. Len(s) /\ u[i] = s[i]
      BY <2>1, <3>1, Zenon DEF RsAllGive
    <3>2. CASE i - Len(s) \in 1 .. Len(t) /\ u[i] = t[i - Len(s)]
      BY <2>1, <3>2, Zenon DEF RsAllGive
    <3> QED
      BY <1>4, <3>1, <3>2, Zenon
  <2>2. ASSUME RsAllGive(u, r, f, v), NEW i \in 1 .. Len(s), s[i].reg = r, s[i].field = f
        PROVE  s[i].val = v
    <3>1. i \in 1 .. Len(u) /\ u[i] = s[i]
      BY <1>2, Zenon
    <3> QED
      BY <2>2, <3>1, Zenon DEF RsAllGive
  <2>3. ASSUME RsAllGive(u, r, f, v), NEW i \in 1 .. Len(t), t[i].reg = r, t[i].field = f
        PROVE  t[i].val = v
    <3>1. i + Len(s) \in 1 .. Len(u) /\ u[i + Len(s)] = t[i]
      BY <1>3, Zenon
    <3> QED
      BY <2>3, <3>1, Zenon DEF RsAllGive
  <2> QED
    BY <2>1, <2>2, <2>3, Zenon DEF RsAllGive
<1> QED
  BY <1>5, <1>6, Zenon DEF u

\* The writes of the keys: which fields they touch, and what they give them
LEMMA PairWritesTouch ==
  ASSUME NEW s \in RsSlotSet, NEW k \in Nat, NEW r, NEW f
  PROVE  /\ RsPairWrites(s, k) \in Seq(RsPuts)
         /\ RsTouches(RsPairWrites(s, k), r, f) => r = <<"pair", s>> \/ r = <<"pkey", s>>
         /\ RsTouches(RsPairWrites(s, k), <<"pair", s>>, "val")
         /\ RsAllGive(RsPairWrites(s, k), <<"pair", s>>, "val", RsCcmp)
         /\ RsTouches(RsPairWrites(s, k), <<"pkey", s>>, "val")
         /\ RsAllGive(RsPairWrites(s, k), <<"pkey", s>>, "val", k)
<1>1. /\ RsPut(<<"pair", s>>, "val", RsCcmp) \in RsPuts
      /\ RsPut(<<"pair", s>>, "idx", 0) \in RsPuts
      /\ RsPut(<<"pkey", s>>, "val", k) \in RsPuts
  BY Registers, PutShape DEF RsCcmp, RsIndexes
<1> DEFINE q == RsPairWrites(s, k)
<1>2. q \in Seq(RsPuts) /\ Len(q) = 3
  <2> HIDE DEF RsPuts
  <2> QED
    BY <1>1 DEF RsPairWrites
<1>3. /\ q[1] = RsPut(<<"pair", s>>, "val", RsCcmp)
      /\ q[2] = RsPut(<<"pair", s>>, "idx", 0)
      /\ q[3] = RsPut(<<"pkey", s>>, "val", k)
  BY DEF RsPairWrites
<1> HIDE DEF q
<1>4. \A n \in 1 .. Len(q) : n = 1 \/ n = 2 \/ n = 3
  BY <1>2
<1>5. 1 \in 1 .. Len(q) /\ 2 \in 1 .. Len(q) /\ 3 \in 1 .. Len(q)
  BY <1>2
<1>6. /\ q[1].reg = <<"pair", s>> /\ q[1].field = "val" /\ q[1].val = RsCcmp
      /\ q[2].reg = <<"pair", s>> /\ q[2].field = "idx"
      /\ q[3].reg = <<"pkey", s>> /\ q[3].field = "val" /\ q[3].val = k
  BY <1>3 DEF RsPut
<1>7. <<"pair", s>> # <<"pkey", s>> /\ "idx" # "val"
  OBVIOUS
<1>8. RsTouches(q, r, f) => r = <<"pair", s>> \/ r = <<"pkey", s>>
  BY <1>4, <1>6, Zenon DEF RsTouches
<1>9. RsTouches(q, <<"pair", s>>, "val") /\ RsTouches(q, <<"pkey", s>>, "val")
  BY <1>5, <1>6, Zenon DEF RsTouches
<1>10. RsAllGive(q, <<"pair", s>>, "val", RsCcmp) /\ RsAllGive(q, <<"pkey", s>>, "val", k)
  BY <1>4, <1>6, <1>7, Zenon DEF RsAllGive
<1> QED
  BY <1>2, <1>8, <1>9, <1>10, Zenon DEF q

LEMMA GroupWritesTouch ==
  ASSUME NEW i \in RsGroupIdx, NEW k \in Nat, NEW r, NEW f
  PROVE  /\ RsGroupWrites(i, k) \in Seq(RsPuts)
         /\ RsTouches(RsGroupWrites(i, k), r, f) => r = <<"group", 0>> \/ r = <<"gkey", i>>
         /\ RsTouches(RsGroupWrites(i, k), <<"group", 0>>, "val")
         /\ RsAllGive(RsGroupWrites(i, k), <<"group", 0>>, "val", RsCcmp)
         /\ RsTouches(RsGroupWrites(i, k), <<"gkey", i>>, "val")
         /\ RsAllGive(RsGroupWrites(i, k), <<"gkey", i>>, "val", k)
         /\ RsAllGive(RsGroupWrites(i, k), <<"group", 0>>, "idx", i)
<1>1. /\ RsPut(<<"group", 0>>, "val", RsCcmp) \in RsPuts
      /\ RsPut(<<"gkey", i>>, "val", k) \in RsPuts
  BY Registers, PutShape DEF RsCcmp, RsIndexes
<1> DEFINE q == RsGroupWrites(i, k)
<1>2. q \in Seq(RsPuts) /\ Len(q) = 2
  <2> HIDE DEF RsPuts
  <2> QED
    BY <1>1 DEF RsGroupWrites
<1>3. q[1] = RsPut(<<"group", 0>>, "val", RsCcmp) /\ q[2] = RsPut(<<"gkey", i>>, "val", k)
  BY DEF RsGroupWrites
<1> HIDE DEF q
<1>4. \A n \in 1 .. Len(q) : n = 1 \/ n = 2
  BY <1>2
<1>5. 1 \in 1 .. Len(q) /\ 2 \in 1 .. Len(q)
  BY <1>2
<1>6. /\ q[1].reg = <<"group", 0>> /\ q[1].field = "val" /\ q[1].val = RsCcmp
      /\ q[2].reg = <<"gkey", i>> /\ q[2].field = "val" /\ q[2].val = k
  BY <1>3 DEF RsPut
<1>7. <<"group", 0>> # <<"gkey", i>> /\ "idx" # "val"
  OBVIOUS
<1>8. RsTouches(q, r, f) => r = <<"group", 0>> \/ r = <<"gkey", i>>
  BY <1>4, <1>6, Zenon DEF RsTouches
<1>9. RsTouches(q, <<"group", 0>>, "val") /\ RsTouches(q, <<"gkey", i>>, "val")
  BY <1>5, <1>6, Zenon DEF RsTouches
<1>10. /\ RsAllGive(q, <<"group", 0>>, "val", RsCcmp) /\ RsAllGive(q, <<"gkey", i>>, "val", k)
       /\ RsAllGive(q, <<"group", 0>>, "idx", i)
  BY <1>4, <1>6, <1>7, Zenon DEF RsAllGive
<1> QED
  BY <1>2, <1>8, <1>9, <1>10, Zenon DEF q

LEMMA IdxWritesTouch ==
  ASSUME RsTypeOK, NEW i \in RsGroupIdx, NEW r, NEW f
  PROVE  /\ RsIdxWrites(i) \in Seq(RsPuts)
         /\ RsTouches(RsIdxWrites(i), r, f) => r = <<"group", 0>> /\ f = "idx"
         /\ Len(rsList) > 0 => RsTouches(RsIdxWrites(i), <<"group", 0>>, "idx")
         /\ RsAllGive(RsIdxWrites(i), <<"group", 0>>, "idx", i)
<1>1. RsPut(<<"group", 0>>, "idx", i) \in RsPuts /\ Len(rsList) \in Nat
  <2>1. i \in Nat /\ i \in RsIndexes
    BY RsAssumption DEF RsIndexes
  <2>2. Len(rsList) \in Nat
    BY DEF RsTypeOK
  <2> QED
    BY <2>1, <2>2, Registers, PutShape
<1> DEFINE q == RsIdxWrites(i)
<1>2. q \in Seq(RsPuts) /\ Len(q) = Len(rsList)
      /\ \A n \in 1 .. Len(q) : q[n] = RsPut(<<"group", 0>>, "idx", i)
  <2> HIDE DEF RsPuts
  <2> QED
    BY <1>1 DEF RsIdxWrites
<1>3. \A n \in 1 .. Len(q) : q[n].reg = <<"group", 0>> /\ q[n].field = "idx" /\ q[n].val = i
  BY <1>2 DEF RsPut
<1>4. Len(rsList) > 0 => 1 \in 1 .. Len(q)
  BY <1>1, <1>2
<1> HIDE DEF q
<1>5. RsTouches(q, r, f) => r = <<"group", 0>> /\ f = "idx"
  BY <1>3, Zenon DEF RsTouches
<1>6. Len(rsList) > 0 => RsTouches(q, <<"group", 0>>, "idx")
  BY <1>3, <1>4, Zenon DEF RsTouches
<1>7. RsAllGive(q, <<"group", 0>>, "idx", i)
  BY <1>3, Zenon DEF RsAllGive
<1> QED
  BY <1>2, <1>5, <1>6, <1>7, Zenon DEF q

LEMMA NothingTouches ==
  ASSUME NEW r, NEW f, NEW v
  PROVE  ~RsTouches(<<>>, r, f) /\ RsAllGive(<<>>, r, f, v)
BY DEF RsTouches, RsAllGive

LEMMA GroupIdxTouch ==
  ASSUME RsTypeOK, NEW r, NEW f
  PROVE  LET q == RsGroupIdxWrite(rsVif.idx)
         IN  /\ RsTouches(q, r, f) => r = <<"group", 0>> /\ f = "idx"
             /\ rsVif.hw /\ rsVif.idx > 0 => RsTouches(q, <<"group", 0>>, "idx")
             /\ RsAllGive(q, <<"group", 0>>, "idx", rsVif.idx)
<1> DEFINE q == RsGroupIdxWrite(rsVif.idx)
<1>1. CASE rsVif.hw /\ rsVif.idx > 0
  <2>1. q = <<RsPut(<<"group", 0>>, "idx", rsVif.idx)>>
    BY <1>1 DEF RsGroupIdxWrite
  <2> HIDE DEF q
  <2>2. Len(q) = 1 /\ q[1] = RsPut(<<"group", 0>>, "idx", rsVif.idx) /\ 1 \in 1 .. 1
        /\ \A n \in 1 .. 1 : n = 1
    BY <2>1
  <2>3. q[1].reg = <<"group", 0>> /\ q[1].field = "idx" /\ q[1].val = rsVif.idx
    BY <2>2 DEF RsPut
  <2> QED
    BY <2>2, <2>3, Zenon DEF RsTouches, RsAllGive, q
<1>2. CASE ~(rsVif.hw /\ rsVif.idx > 0)
  <2>1. q = <<>>
    BY <1>2, Zenon DEF RsGroupIdxWrite
  <2> HIDE DEF q
  <2> QED
    BY <1>2, <2>1, NothingTouches, Zenon DEF q
<1> QED
  BY <1>1, <1>2

RsPairPlan(s, k) == RsPairWrites(s, k) \o RsGroupIdxWrite(rsVif.idx)
LEMMA PairPlan ==
  ASSUME RsTypeOK, NEW s \in RsSlotSet, NEW k \in Nat, NEW r, NEW f
  PROVE  /\ RsTouches(RsPairPlan(s, k), r, f) => \/ r = <<"pair", s>> \/ r = <<"pkey", s>>
                                                 \/ r = <<"group", 0>> /\ f = "idx"
         /\ RsTouches(RsPairPlan(s, k), <<"pair", s>>, "val")
         /\ RsAllGive(RsPairPlan(s, k), <<"pair", s>>, "val", RsCcmp)
         /\ RsTouches(RsPairPlan(s, k), <<"pkey", s>>, "val")
         /\ RsAllGive(RsPairPlan(s, k), <<"pkey", s>>, "val", k)
         /\ RsAllGive(RsPairPlan(s, k), <<"group", 0>>, "idx", rsVif.idx)
         /\ rsVif.hw /\ rsVif.idx > 0 => RsTouches(RsPairPlan(s, k), <<"group", 0>>, "idx")
<1> DEFINE a == RsPairWrites(s, k)
           b == RsGroupIdxWrite(rsVif.idx)
<1>1. /\ a \in Seq(RsPuts)
      /\ \A x, y : RsTouches(a, x, y) => x = <<"pair", s>> \/ x = <<"pkey", s>>
      /\ RsTouches(a, <<"pair", s>>, "val") /\ RsAllGive(a, <<"pair", s>>, "val", RsCcmp)
      /\ RsTouches(a, <<"pkey", s>>, "val") /\ RsAllGive(a, <<"pkey", s>>, "val", k)
  BY PairWritesTouch, Zenon
<1>2. /\ b \in Seq(RsPuts)
      /\ \A x, y : RsTouches(b, x, y) => x = <<"group", 0>> /\ y = "idx"
      /\ rsVif.hw /\ rsVif.idx > 0 => RsTouches(b, <<"group", 0>>, "idx")
      /\ RsAllGive(b, <<"group", 0>>, "idx", rsVif.idx)
  BY GroupIdxTyped, GroupIdxTouch, Zenon
<1> HIDE DEF a, b
<1>3. /\ \A x, y : RsTouches(a \o b, x, y) <=> RsTouches(a, x, y) \/ RsTouches(b, x, y)
      /\ \A x, y, v : RsAllGive(a \o b, x, y, v) <=> RsAllGive(a, x, y, v) /\ RsAllGive(b, x, y, v)
  BY <1>1, <1>2, BothTouch, Zenon
<1>4. \A q, x, y, v : ~RsTouches(q, x, y) => RsAllGive(q, x, y, v)
  BY Zenon DEF RsTouches, RsAllGive
<1>5. /\ <<"pair", s>> # <<"group", 0>> /\ <<"pkey", s>> # <<"group", 0>>
  OBVIOUS
<1>6. ~RsTouches(a, <<"group", 0>>, "idx") /\ ~RsTouches(b, <<"pair", s>>, "val")
      /\ ~RsTouches(b, <<"pkey", s>>, "val")
  BY <1>1, <1>2, <1>5, Zenon
<1> QED
  BY <1>1, <1>2, <1>3, <1>4, <1>6, Zenon DEF a, b, RsPairPlan

RsGroupPlan(i, k) == RsGroupWrites(i, k) \o RsIdxWrites(i)
LEMMA GroupPlan ==
  ASSUME RsTypeOK, NEW i \in RsGroupIdx, NEW k \in Nat, NEW r, NEW f
  PROVE  /\ RsTouches(RsGroupPlan(i, k), r, f) => r = <<"group", 0>> \/ r = <<"gkey", i>>
         /\ RsTouches(RsGroupPlan(i, k), <<"group", 0>>, "val")
         /\ RsAllGive(RsGroupPlan(i, k), <<"group", 0>>, "val", RsCcmp)
         /\ RsTouches(RsGroupPlan(i, k), <<"gkey", i>>, "val")
         /\ RsAllGive(RsGroupPlan(i, k), <<"gkey", i>>, "val", k)
         /\ Len(rsList) > 0 => RsTouches(RsGroupPlan(i, k), <<"group", 0>>, "idx")
         /\ RsAllGive(RsGroupPlan(i, k), <<"group", 0>>, "idx", i)
<1> DEFINE a == RsGroupWrites(i, k)
           b == RsIdxWrites(i)
<1>1. /\ a \in Seq(RsPuts)
      /\ \A x, y : RsTouches(a, x, y) => x = <<"group", 0>> \/ x = <<"gkey", i>>
      /\ RsTouches(a, <<"group", 0>>, "val") /\ RsAllGive(a, <<"group", 0>>, "val", RsCcmp)
      /\ RsTouches(a, <<"gkey", i>>, "val") /\ RsAllGive(a, <<"gkey", i>>, "val", k)
      /\ RsAllGive(a, <<"group", 0>>, "idx", i)
  BY GroupWritesTouch, Zenon
<1>2. /\ b \in Seq(RsPuts)
      /\ \A x, y : RsTouches(b, x, y) => x = <<"group", 0>> /\ y = "idx"
      /\ Len(rsList) > 0 => RsTouches(b, <<"group", 0>>, "idx")
      /\ RsAllGive(b, <<"group", 0>>, "idx", i)
  BY IdxWritesTouch, Zenon
<1> HIDE DEF a, b
<1>3. /\ \A x, y : RsTouches(a \o b, x, y) <=> RsTouches(a, x, y) \/ RsTouches(b, x, y)
      /\ \A x, y, v : RsAllGive(a \o b, x, y, v) <=> RsAllGive(a, x, y, v) /\ RsAllGive(b, x, y, v)
  BY <1>1, <1>2, BothTouch, Zenon
<1>4. \A q, x, y, v : ~RsTouches(q, x, y) => RsAllGive(q, x, y, v)
  BY Zenon DEF RsTouches, RsAllGive
<1>5. <<"gkey", i>> # <<"group", 0>> /\ "val" # "idx"
  OBVIOUS
<1>6. ~RsTouches(b, <<"group", 0>>, "val") /\ ~RsTouches(b, <<"gkey", i>>, "val")
  BY <1>2, <1>5
<1>7. RsTouches(a \o b, r, f) => r = <<"group", 0>> \/ r = <<"gkey", i>>
  BY <1>1, <1>2, <1>3, Zenon
<1>8. /\ RsTouches(a \o b, <<"group", 0>>, "val") /\ RsTouches(a \o b, <<"gkey", i>>, "val")
      /\ Len(rsList) > 0 => RsTouches(a \o b, <<"group", 0>>, "idx")
  BY <1>1, <1>2, <1>3, Zenon
<1>9. /\ RsAllGive(a \o b, <<"group", 0>>, "val", RsCcmp)
      /\ RsAllGive(a \o b, <<"gkey", i>>, "val", k)
      /\ RsAllGive(a \o b, <<"group", 0>>, "idx", i)
  BY <1>1, <1>2, <1>3, <1>4, <1>6, Zenon
<1> QED
  BY <1>7, <1>8, <1>9, Zenon DEF a, b, RsGroupPlan

LEMMA PairPlanTouches ==
  ASSUME RsTypeOK, NEW s \in RsSlotSet, NEW k \in Nat, NEW r, NEW f, RsTouches(RsPairPlan(s, k), r, f)
  PROVE  r = <<"pair", s>> \/ r = <<"pkey", s>> \/ (r = <<"group", 0>> /\ f = "idx")
BY PairPlan
-----------------------------------------------------------------------------
(* What is due                                                             *)

\* Except for the bodies, a step leaves everything due as it is.
LEMMA DueKept ==
  ASSUME RsTypeOK, RsLocks, RsRecorded, RsNextStep, ~RsBody,
         NEW r \in RsRegs, NEW f \in {"idx", "val"}, NEW v, RsDueIn(rsChip, rsTodo, r, f, v)
  PROVE  RsDueIn(rsChip', rsTodo', r, f, v)
<1>1. ASSUME UNCHANGED <<rsChip, rsTodo>> PROVE RsDueIn(rsChip', rsTodo', r, f, v)
  <2>1. rsChip' = rsChip /\ rsTodo' = rsTodo
    BY <1>1, Zenon
  <2> QED
    BY <2>1, Zenon
<1>2. ASSUME NEW c \in RsCallbacks, RsCall(c) \/ RsUnlock(c) \/ RsReturn(c)
      PROVE  UNCHANGED <<rsChip, rsTodo>>
  BY <1>2, Zenon DEF RsCall, RsUnlock, RsReturn
<1>3. ASSUME NEW c \in RsCallbacks, RsWrite(c) PROVE RsDueIn(rsChip', rsTodo', r, f, v)
  BY <1>3, DueWrite, Zenon
<1>4. ASSUME RsReboot PROVE UNCHANGED <<rsChip, rsTodo>>
  BY <1>4, RestartSame, Zenon DEF RsNextStep
<1> QED
  BY <1>1, <1>2, <1>3, <1>4, Zenon DEF RsNextStep

\* A body's plan that leaves a field alone
LEMMA DueLeft ==
  ASSUME RsTypeOK, RsLocks, NEW c \in RsCallbacks, NEW w, RsEnter(c, w), NEW s, RsPlan(c, s),
         NEW r, NEW f, NEW v, ~RsTouches(s, r, f), RsDueIn(rsChip, rsTodo, r, f, v)
  PROVE  RsDueIn(rsChip', rsTodo', r, f, v)
BY DuePlan, Zenon

\* and one that sets it
LEMMA DueSet ==
  ASSUME RsTypeOK, RsLocks, NEW c \in RsCallbacks, NEW w, RsEnter(c, w), NEW s, RsPlan(c, s),
         NEW r, NEW f, NEW v, RsTouches(s, r, f), RsAllGive(s, r, f, v)
  PROVE  RsDueIn(rsChip', rsTodo', r, f, v)
BY DuePlan, Zenon

\* The bodies for keys and for the configuration touch no WSID, those for
\* stations no key.
LEMMA KeyPlans ==
  ASSUME RsTypeOK, RsLocks, RsCalled, RsAsked, RsPresent, RsBody, ~RsStaAdd, ~RsStaRemove
  PROVE  \E c \in RsCallbacks : \E w, s :
           /\ RsEnter(c, w) /\ RsPlan(c, s) /\ UNCHANGED <<rsTable, rsList>>
           /\ \A u : ~RsTouches(s, <<"wsid", u>>, "val")
<1>0. /\ "key" \in RsCallbacks /\ "conf" \in RsCallbacks /\ rsOp["key"].key \in Nat
      /\ RsNone \in Nat
  BY DEF RsCallbacks, RsTypeOK, RsNone
<1>1. CASE RsSetPairwise
  <2>1. PICK s \in RsSlotSet, t \in RsStations :
           /\ RsEnter("key", "pair")
           /\ RsPlan("key", RsPairPlan(s, rsOp["key"].key))
           /\ UNCHANGED <<rsTable, rsList>>
    BY <1>1, SetPairwiseShape, Zenon DEF RsPairPlan
  <2> DEFINE p == RsPairPlan(s, rsOp["key"].key)
  <2>2. \A r, f : RsTouches(p, r, f) => \/ r = <<"pair", s>> \/ r = <<"pkey", s>>
                                        \/ r = <<"group", 0>> /\ f = "idx"
    BY <1>0, PairPlanTouches, Zenon
  <2> HIDE DEF p
  <2>3. \A u : ~RsTouches(p, <<"wsid", u>>, "val")
    BY <2>2
  <2> QED
    BY <1>0, <2>1, <2>3, Zenon DEF p
<1>2. CASE RsSetGroup
  <2>1. PICK i \in RsGroupIdx :
           /\ RsEnter("key", "group")
           /\ RsPlan("key", RsGroupPlan(i, rsOp["key"].key))
           /\ UNCHANGED <<rsTable, rsList>>
    BY <1>2, SetGroupShape, Zenon DEF RsGroupPlan
  <2> DEFINE p == RsGroupPlan(i, rsOp["key"].key)
  <2>2. \A r, f : RsTouches(p, r, f) => r = <<"group", 0>> \/ r = <<"gkey", i>>
    BY <1>0, GroupPlan, Zenon
  <2> HIDE DEF p
  <2>3. \A u : ~RsTouches(p, <<"wsid", u>>, "val")
    BY <2>2
  <2> QED
    BY <1>0, <2>1, <2>3, Zenon DEF p
<1>3. CASE RsClearPairwise
  <2>1. PICK s \in RsSlotSet, t \in RsStations :
           /\ RsEnter("key", "unpair")
           /\ RsPlan("key", RsOneWrite(<<"pair", s>>, RsNone)) \/ RsPlan("key", <<>>)
           /\ UNCHANGED <<rsTable, rsList>>
    BY <1>3, ClearPairwiseShape, Zenon DEF RsOneWrite
  <2>2. <<"pair", s>> \in RsRegs /\ \A u : <<"wsid", u>> # <<"pair", s>>
    BY Registers
  <2>3. \A u : ~RsTouches(RsOneWrite(<<"pair", s>>, RsNone), <<"wsid", u>>, "val")
    BY <1>0, <2>2, OneTouches
  <2>4. \A u : ~RsTouches(<<>>, <<"wsid", u>>, "val")
    BY NothingTouches, Zenon
  <2> QED
    BY <1>0, <2>1, <2>3, <2>4, Zenon
<1>4. CASE RsClearGroup
  <2>1. /\ RsEnter("key", "ungroup") /\ RsPlan("key", RsOneWrite(<<"group", 0>>, RsNone))
        /\ UNCHANGED <<rsTable, rsList>>
    BY <1>4, Zenon DEF RsClearGroup, RsOneWrite
  <2>2. <<"group", 0>> \in RsRegs /\ \A u : <<"wsid", u>> # <<"group", 0>>
    BY Registers
  <2>3. \A u : ~RsTouches(RsOneWrite(<<"group", 0>>, RsNone), <<"wsid", u>>, "val")
    BY <1>0, <2>2, OneTouches
  <2> QED
    BY <1>0, <2>1, <2>3, Zenon
<1>5. CASE RsConfigure
  <2>1. RsEnter("conf", "conf") /\ RsPlan("conf", <<>>) /\ UNCHANGED <<rsTable, rsList>>
    BY <1>5, Zenon DEF RsConfigure, rsDriver
  <2>2. \A u : ~RsTouches(<<>>, <<"wsid", u>>, "val")
    BY NothingTouches, Zenon
  <2> QED
    BY <1>0, <2>1, <2>2, Zenon
<1> QED
  BY <1>1, <1>2, <1>3, <1>4, <1>5, Zenon DEF RsBody

\* A station's entry and its WSID
RsSeating(w, s) ==
  /\ RsEnter("sta", w) /\ RsPlan("sta", s) /\ rsVif' = rsVif /\ rsHw' \subseteq rsHw
  /\ \A r, f : RsTouches(s, r, f) => \E u \in RsSlotSet : r = <<"wsid", u>>
  /\ \A u \in RsSlotSet : rsTable'[u] \in rsHw' => rsTable'[u] = rsTable[u]
  /\ \A u \in RsSlotSet :
       \/ RsTouches(s, <<"wsid", u>>, "val") /\ RsAllGive(s, <<"wsid", u>>, "val", rsTable'[u])
       \/ ~RsTouches(s, <<"wsid", u>>, "val") /\ rsTable'[u] = rsTable[u]
LEMMA StaPlans ==
  ASSUME RsTypeOK, RsLocks, RsCalled, RsAsked, RsPresent, RsStaAdd \/ RsStaRemove
  PROVE  \E w, s : RsSeating(w, s)
<1>0. /\ RsNone \in Nat /\ RsStations \subseteq Nat /\ RsNone \notin RsStations
      /\ rsHw \subseteq RsStations
  BY RsAssumption DEF RsNone, RsTypeOK
<1>1. \A u, x \in RsSlotSet : <<"wsid", u>> = <<"wsid", x>> => u = x
  OBVIOUS
<1>2. \A u \in RsSlotSet : <<"wsid", u>> \in RsRegs
  BY Registers, Zenon
<1>3. CASE RsStaAdd
  <2>1. RsEnter("sta", "add") /\ rsOp["sta"].arg \in RsStations /\ rsVif' = rsVif
    BY <1>3, StaAddShape, Zenon
  <2>2. CASE RsPlan("sta", <<>>) /\ UNCHANGED <<rsTable, rsList, rsHw>>
    <3>1. \A r, f : ~RsTouches(<<>>, r, f)
      BY NothingTouches, Zenon
    <3>2. rsTable' = rsTable /\ rsHw' = rsHw
      BY <2>2, Zenon
    <3>3. RsSeating("add", <<>>)
      BY <2>1, <2>2, <3>1, <3>2, Zenon DEF RsSeating
    <3> QED
      BY <3>3, Zenon
  <2>3. CASE /\ RsFree # {}
             /\ rsTable' = [rsTable EXCEPT ![RsFirstFree] = rsOp["sta"].arg]
             /\ rsHw' = rsHw \ {rsOp["sta"].arg}
             /\ RsPlan("sta", RsOneWrite(<<"wsid", RsFirstFree>>, rsOp["sta"].arg))
    <3> DEFINE x == RsFirstFree
               t == rsOp["sta"].arg
               s == RsOneWrite(<<"wsid", x>>, t)
    <3>1. x \in RsSlotSet /\ t \in Nat
      BY <1>0, <2>1, <2>3, FirstFree, Zenon
    <3>2. \A r, f : /\ RsTouches(s, r, f) <=> r = <<"wsid", x>> /\ f = "val"
                    /\ RsAllGive(s, r, f, t)
      BY <1>2, <3>1, OneTouches, Zenon
    <3>3. rsTable'[x] = t /\ \A u \in RsSlotSet : u # x => rsTable'[u] = rsTable[u]
      BY <2>3, <3>1, Zenon DEF RsTypeOK
    <3>4. rsHw' = rsHw \ {t} /\ RsPlan("sta", s)
      BY <2>3, Zenon
    <3> HIDE DEF x, t, s
    <3>5. \A u \in RsSlotSet : rsTable'[u] \in rsHw' => rsTable'[u] = rsTable[u]
      BY <3>3, <3>4, Zenon
    <3>6. \A u \in RsSlotSet :
                \/ /\ RsTouches(s, <<"wsid", u>>, "val")
                   /\ RsAllGive(s, <<"wsid", u>>, "val", rsTable'[u])
                \/ /\ ~RsTouches(s, <<"wsid", u>>, "val")
                   /\ rsTable'[u] = rsTable[u]
      <4>1. RsTouches(s, <<"wsid", x>>, "val") /\ RsAllGive(s, <<"wsid", x>>, "val", rsTable'[x])
        BY <3>2, <3>3, Zenon
      <4>2. \A u \in RsSlotSet : u # x => ~RsTouches(s, <<"wsid", u>>, "val") /\ rsTable'[u] = rsTable[u]
        BY <1>1, <3>1, <3>2, <3>3, Zenon
      <4> QED
        BY <4>1, <4>2, Zenon
    <3>7. \A r, f : RsTouches(s, r, f) => \E u \in RsSlotSet : r = <<"wsid", u>>
      BY <3>1, <3>2, Zenon
    <3>8. rsHw' \subseteq rsHw
      BY <3>4, Zenon
    <3>9. RsSeating("add", s)
      BY <2>1, <3>4, <3>5, <3>6, <3>7, <3>8, Zenon DEF RsSeating
    <3> QED
      BY <3>9, Zenon
  <2> QED
    BY <1>3, <2>2, <2>3, StaAddShape, Zenon DEF RsOneWrite
<1>4. CASE RsStaRemove
  <2>1. PICK x \in RsSlotSet, t \in RsStations :
           /\ RsEnter("sta", "remove")
           /\ rsTable' = [rsTable EXCEPT ![x] = RsNone]
           /\ RsPlan("sta", RsOneWrite(<<"wsid", x>>, RsNone))
           /\ UNCHANGED <<rsHw, rsVif>>
    BY <1>4, StaRemoveShape, Zenon DEF RsOneWrite
  <2> DEFINE s == RsOneWrite(<<"wsid", x>>, RsNone)
  <2>2. \A r, f : /\ RsTouches(s, r, f) <=> r = <<"wsid", x>> /\ f = "val"
                  /\ RsAllGive(s, r, f, RsNone)
    BY <1>0, <1>2, OneTouches, Zenon
  <2>3. rsTable'[x] = RsNone /\ \A u \in RsSlotSet : u # x => rsTable'[u] = rsTable[u]
    BY <2>1, Zenon DEF RsTypeOK
  <2>4. RsEnter("sta", "remove") /\ RsPlan("sta", s) /\ rsHw' = rsHw /\ rsVif' = rsVif
    BY <2>1, Zenon
  <2> HIDE DEF s
  <2>5. \A u \in RsSlotSet : rsTable'[u] \in rsHw' => rsTable'[u] = rsTable[u]
    BY <1>0, <2>3, <2>4, Zenon
  <2>6. \A u \in RsSlotSet :
              \/ /\ RsTouches(s, <<"wsid", u>>, "val")
                 /\ RsAllGive(s, <<"wsid", u>>, "val", rsTable'[u])
              \/ /\ ~RsTouches(s, <<"wsid", u>>, "val")
                 /\ rsTable'[u] = rsTable[u]
    <3>1. RsTouches(s, <<"wsid", x>>, "val") /\ RsAllGive(s, <<"wsid", x>>, "val", rsTable'[x])
      BY <2>2, <2>3, Zenon
    <3>2. \A u \in RsSlotSet : u # x => ~RsTouches(s, <<"wsid", u>>, "val") /\ rsTable'[u] = rsTable[u]
      BY <1>1, <2>2, <2>3, Zenon
    <3> QED
      BY <3>1, <3>2, Zenon
  <2>7. \A r, f : RsTouches(s, r, f) => \E u \in RsSlotSet : r = <<"wsid", u>>
    BY <2>2, Zenon
  <2>8. rsHw' \subseteq rsHw
    BY <2>4, Zenon
  <2>9. RsSeating("remove", s)
    BY <2>4, <2>5, <2>6, <2>7, <2>8, Zenon DEF RsSeating
  <2> QED
    BY <2>9, Zenon
<1> QED
  BY <1>3, <1>4

LEMMA RsWsidsStep ==
  ASSUME RsTypeOK, RsLocks, RsCalled, RsAsked, RsPresent, RsRecorded, RsWsids, RsNextStep
  PROVE  RsWsids'
<1>1. ASSUME NEW u \in RsSlotSet
      PROVE  RsDueIn(rsChip', rsTodo', <<"wsid", u>>, "val", rsTable'[u])
  <2>1. RsDueIn(rsChip, rsTodo, <<"wsid", u>>, "val", rsTable[u]) /\ <<"wsid", u>> \in RsRegs
        /\ "sta" \in RsCallbacks
    BY Registers DEF RsWsids, RsDue, RsCallbacks
  <2>2. CASE ~RsBody
    <3>1. rsTable' = rsTable
      BY <2>2, SameTable, Zenon DEF RsBody
    <3> QED
      BY <2>1, <2>2, <3>1, DueKept, Zenon
  <2>3. CASE RsBody /\ ~RsStaAdd /\ ~RsStaRemove
    <3>1. PICK c \in RsCallbacks : \E w, s :
             /\ RsEnter(c, w) /\ RsPlan(c, s) /\ UNCHANGED <<rsTable, rsList>>
             /\ \A x : ~RsTouches(s, <<"wsid", x>>, "val")
      BY <2>3, KeyPlans, Zenon
    <3>2. rsTable' = rsTable
      BY <3>1, Zenon
    <3> QED
      BY <2>1, <3>1, <3>2, DueLeft, Zenon
  <2>4. CASE RsStaAdd \/ RsStaRemove
    <3>1. PICK w, s :
           /\ RsEnter("sta", w) /\ RsPlan("sta", s)
           /\ \/ /\ RsTouches(s, <<"wsid", u>>, "val")
                 /\ RsAllGive(s, <<"wsid", u>>, "val", rsTable'[u])
              \/ /\ ~RsTouches(s, <<"wsid", u>>, "val")
                 /\ rsTable'[u] = rsTable[u]
      BY <2>4, StaPlans, Zenon DEF RsSeating
    <3>2. CASE /\ RsTouches(s, <<"wsid", u>>, "val")
               /\ RsAllGive(s, <<"wsid", u>>, "val", rsTable'[u])
      BY <2>1, <3>1, <3>2, DueSet, Zenon
    <3>3. CASE ~RsTouches(s, <<"wsid", u>>, "val") /\ rsTable'[u] = rsTable[u]
      BY <2>1, <3>1, <3>3, DueLeft, Zenon
    <3> QED
      BY <3>1, <3>2, <3>3, Zenon
  <2> QED
    BY <2>2, <2>3, <2>4, Zenon DEF RsBody
<1> QED
  BY <1>1, Zenon DEF RsWsids, RsDue
-----------------------------------------------------------------------------
(* The keys                                                                *)

\* The call for a key is not done before it has the mutex.
LEMMA KeysFixed ==
  ASSUME UNCHANGED <<rsOp, rsKeys, rsGroup>>,
         rsPc'["key"] \in {"write", "leave"} <=> rsPc["key"] \in {"write", "leave"}
  PROVE  /\ \A t : RsKeyOf(t)' = RsKeyOf(t)
         /\ \A i : RsGroupOf(i)' = RsGroupOf(i)
         /\ \A w : RsDone("key", w)' <=> RsDone("key", w)
<1>1. \A w : RsDone("key", w)' <=> RsDone("key", w)
  BY Zenon DEF RsDone
<1>2. rsOp' = rsOp /\ rsKeys' = rsKeys /\ rsGroup' = rsGroup
  BY Zenon
<1> QED
  BY <1>1, <1>2, Zenon DEF RsKeyOf, RsGroupOf

\* Except in the bodies for keys, each has the keys it had, and what has been
\* done away with stays so.
LEMMA KeysKept ==
  ASSUME RsTypeOK, RsLocks, RsCalled, RsAsked, RsGone, RsNextStep, ~RsBody
  PROVE  /\ \A t \in rsHw : RsKeyOf(t)' = RsKeyOf(t)
         /\ rsVif.idx > 0 => RsGroupOf(rsVif.idx)' = RsGroupOf(rsVif.idx)
         /\ \A w : RsDone("key", w)' => RsDone("key", w) /\ rsOp'["key"] = rsOp["key"]
         /\ UNCHANGED <<rsTable, rsHw, rsVif>>
<1>0. "key" \in RsCallbacks /\ \A x : x # "idle" /\ x # "enter" => x \in {"write", "leave"} \/ TRUE
  BY DEF RsCallbacks
<1>1. ASSUME UNCHANGED <<rsOp, rsKeys, rsGroup, rsTable, rsHw, rsVif>>,
             rsPc'["key"] \in {"write", "leave"} <=> rsPc["key"] \in {"write", "leave"}
      PROVE  /\ \A t \in rsHw : RsKeyOf(t)' = RsKeyOf(t)
             /\ rsVif.idx > 0 => RsGroupOf(rsVif.idx)' = RsGroupOf(rsVif.idx)
             /\ \A w : RsDone("key", w)' => RsDone("key", w) /\ rsOp'["key"] = rsOp["key"]
             /\ UNCHANGED <<rsTable, rsHw, rsVif>>
  <2>1. /\ \A t : RsKeyOf(t)' = RsKeyOf(t)
        /\ \A i : RsGroupOf(i)' = RsGroupOf(i)
        /\ \A w : RsDone("key", w)' <=> RsDone("key", w)
    BY <1>1, KeysFixed, Zenon
  <2>2. rsOp' = rsOp /\ rsVif' = rsVif /\ UNCHANGED <<rsTable, rsHw, rsVif>>
    BY <1>1, Zenon
  <2>3. RsGroupOf(rsVif.idx)' = RsGroupOf(rsVif.idx)
    <3>1. RsGroupOf(rsVif.idx)' = IF RsDone("key", "group")' /\ rsOp'["key"].arg = rsVif'.idx
                                  THEN rsOp'["key"].key ELSE rsGroup'[rsVif'.idx]
      BY Zenon DEF RsGroupOf
    <3>2. rsGroup' = rsGroup
      BY <1>1, Zenon
    <3> QED
      BY <2>1, <2>2, <3>1, <3>2, Zenon DEF RsGroupOf
  <2> QED
    BY <2>1, <2>2, <2>3, Zenon
<1>2. ASSUME NEW c \in RsCallbacks, NEW e, NEW p, rsPc[c] = "idle" \/ rsPc[c] = "leave",
             rsPc' = [rsPc EXCEPT ![c] = p], rsOp' = [rsOp EXCEPT ![c] = e],
             UNCHANGED <<rsTable, rsHw, rsVif>>, c # "key" => rsKeys' = rsKeys /\ rsGroup' = rsGroup,
             c = "key" => p \notin {"write", "leave"},
             c = "key" => \A t \in rsHw : rsKeys'[t] = RsKeyOf(t),
             c = "key" /\ rsVif.idx > 0 => rsGroup'[rsVif.idx] = RsGroupOf(rsVif.idx)
      PROVE  /\ \A t \in rsHw : RsKeyOf(t)' = RsKeyOf(t)
             /\ rsVif.idx > 0 => RsGroupOf(rsVif.idx)' = RsGroupOf(rsVif.idx)
             /\ \A w : RsDone("key", w)' => RsDone("key", w) /\ rsOp'["key"] = rsOp["key"]
             /\ UNCHANGED <<rsTable, rsHw, rsVif>>
  <2>0. rsVif' = rsVif
    BY <1>2, Zenon
  <2>1. CASE c = "key"
    <3>1. rsPc'["key"] \notin {"write", "leave"}
      BY <1>0, <1>2, <2>1, Zenon DEF RsTypeOK
    <3>2. \A w : ~RsDone("key", w)'
      BY <3>1, Zenon DEF RsDone
    <3>3. (\A t : RsKeyOf(t)' = rsKeys'[t]) /\ (RsGroupOf(rsVif.idx)' = rsGroup'[rsVif'.idx])
      BY <3>2, Zenon DEF RsKeyOf, RsGroupOf
    <3> QED
      BY <1>2, <2>0, <2>1, <3>2, <3>3, Zenon
  <2>2. CASE c # "key"
    <3>1. rsPc'["key"] = rsPc["key"] /\ rsOp'["key"] = rsOp["key"]
      BY <1>0, <1>2, <2>2, OtherPhases, Zenon
    <3>2. \A w : RsDone("key", w)' <=> RsDone("key", w)
      BY <3>1, Zenon DEF RsDone
    <3>3. rsKeys' = rsKeys /\ rsGroup' = rsGroup
      BY <1>2, <2>2, Zenon
    <3>4. \A t : RsKeyOf(t)' = RsKeyOf(t)
      BY <3>1, <3>2, <3>3, Zenon DEF RsKeyOf
    <3>5. RsGroupOf(rsVif.idx)' = RsGroupOf(rsVif.idx)
      <4>1. RsGroupOf(rsVif.idx)' = IF RsDone("key", "group")' /\ rsOp'["key"].arg = rsVif'.idx
                                    THEN rsOp'["key"].key ELSE rsGroup'[rsVif'.idx]
        BY Zenon DEF RsGroupOf
      <4> QED
        BY <2>0, <3>1, <3>2, <3>3, <4>1, Zenon DEF RsGroupOf
    <3> QED
      BY <1>2, <3>1, <3>2, <3>4, <3>5, Zenon
  <2> QED
    BY <2>1, <2>2
<1>3. ASSUME NEW c \in RsCallbacks, RsCall(c)
      PROVE  \E e, p : /\ rsPc[c] = "idle" \/ rsPc[c] = "leave"
                       /\ rsPc' = [rsPc EXCEPT ![c] = p] /\ rsOp' = [rsOp EXCEPT ![c] = e]
                       /\ UNCHANGED <<rsTable, rsHw, rsVif>>
                       /\ c # "key" => rsKeys' = rsKeys /\ rsGroup' = rsGroup
                       /\ c = "key" => p \notin {"write", "leave"}
                       /\ c = "key" => \A t \in rsHw : rsKeys'[t] = RsKeyOf(t)
                       /\ c = "key" /\ rsVif.idx > 0 => rsGroup'[rsVif.idx] = RsGroupOf(rsVif.idx)
  <2>1. PICK op \in RsRequests(c) :
           /\ rsPc[c] = "idle"
           /\ rsOp' = [rsOp EXCEPT ![c] = op]
           /\ rsPc' = [rsPc EXCEPT ![c] = IF op.what = "ignored" THEN "leave" ELSE "enter"]
           /\ UNCHANGED <<rsTable, rsHw, rsVif, rsKeys, rsGroup>>
    BY <1>3, CallShape, Zenon
  <2> DEFINE p == IF op.what = "ignored" THEN "leave" ELSE "enter"
  <2>2. c = "key" => p \notin {"write", "leave"}
    <3>1. op.what \in RsKinds(c)
      BY RequestShape, Zenon
    <3> QED
      BY <3>1 DEF RsKinds
  <2>3. c = "key" => \A w : ~RsDone("key", w)
    BY <2>1 DEF RsDone
  <2>4. c = "key" => /\ \A t \in rsHw : rsKeys'[t] = RsKeyOf(t)
                     /\ rsVif.idx > 0 => rsGroup'[rsVif.idx] = RsGroupOf(rsVif.idx)
    BY <2>1, <2>3, Zenon DEF RsKeyOf, RsGroupOf
  <2>5. /\ rsPc' = [rsPc EXCEPT ![c] = p] /\ rsOp' = [rsOp EXCEPT ![c] = op]
        /\ rsPc[c] = "idle" /\ UNCHANGED <<rsTable, rsHw, rsVif>> /\ rsKeys' = rsKeys
        /\ rsGroup' = rsGroup
    BY <2>1, Zenon
  <2> HIDE DEF p
  <2> QED
    BY <2>2, <2>4, <2>5, Zenon
<1>4. ASSUME NEW c \in RsCallbacks, RsReturn(c)
      PROVE  \E e, p : /\ rsPc[c] = "idle" \/ rsPc[c] = "leave"
                       /\ rsPc' = [rsPc EXCEPT ![c] = p] /\ rsOp' = [rsOp EXCEPT ![c] = e]
                       /\ UNCHANGED <<rsTable, rsHw, rsVif>>
                       /\ c # "key" => rsKeys' = rsKeys /\ rsGroup' = rsGroup
                       /\ c = "key" => p \notin {"write", "leave"}
                       /\ c = "key" => \A t \in rsHw : rsKeys'[t] = RsKeyOf(t)
                       /\ c = "key" /\ rsVif.idx > 0 => rsGroup'[rsVif.idx] = RsGroupOf(rsVif.idx)
  <2>1. /\ rsPc[c] = "leave" /\ rsPc' = [rsPc EXCEPT ![c] = "idle"]
        /\ rsOp' = [rsOp EXCEPT ![c] = RsNoOp]
        /\ UNCHANGED <<rsTable, rsHw, rsVif>> /\ "idle" \notin {"write", "leave"}
    BY <1>4, ReturnShape
  <2>2. rsOp[c].what \in RsKinds(c)
    <3>1. rsPc[c] # "idle"
      BY <2>1
    <3> QED
      BY <3>1, Zenon DEF RsCalled
  <2>3. c # "key" => rsKeys' = rsKeys /\ rsGroup' = rsGroup
    <3>1. c # "key" => rsOp[c].what \notin {"pair", "unpair", "group", "ungroup"}
      BY <2>2 DEF RsKinds, RsCallbacks
    <3> QED
      BY <1>4, <3>1, ReturnShape
  <2>4. ASSUME c = "key", NEW t \in rsHw PROVE rsKeys'[t] = RsKeyOf(t)
    <3>1. \A w : RsDone("key", w) <=> rsOp["key"].what = w
      BY <2>1, <2>4 DEF RsDone
    <3>2. t \in DOMAIN rsKeys
      BY Zenon DEF RsTypeOK
    <3>3. rsKeys' = IF rsOp["key"].what = "pair" THEN [rsKeys EXCEPT ![rsOp["key"].arg] = rsOp["key"].key]
                    ELSE IF rsOp["key"].what = "unpair" THEN [rsKeys EXCEPT ![rsOp["key"].arg] = RsNone]
                    ELSE rsKeys
      BY <1>4, <2>4, ReturnShape, Zenon
    <3>4. CASE rsOp["key"].what = "pair"
      <4>1. rsKeys' = [rsKeys EXCEPT ![rsOp["key"].arg] = rsOp["key"].key] /\ RsDone("key", "pair")
        BY <3>1, <3>3, <3>4
      <4> QED
        BY <3>2, <4>1, Zenon DEF RsKeyOf
    <3>5. CASE rsOp["key"].what = "unpair"
      <4>1. /\ rsKeys' = [rsKeys EXCEPT ![rsOp["key"].arg] = RsNone]
            /\ RsDone("key", "unpair") /\ ~RsDone("key", "pair")
        BY <3>1, <3>3, <3>5
      <4>2. t # rsOp["key"].arg
        BY <2>4, <4>1, Zenon DEF RsGone
      <4>3. rsKeys'[t] = rsKeys[t]
        BY <3>2, <4>1, <4>2, Zenon
      <4>4. RsKeyOf(t) = rsKeys[t]
        BY <4>1, Zenon DEF RsKeyOf
      <4> QED
        BY <4>3, <4>4, Zenon
    <3>6. CASE rsOp["key"].what # "pair" /\ rsOp["key"].what # "unpair"
      BY <3>1, <3>3, <3>6, Zenon DEF RsKeyOf
    <3> QED
      BY <3>4, <3>5, <3>6
  <2>5. ASSUME c = "key", rsVif.idx > 0 PROVE rsGroup'[rsVif.idx] = RsGroupOf(rsVif.idx)
    <3>1. \A w : RsDone("key", w) <=> rsOp["key"].what = w
      BY <2>1, <2>5 DEF RsDone
    <3>2. rsVif.idx \in DOMAIN rsGroup
      <4>1. \A x \in RsIndexes : x > 0 => x \in RsGroupIdx
        BY DEF RsIndexes
      <4> QED
        BY <2>5, <4>1, Zenon DEF RsTypeOK
    <3>3. rsGroup' = IF rsOp["key"].what = "group" THEN [rsGroup EXCEPT ![rsOp["key"].arg] = rsOp["key"].key]
                     ELSE IF rsOp["key"].what = "ungroup" THEN [rsGroup EXCEPT ![rsOp["key"].arg] = RsNone]
                     ELSE rsGroup
      BY <1>4, <2>5, ReturnShape, Zenon
    <3>4. CASE rsOp["key"].what = "group"
      <4>1. rsGroup' = [rsGroup EXCEPT ![rsOp["key"].arg] = rsOp["key"].key] /\ RsDone("key", "group")
        BY <3>1, <3>3, <3>4
      <4> QED
        BY <3>2, <4>1, Zenon DEF RsGroupOf
    <3>5. CASE rsOp["key"].what = "ungroup"
      BY <2>5, <3>1, <3>5 DEF RsGone
    <3>6. CASE rsOp["key"].what # "group" /\ rsOp["key"].what # "ungroup"
      BY <3>1, <3>3, <3>6, Zenon DEF RsGroupOf
    <3> QED
      BY <3>4, <3>5, <3>6
  <2> QED
    BY <2>1, <2>3, <2>4, <2>5, Zenon
<1>5. ASSUME NEW c \in RsCallbacks, RsWrite(c)
      PROVE  /\ UNCHANGED <<rsOp, rsKeys, rsGroup, rsTable, rsHw, rsVif>>
             /\ rsPc'["key"] \in {"write", "leave"} <=> rsPc["key"] \in {"write", "leave"}
  BY <1>5, Zenon DEF RsWrite, rsDriver, rsMac
<1>6. ASSUME NEW c \in RsCallbacks, RsUnlock(c)
      PROVE  /\ UNCHANGED <<rsOp, rsKeys, rsGroup, rsTable, rsHw, rsVif>>
             /\ rsPc'["key"] \in {"write", "leave"} <=> rsPc["key"] \in {"write", "leave"}
  <2>1. /\ rsPc[c] = "write" /\ rsPc' = [rsPc EXCEPT ![c] = "leave"]
        /\ UNCHANGED <<rsOp, rsKeys, rsGroup, rsTable, rsHw, rsVif>>
    BY <1>6, Zenon DEF RsUnlock, rsDriver, rsMac
  <2>2. rsPc'["key"] \in {"write", "leave"} <=> rsPc["key"] \in {"write", "leave"}
    BY <1>0, <2>1 DEF RsTypeOK
  <2> QED
    BY <2>1, <2>2, Zenon
<1>7. ASSUME RsReboot
      PROVE  /\ UNCHANGED <<rsOp, rsKeys, rsGroup, rsTable, rsHw, rsVif>>
             /\ rsPc'["key"] \in {"write", "leave"} <=> rsPc["key"] \in {"write", "leave"}
  BY <1>7, RebootShape, Zenon
<1>8. ASSUME NEW c \in RsCallbacks, RsCall(c) \/ RsReturn(c)
      PROVE  /\ \A t \in rsHw : RsKeyOf(t)' = RsKeyOf(t)
             /\ rsVif.idx > 0 => RsGroupOf(rsVif.idx)' = RsGroupOf(rsVif.idx)
             /\ \A w : RsDone("key", w)' => RsDone("key", w) /\ rsOp'["key"] = rsOp["key"]
             /\ UNCHANGED <<rsTable, rsHw, rsVif>>
  BY <1>2, <1>3, <1>4, <1>8, Zenon
<1> QED
  BY <1>1, <1>5, <1>6, <1>7, <1>8, Zenon DEF RsNextStep

\* What a body does to the keys that count
LEMMA KeysInBody ==
  ASSUME RsTypeOK, RsLocks, NEW c \in RsCallbacks, NEW w, RsEnter(c, w)
  PROVE  /\ rsOp' = rsOp
         /\ \A x : RsDone("key", x)' <=> IF c = "key" THEN x = w ELSE RsDone("key", x)
         /\ \A t : RsKeyOf(t)' = IF c = "key" /\ w = "pair" /\ rsOp["key"].arg = t
                                 THEN rsOp["key"].key ELSE RsKeyOf(t)
         /\ \A i : RsGroupOf(i)' = IF c = "key" /\ w = "group" /\ rsOp["key"].arg = i
                                   THEN rsOp["key"].key ELSE RsGroupOf(i)
<1>1. /\ rsPc[c] = "enter" /\ rsOp[c].what = w /\ rsPc' = [rsPc EXCEPT ![c] = "write"]
      /\ UNCHANGED <<rsOp, rsKeys, rsGroup>>
  BY EnterShape, Zenon
<1>2. "key" \in RsCallbacks /\ "key" \in DOMAIN rsPc
  BY DEF RsCallbacks, RsTypeOK
<1>3. rsOp' = rsOp /\ rsKeys' = rsKeys /\ rsGroup' = rsGroup
  BY <1>1, Zenon
<1>4. CASE c = "key"
  <2>1. rsPc'["key"] = "write" /\ rsPc["key"] = "enter"
    BY <1>1, <1>2, <1>4, Zenon
  <2>2. \A x : ~RsDone("key", x)
    BY <2>1 DEF RsDone
  <2>3. \A x : RsDone("key", x)' <=> x = w
    BY <1>1, <1>3, <1>4, <2>1, Zenon DEF RsDone
  <2>4. \A t : RsKeyOf(t)' = IF w = "pair" /\ rsOp["key"].arg = t THEN rsOp["key"].key ELSE RsKeyOf(t)
    BY <1>3, <2>2, <2>3, Zenon DEF RsKeyOf
  <2>5. \A i : RsGroupOf(i)' = IF w = "group" /\ rsOp["key"].arg = i THEN rsOp["key"].key ELSE RsGroupOf(i)
    BY <1>3, <2>2, <2>3, Zenon DEF RsGroupOf
  <2> QED
    BY <1>3, <1>4, <2>3, <2>4, <2>5, Zenon
<1>5. CASE c # "key"
  <2>1. rsPc'["key"] = rsPc["key"]
    BY <1>1, <1>2, <1>5, Zenon
  <2>2. rsPc'["key"] \in {"write", "leave"} <=> rsPc["key"] \in {"write", "leave"}
    BY <2>1, Zenon
  <2> QED
    BY <1>1, <1>3, <1>5, <2>2, KeysFixed, Zenon
<1> QED
  BY <1>4, <1>5

LEMMA RsGoneStep ==
  ASSUME RsTypeOK, RsLocks, RsCalled, RsAsked, RsPresent, RsGone, RsNextStep
  PROVE  RsGone'
<1>0. "key" \in RsCallbacks /\ "sta" \in RsCallbacks /\ "conf" \in RsCallbacks
      /\ "sta" # "key" /\ "conf" # "key" /\ "pair" # "unpair" /\ "pair" # "ungroup" /\ "group" # "unpair"
      /\ "group" # "ungroup" /\ "ungroup" # "unpair"
  BY DEF RsCallbacks
<1>1. CASE ~RsBody
  <2>1. /\ \A w : RsDone("key", w)' => RsDone("key", w) /\ rsOp'["key"] = rsOp["key"]
        /\ UNCHANGED <<rsTable, rsHw, rsVif>>
    BY <1>1, KeysKept, Zenon
  <2>2. rsHw' = rsHw /\ rsVif' = rsVif
    BY <2>1, Zenon
  <2> QED
    BY <2>1, <2>2, Zenon DEF RsGone
<1>2. CASE RsStaAdd \/ RsStaRemove
  <2>1. PICK w, s : RsSeating(w, s)
    BY <1>2, StaPlans, Zenon
  <2>2. rsHw' \subseteq rsHw /\ rsVif' = rsVif /\ RsEnter("sta", w)
    BY <2>1, Zenon DEF RsSeating
  <2>3. rsOp' = rsOp /\ \A x : RsDone("key", x)' <=> RsDone("key", x)
    BY <1>0, <2>2, KeysInBody, ZenonT(60)
  <2> QED
    BY <2>2, <2>3, Zenon DEF RsGone
<1>3. CASE RsSetPairwise
  <2>1. RsEnter("key", "pair")
    BY <1>3, Zenon DEF RsSetPairwise
  <2>2. \A x : RsDone("key", x)' <=> x = "pair"
    BY <1>0, <2>1, KeysInBody, ZenonT(60)
  <2> QED
    BY <1>0, <2>2, Zenon DEF RsGone
<1>4. CASE RsSetGroup
  <2>1. RsEnter("key", "group")
    BY <1>4, Zenon DEF RsSetGroup
  <2>2. \A x : RsDone("key", x)' <=> x = "group"
    BY <1>0, <2>1, KeysInBody, ZenonT(60)
  <2> QED
    BY <1>0, <2>2, Zenon DEF RsGone
<1>5. CASE RsClearPairwise
  <2>1. RsEnter("key", "unpair") /\ rsHw' = rsHw \ {rsOp["key"].arg}
    BY <1>5, Zenon DEF RsClearPairwise
  <2>2. rsOp' = rsOp /\ \A x : RsDone("key", x)' <=> x = "unpair"
    BY <1>0, <2>1, KeysInBody, ZenonT(60)
  <2> QED
    BY <1>0, <2>1, <2>2, Zenon DEF RsGone
<1>6. CASE RsClearGroup
  <2>1. RsEnter("key", "ungroup") /\ rsVif' = [rsVif EXCEPT !.idx = RsNoGroupKey]
    BY <1>6, Zenon DEF RsClearGroup
  <2>2. \A x : RsDone("key", x)' <=> x = "ungroup"
    BY <1>0, <2>1, KeysInBody, ZenonT(60)
  <2>3. rsVif'.idx = 0
    BY <2>1 DEF RsTypeOK, RsNoGroupKey
  <2> QED
    BY <1>0, <2>2, <2>3, Zenon DEF RsGone
<1>7. CASE RsConfigure
  <2>1. RsEnter("conf", "conf") /\ rsHw' = rsHw /\ rsVif' = rsVif
    BY <1>7, Zenon DEF RsConfigure, rsDriver
  <2>2. rsOp' = rsOp /\ \A x : RsDone("key", x)' <=> RsDone("key", x)
    BY <1>0, <2>1, KeysInBody, ZenonT(60)
  <2> QED
    BY <2>1, <2>2, Zenon DEF RsGone
<1> QED
  BY <1>1, <1>2, <1>3, <1>4, <1>5, <1>6, <1>7, Zenon DEF RsBody

\* The cipher and the key of an entry
RsPairDue(chip, todo, s, k) ==
  RsDueIn(chip, todo, <<"pair", s>>, "val", RsCcmp) /\ RsDueIn(chip, todo, <<"pkey", s>>, "val", k)

LEMMA PairDueNow ==
  ASSUME RsPairs, NEW s \in RsSlotSet, NEW t, rsTable[s] = t, t \in rsHw
  PROVE  RsPairDue(rsChip, rsTodo, s, RsKeyOf(t))
BY Zenon DEF RsPairs, RsDue, RsPairDue

LEMMA PairLeft ==
  ASSUME RsTypeOK, RsLocks, RsPairs, NEW c \in RsCallbacks, NEW w, RsEnter(c, w), NEW p, RsPlan(c, p),
         NEW s \in RsSlotSet, NEW t, rsTable[s] = t, t \in rsHw, RsKeyOf(t)' = RsKeyOf(t),
         ~RsTouches(p, <<"pair", s>>, "val"), ~RsTouches(p, <<"pkey", s>>, "val")
  PROVE  RsPairDue(rsChip', rsTodo', s, RsKeyOf(t)')
<1>1. RsPairDue(rsChip, rsTodo, s, RsKeyOf(t)')
  BY PairDueNow, Zenon
<1> QED
  BY <1>1, DueLeft, Zenon DEF RsPairDue

LEMMA RsPairsStep ==
  ASSUME RsTypeOK, RsLocks, RsCalled, RsAsked, RsOneEach, RsPresent, RsGone, RsPairs, RsRecorded,
         RsNextStep
  PROVE  RsPairs'
<1>0. /\ "key" \in RsCallbacks /\ "sta" \in RsCallbacks /\ "conf" \in RsCallbacks
      /\ "sta" # "key" /\ "conf" # "key" /\ "pair" # "group" /\ "unpair" # "pair" /\ "ungroup" # "pair"
      /\ "pair" # "pkey" /\ "pair" # "wsid" /\ "pkey" # "wsid" /\ "gkey" # "pair" /\ "gkey" # "pkey"
      /\ "pkey" # "group" /\ "val" # "idx" /\ rsOp["key"].key \in Nat /\ RsNone \in Nat
      /\ RsNone \notin RsStations
  BY RsAssumption DEF RsCallbacks, RsTypeOK, RsNone
<1>00. \A a, b, x, y : <<a, x>> = <<b, y>> => a = b /\ x = y
  OBVIOUS
<1>1. ASSUME NEW s \in RsSlotSet, NEW t, t = rsTable'[s], t \in rsHw'
      PROVE  RsPairDue(rsChip', rsTodo', s, RsKeyOf(t)')
  <2>0. <<"pair", s>> \in RsRegs /\ <<"pkey", s>> \in RsRegs
    BY Registers, Zenon
  <2>1. CASE ~RsBody
    <3>1. /\ \A u \in rsHw : RsKeyOf(u)' = RsKeyOf(u)
          /\ UNCHANGED <<rsTable, rsHw, rsVif>>
      BY <2>1, KeysKept, Zenon
    <3>2. rsTable[s] = t /\ t \in rsHw
      BY <1>1, <3>1, Zenon
    <3>3. RsPairDue(rsChip, rsTodo, s, RsKeyOf(t)) /\ RsKeyOf(t)' = RsKeyOf(t)
      BY <3>1, <3>2, PairDueNow, Zenon
    <3>4. RsPairDue(rsChip, rsTodo, s, RsKeyOf(t)')
      BY <3>3, Zenon
    <3> QED
      BY <2>0, <2>1, <3>4, DueKept, Zenon DEF RsPairDue
  <2>2. CASE RsStaAdd \/ RsStaRemove
    <3>1. PICK w, p : RsSeating(w, p)
      BY <2>2, StaPlans, Zenon
    <3>2. /\ RsEnter("sta", w) /\ RsPlan("sta", p)
          /\ rsTable[s] = t /\ t \in rsHw
      BY <1>1, <3>1, Zenon DEF RsSeating
    <3>3. \A r, f : RsTouches(p, r, f) => \E u \in RsSlotSet : r = <<"wsid", u>>
      BY <3>1, Zenon DEF RsSeating
    <3>4. RsKeyOf(t)' = RsKeyOf(t)
      BY <1>0, <3>2, KeysInBody, ZenonT(60)
    <3>5. ~RsTouches(p, <<"pair", s>>, "val") /\ ~RsTouches(p, <<"pkey", s>>, "val")
      <4>1. \A u : <<"pair", s>> # <<"wsid", u>> /\ <<"pkey", s>> # <<"wsid", u>>
        OBVIOUS
      <4> QED
        BY <3>3, <4>1, Zenon
    <3> QED
      BY <1>0, <3>2, <3>4, <3>5, PairLeft, Zenon
  <2>3. CASE RsSetPairwise
    <3>1. PICK s0 \in RsSlotSet, t0 \in RsStations :
             /\ t0 = rsOp["key"].arg /\ rsTable[s0] = t0
             /\ RsEnter("key", "pair")
             /\ RsPlan("key", RsPairPlan(s0, rsOp["key"].key))
             /\ rsHw' = rsHw \cup {t0}
             /\ UNCHANGED <<rsTable, rsList, rsVif>>
      BY <2>3, SetPairwiseShape, Zenon DEF RsPairPlan
    <3> DEFINE p == RsPairPlan(s0, rsOp["key"].key)
    <3>2. rsTable[s] = t
      BY <1>1, <3>1, Zenon
    <3>3. RsKeyOf(t)' = IF t0 = t THEN rsOp["key"].key ELSE RsKeyOf(t)
      BY <1>0, <3>1, KeysInBody, ZenonT(60)
    <3>4. CASE s = s0
      <4>1. t = t0
        BY <3>1, <3>2, <3>4, Zenon
      <4>2. RsKeyOf(t)' = rsOp["key"].key
        BY <3>3, <4>1, Zenon
      <4>3. /\ RsTouches(p, <<"pair", s0>>, "val") /\ RsAllGive(p, <<"pair", s0>>, "val", RsCcmp)
            /\ RsTouches(p, <<"pkey", s0>>, "val") /\ RsAllGive(p, <<"pkey", s0>>, "val", rsOp["key"].key)
        BY <1>0, PairPlan, Zenon
      <4>4. RsPlan("key", p)
        BY <3>1, Zenon
      <4> HIDE DEF p
      <4>5. RsPairDue(rsChip', rsTodo', s0, rsOp["key"].key)
        BY <1>0, <3>1, <4>3, <4>4, DueSet, Zenon DEF RsPairDue
      <4> QED
        BY <3>4, <4>2, <4>5, Zenon
    <3>5. CASE s # s0
      <4>1. t # t0
        BY <1>0, <3>1, <3>2, <3>5, Zenon DEF RsOneEach
      <4>2. RsKeyOf(t)' = RsKeyOf(t) /\ t \in rsHw
        BY <1>1, <3>1, <3>3, <4>1, Zenon
      <4>3. \A r, f : RsTouches(p, r, f) => \/ r = <<"pair", s0>> \/ r = <<"pkey", s0>>
                                            \/ r = <<"group", 0>> /\ f = "idx"
        BY <1>0, PairPlanTouches, Zenon
      <4>4. RsPlan("key", p)
        BY <3>1, Zenon
      <4> HIDE DEF p
      <4>5. ~RsTouches(p, <<"pair", s>>, "val") /\ ~RsTouches(p, <<"pkey", s>>, "val")
        BY <1>0, <1>00, <3>5, <4>3, Zenon
      <4> QED
        BY <1>0, <3>1, <3>2, <4>2, <4>4, <4>5, PairLeft, Zenon
    <3> QED
      BY <3>4, <3>5
  <2>4. CASE RsSetGroup
    <3>1. PICK i \in RsGroupIdx :
             /\ RsEnter("key", "group")
             /\ RsPlan("key", RsGroupPlan(i, rsOp["key"].key))
             /\ UNCHANGED <<rsTable, rsList, rsHw>>
      BY <2>4, SetGroupShape, Zenon DEF RsGroupPlan
    <3> DEFINE p == RsGroupPlan(i, rsOp["key"].key)
    <3>2. rsTable[s] = t /\ t \in rsHw
      BY <1>1, <3>1, Zenon
    <3>3. \A r, f : RsTouches(p, r, f) => r = <<"group", 0>> \/ r = <<"gkey", i>>
      BY <1>0, GroupPlan, Zenon
    <3>4. RsKeyOf(t)' = RsKeyOf(t)
      BY <1>0, <3>1, KeysInBody, ZenonT(60)
    <3>5. RsPlan("key", p)
      BY <3>1, Zenon
    <3> HIDE DEF p
    <3>6. ~RsTouches(p, <<"pair", s>>, "val") /\ ~RsTouches(p, <<"pkey", s>>, "val")
      BY <1>0, <1>00, <3>3, Zenon
    <3> QED
      BY <1>0, <3>1, <3>2, <3>4, <3>5, <3>6, PairLeft, Zenon
  <2>5. CASE RsClearPairwise
    <3>1. PICK s0 \in RsSlotSet, t0 \in RsStations :
             /\ t0 = rsOp["key"].arg /\ rsTable[s0] = t0
             /\ RsEnter("key", "unpair")
             /\ \/ RsPlan("key", RsOneWrite(<<"pair", s0>>, RsNone))
                \/ RsPlan("key", <<>>)
             /\ rsHw' = rsHw \ {t0}
             /\ UNCHANGED <<rsTable, rsList, rsVif>>
      BY <2>5, ClearPairwiseShape, Zenon DEF RsOneWrite
    <3>2. rsTable[s] = t /\ t \in rsHw /\ t # t0
      BY <1>1, <3>1, Zenon
    <3>3. s # s0
      BY <3>1, <3>2, Zenon
    <3>4. RsKeyOf(t)' = RsKeyOf(t)
      BY <1>0, <3>1, KeysInBody, ZenonT(60)
    <3>5. <<"pair", s0>> \in RsRegs
      BY Registers, Zenon
    <3>6. PICK p : /\ RsPlan("key", p)
                   /\ \A r, f : RsTouches(p, r, f) => r = <<"pair", s0>>
      <4>1. CASE RsPlan("key", RsOneWrite(<<"pair", s0>>, RsNone))
        <5>1. \A r, f : RsTouches(RsOneWrite(<<"pair", s0>>, RsNone), r, f) => r = <<"pair", s0>>
          BY <1>0, <3>5, OneTouches, Zenon
        <5> QED
          BY <4>1, <5>1, Zenon
      <4>2. CASE RsPlan("key", <<>>)
        <5>1. \A r, f : ~RsTouches(<<>>, r, f)
          BY NothingTouches, Zenon
        <5> QED
          BY <4>2, <5>1, Zenon
      <4> QED
        BY <3>1, <4>1, <4>2, Zenon
    <3>7. ~RsTouches(p, <<"pair", s>>, "val") /\ ~RsTouches(p, <<"pkey", s>>, "val")
      BY <1>0, <1>00, <3>3, <3>6, Zenon
    <3> QED
      BY <1>0, <3>1, <3>2, <3>4, <3>6, <3>7, PairLeft, Zenon
  <2>6. CASE RsClearGroup
    <3>1. /\ RsEnter("key", "ungroup") /\ RsPlan("key", RsOneWrite(<<"group", 0>>, RsNone))
          /\ UNCHANGED <<rsTable, rsList, rsHw>>
      BY <2>6, Zenon DEF RsClearGroup, RsOneWrite
    <3>2. rsTable[s] = t /\ t \in rsHw
      BY <1>1, <3>1, Zenon
    <3>3. \A r, f : RsTouches(RsOneWrite(<<"group", 0>>, RsNone), r, f) => r = <<"group", 0>>
      BY <1>0, Registers, OneTouches, Zenon
    <3>4. RsKeyOf(t)' = RsKeyOf(t)
      BY <1>0, <3>1, KeysInBody, ZenonT(60)
    <3>5. /\ ~RsTouches(RsOneWrite(<<"group", 0>>, RsNone), <<"pair", s>>, "val")
          /\ ~RsTouches(RsOneWrite(<<"group", 0>>, RsNone), <<"pkey", s>>, "val")
      BY <1>0, <1>00, <3>3, Zenon
    <3> QED
      BY <1>0, <3>1, <3>2, <3>4, <3>5, PairLeft, Zenon
  <2>7. CASE RsConfigure
    <3>1. /\ RsEnter("conf", "conf") /\ RsPlan("conf", <<>>)
          /\ UNCHANGED <<rsTable, rsList, rsHw>>
      BY <2>7, Zenon DEF RsConfigure, rsDriver
    <3>2. rsTable[s] = t /\ t \in rsHw
      BY <1>1, <3>1, Zenon
    <3>3. \A r, f : ~RsTouches(<<>>, r, f)
      BY NothingTouches, Zenon
    <3>4. RsKeyOf(t)' = RsKeyOf(t)
      BY <1>0, <3>1, KeysInBody, ZenonT(60)
    <3> QED
      BY <1>0, <3>1, <3>2, <3>3, <3>4, PairLeft, Zenon
  <2> QED
    BY <2>1, <2>2, <2>3, <2>4, <2>5, <2>6, <2>7, Zenon DEF RsBody
<1>2. ASSUME NEW s \in RsSlotSet, rsTable'[s] \in rsHw'
      PROVE  /\ RsDue(<<"pair", s>>, "val", RsCcmp)'
             /\ RsDue(<<"pkey", s>>, "val", RsKeyOf(rsTable[s]))'
  <2>1. PICK t : t = rsTable'[s]
    OBVIOUS
  <2>2. RsPairDue(rsChip', rsTodo', s, RsKeyOf(t)')
    BY <1>1, <1>2, <2>1, Zenon
  <2>3. RsKeyOf(t)' = RsKeyOf(rsTable[s])'
    BY <2>1, Zenon DEF RsKeyOf
  <2> QED
    BY <2>2, <2>3, Zenon DEF RsPairDue, RsDue
<1> QED
  BY <1>2, Zenon DEF RsPairs

\* The group's cipher and key, and its index once an entry needs it
RsUsed == \E s \in RsSlotSet : rsTable[s] \in rsHw
RsGroupDue(chip, todo, i, k, used) ==
  /\ RsDueIn(chip, todo, <<"group", 0>>, "val", RsCcmp)
  /\ RsDueIn(chip, todo, <<"gkey", i>>, "val", k)
  /\ used => RsDueIn(chip, todo, <<"group", 0>>, "idx", i)

LEMMA GroupDueNow ==
  ASSUME RsGroups, NEW i, rsVif.idx = i, i > 0
  PROVE  rsVif.hw /\ RsGroupDue(rsChip, rsTodo, i, RsGroupOf(i), RsUsed)
BY Zenon DEF RsGroups, RsDue, RsGroupDue, RsUsed

LEMMA GroupLeft ==
  ASSUME RsTypeOK, RsLocks, RsGroups, NEW c \in RsCallbacks, NEW w, RsEnter(c, w),
         NEW p, RsPlan(c, p), NEW i, rsVif' = rsVif, rsVif.idx = i, i > 0,
         RsGroupOf(i)' = RsGroupOf(i), RsUsed' => RsUsed,
         \A f : ~RsTouches(p, <<"group", 0>>, f), ~RsTouches(p, <<"gkey", i>>, "val")
  PROVE  rsVif'.hw /\ RsGroupDue(rsChip', rsTodo', i, RsGroupOf(i)', RsUsed')
<1>1. rsVif.hw /\ RsGroupDue(rsChip, rsTodo, i, RsGroupOf(i)', RsUsed)
  BY GroupDueNow, Zenon
<1>2. rsVif'.hw
  BY <1>1, Zenon
<1>3. /\ RsDueIn(rsChip', rsTodo', <<"group", 0>>, "val", RsCcmp)
      /\ RsDueIn(rsChip', rsTodo', <<"gkey", i>>, "val", RsGroupOf(i)')
  BY <1>1, DueLeft, Zenon DEF RsGroupDue
<1>4. RsUsed' => RsDueIn(rsChip', rsTodo', <<"group", 0>>, "idx", i)
  BY <1>1, DueLeft, Zenon DEF RsGroupDue
<1> QED
  BY <1>2, <1>3, <1>4, Zenon DEF RsGroupDue

LEMMA RsGroupsStep ==
  ASSUME RsTypeOK, RsLocks, RsCalled, RsAsked, RsListed, RsPresent, RsGone, RsGroups, RsRecorded,
         RsNextStep
  PROVE  RsGroups'
<1>0. /\ "key" \in RsCallbacks /\ "sta" \in RsCallbacks /\ "conf" \in RsCallbacks
      /\ "sta" # "key" /\ "conf" # "key" /\ "pair" # "group" /\ "unpair" # "group"
      /\ "val" # "idx" /\ rsOp["key"].key \in Nat /\ RsNone \in Nat
      /\ "idx" \in {"idx", "val"} /\ "val" \in {"idx", "val"}
  BY DEF RsCallbacks, RsTypeOK, RsNone
<1>00. /\ \A i, u : <<"group", 0>> # <<"wsid", u>> /\ <<"gkey", i>> # <<"wsid", u>>
       /\ \A i, u : <<"group", 0>> # <<"pair", u>> /\ <<"gkey", i>> # <<"pair", u>>
       /\ \A i, u : <<"group", 0>> # <<"pkey", u>> /\ <<"gkey", i>> # <<"pkey", u>>
       /\ \A i : <<"gkey", i>> # <<"group", 0>>
  OBVIOUS
<1>1. ASSUME NEW i, i = rsVif'.idx, i > 0
      PROVE  rsVif'.hw /\ RsGroupDue(rsChip', rsTodo', i, RsGroupOf(i)', RsUsed')
  <2>1. CASE ~RsBody
    <3>1. /\ rsVif.idx > 0 => RsGroupOf(rsVif.idx)' = RsGroupOf(rsVif.idx)
          /\ UNCHANGED <<rsTable, rsHw, rsVif>>
      BY <2>1, KeysKept, Zenon
    <3>2. rsTable' = rsTable /\ rsHw' = rsHw /\ rsVif' = rsVif
      BY <3>1, Zenon
    <3>3. rsVif.idx = i
      BY <1>1, <3>2, Zenon
    <3>4. RsGroupOf(i)' = RsGroupOf(i)
      <4>1. RsGroupOf(rsVif.idx)' = RsGroupOf(rsVif.idx)
        BY <1>1, <3>1, <3>3, Zenon
      <4>2. RsGroupOf(rsVif.idx)' = RsGroupOf(i)'
        BY <1>1, Zenon DEF RsGroupOf
      <4> QED
        BY <3>3, <4>1, <4>2, Zenon
    <3>5. rsVif.hw /\ RsGroupDue(rsChip, rsTodo, i, RsGroupOf(i), RsUsed)
      BY <1>1, <3>3, GroupDueNow, Zenon
    <3>6. RsUsed' <=> RsUsed
      BY <3>2, Zenon DEF RsUsed
    <3>7. <<"group", 0>> \in RsRegs /\ <<"gkey", i>> \in RsRegs
      <4>1. \A x \in RsIndexes : x > 0 => x \in RsGroupIdx
        BY DEF RsIndexes
      <4>2. i \in RsGroupIdx
        BY <1>1, <3>3, <4>1, Zenon DEF RsTypeOK
      <4> QED
        BY <4>2, Registers, Zenon
    <3>8. RsGroupDue(rsChip, rsTodo, i, RsGroupOf(i)', RsUsed')
      BY <3>4, <3>5, <3>6, Zenon DEF RsGroupDue
    <3>9. /\ RsDueIn(rsChip', rsTodo', <<"group", 0>>, "val", RsCcmp)
          /\ RsDueIn(rsChip', rsTodo', <<"gkey", i>>, "val", RsGroupOf(i)')
      BY <1>0, <2>1, <3>7, <3>8, DueKept, Zenon DEF RsGroupDue
    <3>10. RsUsed' => RsDueIn(rsChip', rsTodo', <<"group", 0>>, "idx", i)
      BY <1>0, <2>1, <3>7, <3>8, DueKept, Zenon DEF RsGroupDue
    <3> QED
      BY <3>2, <3>5, <3>9, <3>10, Zenon DEF RsGroupDue
  <2>2. CASE RsStaAdd \/ RsStaRemove
    <3>1. PICK w, p : RsSeating(w, p)
      BY <2>2, StaPlans, Zenon
    <3>2. /\ RsEnter("sta", w) /\ RsPlan("sta", p) /\ rsVif' = rsVif /\ rsHw' \subseteq rsHw
          /\ \A r, f : RsTouches(p, r, f) => \E u \in RsSlotSet : r = <<"wsid", u>>
          /\ \A u \in RsSlotSet : rsTable'[u] \in rsHw' => rsTable'[u] = rsTable[u]
      BY <3>1, Zenon DEF RsSeating
    <3>3. rsVif.idx = i /\ RsGroupOf(i)' = RsGroupOf(i)
      BY <1>0, <1>1, <3>2, KeysInBody, ZenonT(60)
    <3>4. RsUsed' => RsUsed
      BY <3>2, Zenon DEF RsUsed
    <3>5. (\A f : ~RsTouches(p, <<"group", 0>>, f)) /\ ~RsTouches(p, <<"gkey", i>>, "val")
      BY <1>00, <3>2, Zenon
    <3> QED
      BY <1>0, <1>1, <3>2, <3>3, <3>4, <3>5, GroupLeft, Zenon
  <2>3. CASE RsSetPairwise
    <3>1. PICK s \in RsSlotSet, t \in RsStations :
             /\ RsEnter("key", "pair")
             /\ RsPlan("key", RsPairPlan(s, rsOp["key"].key))
             /\ UNCHANGED <<rsTable, rsList, rsVif>>
      BY <2>3, SetPairwiseShape, Zenon DEF RsPairPlan
    <3> DEFINE p == RsPairPlan(s, rsOp["key"].key)
    <3>2. rsVif' = rsVif /\ rsVif.idx = i
      BY <1>1, <3>1, Zenon
    <3>3. RsGroupOf(i)' = RsGroupOf(i)
      BY <1>0, <3>1, KeysInBody, ZenonT(60)
    <3>4. rsVif.hw /\ RsGroupDue(rsChip, rsTodo, i, RsGroupOf(i)', RsUsed)
      BY <1>1, <3>2, <3>3, GroupDueNow, Zenon
    <3>5. \A r, f : RsTouches(p, r, f) => \/ r = <<"pair", s>> \/ r = <<"pkey", s>>
                                          \/ r = <<"group", 0>> /\ f = "idx"
      BY <1>0, PairPlanTouches, Zenon
    <3>6. RsTouches(p, <<"group", 0>>, "idx") /\ RsAllGive(p, <<"group", 0>>, "idx", i)
      BY <1>0, <1>1, <3>2, <3>4, PairPlan, Zenon
    <3>7. RsPlan("key", p)
      BY <3>1, Zenon
    <3> HIDE DEF p
    <3>8. RsDueIn(rsChip', rsTodo', <<"group", 0>>, "idx", i)
      BY <1>0, <3>1, <3>6, <3>7, DueSet, Zenon
    <3>9. ~RsTouches(p, <<"group", 0>>, "val") /\ ~RsTouches(p, <<"gkey", i>>, "val")
      BY <1>0, <1>00, <3>5, Zenon
    <3>10. /\ RsDueIn(rsChip', rsTodo', <<"group", 0>>, "val", RsCcmp)
           /\ RsDueIn(rsChip', rsTodo', <<"gkey", i>>, "val", RsGroupOf(i)')
      BY <1>0, <3>1, <3>4, <3>7, <3>9, DueLeft, Zenon DEF RsGroupDue
    <3> QED
      BY <3>2, <3>4, <3>8, <3>10, Zenon DEF RsGroupDue
  <2>4. CASE RsSetGroup
    <3>1. PICK j \in RsGroupIdx :
             /\ j = rsOp["key"].arg
             /\ RsEnter("key", "group")
             /\ RsPlan("key", RsGroupPlan(j, rsOp["key"].key))
             /\ rsVif' = [hw |-> TRUE, idx |-> j]
             /\ UNCHANGED <<rsTable, rsList, rsHw>>
      BY <2>4, SetGroupShape, Zenon DEF RsGroupPlan
    <3> DEFINE p == RsGroupPlan(j, rsOp["key"].key)
    <3>2. rsVif'.hw /\ i = j
      BY <1>1, <3>1
    <3>3. RsGroupOf(i)' = rsOp["key"].key
      BY <1>0, <3>1, <3>2, KeysInBody, ZenonT(60)
    <3>4. RsUsed' => Len(rsList) > 0
      <4>1. ASSUME NEW s \in RsSlotSet, rsTable[s] \in rsHw PROVE Len(rsList) > 0
        <5>1. rsTable[s] \in RsStations
          BY <4>1, Zenon DEF RsTypeOK
        <5>2. rsTable[s] \in ToSet(rsList)
          BY <5>1, Zenon DEF RsListed, RsSeated
        <5> QED
          BY <5>2 DEF ToSet, RsTypeOK
      <4>2. rsTable' = rsTable /\ rsHw' = rsHw
        BY <3>1, Zenon
      <4> QED
        BY <4>1, <4>2, Zenon DEF RsUsed
    <3>5. /\ RsTouches(p, <<"group", 0>>, "val") /\ RsAllGive(p, <<"group", 0>>, "val", RsCcmp)
          /\ RsTouches(p, <<"gkey", j>>, "val") /\ RsAllGive(p, <<"gkey", j>>, "val", rsOp["key"].key)
          /\ Len(rsList) > 0 => RsTouches(p, <<"group", 0>>, "idx")
          /\ RsAllGive(p, <<"group", 0>>, "idx", j)
      BY <1>0, GroupPlan, Zenon
    <3>6. RsPlan("key", p)
      BY <3>1, Zenon
    <3> HIDE DEF p
    <3>7. /\ RsDueIn(rsChip', rsTodo', <<"group", 0>>, "val", RsCcmp)
          /\ RsDueIn(rsChip', rsTodo', <<"gkey", j>>, "val", rsOp["key"].key)
      BY <1>0, <3>1, <3>5, <3>6, DueSet, Zenon
    <3>8. RsUsed' => RsDueIn(rsChip', rsTodo', <<"group", 0>>, "idx", j)
      BY <1>0, <3>1, <3>4, <3>5, <3>6, DueSet, Zenon
    <3> QED
      BY <3>2, <3>3, <3>7, <3>8, Zenon DEF RsGroupDue
  <2>5. CASE RsClearPairwise
    <3>1. PICK s \in RsSlotSet, t \in RsStations :
             /\ RsEnter("key", "unpair")
             /\ \/ RsPlan("key", RsOneWrite(<<"pair", s>>, RsNone))
                \/ RsPlan("key", <<>>)
             /\ rsHw' = rsHw \ {t}
             /\ UNCHANGED <<rsTable, rsList, rsVif>>
      BY <2>5, ClearPairwiseShape, Zenon DEF RsOneWrite
    <3>2. rsVif' = rsVif /\ rsVif.idx = i /\ RsGroupOf(i)' = RsGroupOf(i)
      BY <1>0, <1>1, <3>1, KeysInBody, ZenonT(60)
    <3>3. RsUsed' => RsUsed
      BY <3>1, Zenon DEF RsUsed
    <3>4. <<"pair", s>> \in RsRegs
      BY Registers, Zenon
    <3>5. PICK p : /\ RsPlan("key", p)
                   /\ \A r, f : RsTouches(p, r, f) => r = <<"pair", s>>
      <4>1. CASE RsPlan("key", RsOneWrite(<<"pair", s>>, RsNone))
        <5>1. \A r, f : RsTouches(RsOneWrite(<<"pair", s>>, RsNone), r, f) => r = <<"pair", s>>
          BY <1>0, <3>4, OneTouches, Zenon
        <5> QED
          BY <4>1, <5>1, Zenon
      <4>2. CASE RsPlan("key", <<>>)
        <5>1. \A r, f : ~RsTouches(<<>>, r, f)
          BY NothingTouches, Zenon
        <5> QED
          BY <4>2, <5>1, Zenon
      <4> QED
        BY <3>1, <4>1, <4>2, Zenon
    <3>6. (\A f : ~RsTouches(p, <<"group", 0>>, f)) /\ ~RsTouches(p, <<"gkey", i>>, "val")
      BY <1>00, <3>5, Zenon
    <3> QED
      BY <1>0, <1>1, <3>1, <3>2, <3>3, <3>5, <3>6, GroupLeft, Zenon
  <2>6. CASE RsClearGroup
    <3>1. rsVif' = [rsVif EXCEPT !.idx = RsNoGroupKey]
      BY <2>6, Zenon DEF RsClearGroup
    <3>2. rsVif'.idx = 0
      BY <3>1 DEF RsTypeOK, RsNoGroupKey
    <3> QED
      BY <1>1, <3>2
  <2>7. CASE RsConfigure
    <3>1. /\ RsEnter("conf", "conf") /\ RsPlan("conf", <<>>)
          /\ rsTable' = rsTable /\ rsHw' = rsHw /\ rsVif' = rsVif
      BY <2>7, Zenon DEF RsConfigure, rsDriver
    <3>2. rsVif.idx = i /\ RsGroupOf(i)' = RsGroupOf(i)
      BY <1>0, <1>1, <3>1, KeysInBody, ZenonT(60)
    <3>3. RsUsed' => RsUsed
      BY <3>1, Zenon DEF RsUsed
    <3>4. \A r, f : ~RsTouches(<<>>, r, f)
      BY NothingTouches, Zenon
    <3> QED
      BY <1>0, <1>1, <3>1, <3>2, <3>3, <3>4, GroupLeft, Zenon
  <2> QED
    BY <2>1, <2>2, <2>3, <2>4, <2>5, <2>6, <2>7, Zenon DEF RsBody
<1>2. ASSUME rsVif'.idx > 0 PROVE RsGroups'
  <2>1. PICK i : i = rsVif'.idx
    OBVIOUS
  <2>2. rsVif'.hw /\ RsGroupDue(rsChip', rsTodo', i, RsGroupOf(i)', RsUsed')
    BY <1>1, <1>2, <2>1, Zenon
  <2>3. RsGroupOf(i)' = RsGroupOf(rsVif.idx)'
    BY <2>1, Zenon DEF RsGroupOf
  <2> QED
    BY <2>1, <2>2, <2>3, Zenon DEF RsGroups, RsGroupDue, RsDue, RsUsed
<1> QED
  BY <1>2, Zenon DEF RsGroups
-----------------------------------------------------------------------------
(* Together                                                                *)

LEMMA RsInvInit ==
  ASSUME RsInit
  PROVE  RsTypeOK /\ RsInv
<1>0. /\ RsNone \in Nat /\ RsNone \notin RsStations /\ RsBlank \in RsWords /\ RsBlank.val = RsNone
      /\ 0 \in 0 .. RsMaxOps /\ 0 \in 0 .. RsMaxRestarts /\ "idle" \notin {"write", "leave"}
      /\ "idle" # "write"
  BY RsAssumption DEF RsNone, RsBlank, RsWord, RsWords, RsIndexes
<1>1. /\ rsTable = [s \in RsSlotSet |-> RsNone] /\ rsList = <<>> /\ rsHw = {}
      /\ rsVif = [hw |-> FALSE, idx |-> 0]
      /\ rsChip = [r \in RsRegs |-> RsBlank] /\ rsCfg = [r \in RsRegs |-> RsUnset]
      /\ rsRecord = FALSE /\ rsMutex = "free"
      /\ rsPc = [c \in RsCallbacks |-> "idle"] /\ rsOp = [c \in RsCallbacks |-> RsNoOp]
      /\ rsTodo = [c \in RsCallbacks |-> <<>>]
      /\ rsReset = "idle" /\ rsFlag = FALSE
      /\ rsKnown = {} /\ rsKeys = [t \in RsStations |-> RsNone]
      /\ rsGroup = [i \in RsGroupIdx |-> RsNone]
      /\ rsOps = 0 /\ rsRestarts = 0 /\ rsOvertaken = FALSE /\ rsUnder = FALSE
  BY Zenon DEF RsInit
<1>2. /\ \A c \in RsCallbacks : rsPc[c] = "idle" /\ rsOp[c] = RsNoOp /\ rsTodo[c] = <<>>
      /\ \A s \in RsSlotSet : rsTable[s] = RsNone
      /\ \A r \in RsRegs : rsChip[r] = RsBlank /\ rsCfg[r] = RsUnset
      /\ "sta" \in RsCallbacks /\ "key" \in RsCallbacks
  <2>1. "sta" \in RsCallbacks /\ "key" \in RsCallbacks
    BY DEF RsCallbacks
  <2> QED
    BY <1>1, <2>1, Zenon
<1>3. RsTypeOK
  <2>1. RsNoOp \in [what : RsErrands, arg : Nat, key : Nat]
    BY <1>0 DEF RsNoOp, RsErrands
  <2>2. rsVif \in [hw : BOOLEAN, idx : RsIndexes]
    BY <1>1 DEF RsIndexes
  <2>3. /\ rsPc \in [RsCallbacks -> {"idle", "enter", "write", "leave"}]
        /\ rsOp \in [RsCallbacks -> [what : RsErrands, arg : Nat, key : Nat]]
        /\ rsTodo \in [RsCallbacks -> Seq(RsPuts)]
        /\ rsList \in Seq(RsStations)
    BY <1>1, <2>1
  <2>4. /\ rsTable \in [RsSlotSet -> RsStations \cup {RsNone}]
        /\ rsChip \in [RsRegs -> RsWords] /\ rsCfg \in [RsRegs -> RsWords \cup {RsUnset}]
        /\ rsKeys \in [RsStations -> Nat] /\ rsGroup \in [RsGroupIdx -> Nat]
    BY <1>0, <1>1
  <2>5. /\ rsHw \subseteq RsStations /\ rsKnown \subseteq RsStations
        /\ rsRecord \in BOOLEAN /\ rsMutex \in RsCallbacks \cup {"free", "reset"}
        /\ rsReset \in {"idle", "enter", "leave", "clear"} /\ rsFlag \in BOOLEAN
        /\ rsOps \in 0 .. RsMaxOps /\ rsRestarts \in 0 .. RsMaxRestarts
        /\ rsOvertaken \in BOOLEAN /\ rsUnder \in BOOLEAN
    BY <1>0, <1>1
  <2> QED
    BY <2>2, <2>3, <2>4, <2>5, Zenon DEF RsTypeOK
<1>4. RsLocks /\ RsCalled
  <2>1. RsNoOp.what = "none" /\ \A c \in RsCallbacks : c # "free" /\ c # "reset"
    BY DEF RsNoOp, RsCallbacks
  <2> QED
    BY <1>1, <1>2, <2>1 DEF RsLocks, RsCalled
<1>5. \A c \in RsCallbacks : \A w : ~RsDoing(c, w) /\ ~RsDone(c, w)
  BY <1>0, <1>2, Zenon DEF RsDoing, RsDone
<1>6. RsAsked /\ RsGone
  BY <1>2, <1>5, Zenon DEF RsAsked, RsGone, RsDoingKey
<1>7. \A t \in RsStations : ~RsSeated(t)
  BY <1>0, <1>2, Zenon DEF RsSeated
<1>8. RsOneEach /\ RsListed /\ RsPresent
  <2>1. ToSet(rsList) = {}
    BY <1>1 DEF ToSet
  <2>2. RsPresent
    BY <1>0, <1>1, <1>2, <1>7, Zenon DEF RsPresent
  <2> QED
    BY <1>2, <1>7, <2>1, <2>2, Zenon DEF RsOneEach, RsListed
<1>9. RsWsids
  <2>1. \A c \in RsCallbacks : 1 .. Len(rsTodo[c]) = {}
    BY <1>2
  <2>2. \A s \in RsSlotSet : rsChip[<<"wsid", s>>].val = rsTable[s]
    BY <1>0, <1>2, Registers, Zenon
  <2>3. \A s \in RsSlotSet : rsChip[<<"wsid", s>>]["val"] = rsTable[s]
    BY <2>2
  <2> QED
    BY <2>1, <2>3, Zenon DEF RsWsids, RsDue, RsDueIn
<1>10. RsPairs
  BY <1>1, Zenon DEF RsPairs
<1>11. RsGroups
  <2>1. ~(rsVif.idx > 0)
    BY <1>1
  <2> QED
    BY <2>1, Zenon DEF RsGroups
<1>12. RsRecorded
  BY <1>2, Zenon DEF RsRecorded
<1> QED
  BY <1>3, <1>4, <1>6, <1>8, <1>9, <1>10, <1>11, <1>12, Zenon DEF RsInv

LEMMA RsInvStep ==
  ASSUME RsTypeOK, RsInv, [RsNextStep]_rsVars
  PROVE  RsInv'
<1>1. CASE RsNextStep
  <2>1. RsLocks' /\ RsCalled' /\ RsAsked'
    BY <1>1, RsLocksStep, RsCalledStep, RsAskedStep, Zenon DEF RsInv
  <2>2. RsOneEach' /\ RsListed' /\ RsPresent'
    BY <1>1, RsSeatsStep, RsPresentStep, Zenon DEF RsInv
  <2>3. RsGone' /\ RsWsids'
    BY <1>1, RsGoneStep, RsWsidsStep, Zenon DEF RsInv
  <2>4. RsPairs' /\ RsGroups'
    BY <1>1, RsPairsStep, RsGroupsStep, Zenon DEF RsInv
  <2>5. RsRecorded'
    BY <1>1, RsRecordedStep, Zenon DEF RsInv
  <2> QED
    BY <2>1, <2>2, <2>3, <2>4, <2>5, Zenon DEF RsInv
<1>2. CASE UNCHANGED rsVars
  <2>1. /\ rsTable' = rsTable /\ rsList' = rsList /\ rsHw' = rsHw /\ rsVif' = rsVif
        /\ rsChip' = rsChip /\ rsCfg' = rsCfg /\ rsRecord' = rsRecord /\ rsMutex' = rsMutex
        /\ rsPc' = rsPc /\ rsOp' = rsOp /\ rsTodo' = rsTodo /\ rsReset' = rsReset
        /\ rsKnown' = rsKnown /\ rsKeys' = rsKeys /\ rsGroup' = rsGroup
        /\ rsRestarts' = rsRestarts /\ rsOvertaken' = rsOvertaken /\ rsUnder' = rsUnder
    BY <1>2, Zenon DEF rsVars, rsDriver, rsMac, rsHist
  <2>2. RsLocks' /\ RsCalled' /\ RsAsked'
    BY <2>1, Zenon DEF RsInv, RsLocks, RsCalled, RsAsked, RsDoing, RsDoingKey
  <2>3. RsOneEach' /\ RsListed' /\ RsPresent'
    BY <2>1, Zenon DEF RsInv, RsOneEach, RsListed, RsPresent, RsSeated
  <2>4. RsGone' /\ RsWsids'
    BY <2>1, Zenon DEF RsInv, RsGone, RsDone, RsWsids, RsDue, RsDueIn
  <2>5. RsPairs'
    <3>1. \A r, f, v : RsDueIn(rsChip', rsTodo', r, f, v) <=> RsDueIn(rsChip, rsTodo, r, f, v)
      BY <2>1, Zenon
    <3>2. \A s \in RsSlotSet : RsKeyOf(rsTable[s])' = RsKeyOf(rsTable[s])
      BY <2>1, Zenon DEF RsKeyOf, RsDone
    <3> QED
      BY <2>1, <3>1, <3>2, Zenon DEF RsInv, RsPairs, RsDue
  <2>6. RsGroups'
    <3>1. \A r, f, v : RsDueIn(rsChip', rsTodo', r, f, v) <=> RsDueIn(rsChip, rsTodo, r, f, v)
      BY <2>1, Zenon
    <3>2. RsGroupOf(rsVif.idx)' = RsGroupOf(rsVif.idx)
      BY <2>1, Zenon DEF RsGroupOf, RsDone
    <3> QED
      BY <2>1, <3>1, <3>2, Zenon DEF RsInv, RsGroups, RsDue
  <2>7. RsRecorded'
    BY <2>1, Zenon DEF RsInv, RsRecorded
  <2> QED
    BY <2>2, <2>3, <2>4, <2>5, <2>6, <2>7, Zenon DEF RsInv
<1> QED
  BY <1>1, <1>2

\* Once nobody writes, what is due is what the chip has.
LEMMA RsAgree ==
  ASSUME RsTypeOK, RsInv
  PROVE  RsChipAgrees
<1> SUFFICES ASSUME RsQuiet PROVE RsStationsAgree /\ RsKeysAgree
  BY Zenon DEF RsChipAgrees
<1>0. /\ "key" \in RsCallbacks /\ "sta" \in RsCallbacks /\ "idle" \notin {"write", "leave"}
      /\ "idle" # "write" /\ RsNone \notin RsStations
  BY RsAssumption DEF RsCallbacks, RsNone
<1>1. \A c \in RsCallbacks : rsPc[c] = "idle"
  BY Zenon DEF RsQuiet
<1>2. \A c \in RsCallbacks : rsTodo[c] = <<>>
  BY <1>0, <1>1, Zenon DEF RsInv, RsLocks
<1>3. \A c \in RsCallbacks : 1 .. Len(rsTodo[c]) = {}
  BY <1>2
<1>4. \A r, f, v : RsDue(r, f, v) => rsChip[r][f] = v
  BY <1>3, Zenon DEF RsDue, RsDueIn
<1>5. \A w : ~RsDone("key", w)
  BY <1>0, <1>1, Zenon DEF RsDone
<1>6. (\A t : RsKeyOf(t) = rsKeys[t]) /\ (\A i : RsGroupOf(i) = rsGroup[i])
  BY <1>5, Zenon DEF RsKeyOf, RsGroupOf
<1>7. \A t \in RsStations : RsSeated(t) <=> t \in rsKnown
  BY <1>0, <1>1, Zenon DEF RsInv, RsPresent
<1>8. RsStationsAgree
  <2>1. \A t \in rsKnown : \E s \in RsSlotSet : rsTable[s] = t
    <3>1. rsKnown \subseteq RsStations
      BY Zenon DEF RsTypeOK
    <3> QED
      BY <1>7, <3>1, Zenon DEF RsSeated
  <2>2. ASSUME NEW s \in RsSlotSet
        PROVE  /\ rsTable[s] \in rsKnown \cup {RsNone}
               /\ rsChip[<<"wsid", s>>].val = rsTable[s]
               /\ \A u \in RsSlotSet \ {s} : rsTable[u] = rsTable[s] => rsTable[u] = RsNone
    <3>1. rsTable[s] \in RsStations \cup {RsNone}
      BY Zenon DEF RsTypeOK
    <3>2. rsTable[s] \in RsStations => rsTable[s] \in rsKnown
      BY <1>7, Zenon DEF RsSeated
    <3>3. rsChip[<<"wsid", s>>]["val"] = rsTable[s]
      BY <1>4, Zenon DEF RsInv, RsWsids
    <3>4. rsChip[<<"wsid", s>>].val = rsTable[s]
      BY <3>3
    <3>5. \A u \in RsSlotSet \ {s} : rsTable[u] = rsTable[s] => rsTable[u] = RsNone
      BY Zenon DEF RsInv, RsOneEach
    <3> QED
      BY <3>1, <3>2, <3>4, <3>5, Zenon
  <2> QED
    BY <2>1, <2>2, Zenon DEF RsStationsAgree
<1>9. RsKeysAgree
  <2>1. ASSUME NEW s \in RsSlotSet, rsTable[s] \in rsHw
        PROVE  /\ rsChip[<<"pair", s>>].val = RsCcmp
               /\ rsChip[<<"pkey", s>>].val = rsKeys[rsTable[s]]
    <3>1. /\ rsChip[<<"pair", s>>]["val"] = RsCcmp
          /\ rsChip[<<"pkey", s>>]["val"] = rsKeys[rsTable[s]]
      BY <1>4, <1>6, <2>1, Zenon DEF RsInv, RsPairs
    <3> QED
      BY <3>1
  <2>2. ASSUME NEW s \in RsSlotSet, rsTable[s] \in rsHw, rsVif.idx > 0
        PROVE  /\ rsChip[<<"group", 0>>] = RsWord(rsVif.idx, RsCcmp)
               /\ rsChip[<<"gkey", rsVif.idx>>].val = rsGroup[rsVif.idx]
    <3>1. /\ rsChip[<<"group", 0>>]["val"] = RsCcmp
          /\ rsChip[<<"group", 0>>]["idx"] = rsVif.idx
          /\ rsChip[<<"gkey", rsVif.idx>>]["val"] = rsGroup[rsVif.idx]
      BY <1>4, <1>6, <2>2, Zenon DEF RsInv, RsGroups
    <3>2. rsChip[<<"group", 0>>] \in RsWords
      BY Registers, Zenon DEF RsTypeOK
    <3>3. rsChip[<<"group", 0>>] = RsWord(rsVif.idx, RsCcmp)
      BY <3>1, <3>2 DEF RsWords, RsWord
    <3> QED
      BY <3>1, <3>3
  <2> QED
    BY <2>1, <2>2, Zenon DEF RsKeysAgree
<1> QED
  BY <1>8, <1>9
-----------------------------------------------------------------------------
\* The driver's tables, the chip's registers and the record of them keep their
\* types, whatever the callbacks, their order and the restarts.
THEOREM RsTypesHold == RsSpec => []RsTypeOK
<1>1. RsInit => RsTypeOK /\ RsInv
  BY RsInvInit
<1>2. RsTypeOK /\ RsInv /\ [RsNextStep]_rsVars => (RsTypeOK /\ RsInv)'
  BY RsTypeStep, RsInvStep
<1> QED
  BY <1>1, <1>2, PTL DEF RsSpec

\* Between the calls the chip has the stations and the keys that mac80211 set
\* last, after a restart too, for any number of entries, stations and calls.
THEOREM ChipAgreesAfterRestart == RsSpec => []RsChipAgrees
<1>1. RsInit => RsTypeOK /\ RsInv
  BY RsInvInit
<1>2. RsTypeOK /\ RsInv /\ [RsNextStep]_rsVars => (RsTypeOK /\ RsInv)'
  BY RsTypeStep, RsInvStep
<1>3. RsTypeOK /\ RsInv => RsChipAgrees
  BY RsAgree
<1> QED
  BY <1>1, <1>2, <1>3, PTL DEF RsSpec
=============================================================================
