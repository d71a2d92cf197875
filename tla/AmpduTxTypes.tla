---------------------------- MODULE AmpduTxTypes ----------------------------
(***************************************************************************)
(* Type correctness of AmpduTx for every number of MPDUs, every window     *)
(* size, every bound and every set of faults, and what its operators       *)
(* return.                                                                 *)
(***************************************************************************)
EXTENDS AmpduTx, FiniteLemmas
-----------------------------------------------------------------------------
(* Data.                                                                   *)

LEMMA SnTypes ==
  ASSUME NEW f \in Frames
  PROVE  SnOf(f) \in 0 .. MaxSsn - 1 /\ SlotOf(f) \in Slots
<1>1. f \in Int /\ FirstSsn \in Int /\ MaxSsn \in Nat \ {0} /\ W \in Nat \ {0}
  BY SizesAssumption DEF Frames
<1>2. SnOf(f) \in 0 .. MaxSsn - 1
  BY <1>1 DEF SnOf
<1> QED
  BY <1>1, <1>2 DEF SlotOf, Slots

LEMMA FirstType ==
  ASSUME NEW S \in SUBSET Index, S # {}
  PROVE  First(S) \in S
<1>1. S \in SUBSET (0 .. MaxSlots) /\ MaxSlots \in Nat
  BY SizesAssumption DEF Index
<1>2. \E i \in S : \A j \in S : i <= j
  BY <1>1, LeastNumber
<1> QED
  BY <1>2 DEF First

LEMMA SlotAtType ==
  ASSUME head \in Nat, NEW k \in 0 .. W - 1
  PROVE  SlotAt(k) \in Slots /\ Offset(SlotAt(k)) = k
  BY SizesAssumption DEF SlotAt, Offset, Slots, HeadSlot

\* Flatten of a queue of aggregates is a sequence of MPDUs.  A table for the
\* first n aggregates extends to one for the next.
Table(q, n, G) ==
  /\ G \in [0 .. n -> Seq(Frames)]
  /\ \A i \in 0 .. n : G[i] = IF i = 0 THEN <<>> ELSE G[i - 1] \o q[i]

LEMMA TableZero ==
  ASSUME NEW q PROVE \E G : Table(q, 0, G)
<1> DEFINE G == [i \in 0 .. 0 |-> <<>>]
<1>1. <<>> \in Seq(Frames)
  BY EmptySeq
<1>2. G \in [0 .. 0 -> Seq(Frames)]
  BY <1>1
<1>3. \A i \in 0 .. 0 : G[i] = IF i = 0 THEN <<>> ELSE G[i - 1] \o q[i]
  OBVIOUS
<1> QED
  BY <1>2, <1>3 DEF Table

LEMMA TableNext ==
  ASSUME NEW q \in Seq(Seq(Frames)), NEW n \in 1 .. Len(q), NEW G, Table(q, n - 1, G)
  PROVE  \E H : Table(q, n, H)
<1>1. q[n] \in Seq(Frames) /\ Len(q) \in Nat
  BY ElementOfSeq, LenProperties
<1>2. /\ n \in Nat /\ n - 1 \in 0 .. n - 1 /\ n # 0
      /\ \A i \in 0 .. n : i # n => i \in 0 .. n - 1 /\ (i # 0 => i - 1 \in 0 .. n - 1)
  BY <1>1
<1>3. G[n - 1] \in Seq(Frames)
  BY <1>2 DEF Table
<1>4. G[n - 1] \o q[n] \in Seq(Frames)
  BY <1>1, <1>3, ConcatProperties
<1> DEFINE H == [i \in 0 .. n |-> IF i = n THEN G[n - 1] \o q[n] ELSE G[i]]
<1>5. H \in [0 .. n -> Seq(Frames)]
  <2>1. ASSUME NEW i \in 0 .. n PROVE H[i] \in Seq(Frames)
    BY <1>2, <1>4 DEF Table
  <2> QED
    BY <2>1
<1>6. /\ H[n] = G[n - 1] \o q[n]
      /\ \A i \in 0 .. n - 1 : H[i] = G[i]
  <2>1. n \in 0 .. n /\ \A i \in 0 .. n - 1 : i \in 0 .. n /\ i # n
    BY <1>2
  <2>2. \A i \in 0 .. n : H[i] = IF i = n THEN G[n - 1] \o q[n] ELSE G[i]
    OBVIOUS
  <2> QED
    BY <2>1, <2>2
<1> HIDE DEF H
<1>7. ASSUME NEW i \in 0 .. n PROVE H[i] = IF i = 0 THEN <<>> ELSE H[i - 1] \o q[i]
  <2>1. CASE i = n
    BY <1>2, <1>6, <2>1
  <2>2. CASE i # n
    <3>1. G[i] = IF i = 0 THEN <<>> ELSE G[i - 1] \o q[i]
      BY <1>2, <2>2 DEF Table
    <3>2. H[i] = G[i] /\ (i # 0 => H[i - 1] = G[i - 1])
      BY <1>2, <1>6, <2>2
    <3> QED
      BY <3>1, <3>2
  <2> QED
    BY <2>1, <2>2
<1> QED
  BY <1>5, <1>7 DEF Table

LEMMA HasTable ==
  ASSUME NEW q \in Seq(Seq(Frames))
  PROVE  \E G : Table(q, Len(q), G)
<1> DEFINE D == 0 .. Len(q)
           Bad == {n \in D : ~ \E G : Table(q, n, G)}
<1>1. Len(q) \in Nat
  BY LenProperties
<1>2. ASSUME NEW n \in D PROVE \E G : Table(q, n, G)
  <2> SUFFICES ASSUME Bad # {} PROVE FALSE
    OBVIOUS
  <2>0. Bad \in SUBSET D
    OBVIOUS
  <2> HIDE DEF Bad
  <2>1. PICK m : m \in Bad /\ \A k \in Bad : m <= k
    BY <1>1, <2>0, LeastNumber
  <2>2. m # 0
    BY <2>1, TableZero DEF Bad
  <2>3. m \in 1 .. Len(q) /\ m - 1 \in D /\ ~ (m <= m - 1)
    BY <1>1, <2>0, <2>1, <2>2
  <2>4. m - 1 \notin Bad
    BY <2>1, <2>3
  <2>5. PICK G : Table(q, m - 1, G)
    BY <2>3, <2>4 DEF Bad
  <2>6. \E H : Table(q, m, H)
    BY <2>3, <2>5, TableNext
  <2> QED
    BY <2>1, <2>6 DEF Bad
<1>3. Len(q) \in D
  BY <1>1
<1> QED
  BY <1>2, <1>3

LEMMA FlattenIsTable ==
  ASSUME NEW q \in Seq(Seq(Frames))
  PROVE  \E F : Table(q, Len(q), F) /\ Flatten(q) = F[Len(q)]
<1> DEFINE D == 0 .. Len(q)
           F[i \in D] == IF i = 0 THEN <<>> ELSE F[i - 1] \o q[i]
<1> HIDE DEF F
<1>1. PICK G : Table(q, Len(q), G)
  BY HasTable
<1>2. G = [i \in D |-> IF i = 0 THEN <<>> ELSE G[i - 1] \o q[i]]
  BY <1>1 DEF Table
<1>3. F = [i \in D |-> IF i = 0 THEN <<>> ELSE F[i - 1] \o q[i]]
  BY <1>2 DEF F
<1>4. Len(q) \in Nat
  BY LenProperties
<1>5. \A i \in D : F[i] = IF i = 0 THEN <<>> ELSE F[i - 1] \o q[i]
  BY <1>3
<1>6. \A i \in D : G[i] = IF i = 0 THEN <<>> ELSE G[i - 1] \o q[i]
  BY <1>1 DEF Table
<1> DEFINE Wrong == {n \in D : F[n] # G[n]}
<1>7. Wrong = {}
  <2> SUFFICES ASSUME Wrong # {} PROVE FALSE
    OBVIOUS
  <2>0. Wrong \in SUBSET D
    OBVIOUS
  <2> HIDE DEF Wrong
  <2>1. PICK m : m \in Wrong /\ \A k \in Wrong : m <= k
    BY <1>4, <2>0, LeastNumber
  <2>2. m \in D /\ 0 \in D /\ F[m] # G[m]
    BY <1>4, <2>0, <2>1 DEF Wrong
  <2>3. m # 0
    BY <1>5, <1>6, <2>2
  <2>4. m - 1 \in D /\ ~ (m <= m - 1)
    BY <1>4, <2>2, <2>3
  <2>5. F[m - 1] = G[m - 1]
    BY <2>1, <2>4 DEF Wrong
  <2> QED
    BY <1>5, <1>6, <2>2, <2>3, <2>5
<1>8. \A n \in D : F[n] = G[n]
  BY <1>7
<1>9. Flatten(q) = F[Len(q)]
  BY DEF Flatten, F
<1>10. Len(q) \in D
  BY <1>4
<1> QED
  BY <1>1, <1>8, <1>9, <1>10

LEMMA FlattenType ==
  ASSUME NEW q \in Seq(Seq(Frames))
  PROVE  Flatten(q) \in Seq(Frames)
<1>1. PICK F : Table(q, Len(q), F) /\ Flatten(q) = F[Len(q)]
  BY FlattenIsTable
<1>2. Len(q) \in 0 .. Len(q)
  BY LenProperties
<1> QED
  BY <1>1, <1>2 DEF Table

\* Where window slots and record entries are written.
LEMMA RecordTypes ==
  ASSUME TypeOK, NEW a \in Seq(Frames), a # <<>>, Record(a)
  PROVE  /\ win' \in [Slots -> Frames \cup {Null}]
         /\ st' \in [Frames -> Status]
         /\ head' \in (0 .. MaxSsn - 1) \cup {IllegalSn}
<1>1. Len(a) \in Nat /\ \A k \in 1 .. Len(a) : a[k] \in Frames
  BY ElementOfSeq, LenProperties
<1>2. ASSUME NEW i \in Slots PROVE win'[i] \in Frames \cup {Null}
  <2> DEFINE here == {k \in Indices(a) : SlotOf(a[k]) = i}
             pick == CHOOSE k \in here : \A j \in here : j <= k
  <2>1. win'[i] = IF here = {} THEN win[i] ELSE a[pick]
    BY DEF Record
  <2>2. CASE here = {}
    BY <2>1, <2>2 DEF TypeOK
  <2>3. CASE here # {}
    <3>1. here \in SUBSET (1 .. Len(a))
      BY DEF Indices
    <3>2. \E k \in here : \A j \in here : j <= k
      BY <1>1, <2>3, <3>1, GreatestIndex
    <3>3. pick \in here
      BY <3>2
    <3> HIDE DEF pick
    <3>4. a[pick] \in Frames
      BY <1>1, <3>1, <3>3
    <3> QED
      BY <2>1, <2>3, <3>4
  <2> QED
    BY <2>2, <2>3
<1>3. win' \in [Slots -> Frames \cup {Null}]
  <2>1. win' = [i \in Slots |-> win'[i]]
    BY DEF Record
  <2> QED
    BY <1>2, <2>1
<1>4. st' \in [Frames -> Status]
  BY DEF Record, TypeOK, Status
<1>5. a[1] \in Frames
  BY <1>1, EmptySeq
<1>6. head' \in (0 .. MaxSsn - 1) \cup {IllegalSn}
  BY <1>5, SnTypes DEF Record, TypeOK
<1> QED
  BY <1>3, <1>4, <1>6

LEMMA ReleaseTypes ==
  ASSUME TypeOK, NEW n \in 0 .. W, Leading(n)
  PROVE  /\ ReleasedSeq(n) \in Seq(Frames)
         /\ ReleaseFrames(n) => /\ win' \in [Slots -> Frames \cup {Null}]
                                /\ num' \in Int
                                /\ head' \in (0 .. MaxSsn - 1) \cup {IllegalSn}
                                /\ relq' \in Seq(Frames)
<1>1. n \in Int /\ MaxSsn \in Nat \ {0} /\ W \in Nat \ {0}
  BY SizesAssumption
<1>2. ReleasedSeq(n) \in Seq(Frames)
  <2>1. CASE head = IllegalSn
    <3>1. n = 0
      BY <2>1 DEF Leading
    <3>2. ReleasedSeq(n) = <<>>
      BY <3>1 DEF ReleasedSeq
    <3> QED
      BY <3>2, EmptySeq
  <2>2. CASE head # IllegalSn
    <3>1. head \in Nat
      BY <1>1, <2>2 DEF TypeOK
    <3>2. ASSUME NEW k \in 1 .. n PROVE win[SlotAt(k - 1)] \in Frames
      <4>1. k - 1 \in 0 .. n - 1 /\ k - 1 \in 0 .. W - 1
        BY <1>1
      <4>2. win[SlotAt(k - 1)] # Null
        BY <2>2, <4>1 DEF Leading, MayLeave
      <4>3. SlotAt(k - 1) \in Slots
        BY <3>1, <4>1, SlotAtType
      <4> QED
        BY <4>2, <4>3 DEF TypeOK
    <3>3. n \in Nat
      BY <1>1
    <3> QED
      BY <3>2, <3>3, IsASeq DEF ReleasedSeq
  <2> QED
    BY <2>1, <2>2
<1>3. ASSUME ReleaseFrames(n)
      PROVE  /\ win' \in [Slots -> Frames \cup {Null}]
             /\ num' \in Int
             /\ head' \in (0 .. MaxSsn - 1) \cup {IllegalSn}
  <2>1. win' \in [Slots -> Frames \cup {Null}]
    BY <1>3 DEF ReleaseFrames, TypeOK
  <2>2. num' \in Int
    BY <1>1, <1>3 DEF ReleaseFrames, TypeOK
  <2>3. CASE head = IllegalSn
    BY <1>3, <2>1, <2>2, <2>3 DEF ReleaseFrames, HeadAfter
  <2>4. CASE head # IllegalSn
    <3>1. head + n \in Int
      BY <1>1, <2>4 DEF TypeOK
    <3>2. (head + n) % MaxSsn \in 0 .. MaxSsn - 1
      BY <1>1, <3>1
    <3>3. head' \in {(head + n) % MaxSsn, IllegalSn}
      BY <1>3 DEF ReleaseFrames, HeadAfter
    <3> QED
      BY <2>1, <2>2, <3>2, <3>3
  <2> QED
    BY <2>3, <2>4
<1>4. ReleaseFrames(n) => relq' \in Seq(Frames)
  BY <1>2, ConcatProperties DEF ReleaseFrames, TypeOK
<1> QED
  BY <1>2, <1>3, <1>4

LEMMA OverwriteType ==
  ASSUME TypeOK, NEW S, Overwrite(S)
  PROVE  strays' \subseteq Strays
BY DEF Overwrite, TypeOK, Strays

LEMMA AcquireTypes ==
  ASSUME TypeOK, NEW a \in Seq(Frames), Acquire(a)
  PROVE  /\ Packet(a) \in Records
         /\ run' \in 0 .. MaxRun
         /\ st' \in [Frames -> Status]
         /\ slots' \in [Index -> Records]
         /\ strays' \subseteq Strays
<1>1. NewRun \in 0 .. MaxRun
  BY SizesAssumption DEF NewRun, TypeOK
<1>2. Packet(a) \in Records /\ Free \in Records
  BY <1>1, EmptySeq, SizesAssumption DEF Packet, Records, Free
<1>3. st' \in [Frames -> Status]
  BY DEF Acquire, TypeOK, Status
<1>4. slots' \in [Index -> Records]
  <2> DEFINE old  == {i \in Index : slots[i].run = NewRun}
             free == {i \in Index : slots[i].run \in {0, NewRun}}
  <2>1. slots' = [i \in Index |-> IF free # {} /\ i = First(free) THEN Packet(a)
                                  ELSE IF i \in old THEN Free ELSE slots[i]]
    BY DEF Acquire
  <2> HIDE DEF old, free
  <2> QED
    BY <1>2, <2>1 DEF TypeOK
<1>5. strays' \subseteq Strays
  BY OverwriteType, Zenon DEF Acquire
<1> QED
  BY <1>1, <1>2, <1>3, <1>4, <1>5 DEF Acquire

-----------------------------------------------------------------------------
(* Types.                                                                  *)

LEMMA TypeInit == Init => TypeOK
<1> SUFFICES ASSUME Init PROVE TypeOK
  OBVIOUS
<1>1. \A S : <<>> \in Seq(S)
  BY EmptySeq
<1>2. Free \in Records
  BY <1>1, SizesAssumption DEF Free, Records
<1>3. slots \in [Index -> Records]
  BY <1>2 DEF Init
<1>4. win \in [Slots -> Frames \cup {Null}] /\ st \in [Frames -> Status]
      /\ rc \in [Frames -> Nat]
  BY DEF Init, Status
<1>5. carry \in [Ctx -> Seq(Frames)] /\ mark \in [Ctx -> 0 .. MaxSlots]
  BY <1>1, SizesAssumption DEF Init
<1>6. pc \in [Ctx -> {"idle", "queue", "aggr", "close", "flush", "tflush",
                      "batch", "release", "collect", "tcollect", "retry",
                      "tretry", "report", "check", "trelease", "tend"}]
  BY DEF Init
<1>7. /\ next \in 1 .. NumFrames + 1 /\ last \in (0 .. MaxSsn - 1) \cup {NoSeq}
      /\ head \in (0 .. MaxSsn - 1) \cup {IllegalSn} /\ run \in 0 .. MaxRun
      /\ walk \in 0 .. W /\ base \in (0 .. MaxSsn - 1) \cup {IllegalSn}
      /\ esn \in Int /\ num \in Int /\ cnt \in Int /\ faults \in Nat
      /\ marked \in 0 .. W /\ strays \subseteq Strays
  BY SizesAssumption DEF Init
<1> QED
  BY <1>1, <1>3, <1>4, <1>5, <1>6, <1>7 DEF Init, TypeOK

\* What a fault, a jump, or a queue of early aggregates leaves.
Places == {"idle", "queue", "aggr", "close", "flush", "tflush", "batch",
           "release", "collect", "tcollect", "retry", "tretry", "report",
           "check", "trelease", "tend"}

\* The types in groups, so that a step has to say only what it changes.
SessionTypes ==
  /\ state \in {"STOP", "START", "OPERATION"}
  /\ mac \in {"idle", "mark", "txq", "retryq", "relq", "early"}
  /\ marked \in 0 .. W
  /\ next \in 1 .. NumFrames + 1 /\ last \in (0 .. MaxSsn - 1) \cup {NoSeq}
QueueTypes ==
  /\ txq \in Seq(Frames) /\ cur \in Seq(Frames) /\ early \in Seq(Seq(Frames))
  /\ esn \in Int /\ stopped \in BOOLEAN
WindowTypes ==
  /\ win \in [Slots -> Frames \cup {Null}] /\ num \in Int
  /\ head \in (0 .. MaxSsn - 1) \cup {IllegalSn}
  /\ st \in [Frames -> Status] /\ rc \in [Frames -> Nat]
  /\ retryq \in Seq(Frames) /\ relq \in Seq(Frames)
ChipTypes ==
  /\ cnt \in Int /\ dflag \in BOOLEAN
  /\ slots \in [Index -> Records] /\ run \in 0 .. MaxRun
  /\ hciq \in Seq(Records) /\ air \in Seq(Records)
  /\ faults \in Nat /\ rcq \in Seq(0 .. MaxRun)
CtxTypes ==
  /\ carry \in [Ctx -> Seq(Frames)] /\ mark \in [Ctx -> 0 .. MaxSlots]
  /\ post \in BOOLEAN /\ nobares \in BOOLEAN
  /\ pc \in [Ctx -> {"idle", "queue", "aggr", "close", "flush", "tflush",
                    "batch", "release", "collect", "tcollect", "retry",
                    "tretry", "report", "check", "trelease", "tend"}]
WalkTypes ==
  /\ walk \in 0 .. W /\ base \in (0 .. MaxSsn - 1) \cup {IllegalSn}
  /\ tcheck \in BOOLEAN /\ drop \in BOOLEAN /\ again \in BOOLEAN
  /\ hand \in Frames \cup {Null}
HistoryTypes ==
  /\ out \in Seq(Frames) /\ lost \subseteq Frames
  /\ strays \subseteq Strays

LEMMA FaultType ==
  ASSUME TypeOK, NEW k, Fault(k) PROVE faults' \in Nat
<1>1. faults' = faults + 1
  BY Zenon DEF Fault
<1> QED
  BY <1>1 DEF TypeOK

\* The two maps that mac80211's status is told from.
LEMMA StatusTypes ==
  ASSUME TypeOK PROVE st \in [Frames -> Status] /\ rc \in [Frames -> Nat]
  BY Zenon DEF TypeOK, Status

LEMMA GotoType ==
  ASSUME TypeOK, NEW t \in Ctx, NEW p \in Places, Goto(t, p)
  PROVE  pc' \in [Ctx -> Places]
  BY DEF TypeOK, Goto, Places

LEMMA QueueEarlyType ==
  ASSUME TypeOK, NEW a \in Seq(Frames), QueueEarly(a)
  PROVE  early' \in Seq(Seq(Frames)) /\ esn' \in Int /\ stopped' \in BOOLEAN
<1>1. early' \in Seq(Seq(Frames))
  BY AppendProperties DEF QueueEarly, TypeOK
<1>2. esn' \in Int
  BY LenProperties DEF QueueEarly, TypeOK
<1> QED
  BY <1>1, <1>2 DEF QueueEarly

LEMMA SeqFrames ==
  ASSUME NEW s \in Seq(Frames) PROVE Seq2Set(s) \subseteq Frames
BY ElementOfSeq DEF Seq2Set

\* What a queue of mac80211's stop gives back.
LEMMA HandBackType ==
  ASSUME TypeOK, NEW s \in Seq(Frames), HandBack(s)
  PROVE  out' \in Seq(Frames) /\ cnt' \in Int
<1>1. out' \in Seq(Frames)
  BY ConcatProperties DEF HandBack, TypeOK
<1>2. Len(s) \in Nat
  BY LenProperties
<1> QED
  BY <1>1, <1>2 DEF HandBack, TypeOK

LEMMA QueueHead ==
  ASSUME NEW S, NEW q \in Seq(S), q # <<>>
  PROVE  Head(q) \in S /\ <<Head(q)>> \in Seq(S) /\ Tail(q) \in Seq(S)
<1>1. Head(q) \in S /\ Tail(q) \in Seq(S)
  BY HeadTailProperties
<1> QED
  BY <1>1

MacPlaces == {"idle", "mark", "txq", "retryq", "relq", "early"}

LEMMA LeftType == ASSUME TypeOK PROVE Left \subseteq Frames
<1>1. Flatten(early) \in Seq(Frames)
  BY FlattenType DEF TypeOK
<1>2. /\ txq \in Seq(Frames) /\ cur \in Seq(Frames)
      /\ relq \in Seq(Frames) /\ retryq \in Seq(Frames)
  BY Zenon DEF TypeOK
<1>3. {win[i] : i \in Occupied} \subseteq Frames
  BY DEF TypeOK, Occupied
<1>4. /\ Seq2Set(txq) \subseteq Frames /\ Seq2Set(cur) \subseteq Frames
      /\ Seq2Set(relq) \subseteq Frames /\ Seq2Set(retryq) \subseteq Frames
      /\ Seq2Set(Flatten(early)) \subseteq Frames
  BY <1>1, <1>2, SeqFrames
<1> QED
  BY <1>3, <1>4, Zenon DEF Left, Held

LEMMA TypeMac ==
  ASSUME TypeOK, Mac PROVE TypeOK'
<1> USE DEF vars, session, history, queueVars, winVars, chip, chipVars, walkVars, ctxVars
<1>1. <<>> \in Seq(Frames) /\ <<>> \in Seq(Seq(Frames)) /\ 0 \in 0 .. W
  BY EmptySeq, SizesAssumption
<1>2. CASE TxStart
  <2>1. lost' \subseteq Frames
    <3>1. lost' = lost \cup (Left \ Seq2Set(out)) /\ lost \subseteq Frames
      BY <1>2, Zenon DEF TxStart, TypeOK
    <3>2. Left \subseteq Frames
      BY LeftType
    <3> QED
      BY <3>1, <3>2, Zenon
  <2>2. /\ state' = "START" /\ last' = NoSeq
        /\ txq' = <<>> /\ cur' = <<>> /\ early' = <<>> /\ esn' = 0
        /\ win' = [i \in Slots |-> Null] /\ num' = 0 /\ head' = IllegalSn
        /\ retryq' = <<>> /\ relq' = <<>>
    BY <1>2, Zenon DEF TxStart
  <2>3. UNCHANGED <<mac, marked, next, stopped, st, rc, cnt, dflag, chipVars,
                    ctxVars, out, strays>>
    BY <1>2, Zenon DEF TxStart
  <2> QED
    BY SMTT(120), <1>1, <2>1, <2>2, <2>3 DEF TypeOK
<1>3. CASE TxOperation
  BY SMTT(120), <1>3 DEF TxOperation, TypeOK
<1>4. CASE TxStop
  <2>1. faults' \in Nat
    BY <1>4, FaultType DEF TxStop
  <2>2. state' = "STOP" /\ mac' = "mark" /\ marked' = 0
    BY <1>4, Zenon DEF TxStop
  <2>3. UNCHANGED <<next, last, queueVars, winVars, cnt, dflag, chip, ctxVars,
                    history>>
    BY <1>4, Zenon DEF TxStop
  <2> QED
    BY SMTT(120), <1>1, <2>1, <2>2, <2>3 DEF TypeOK
<1>5. CASE StopMark
  <2> DEFINE f == win[marked]
  <2>1. /\ marked < W /\ marked' = marked + 1
        /\ st' = IF f # Null /\ GivenUp(f) THEN [st EXCEPT ![f] = "DROPPED"] ELSE st
        /\ rc' = IF f # Null THEN [rc EXCEPT ![f] = RetryMax] ELSE rc
    BY <1>5, Zenon DEF StopMark
  <2>2. marked' \in 0 .. W
    BY <2>1, SizesAssumption DEF TypeOK
  <2> HIDE DEF f
  <2>3. st' \in [Frames -> Status]
    BY <2>1, StatusTypes DEF Status
  <2>4. rc' \in [Frames -> Nat]
    BY <2>1, StatusTypes, SizesAssumption
  <2>5. UNCHANGED <<state, mac, next, last, queueVars, win, num, head, retryq,
                    relq, cnt, dflag, chipVars, ctxVars, history>>
    BY <1>5, Zenon DEF StopMark
  <2> QED
    BY SMTT(120), <2>2, <2>3, <2>4, <2>5 DEF TypeOK
<1>6. CASE StopRelease
  <2>1. /\ win' \in [Slots -> Frames \cup {Null}] /\ num' \in Int
        /\ head' \in (0 .. MaxSsn - 1) \cup {IllegalSn} /\ relq' \in Seq(Frames)
    BY <1>6, ReleaseTypes DEF StopRelease
  <2>2. mac' = "txq" /\ marked' = 0
    BY <1>6, Zenon DEF StopRelease
  <2>3. UNCHANGED <<state, next, last, queueVars, st, rc, retryq, cnt, dflag,
                    chipVars, ctxVars, history>>
    BY <1>6, Zenon DEF StopRelease
  <2> QED
    BY SMTT(120), <1>1, <2>1, <2>2, <2>3 DEF TypeOK
<1>7. CASE ClearTxq
  <2>1. txq # <<>> /\ txq' = Tail(txq) /\ HandBack(<<Head(txq)>>) /\ txq \in Seq(Frames)
    BY <1>7, Zenon DEF ClearTxq, Empty, TypeOK
  <2>2. txq' \in Seq(Frames) /\ out' \in Seq(Frames) /\ cnt' \in Int
    BY <2>1, QueueHead, HandBackType
  <2>3. UNCHANGED <<session, next, last, cur, early, esn, stopped, winVars, dflag,
                    chipVars, ctxVars, lost, strays>>
    BY <1>7, Zenon DEF ClearTxq
  <2> QED
    BY SMTT(120), <2>2, <2>3 DEF TypeOK
<1>8. CASE ClearRetryq
  <2>1. /\ retryq # <<>> /\ retryq' = Tail(retryq) /\ HandBack(<<Head(retryq)>>)
        /\ retryq \in Seq(Frames)
    BY <1>8, Zenon DEF ClearRetryq, Empty, TypeOK
  <2>2. retryq' \in Seq(Frames) /\ out' \in Seq(Frames) /\ cnt' \in Int
    BY <2>1, QueueHead, HandBackType
  <2>3. UNCHANGED <<session, next, last, queueVars, win, num, head, st, rc, relq,
                    dflag, chipVars, ctxVars, lost, strays>>
    BY <1>8, Zenon DEF ClearRetryq
  <2> QED
    BY SMTT(120), <2>2, <2>3 DEF TypeOK
<1>9. CASE ClearRelq
  <2>1. /\ relq # <<>> /\ relq' = Tail(relq) /\ HandBack(<<Head(relq)>>)
        /\ relq \in Seq(Frames)
    BY <1>9, Zenon DEF ClearRelq, Empty, TypeOK
  <2>2. relq' \in Seq(Frames) /\ out' \in Seq(Frames) /\ cnt' \in Int
    BY <2>1, QueueHead, HandBackType
  <2>3. UNCHANGED <<session, next, last, queueVars, win, num, head, st, rc,
                    retryq, dflag, chipVars, ctxVars, lost, strays>>
    BY <1>9, Zenon DEF ClearRelq
  <2> QED
    BY SMTT(120), <2>2, <2>3 DEF TypeOK
<1>10. CASE ClearEarly
  <2>1. /\ early # <<>> /\ early' = Tail(early) /\ HandBack(Head(early))
        /\ early \in Seq(Seq(Frames))
    BY <1>10, Zenon DEF ClearEarly, Empty, TypeOK
  <2>2. early' \in Seq(Seq(Frames)) /\ Head(early) \in Seq(Frames)
    BY <2>1, HeadTailProperties
  <2>3. out' \in Seq(Frames) /\ cnt' \in Int
    BY <2>1, <2>2, HandBackType
  <2>4. UNCHANGED <<session, next, last, txq, cur, esn, stopped, winVars, dflag,
                    chipVars, ctxVars, lost, strays>>
    BY <1>10, Zenon DEF ClearEarly
  <2> QED
    BY SMTT(120), <2>2, <2>3, <2>4 DEF TypeOK
<1>11. CASE ClearNext
  <2>1. mac' \in MacPlaces
    BY <1>11, Zenon DEF ClearNext, MacPlaces
  <2>2. UNCHANGED <<state, marked, next, last, queueVars, winVars, cnt, dflag,
                    chipVars, ctxVars, history>>
    BY <1>11, Zenon DEF ClearNext
  <2> QED
    BY SMTT(120), <2>1, <2>2 DEF TypeOK, MacPlaces
<1>12. CASE StopEnd
  <2>1. lost' \subseteq Frames
    <3>1. lost' = lost \cup Seq2Set(cur) /\ lost \subseteq Frames /\ cur \in Seq(Frames)
      BY <1>12, Zenon DEF StopEnd, TypeOK
    <3> QED
      BY <3>1, SeqFrames, Zenon
  <2>2. mac' = "idle" /\ cur' = <<>> /\ stopped' = FALSE
    BY <1>12, Zenon DEF StopEnd
  <2>3. UNCHANGED <<state, marked, next, last, txq, early, esn, winVars, cnt,
                    dflag, chipVars, ctxVars, out, strays>>
    BY <1>12, Zenon DEF StopEnd
  <2>21. SessionTypes'
    BY <1>1, <2>1, <2>2, <2>3 DEF TypeOK, SessionTypes
  <2>22. QueueTypes'
    BY <1>1, <2>1, <2>2, <2>3 DEF TypeOK, QueueTypes
  <2>23. WindowTypes'
    BY <1>1, <2>1, <2>2, <2>3 DEF TypeOK, WindowTypes
  <2>24. ChipTypes'
    BY <1>1, <2>1, <2>2, <2>3 DEF TypeOK, ChipTypes
  <2>25. CtxTypes'
    BY <1>1, <2>1, <2>2, <2>3 DEF TypeOK, CtxTypes
  <2>26. WalkTypes'
    BY <1>1, <2>1, <2>2, <2>3 DEF TypeOK, WalkTypes
  <2>27. HistoryTypes'
    BY <1>1, <2>1, <2>2, <2>3 DEF TypeOK, HistoryTypes
  <2> QED
    BY Zenon, <2>21, <2>22, <2>23, <2>24, <2>25, <2>26, <2>27 DEF TypeOK, SessionTypes, QueueTypes,
        WindowTypes, ChipTypes, CtxTypes, WalkTypes, HistoryTypes
<1> QED
  BY <1>2, <1>3, <1>4, <1>5, <1>6, <1>7, <1>8, <1>9, <1>10, <1>11, <1>12 DEF Mac

LEMMA TypeTxTask ==
  ASSUME TypeOK, NEW t \in Ctx,
         \/ TxBypass \/ TxCheck \/ TxRefused \/ TxQueue
         \/ Aggregate \/ AggregateNoMem \/ AggregateDone
         \/ AmpduFlush("tx", "idle") \/ AmpduFlush("rx", "tend") \/ CloseCurrent(t)
         \/ FlushSync(t) \/ FlushSend(t) \/ FlushDone(t)
  PROVE  TypeOK'
<1> USE DEF vars, session, history, queueVars, winVars, chip, chipVars, walkVars, ctxVars
<1>0. "tx" \in Ctx /\ "rx" \in Ctx /\ <<>> \in Seq(Frames)
  BY EmptySeq DEF Ctx
<1>1. CASE TxBypass
  <2>1. faults' \in Nat
    BY <1>1, FaultType DEF TxBypass
  <2>2. next' \in 1 .. NumFrames + 1
    BY <1>1, SizesAssumption DEF TxBypass, TypeOK, Frames
  <2>3. UNCHANGED <<session, last, queueVars, winVars, cnt, dflag, chip, ctxVars,
                    history>>
    BY <1>1, Zenon DEF TxBypass
  <2> QED
    BY SMTT(120), <2>1, <2>2, <2>3 DEF TypeOK
<1>2. CASE TxCheck
  <2>1. last' \in 0 .. MaxSsn - 1
    BY <1>2, SnTypes DEF TxCheck
  <2>2. pc' \in [Ctx -> Places]
    BY <1>0, <1>2, GotoType DEF TxCheck, Places
  <2>3. UNCHANGED <<session, next, queueVars, winVars, cnt, dflag, chipVars, carry,
                    mark, post, nobares, walkVars, history>>
    BY <1>2, Zenon DEF TxCheck
  <2>21. SessionTypes'
    BY <2>1, <2>2, <2>3 DEF TypeOK, SessionTypes, Places
  <2>22. QueueTypes'
    BY <2>1, <2>2, <2>3 DEF TypeOK, QueueTypes, Places
  <2>23. WindowTypes'
    BY <2>1, <2>2, <2>3 DEF TypeOK, WindowTypes, Places
  <2>24. ChipTypes'
    BY <2>1, <2>2, <2>3 DEF TypeOK, ChipTypes, Places
  <2>25. CtxTypes'
    BY <2>1, <2>2, <2>3 DEF TypeOK, CtxTypes, Places
  <2>26. WalkTypes'
    BY <2>1, <2>2, <2>3 DEF TypeOK, WalkTypes, Places
  <2>27. HistoryTypes'
    BY <2>1, <2>2, <2>3 DEF TypeOK, HistoryTypes, Places
  <2> QED
    BY Zenon, <2>21, <2>22, <2>23, <2>24, <2>25, <2>26, <2>27 DEF TypeOK, SessionTypes, QueueTypes,
        WindowTypes, ChipTypes, CtxTypes, WalkTypes, HistoryTypes
<1>3. CASE TxRefused
  <2>1. next' \in 1 .. NumFrames + 1
    BY <1>3, SizesAssumption DEF TxRefused, TypeOK, Frames
  <2>2. faults' \in Nat /\ dflag' \in BOOLEAN
    BY <1>3, FaultType DEF TxRefused, TypeOK, DirectAck
  <2>3. pc' \in [Ctx -> Places]
    BY <1>0, <1>3, GotoType DEF TxRefused, Places
  <2>4. UNCHANGED <<session, last, queueVars, winVars, cnt, chip, carry, mark, post,
                    nobares, walkVars, history>>
    BY <1>3, Zenon DEF TxRefused
  <2>21. SessionTypes'
    BY <2>1, <2>2, <2>3, <2>4 DEF TypeOK, SessionTypes, Places
  <2>22. QueueTypes'
    BY <2>1, <2>2, <2>3, <2>4 DEF TypeOK, QueueTypes, Places
  <2>23. WindowTypes'
    BY <2>1, <2>2, <2>3, <2>4 DEF TypeOK, WindowTypes, Places
  <2>24. ChipTypes'
    BY <2>1, <2>2, <2>3, <2>4 DEF TypeOK, ChipTypes, Places
  <2>25. CtxTypes'
    BY <2>1, <2>2, <2>3, <2>4 DEF TypeOK, CtxTypes, Places
  <2>26. WalkTypes'
    BY <2>1, <2>2, <2>3, <2>4 DEF TypeOK, WalkTypes, Places
  <2>27. HistoryTypes'
    BY <2>1, <2>2, <2>3, <2>4 DEF TypeOK, HistoryTypes, Places
  <2> QED
    BY Zenon, <2>21, <2>22, <2>23, <2>24, <2>25, <2>26, <2>27 DEF TypeOK, SessionTypes, QueueTypes,
        WindowTypes, ChipTypes, CtxTypes, WalkTypes, HistoryTypes
<1>11. CASE TxQueue
  <2>1. next \in Frames /\ next' \in 1 .. NumFrames + 1
    BY <1>11, SizesAssumption DEF TxQueue, TypeOK, Frames
  <2>2. strays' \subseteq Strays
    BY <1>11 DEF TxQueue, TypeOK, Strays
  <2>3. st' \in [Frames -> Status] /\ rc' \in [Frames -> Nat]
    BY <1>11 DEF TxQueue, TypeOK, Status
  <2>4. txq' \in Seq(Frames)
    BY <1>11, <2>1, AppendProperties DEF TxQueue, TypeOK
  <2>5. pc' \in [Ctx -> Places]
    BY <1>0, <1>11, GotoType DEF TxQueue, Places
  <2>6. cnt' \in Int /\ dflag' \in BOOLEAN
    BY <1>11 DEF TxQueue, TypeOK, DirectAck
  <2>7. UNCHANGED <<session, last, cur, early, esn, stopped, win, num, head,
                    retryq, relq, chipVars, carry, mark, post, nobares, walkVars,
                    out, lost>>
    BY <1>11, Zenon DEF TxQueue
  <2> QED
    BY SMTT(120), <2>1, <2>2, <2>3, <2>4, <2>5, <2>6, <2>7 DEF TypeOK, Places
<1>4. CASE Aggregate
  <2>1. PICK n \in 0 .. Len(txq) :
          LET a == cur \o SubSeq(txq, 1, n)
          IN  /\ txq' = SubSeq(txq, n + 1, Len(txq))
              /\ \/ QueueEarly(a) /\ cur' = <<>>
                 \/ cur' = a /\ UNCHANGED <<early, esn, stopped>>
    BY <1>4 DEF Aggregate
  <2> DEFINE a == cur \o SubSeq(txq, 1, n)
  <2>2. a \in Seq(Frames) /\ txq' \in Seq(Frames)
    BY <2>1, PartsOfSeq, ConcatProperties DEF TypeOK
  <2> HIDE DEF a
  <2>3. \/ QueueEarly(a) /\ cur' = <<>>
        \/ cur' = a /\ UNCHANGED <<early, esn, stopped>>
    BY <2>1 DEF a
  <2>4. /\ early' \in Seq(Seq(Frames)) /\ esn' \in Int /\ stopped' \in BOOLEAN
        /\ cur' \in Seq(Frames)
    BY <1>0, <2>2, <2>3, QueueEarlyType DEF TypeOK
  <2>5. pc' \in [Ctx -> Places]
    BY <1>0, <1>4, GotoType DEF Aggregate, Places
  <2>21. SessionTypes'
    BY <1>4, <2>2, <2>4, <2>5 DEF TypeOK, SessionTypes, Aggregate, Places
  <2>22. QueueTypes'
    BY <1>4, <2>2, <2>4, <2>5 DEF TypeOK, QueueTypes, Aggregate, Places
  <2>23. WindowTypes'
    BY <1>4, <2>2, <2>4, <2>5 DEF TypeOK, WindowTypes, Aggregate, Places
  <2>24. ChipTypes'
    BY <1>4, <2>2, <2>4, <2>5 DEF TypeOK, ChipTypes, Aggregate, Places
  <2>25. CtxTypes'
    BY <1>4, <2>2, <2>4, <2>5 DEF TypeOK, CtxTypes, Aggregate, Places
  <2>26. WalkTypes'
    BY <1>4, <2>2, <2>4, <2>5 DEF TypeOK, WalkTypes, Aggregate, Places
  <2>27. HistoryTypes'
    BY <1>4, <2>2, <2>4, <2>5 DEF TypeOK, HistoryTypes, Aggregate, Places
  <2> QED
    BY Zenon, <2>21, <2>22, <2>23, <2>24, <2>25, <2>26, <2>27 DEF TypeOK, SessionTypes, QueueTypes,
        WindowTypes, ChipTypes, CtxTypes, WalkTypes, HistoryTypes
<1>5. CASE AggregateNoMem
  <2>1. faults' \in Nat
    BY <1>5, FaultType DEF AggregateNoMem
  <2>2. pc' \in [Ctx -> Places]
    BY <1>0, <1>5, GotoType DEF AggregateNoMem, Places
  <2>3. UNCHANGED <<session, next, last, queueVars, winVars, cnt, dflag, chip,
                carry, mark, post, nobares, walkVars, history>>
    BY <1>5, Zenon DEF AggregateNoMem
  <2> QED
    BY SMTT(120), <2>1, <2>2, <2>3 DEF TypeOK, Places
<1>6. CASE AggregateDone
  <2>1. pc' \in [Ctx -> Places]
    BY <1>0, <1>6, GotoType DEF AggregateDone, Places
  <2>2. UNCHANGED <<session, next, last, queueVars, winVars, cnt, dflag, chipVars,
                carry, mark, post, nobares, walkVars, history>>
    BY <1>6, Zenon DEF AggregateDone
  <2> QED
    BY SMTT(120), <2>1, <2>2 DEF TypeOK, Places
<1>7. ASSUME NEW u \in Ctx, NEW from, AmpduFlush(u, from) PROVE TypeOK'
  <2>1. pc' \in [Ctx -> Places]
    BY <1>7, GotoType DEF AmpduFlush, Places
  <2>2. UNCHANGED <<session, next, last, queueVars, winVars, cnt, dflag, chipVars,
                    carry, mark, post, nobares, walkVars, history>>
    BY <1>7, Zenon DEF AmpduFlush
  <2> QED
    BY SMTT(120), <2>1, <2>2 DEF TypeOK, Places
<1>12. CASE CloseCurrent(t)
  <2>1. pc' \in [Ctx -> Places]
    BY <1>12, GotoType DEF CloseCurrent, Places
  <2>2. /\ early' \in Seq(Seq(Frames)) /\ esn' \in Int /\ stopped' \in BOOLEAN
        /\ cur' \in Seq(Frames)
    BY <1>0, <1>12, QueueEarlyType DEF CloseCurrent, TypeOK
  <2>3. UNCHANGED <<session, next, last, txq, winVars, cnt, dflag, chipVars,
                    carry, mark, post, nobares, walkVars, history>>
    BY <1>12, Zenon DEF CloseCurrent
  <2> QED
    BY SMTT(120), <2>1, <2>2, <2>3 DEF TypeOK, Places
<1>8. CASE FlushSync(t)
  <2> DEFINE a == Head(early)
  <2>1. a \in Seq(Frames) /\ early' \in Seq(Seq(Frames))
    BY <1>8, HeadTailProperties DEF FlushSync, Empty, TypeOK
  <2>2. Len(a) \in Nat
    BY <2>1, LenProperties
  <2> HIDE DEF a
  <2>3. /\ carry' = [carry EXCEPT ![t] = a] /\ esn' = esn - Len(a)
        /\ stopped' = IF Empty(a) THEN stopped ELSE StaysStopped(esn - Len(a))
        /\ IF Empty(a) \/ Skipped(a) THEN UNCHANGED <<win, num, st, head>>
           ELSE Record(a) /\ num' = num + Len(a)
    BY <1>8 DEF FlushSync, a
  <2>4. carry' \in [Ctx -> Seq(Frames)] /\ esn' \in Int
    BY <2>1, <2>2, <2>3 DEF TypeOK
  <2>5. stopped' \in BOOLEAN
    BY <2>3 DEF TypeOK, StaysStopped
  <2>6. /\ win' \in [Slots -> Frames \cup {Null}] /\ num' \in Int
        /\ st' \in [Frames -> Status] /\ head' \in (0 .. MaxSsn - 1) \cup {IllegalSn}
    <3>1. CASE Empty(a) \/ Skipped(a)
      BY <2>3, <3>1 DEF TypeOK
    <3>2. CASE ~ (Empty(a) \/ Skipped(a))
      <4>1. Record(a) /\ num' = num + Len(a) /\ a # <<>>
        BY <2>3, <3>2 DEF Empty
      <4>2. num' \in Int
        BY <2>2, <4>1 DEF TypeOK
      <4> QED
        BY <2>1, <4>1, <4>2, RecordTypes
    <3> QED
      BY <3>1, <3>2
  <2>21. SessionTypes'
    BY <1>8, <2>1, <2>4, <2>5, <2>6 DEF TypeOK, SessionTypes, FlushSync
  <2>22. QueueTypes'
    BY <1>8, <2>1, <2>4, <2>5, <2>6 DEF TypeOK, QueueTypes, FlushSync
  <2>23. WindowTypes'
    BY <1>8, <2>1, <2>4, <2>5, <2>6 DEF TypeOK, WindowTypes, FlushSync
  <2>24. ChipTypes'
    BY <1>8, <2>1, <2>4, <2>5, <2>6 DEF TypeOK, ChipTypes, FlushSync
  <2>25. CtxTypes'
    BY <1>8, <2>1, <2>4, <2>5, <2>6 DEF TypeOK, CtxTypes, FlushSync
  <2>26. WalkTypes'
    BY <1>8, <2>1, <2>4, <2>5, <2>6 DEF TypeOK, WalkTypes, FlushSync
  <2>27. HistoryTypes'
    BY <1>8, <2>1, <2>4, <2>5, <2>6 DEF TypeOK, HistoryTypes, FlushSync
  <2> QED
    BY Zenon, <2>21, <2>22, <2>23, <2>24, <2>25, <2>26, <2>27 DEF TypeOK, SessionTypes, QueueTypes,
        WindowTypes, ChipTypes, CtxTypes, WalkTypes, HistoryTypes
<1>9. CASE FlushSend(t)
  <2> DEFINE a == carry[t]
  <2>1. a \in Seq(Frames)
    BY DEF TypeOK
  <2>2. /\ Packet(a) \in Records /\ run' \in 0 .. MaxRun
        /\ st' \in [Frames -> Status] /\ slots' \in [Index -> Records]
        /\ strays' \subseteq Strays
    BY <1>9, <2>1, AcquireTypes DEF FlushSend
  <2>3. hciq' \in Seq(Records)
    BY <1>9, <2>2, AppendProperties DEF FlushSend, TypeOK
  <2>4. carry' \in [Ctx -> Seq(Frames)]
    BY <1>0, <1>9 DEF FlushSend, TypeOK
  <2>5. UNCHANGED <<session, next, last, queueVars, win, num, head, rc, retryq,
                relq, cnt, dflag, air, faults, rcq, pc, mark, post, nobares,
                walkVars, out, lost>>
    BY <1>9, Zenon DEF FlushSend
  <2> QED
    BY SMTT(120), <2>2, <2>3, <2>4, <2>5 DEF TypeOK
<1>10. CASE FlushDone(t)
  <2>1. AfterFlush(t) \in Places
    BY DEF AfterFlush, Places
  <2>2. pc' \in [Ctx -> Places]
    BY <1>10, <2>1, GotoType DEF FlushDone
  <2>3. UNCHANGED <<session, next, last, queueVars, winVars, cnt, dflag, chipVars,
                carry, mark, post, nobares, walkVars, history>>
    BY <1>10, Zenon DEF FlushDone
  <2> QED
    BY SMTT(120), <2>2, <2>3 DEF TypeOK, Places
<1> QED
  BY <1>0, <1>1, <1>2, <1>3, <1>4, <1>5, <1>6, <1>7, <1>8, <1>9, <1>10, <1>11, <1>12

LEMMA AirTypes ==
  ASSUME TypeOK, air # <<>>
  PROVE  /\ Head(air).run \in 0 .. MaxRun /\ Head(air).fr \in Seq(Frames)
         /\ Tail(air) \in Seq(Records)
<1>1. Head(air) \in Records /\ Tail(air) \in Seq(Records)
  BY HeadTailProperties DEF TypeOK
<1> QED
  BY <1>1 DEF Records

LEMMA TypeChip ==
  ASSUME TypeOK, Chip PROVE TypeOK'
<1> USE DEF vars, session, history, queueVars, winVars, chip, chipVars, walkVars, ctxVars
<1>0. "rx" \in Ctx /\ {"batch", "release"} \subseteq Places
  BY DEF Ctx, Places
<1>2. CASE RxBa
  <2>1. air' \in Seq(Records)
    BY <1>2, AirTypes DEF RxBa, Empty
  <2> DEFINE found == With(Head(air).run)
             known == state # "STOP" /\ found # {}
             sent  == IF known THEN SentIn(slots[First(found)].fr) ELSE {}
  <2>2. PICK acked \in SUBSET sent :
          /\ st' = [f \in Frames |-> IF f \in acked THEN "DONE"
                                     ELSE IF f \in sent THEN Retried(f) ELSE st[f]]
          /\ rc' = [f \in Frames |-> IF f \in sent \ acked THEN rc[f] + 1 ELSE rc[f]]
    BY <1>2, Zenon DEF RxBa
  <2>9. /\ mark' = [mark EXCEPT !["rx"] = IF known THEN First(found) ELSE 0]
        /\ Goto("rx", IF known THEN "release" ELSE "batch")
    BY <1>2, Zenon DEF RxBa
  <2>3. First(found) \in 0 .. MaxSlots \/ ~known
    <3>1. found \in SUBSET Index
      BY DEF With
    <3>2. CASE known
      <4>1. First(found) \in Index
        BY <3>1, <3>2, FirstType
      <4> QED
        BY <4>1, SizesAssumption DEF Index
    <3> QED
      BY <3>2
  <2> HIDE DEF known, found, sent
  <2>4. st' \in [Frames -> Status] /\ rc' \in [Frames -> Nat]
    <3>1. rc' \in [Frames -> Nat]
      BY <2>2, StatusTypes
    <3>2. \A f \in Frames : st'[f] \in Status
      BY <2>2, StatusTypes DEF Status, Retried
    <3>3. st' = [f \in Frames |-> st'[f]]
      BY <2>2
    <3> QED
      BY <3>1, <3>2, <3>3
  <2>5. mark' \in [Ctx -> 0 .. MaxSlots]
    <3>1. (IF known THEN First(found) ELSE 0) \in 0 .. MaxSlots
      BY <2>3, SizesAssumption
    <3> QED
      BY <2>9, <3>1 DEF TypeOK
  <2>6. pc' \in [Ctx -> Places]
    BY <1>0, <2>9, GotoType
  <2>7. post' = TRUE
    BY <1>2, Zenon DEF RxBa
  <2>8. UNCHANGED <<session, next, last, queueVars, win, num, head, retryq, relq,
                    cnt, dflag, slots, run, hciq, faults, rcq, carry, nobares,
                    walkVars, history>>
    BY <1>2, Zenon DEF RxBa
  <2> QED
    BY SMTT(120), <2>1, <2>4, <2>5, <2>6, <2>7, <2>8 DEF TypeOK, Places
<1>3. CASE RxNoBaEvent
  <2>1. air' \in Seq(Records)
    BY <1>3, AirTypes DEF RxNoBaEvent, Empty
  <2>2. slots' \in [Index -> Records]
    <3>1. Free \in Records
      BY EmptySeq, SizesAssumption DEF Free, Records
    <3>2. \A i \in Index : slots'[i] \in {Free, slots[i]}
      BY <1>3 DEF RxNoBaEvent
    <3>3. slots' = [i \in Index |-> slots'[i]]
      BY <1>3 DEF RxNoBaEvent
    <3> QED
      BY <3>1, <3>2, <3>3 DEF TypeOK
  <2> DEFINE hit == IF state = "OPERATION" THEN SentIn(Fr) ELSE {}
  <2>3. /\ st' = [f \in Frames |-> IF f \in hit THEN NoBaRetried(f) ELSE st[f]]
        /\ rc' = [f \in Frames |-> IF f \in hit /\ rc[f] < RetryMax
                                   THEN rc[f] + 1 ELSE rc[f]]
    BY <1>3 DEF RxNoBaEvent
  <2> HIDE DEF hit
  <2>4. st' \in [Frames -> Status] /\ rc' \in [Frames -> Nat]
    <3>1. st' \in [Frames -> Status]
      BY <2>3, StatusTypes DEF Status, NoBaRetried
    <3>2. rc' \in [Frames -> Nat]
      BY <2>3, StatusTypes
    <3> QED
      BY <3>1, <3>2
  <2>5. pc' \in [Ctx -> Places]
    BY <1>0, <1>3, GotoType DEF RxNoBaEvent
  <2>6. faults' \in Nat /\ post' = TRUE
    BY <1>3, FaultType, Zenon DEF RxNoBaEvent
  <2>7. UNCHANGED <<session, next, last, queueVars, win, num, head, retryq, relq,
                    cnt, dflag, run, hciq, rcq, carry, mark, nobares,
                    walkVars, history>>
    BY <1>3, Zenon DEF RxNoBaEvent
  <2> QED
    BY SMTT(120), <2>1, <2>2, <2>4, <2>5, <2>6, <2>7 DEF TypeOK, Places
<1>4. CASE RxRateRptNoBa
  <2>1. air' \in Seq(Records) /\ Head(air).run \in 0 .. MaxRun
    BY <1>4, AirTypes DEF RxRateRptNoBa, Empty
  <2>2. rcq' \in Seq(0 .. MaxRun)
    BY <1>4, <2>1, AppendProperties DEF RxRateRptNoBa, TypeOK
  <2>3. pc' \in [Ctx -> Places]
    BY <1>0, <1>4, GotoType DEF RxRateRptNoBa
  <2>4. faults' \in Nat /\ post' = TRUE /\ nobares' = TRUE
    BY <1>4, FaultType, Zenon DEF RxRateRptNoBa
  <2>5. UNCHANGED <<session, next, last, queueVars, winVars, cnt, dflag, slots,
                    run, hciq, carry, mark, walkVars, history>>
    BY <1>4, Zenon DEF RxRateRptNoBa
  <2> QED
    BY SMTT(120), <2>1, <2>2, <2>3, <2>4, <2>5 DEF TypeOK, Places
<1>5. CASE AirLost
  <2>1. air' \in Seq(Records)
    BY <1>5, AirTypes DEF AirLost, Empty
  <2>2. faults' \in Nat
    BY <1>5, FaultType DEF AirLost
  <2>3. UNCHANGED <<session, next, last, queueVars, winVars, cnt, dflag, slots,
                    run, hciq, rcq, ctxVars, history>>
    BY <1>5, Zenon DEF AirLost
  <2> QED
    BY SMTT(120), <2>1, <2>2, <2>3 DEF TypeOK
<1> QED
  BY <1>2, <1>3, <1>4, <1>5 DEF Chip

\* Release, whichever context runs it.
LEMMA TypeRelease ==
  ASSUME TypeOK, NEW t \in Ctx, NEW to \in Places, Release(t, to)
  PROVE  TypeOK'
<1> USE DEF vars, session, history, queueVars, winVars, chip, chipVars, walkVars, ctxVars
<1>1. PICK n \in 0 .. W : Leading(n) /\ ReleaseFrames(n)
  BY Zenon DEF Release
<1>2. /\ win' \in [Slots -> Frames \cup {Null}] /\ num' \in Int
      /\ head' \in (0 .. MaxSsn - 1) \cup {IllegalSn} /\ relq' \in Seq(Frames)
  BY <1>1, ReleaseTypes
<1>4. slots' \in [Index -> Records]
  <2>1. Free \in Records
    BY EmptySeq, SizesAssumption DEF Free, Records
  <2>2. slots' = IF mark[t] = 0 THEN slots ELSE [slots EXCEPT ![mark[t]] = Free]
    BY Zenon DEF Release
  <2> QED
    BY <2>1, <2>2 DEF TypeOK
<1>5. mark' \in [Ctx -> 0 .. MaxSlots]
  <2>1. mark' = [mark EXCEPT ![t] = 0]
    BY Zenon DEF Release
  <2> QED
    BY <2>1, SizesAssumption DEF TypeOK
<1>6. pc' \in [Ctx -> Places]
  BY GotoType, Zenon DEF Release
<1>7. UNCHANGED <<session, next, last, queueVars, st, rc, retryq, cnt, dflag, run,
                  hciq, air, faults, rcq, carry, post, nobares, walkVars, history>>
  BY Zenon DEF Release
<1>t1. SessionTypes'
  BY <1>2, <1>4, <1>5, <1>6, <1>7 DEF TypeOK, SessionTypes, Places
<1>t2. QueueTypes'
  BY <1>2, <1>4, <1>5, <1>6, <1>7 DEF TypeOK, QueueTypes, Places
<1>t3. WindowTypes'
  BY <1>2, <1>4, <1>5, <1>6, <1>7 DEF TypeOK, WindowTypes, Places
<1>t4. ChipTypes'
  BY <1>2, <1>4, <1>5, <1>6, <1>7 DEF TypeOK, ChipTypes, Places
<1>t5. CtxTypes'
  BY <1>2, <1>4, <1>5, <1>6, <1>7 DEF TypeOK, CtxTypes, Places
<1>t6. WalkTypes'
  BY <1>2, <1>4, <1>5, <1>6, <1>7 DEF TypeOK, WalkTypes, Places
<1>t7. HistoryTypes'
  BY <1>2, <1>4, <1>5, <1>6, <1>7 DEF TypeOK, HistoryTypes, Places
<1> QED
  BY Zenon, <1>t1, <1>t2, <1>t3, <1>t4, <1>t5, <1>t6, <1>t7 DEF TypeOK, SessionTypes, QueueTypes,
        WindowTypes, ChipTypes, CtxTypes, WalkTypes, HistoryTypes

LEMMA TypeRcWork ==
  ASSUME TypeOK, RcWork PROVE TypeOK'
<1> USE DEF vars, session, history, queueVars, winVars, chip, chipVars, walkVars, ctxVars
<1>0. "rc" \in Ctx /\ {"idle", "release"} \subseteq Places
  BY DEF Ctx, Places
<1>1. CASE ReleaseNoBa
  BY <1>0, <1>1, TypeRelease DEF ReleaseNoBa
<1>2. CASE RcNoBa
  <2> DEFINE found == With(Head(rcq))
             hit   == IF found = {} THEN {} ELSE SentIn(slots[First(found)].fr)
  <2>1. /\ rcq # <<>> /\ rcq' = Tail(rcq)
        /\ st' = [f \in Frames |-> IF f \in hit THEN NoBaRetried(f) ELSE st[f]]
        /\ rc' = [f \in Frames |-> IF f \in hit /\ rc[f] < RetryMax
                                   THEN rc[f] + 1 ELSE rc[f]]
        /\ mark' = [mark EXCEPT !["rc"] = IF found = {} THEN 0 ELSE First(found)]
        /\ Goto("rc", IF found = {} THEN "idle" ELSE "release")
    BY <1>2, Zenon DEF RcNoBa, Empty
  <2>2. found \in SUBSET Index
    BY DEF With
  <2> HIDE DEF found, hit
  <2>3. mark' \in [Ctx -> 0 .. MaxSlots]
    <3>1. found # {} => First(found) \in Index
      BY <2>2, FirstType
    <3>2. (IF found = {} THEN 0 ELSE First(found)) \in 0 .. MaxSlots
      BY <3>1, SizesAssumption DEF Index
    <3> QED
      BY <2>1, <3>2 DEF TypeOK
  <2>4. st' \in [Frames -> Status] /\ rc' \in [Frames -> Nat]
    <3>1. st' \in [Frames -> Status]
      BY <2>1, StatusTypes DEF Status, NoBaRetried
    <3>2. rc' \in [Frames -> Nat]
      BY <2>1, StatusTypes
    <3> QED
      BY <3>1, <3>2
  <2>5. pc' \in [Ctx -> Places]
    BY <1>0, <2>1, GotoType
  <2>6. rcq' \in Seq(0 .. MaxRun)
    BY <2>1, HeadTailProperties DEF TypeOK
  <2>7. UNCHANGED <<session, next, last, queueVars, win, num, head, retryq, relq,
                    cnt, dflag, slots, run, hciq, air, faults, carry, post,
                    nobares, walkVars, history>>
    BY <1>2, Zenon DEF RcNoBa
  <2> QED
    BY SMTT(120), <2>3, <2>4, <2>5, <2>6, <2>7 DEF TypeOK, Places
<1> QED
  BY <1>1, <1>2 DEF RcWork

LEMMA MarkSentType ==
  ASSUME TypeOK, NEW a, MarkSent(a)
  PROVE  st' \in [Frames -> Status] /\ strays' \subseteq Strays
<1> DEFINE sent == IF state = "OPERATION" THEN {f \in Seq2Set(a) : InWindow(f)} ELSE {}
<1>1. st' = [f \in Frames |-> IF f \in sent THEN "SENT" ELSE st[f]] /\ Overwrite(sent)
  BY Zenon DEF MarkSent
<1> HIDE DEF sent
<1> QED
  BY <1>1, OverwriteType, StatusTypes DEF Status

LEMMA TypeHci ==
  ASSUME TypeOK, Hci PROVE TypeOK'
<1> USE DEF vars, session, history, queueVars, winVars, chip, chipVars, walkVars, ctxVars
<1>1. CASE HciSend
  <2>1. hciq # <<>> /\ MarkSent(Head(hciq).fr) /\ hciq' = Tail(hciq)
        /\ air' = Append(air, Head(hciq))
    BY <1>1 DEF HciSend, Empty
  <2>2. hciq' \in Seq(Records) /\ air' \in Seq(Records)
    BY <2>1, HeadTailProperties, AppendProperties DEF TypeOK
  <2>3. st' \in [Frames -> Status] /\ strays' \subseteq Strays
    BY <2>1, MarkSentType
  <2>4. UNCHANGED <<session, next, last, queueVars, win, num, head, rc, retryq,
                    relq, cnt, dflag, slots, run, faults, rcq, ctxVars, out, lost>>
    BY <1>1, Zenon DEF HciSend
  <2> QED
    BY SMTT(120), <2>2, <2>3, <2>4 DEF TypeOK
<1>2. CASE HciSendFails
  <2>1. faults' \in Nat
    BY <1>2, FaultType DEF HciSendFails
  <2>2. st' \in [Frames -> Status] /\ strays' \subseteq Strays
    BY <1>2, MarkSentType DEF HciSendFails
  <2>3. UNCHANGED <<session, next, last, queueVars, win, num, head, rc, retryq,
                    relq, cnt, dflag, slots, run, hciq, air, rcq, ctxVars, out, lost>>
    BY <1>2, Zenon DEF HciSendFails
  <2> QED
    BY SMTT(120), <2>1, <2>2, <2>3 DEF TypeOK
<1> QED
  BY <1>1, <1>2 DEF Hci

LEMMA TypeRetry ==
  ASSUME TypeOK, RetryTake \/ RetryNoMem \/ RetrySend \/ RetryDone \/ Report
  PROVE  TypeOK'
<1> USE DEF vars, session, history, queueVars, winVars, chip, chipVars, walkVars, ctxVars
<1>0. "rx" \in Ctx /\ <<>> \in Seq(Frames) /\ "idle" \in Places
      /\ AfterRetry(pc["rx"]) \in Places
  BY EmptySeq DEF Ctx, Places, AfterRetry
<1>1. CASE RetryTake
  <2>1. PICK n \in 1 .. Len(retryq) :
          /\ carry' = [carry EXCEPT !["rx"] = SubSeq(retryq, 1, n)]
          /\ retryq' = SubSeq(retryq, n + 1, Len(retryq))
          /\ Record(SubSeq(retryq, 1, n))
    BY <1>1, Zenon DEF RetryTake
  <2> DEFINE a == SubSeq(retryq, 1, n)
  <2>2. n \in 0 .. Len(retryq) /\ n # 0 /\ retryq \in Seq(Frames)
    BY LenProperties DEF TypeOK
  <2>3. a \in Seq(Frames) /\ Len(a) = n /\ retryq' \in Seq(Frames)
    BY <2>1, <2>2, PartsOfSeq
  <2>4. a # <<>>
    BY <2>2, <2>3, EmptySeq
  <2> HIDE DEF a
  <2>5. Record(a) /\ carry' = [carry EXCEPT !["rx"] = a]
    BY <2>1 DEF a
  <2>6. /\ win' \in [Slots -> Frames \cup {Null}] /\ st' \in [Frames -> Status]
        /\ head' \in (0 .. MaxSsn - 1) \cup {IllegalSn}
    BY <2>3, <2>4, <2>5, RecordTypes
  <2>7. carry' \in [Ctx -> Seq(Frames)]
    BY <2>3, <2>5 DEF TypeOK
  <2>8. UNCHANGED <<session, next, last, queueVars, num, rc, relq, cnt, dflag,
                    chipVars, pc, mark, post, nobares, walkVars, history>>
    BY <1>1, Zenon DEF RetryTake
  <2>21. SessionTypes'
    BY <2>3, <2>6, <2>7, <2>8 DEF TypeOK, SessionTypes
  <2>22. QueueTypes'
    BY <2>3, <2>6, <2>7, <2>8 DEF TypeOK, QueueTypes
  <2>23. WindowTypes'
    BY <2>3, <2>6, <2>7, <2>8 DEF TypeOK, WindowTypes
  <2>24. ChipTypes'
    BY <2>3, <2>6, <2>7, <2>8 DEF TypeOK, ChipTypes
  <2>25. CtxTypes'
    BY <2>3, <2>6, <2>7, <2>8 DEF TypeOK, CtxTypes
  <2>26. WalkTypes'
    BY <2>3, <2>6, <2>7, <2>8 DEF TypeOK, WalkTypes
  <2>27. HistoryTypes'
    BY <2>3, <2>6, <2>7, <2>8 DEF TypeOK, HistoryTypes
  <2> QED
    BY Zenon, <2>21, <2>22, <2>23, <2>24, <2>25, <2>26, <2>27 DEF TypeOK, SessionTypes, QueueTypes,
        WindowTypes, ChipTypes, CtxTypes, WalkTypes, HistoryTypes
<1>2. CASE RetryNoMem
  <2>1. faults' \in Nat
    BY <1>2, FaultType DEF RetryNoMem
  <2>2. pc' \in [Ctx -> Places]
    BY <1>0, <1>2, GotoType DEF RetryNoMem
  <2>3. UNCHANGED <<session, next, last, queueVars, winVars, cnt, dflag, chip,
                    carry, mark, post, nobares, walkVars, history>>
    BY <1>2, Zenon DEF RetryNoMem
  <2> QED
    BY SMTT(120), <2>1, <2>2, <2>3 DEF TypeOK, Places
<1>3. CASE RetrySend
  <2> DEFINE a == carry["rx"]
  <2>1. a \in Seq(Frames)
    BY <1>0 DEF TypeOK
  <2>2. /\ Packet(a) \in Records /\ run' \in 0 .. MaxRun
        /\ st' \in [Frames -> Status] /\ slots' \in [Index -> Records]
        /\ strays' \subseteq Strays
    BY <1>3, <2>1, AcquireTypes DEF RetrySend
  <2>3. <<Packet(a)>> \in Seq(Records)
    BY <2>2
  <2>4. hciq' \in Seq(Records)
    BY <1>3, <2>3, ConcatProperties DEF RetrySend, TypeOK
  <2>5. carry' \in [Ctx -> Seq(Frames)]
    BY <1>0, <1>3 DEF RetrySend, TypeOK
  <2>6. UNCHANGED <<session, next, last, queueVars, win, num, head, rc, retryq,
                    relq, cnt, dflag, air, faults, rcq, pc, mark, post, nobares,
                    walkVars, out, lost>>
    BY <1>3, Zenon DEF RetrySend
  <2> QED
    BY SMTT(120), <2>2, <2>4, <2>5, <2>6 DEF TypeOK
<1>4. CASE RetryDone
  <2>1. pc' \in [Ctx -> Places]
    BY <1>0, <1>4, GotoType DEF RetryDone
  <2>2. UNCHANGED <<session, next, last, queueVars, winVars, cnt, dflag, chipVars,
                    carry, mark, post, nobares, walkVars, history>>
    BY <1>4, Zenon DEF RetryDone
  <2> QED
    BY SMTT(120), <2>1, <2>2 DEF TypeOK, Places
<1>5. CASE Report
  <2>1. pc' \in [Ctx -> Places]
    BY <1>0, <1>5, GotoType DEF Report
  <2>2. Len(relq) \in Int
    BY LenProperties DEF TypeOK
  <2>3. /\ out' \in Seq(Frames) /\ relq' \in Seq(Frames) /\ cnt' \in Int
    BY <1>0, <1>5, <2>2, ConcatProperties DEF Report, TypeOK
  <2>4. dflag' \in BOOLEAN
    BY <1>5, Zenon DEF Report
  <2>5. UNCHANGED <<session, next, last, queueVars, win, num, head, st, rc, retryq,
                    chipVars, carry, mark, post, nobares, walkVars, lost, strays>>
    BY <1>5, Zenon DEF Report
  <2> QED
    BY SMTT(120), <2>1, <2>3, <2>4, <2>5 DEF TypeOK, Places
<1> QED
  BY <1>1, <1>2, <1>3, <1>4, <1>5

\* Where a walk over the window is.
LEMMA WalkSlot == ASSUME TypeOK PROVE WalkSsn % W \in Slots
<1>1. WalkSsn \in Int /\ W \in Nat \ {0}
  BY SizesAssumption DEF WalkSsn, TypeOK
<1> QED
  BY <1>1 DEF Slots

LEMMA WalkNext ==
  ASSUME TypeOK, walk < W PROVE walk \in 0 .. W /\ walk + 1 \in 0 .. W
BY SizesAssumption DEF TypeOK

LEMMA CollectLookType == ASSUME TypeOK, CollectLook PROVE TypeOK'
<1> USE DEF vars, session, history, queueVars, winVars, chip, chipVars, walkVars, ctxVars
<1> DEFINE f == win[WalkSsn % W]
           waiting == tcheck /\ WaitsForAnswer(f)
           late(e) == waiting /\ e
           status(e) == IF Diff(base, WalkSsn) > W THEN "DROPPED"
                        ELSE IF late(e) THEN Retried(f) ELSE st[f]
<1>0. walk \in 0 .. W /\ walk + 1 \in 0 .. W
  BY WalkNext, Zenon DEF CollectLook
<1>1. f \in Frames \cup {Null}
  BY WalkSlot DEF TypeOK
<1>2. UNCHANGED <<session, next, last, queueVars, win, num, head, retryq, relq,
                  cnt, dflag, chipVars, pc, carry, mark, post, nobares, base,
                  drop, again, history>>
  BY Zenon DEF CollectLook
<1>3. CASE f = Null
  <2>1. UNCHANGED <<st, rc, tcheck, hand>> /\ walk' = walk + 1
    BY <1>3, Zenon DEF CollectLook
  <2> QED
    BY SMTT(120), <1>0, <1>2, <2>1 DEF TypeOK
<1>4. CASE f # Null
  <2>1. PICK e \in BOOLEAN :
          /\ tcheck' = (tcheck /\ (waiting => late(e)))
          /\ rc' = IF late(e) THEN [rc EXCEPT ![f] = @ + 1] ELSE rc
          /\ st' = [st EXCEPT ![f] = status(e)]
          /\ hand' = IF status(e) = "RETRY" THEN f ELSE Null
          /\ walk' = IF status(e) = "RETRY" THEN walk ELSE walk + 1
    BY <1>4, Zenon DEF CollectLook
  <2>2. f \in Frames
    BY <1>1, <1>4
  <2>3. status(e) \in Status
    BY <2>2, StatusTypes DEF Status, Retried
  <2> HIDE DEF f, late, status, waiting
  <2>4. tcheck' \in BOOLEAN
    BY <2>1, Zenon
  <2>5. rc' \in [Frames -> Nat]
    <3>1. rc \in [Frames -> Nat]
      BY DEF TypeOK
    <3>2. [rc EXCEPT ![f] = @ + 1] \in [Frames -> Nat]
      BY <2>2, <3>1
    <3> QED
      BY <2>1, <3>1, <3>2, Zenon
  <2>6. st' \in [Frames -> Status]
    BY <2>1, <2>2, <2>3, StatusTypes
  <2>7. hand' \in Frames \cup {Null} /\ walk' \in 0 .. W
    BY <1>0, <2>1, <2>2
  <2> QED
    BY SMTT(120), <1>2, <2>4, <2>5, <2>6, <2>7 DEF TypeOK
<1> QED
  BY <1>3, <1>4

LEMMA CollectPutType == ASSUME TypeOK, CollectPut PROVE TypeOK'
<1> USE DEF vars, session, history, queueVars, winVars, chip, chipVars, walkVars, ctxVars
<1>1. /\ hand # Null /\ st' = [st EXCEPT ![hand] = "RETRY_Q"]
      /\ retryq' = Append(retryq, hand) /\ hand' = Null /\ walk' = walk + 1
      /\ strays' = IF InWindow(hand) THEN strays ELSE strays \cup {"retry"}
  BY Zenon DEF CollectPut
<1>2. hand \in Frames /\ retryq \in Seq(Frames)
  BY <1>1 DEF TypeOK
<1>3. st' \in [Frames -> Status]
  BY <1>1, <1>2, StatusTypes DEF Status
<1>4. retryq' \in Seq(Frames)
  BY <1>1, <1>2, AppendProperties
<1>5. strays' \subseteq Strays
  BY <1>1 DEF TypeOK, Strays
<1>6. UNCHANGED <<session, next, last, queueVars, win, num, head, rc, relq, cnt,
                  dflag, chipVars, pc, carry, mark, post, nobares, base, tcheck,
                  drop, again, out, lost>>
  BY Zenon DEF CollectPut
<1>7. walk' \in 0 .. W /\ hand' \in Frames \cup {Null}
  BY <1>1, WalkNext, Zenon DEF CollectPut
<1> QED
  BY SMTT(120), <1>3, <1>4, <1>5, <1>6, <1>7 DEF TypeOK

LEMMA CheckExpiredType == ASSUME TypeOK, CheckExpired PROVE TypeOK'
<1> USE DEF vars, session, history, queueVars, winVars, chip, chipVars, walkVars, ctxVars
<1> DEFINE f == win[WalkSsn % W]
           late == WaitsForAnswer(f)
           status == IF late THEN Retried(f) ELSE st[f]
<1>1. /\ f # Null
      /\ st' = [st EXCEPT ![f] = status]
      /\ rc' = IF late THEN [rc EXCEPT ![f] = @ + 1] ELSE rc
      /\ again' = (again \/ status = "RETRY")
      /\ drop' = (drop \/ status = "DROPPED")
      /\ walk' = walk + 1
  BY Zenon DEF CheckExpired
<1>2. f \in Frames
  BY <1>1, WalkSlot DEF TypeOK
<1>3. status \in Status
  BY <1>2, StatusTypes DEF Status, Retried
<1> HIDE DEF f, late, status
<1>4. again' \in BOOLEAN /\ drop' \in BOOLEAN
  BY <1>1, Zenon
<1>5. rc' \in [Frames -> Nat]
  <2>1. rc \in [Frames -> Nat]
    BY DEF TypeOK
  <2>2. [rc EXCEPT ![f] = @ + 1] \in [Frames -> Nat]
    BY <1>2, <2>1
  <2> QED
    BY <1>1, <2>1, <2>2, Zenon
<1>6. st' \in [Frames -> Status]
  BY <1>1, <1>2, <1>3, StatusTypes
<1>7. walk' \in 0 .. W
  BY <1>1, WalkNext, Zenon DEF CheckExpired
<1>8. UNCHANGED <<session, next, last, queueVars, win, num, head, retryq, relq,
                  cnt, dflag, chipVars, pc, carry, mark, post, nobares, base,
                  tcheck, hand, history>>
  BY Zenon DEF CheckExpired
<1> QED
  BY SMTT(120), <1>4, <1>5, <1>6, <1>7, <1>8 DEF TypeOK

LEMMA TypeTimers ==
  ASSUME TypeOK,
         \/ RxRateRpt \/ RxEnd \/ CollectDone \/ NoTimeoutFlush
         \/ CheckStart \/ CheckPass \/ CheckDone
  PROVE  TypeOK'
<1> USE DEF vars, session, history, queueVars, winVars, chip, chipVars, walkVars, ctxVars
<1>0. "rx" \in Ctx /\ {"retry", "collect", "tcollect", "trelease", "tend", "idle",
                        "tretry", "check"} \subseteq Places
  BY DEF Ctx, Places
<1>1. CASE RxRateRpt
  <2>1. post' \in BOOLEAN
    BY <1>1 DEF RxRateRpt, TypeOK
  <2>2. UNCHANGED <<session, next, last, queueVars, winVars, cnt, dflag, chipVars,
                    pc, carry, mark, nobares, walkVars, history>>
    BY <1>1, Zenon DEF RxRateRpt
  <2> QED
    BY SMTT(120), <2>1, <2>2 DEF TypeOK
<1>2. CASE RxEnd
  <2>1. pc' \in [Ctx -> Places]
    BY <1>0, <1>2, GotoType DEF RxEnd
  <2>2. /\ base' \in (0 .. MaxSsn - 1) \cup {IllegalSn}
        /\ tcheck' \in BOOLEAN
    BY <1>2 DEF RxEnd, TypeOK
  <2>3. post' \in BOOLEAN /\ nobares' \in BOOLEAN
    BY <1>2, Zenon DEF RxEnd
  <2>4. UNCHANGED <<session, next, last, queueVars, winVars, cnt, dflag, chipVars,
                    carry, mark, walk, drop, again, hand, history>>
    BY <1>2, Zenon DEF RxEnd
  <2> QED
    BY SMTT(120), <2>1, <2>2, <2>3, <2>4 DEF TypeOK, Places
<1>4. CASE CollectDone
  <2>1. pc' \in [Ctx -> Places]
    BY <1>0, <1>4, GotoType DEF CollectDone, AfterCollect
  <2>2. walk' \in 0 .. W /\ base' \in (0 .. MaxSsn - 1) \cup {IllegalSn}
    BY <1>4, SizesAssumption DEF CollectDone
  <2>3. tcheck' \in BOOLEAN
    BY <1>4, Zenon DEF CollectDone
  <2>4. UNCHANGED <<session, next, last, queueVars, winVars, cnt, dflag, chipVars,
                    carry, mark, post, nobares, drop, again, hand,
                    history>>
    BY <1>4, Zenon DEF CollectDone
  <2> QED
    BY SMTT(120), <2>1, <2>2, <2>3, <2>4 DEF TypeOK, Places
<1>5. CASE NoTimeoutFlush
  <2>1. pc' \in [Ctx -> Places]
    BY <1>0, <1>5, GotoType DEF NoTimeoutFlush
  <2>2. UNCHANGED <<session, next, last, queueVars, winVars, cnt, dflag, chipVars,
                    carry, mark, post, nobares, walkVars, history>>
    BY <1>5, Zenon DEF NoTimeoutFlush
  <2> QED
    BY SMTT(120), <2>1, <2>2 DEF TypeOK, Places
<1>6. CASE CheckStart
  <2>1. /\ drop' = FALSE /\ again' = FALSE /\ base' = head
        /\ Goto("rx", IF head = IllegalSn THEN "tend" ELSE "check")
    BY <1>6, Zenon DEF CheckStart
  <2>2. pc' \in [Ctx -> Places]
    BY <1>0, <2>1, GotoType
  <2>3. base' \in (0 .. MaxSsn - 1) \cup {IllegalSn}
    BY <2>1 DEF TypeOK
  <2>4. UNCHANGED <<session, next, last, queueVars, winVars, cnt, dflag, chipVars,
                    carry, mark, post, nobares, walk, tcheck, hand, history>>
    BY <1>6, Zenon DEF CheckStart
  <2>21. SessionTypes'
    BY <2>1, <2>2, <2>3, <2>4 DEF TypeOK, SessionTypes, Places
  <2>22. QueueTypes'
    BY <2>1, <2>2, <2>3, <2>4 DEF TypeOK, QueueTypes, Places
  <2>23. WindowTypes'
    BY <2>1, <2>2, <2>3, <2>4 DEF TypeOK, WindowTypes, Places
  <2>24. ChipTypes'
    BY <2>1, <2>2, <2>3, <2>4 DEF TypeOK, ChipTypes, Places
  <2>25. CtxTypes'
    BY <2>1, <2>2, <2>3, <2>4 DEF TypeOK, CtxTypes, Places
  <2>26. WalkTypes'
    BY <2>1, <2>2, <2>3, <2>4 DEF TypeOK, WalkTypes, Places
  <2>27. HistoryTypes'
    BY <2>1, <2>2, <2>3, <2>4 DEF TypeOK, HistoryTypes, Places
  <2> QED
    BY Zenon, <2>21, <2>22, <2>23, <2>24, <2>25, <2>26, <2>27 DEF TypeOK, SessionTypes, QueueTypes,
        WindowTypes, ChipTypes, CtxTypes, WalkTypes, HistoryTypes
<1>7. CASE CheckPass
  <2>1. walk' \in 0 .. W
    BY <1>7, WalkNext, Zenon DEF CheckPass
  <2>2. UNCHANGED <<session, next, last, queueVars, winVars, cnt, dflag, chipVars,
                    pc, carry, mark, post, nobares, base, tcheck, drop, again,
                    hand, history>>
    BY <1>7, Zenon DEF CheckPass
  <2> QED
    BY SMTT(120), <2>1, <2>2 DEF TypeOK
<1>8. CASE CheckDone
  <2>1. /\ walk' = 0 /\ base' = IF again THEN head ELSE IllegalSn
        /\ tcheck' = (again /\ head # IllegalSn)
        /\ Goto("rx", IF again THEN (IF head = IllegalSn THEN "tretry" ELSE "tcollect")
                      ELSE IF drop THEN "trelease" ELSE "tend")
    BY <1>8, Zenon DEF CheckDone
  <2>2. pc' \in [Ctx -> Places]
    BY <1>0, <2>1, GotoType
  <2>3. base' \in (0 .. MaxSsn - 1) \cup {IllegalSn}
    BY <2>1 DEF TypeOK
  <2>4. walk' \in 0 .. W
    BY <2>1, SizesAssumption
  <2>5. tcheck' \in BOOLEAN
    BY <2>1, Zenon
  <2>6. UNCHANGED <<session, next, last, queueVars, winVars, cnt, dflag, chipVars,
                    carry, mark, post, nobares, drop, again, hand, history>>
    BY <1>8, Zenon DEF CheckDone
  <2> QED
    BY SMTT(120), <2>2, <2>3, <2>4, <2>5, <2>6 DEF TypeOK, Places
<1> QED
  BY <1>1, <1>2, <1>4, <1>5, <1>6, <1>7, <1>8

\* The types hold in every step, hence always.
LEMMA TypeStep == TypeOK /\ [Next]_vars => TypeOK'
<1> SUFFICES ASSUME TypeOK, [Next]_vars PROVE TypeOK'
  OBVIOUS
<1>0. "tx" \in Ctx /\ "rx" \in Ctx /\ {"batch", "tend"} \subseteq Places
  BY DEF Ctx, Places
<1>1. CASE Mac
  BY <1>1, TypeMac
<1>2. CASE TxTask
  BY <1>0, <1>2, TypeTxTask DEF TxTask
<1>3. CASE Hci
  BY <1>3, TypeHci
<1>4. CASE Chip
  BY <1>4, TypeChip DEF Chip
<1>5. CASE RxTask
  <2>1. CASE ReleaseBa \/ ReleaseTimeout
    BY <1>0, <2>1, TypeRelease DEF ReleaseBa, ReleaseTimeout
  <2> QED
    BY <1>0, <1>5, <2>1, TypeTxTask, TypeRetry, TypeTimers,
       CollectLookType, CollectPutType, CheckExpiredType DEF RxTask
<1>6. CASE RcWork
  BY <1>6, TypeRcWork
<1>7. CASE UNCHANGED vars
  BY SMTT(120), <1>7 DEF TypeOK, vars, session, queueVars, winVars, chip,
                        chipVars, walkVars, ctxVars, history
<1> QED
  BY <1>1, <1>2, <1>3, <1>4, <1>5, <1>6, <1>7 DEF Next

\* Every variable always has its type: the queues hold MPDUs that mac80211
\* handed over, the window array holds nothing else, and ssv_baw_head and
\* last_seqno stay sequence numbers or their markers.
THEOREM TypeCorrect == Spec => []TypeOK
<1>1. Init => TypeOK
  BY TypeInit
<1>2. TypeOK /\ [Next]_vars => TypeOK'
  BY TypeStep
<1> QED
  BY <1>1, <1>2, PTL DEF Spec
=============================================================================
